---------------------------- MODULE TapeBuilder ----------------------------
(***************************************************************************)
(* The structural index of index.go: a tape with one fixed-width entry per *)
(* value and per member name, written into storage the caller provides.    *)
(*                                                                         *)
(* The fast walk keeps its open containers on a fixed stack.  When it      *)
(* meets anything it does not like it gives up, and a diagnostic parser    *)
(* builds the tape again from the beginning; that one has no stack: the    *)
(* open containers are linked through the Next words of their own entries, *)
(* which their closing overwrites with the size of the subtree.            *)
(*                                                                         *)
(* A document is a sequence of tokens, and offsets count tokens: white     *)
(* space and the spelling of scalars are the business of the scanners      *)
(* (module ScannerAgreement).                                              *)
(***************************************************************************)
EXTENDS TokenText

CONSTANTS Docs,         \* the documents to index
          Hash,         \* HashKeyContent: the hash of a spelling
          Caps,         \* the storage capacities callers provide
          MaxDepth,     \* document.IndexOptions.MaxDepth
          FastDepth,    \* fastWalkMaxDepth: the size of the fast walk's stack
          MaxCount,     \* InfoMaxCount: the largest count an entry can hold
          MaxOffset     \* ^uint32(0): the largest offset an entry can hold

ASSUME TapeAssumption ==
    /\ Docs \subseteq Seq(Token)
    /\ Hash \in [Strings -> Nat]
    /\ Caps \subseteq Nat
    /\ MaxDepth \in Nat /\ FastDepth \in Nat /\ MaxCount \in Nat \ {0}
    /\ MaxOffset \in Nat

VARIABLES doc, cap, hashKeys,   \* the call: Src, cap(storage), opts.HashKeys
          pc,                   \* the label or the loop the builder is at
          i,                    \* the cursor
          entries,              \* b.Entries
          stack,                \* the fast walk's entry, count and array stacks
          parent, sp,           \* b.Parent, b.sp: the diagnostic parser's scopes
          result                \* "none" until the call returns

vars == <<doc, cap, hashKeys, pc, i, entries, stack, parent, sp, result>>
call == <<doc, cap, hashKeys>>

NoTapeParent == MaxOffset

\* The significant token at offset k; "end" is the zero byte that
\* nextSignificantFast reports at the end of the input.
Tok(k) == IF k < Len(doc) THEN doc[k + 1] ELSE "end"

\* An entry.  A container's kind is its opening bracket; "escaped" on an
\* object is the bit TapeFlagObjectKeysHashed, which is the same bit.
Entry(start, end, next, kind, flags) ==
    [start |-> start, end |-> end, next |-> next, count |-> 0, kind |-> kind, flags |-> flags]

OpenEntry(at, kind) == Entry(at, 0, 0, kind, {})

ScalarEntry(at, t, flags) ==
    Entry(at, at + 1, 1, KindOf(t),
          flags \cup IF t \in Escaped THEN {"escaped"} ELSE {})

Init ==
    /\ doc \in Docs /\ cap \in Caps /\ hashKeys \in BOOLEAN
    /\ pc = "build" /\ i = 0 /\ entries = <<>> /\ stack = <<>>
    /\ parent = NoTapeParent /\ sp = 0 /\ result = "none"

Full == Len(entries) = cap

Return(r) ==
    /\ pc' = "done" /\ result' = r
    /\ UNCHANGED <<call, i, entries, stack, parent, sp>>

\* EnrichKeyHashes: a member name's Next word becomes its hash.
EnrichKeyHashes(es) ==
    [k \in 1..Len(es) |->
        IF "key" \in es[k].flags
          THEN [es[k] EXCEPT !.next = Hash[doc[es[k].start + 1]]]
        ELSE IF es[k].kind = "{"
          THEN [es[k] EXCEPT !.flags = @ \cup {"escaped"}]
        ELSE es[k]]

\* The end of buildIndexOptions: the tape is complete.
Finish ==
    /\ entries' = IF hashKeys THEN EnrichKeyHashes(entries) ELSE entries
    /\ pc' = "done" /\ result' = "ok"
    /\ UNCHANGED <<call, i, stack, parent, sp>>

\* Mutant: the fast walk is tried again.
FallBackRetries ==
    /\ entries' = <<>> /\ i' = 0 /\ sp' = 0 /\ parent' = NoTapeParent
    /\ pc' = "parseFast" /\ stack' = <<>>
    /\ UNCHANGED <<call, result>>

\* tapeParseInvalid: buildIndexOptions starts the diagnostic parser over.
FallBack ==
    /\ entries' = <<>> /\ i' = 0 /\ sp' = 0 /\ parent' = NoTapeParent
    /\ pc' = "parse"
    /\ UNCHANGED <<call, stack, result>>

-----------------------------------------------------------------------------
(***************************************************************************)
(* parseFast and WalkFast.                                                 *)
(***************************************************************************)

\* Documents of ValidBitmapMinBytes and more try the position engine first;
\* this is the way of all others, and of those it declines.
buildIndexOptions ==
    /\ pc = "build"
    /\ IF Len(doc) > MaxOffset \/ cap > MaxOffset
         THEN Return("too large")
         ELSE pc' = "parseFast" /\ UNCHANGED <<call, i, entries, stack, parent, sp, result>>

parseFast ==
    /\ pc = "parseFast"
    /\ IF i >= Len(doc) THEN FallBack
       ELSE pc' = "value" /\ UNCHANGED <<call, i, entries, stack, parent, sp, result>>

depthLimit == IF MaxDepth > FastDepth THEN FastDepth ELSE MaxDepth

\* Mutant: the first element is read without looking for the end.
valueOpenUnchecked ==
    /\ pc = "value" /\ Tok(i) \in Opener /\ Len(stack) < depthLimit /\ ~Full
    /\ Tok(i + 1) # CloserOf(Tok(i))
    /\ entries' = Append(entries, OpenEntry(i, Tok(i)))
    /\ stack' = Append(stack, [entry |-> Len(entries), count |-> 0, kind |-> Tok(i)])
    /\ i' = i + 1 /\ pc' = IF Tok(i) = "{" THEN "objectKey" ELSE "value"
    /\ UNCHANGED <<call, parent, sp, result>>

\* A container opens; only the array's path tests for the end of the input.
valueOpen ==
    /\ pc = "value" /\ Tok(i) \in Opener
    /\ \/ Len(stack) >= depthLimit /\ FallBack
       \/ Len(stack) < depthLimit /\ Full /\ Return("full")
       \/ /\ Len(stack) < depthLimit /\ ~Full
          /\ Tok(i) = "[" /\ i + 1 >= Len(doc) /\ FallBack
       \/ /\ Len(stack) < depthLimit /\ ~Full
          /\ Tok(i + 1) = CloserOf(Tok(i))
          /\ entries' = Append(entries, Entry(i, i + 2, 1, Tok(i), {}))
          /\ i' = i + 2 /\ pc' = "scopeEnd"
          /\ UNCHANGED <<call, stack, parent, sp, result>>
       \/ /\ Len(stack) < depthLimit /\ ~Full
          /\ Tok(i) = "[" => i + 1 < Len(doc)
          /\ Tok(i + 1) # CloserOf(Tok(i))
          /\ entries' = Append(entries, OpenEntry(i, Tok(i)))
          /\ stack' = Append(stack, [entry |-> Len(entries), count |-> 0, kind |-> Tok(i)])
          /\ i' = i + 1 /\ pc' = IF Tok(i) = "{" THEN "objectKey" ELSE "value"
          /\ UNCHANGED <<call, parent, sp, result>>

\* stringFast and emitScalar.
valueScalar ==
    /\ pc = "value" /\ Tok(i) \in Scalar
    /\ IF Full THEN Return("full")
       ELSE /\ entries' = Append(entries, ScalarEntry(i, Tok(i), {}))
            /\ i' = i + 1 /\ pc' = "scopeEnd"
            /\ UNCHANGED <<call, stack, parent, sp, result>>

valueInvalid ==
    pc = "value" /\ Tok(i) \notin Opener \cup Scalar /\ FallBack

\* A member name and its colon.  The name is stored before the colon is
\* looked for.
objectKey ==
    /\ pc = "objectKey"
    /\ \/ Tok(i) \notin Strings /\ FallBack
       \/ Tok(i) \in Strings /\ Full /\ Return("full")
       \/ /\ Tok(i) \in Strings /\ ~Full
          /\ Tok(i + 1) # ":" \/ i + 2 >= Len(doc)
          /\ FallBack
       \/ /\ Tok(i) \in Strings /\ ~Full
          /\ Tok(i + 1) = ":" /\ i + 2 < Len(doc)
          /\ entries' = Append(entries, ScalarEntry(i, Tok(i), {"key"}))
          /\ i' = i + 2 /\ pc' = "value"
          /\ UNCHANGED <<call, stack, parent, sp, result>>

\* After a complete value.  With no scope open parseFast looks for the end
\* of the input; otherwise the innermost container goes on or closes.
rootEnd ==
    /\ pc = "scopeEnd" /\ stack = <<>>
    /\ IF i = Len(doc) THEN Finish ELSE FallBack

Top == stack[Len(stack)]

scopeEnd ==
    /\ pc = "scopeEnd" /\ stack # <<>>
    /\ \/ /\ Tok(i) = ","
          /\ Top.kind = "[" => i + 1 < Len(doc)
          /\ stack' = [stack EXCEPT ![Len(stack)].count = @ + 1]
          /\ i' = i + 1 /\ pc' = IF Top.kind = "{" THEN "objectKey" ELSE "value"
          /\ UNCHANGED <<call, entries, parent, sp, result>>
       \/ /\ Tok(i) = CloserOf(Top.kind) /\ Top.count + 1 <= MaxCount
          /\ entries' = [entries EXCEPT ![Top.entry + 1].end   = i + 1,
                                        ![Top.entry + 1].count = Top.count + 1,
                                        ![Top.entry + 1].next  = Len(entries) - Top.entry]
          /\ stack' = SubSeq(stack, 1, Len(stack) - 1)
          /\ i' = i + 1
          /\ UNCHANGED <<call, pc, parent, sp, result>>
       \/ /\ \/ Tok(i) \notin {",", CloserOf(Top.kind)}
             \/ Tok(i) = "," /\ Top.kind = "[" /\ i + 1 >= Len(doc)
             \/ Tok(i) = CloserOf(Top.kind) /\ Top.count + 1 > MaxCount
          /\ FallBack

-----------------------------------------------------------------------------
(***************************************************************************)
(* The diagnostic parser.  pc is "parse" where a value is due, "opened"    *)
(* behind an opening bracket, "key" where a member name is due and         *)
(* "completed" after a value.                                              *)
(***************************************************************************)

\* add within the caller's capacity.
add(e) == entries' = Append(entries, e)

parseScalar ==
    /\ pc = "parse" /\ Tok(i) \in Scalar
    /\ IF Full THEN Return("full")
       ELSE /\ add(ScalarEntry(i, Tok(i), {}))
            /\ i' = i + 1 /\ pc' = "completed"
            /\ UNCHANGED <<call, stack, parent, sp, result>>

\* Mutant: one level too many is accepted.
parseOpenTooDeep ==
    /\ pc = "parse" /\ Tok(i) \in Opener
    /\ \/ Full /\ Return("full")
       \/ ~Full /\ sp > MaxDepth /\ Return("syntax")
       \/ /\ ~Full /\ sp <= MaxDepth
          /\ add([OpenEntry(i, Tok(i)) EXCEPT !.next = parent])
          /\ parent' = Len(entries) /\ sp' = sp + 1
          /\ i' = i + 1 /\ pc' = "opened"
          /\ UNCHANGED <<call, stack, result>>

\* The header is stored before the depth is looked at; pushContainer links
\* it to the container around it.
parseOpen ==
    /\ pc = "parse" /\ Tok(i) \in Opener
    /\ \/ Full /\ Return("full")
       \/ ~Full /\ sp >= MaxDepth /\ Return("syntax")
       \/ /\ ~Full /\ sp < MaxDepth
          /\ add([OpenEntry(i, Tok(i)) EXCEPT !.next = parent])
          /\ parent' = Len(entries) /\ sp' = sp + 1
          /\ i' = i + 1 /\ pc' = "opened"
          /\ UNCHANGED <<call, stack, result>>

parseInvalid ==
    pc = "parse" /\ Tok(i) \notin Opener \cup Scalar /\ Return("syntax")

frame == entries[parent + 1]

\* finishContainer: unlink the innermost container and complete its entry.
finishContainer(es) ==
    /\ entries' = [es EXCEPT ![parent + 1].end  = i + 1,
                             ![parent + 1].next = Len(es) - parent]
    /\ parent' = frame.next /\ sp' = sp - 1
    /\ i' = i + 1 /\ pc' = "completed"
    /\ UNCHANGED <<call, stack, result>>

parseOpened ==
    /\ pc = "opened"
    /\ IF Tok(i) = CloserOf(frame.kind) THEN finishContainer(entries)
       ELSE /\ pc' = IF frame.kind = "{" THEN "key" ELSE "parse"
            /\ UNCHANGED <<call, i, entries, stack, parent, sp, result>>

parseObjectKey ==
    /\ pc = "key"
    /\ \/ Tok(i) \notin Strings /\ Return("syntax")
       \/ Tok(i) \in Strings /\ Full /\ Return("full")
       \/ Tok(i) \in Strings /\ ~Full /\ Tok(i + 1) # ":" /\ Return("syntax")
       \/ /\ Tok(i) \in Strings /\ ~Full /\ Tok(i + 1) = ":"
          /\ add(ScalarEntry(i, Tok(i), {"key"}))
          /\ i' = i + 2 /\ pc' = "parse"
          /\ UNCHANGED <<call, stack, parent, sp, result>>

parseRootEnd ==
    /\ pc = "completed" /\ sp = 0
    /\ IF i = Len(doc) THEN Finish ELSE Return("syntax")

\* A value is complete inside a container: BumpCount, then a comma or the
\* closing bracket.
parseCompleted ==
    /\ pc = "completed" /\ sp # 0
    /\ LET bumped == [entries EXCEPT ![parent + 1].count = @ + 1]
       IN \/ frame.count = MaxCount /\ Return("too large")
          \/ /\ frame.count # MaxCount /\ Tok(i) = ","
             /\ entries' = bumped /\ i' = i + 1
             /\ pc' = IF frame.kind = "{" THEN "key" ELSE "parse"
             /\ UNCHANGED <<call, stack, parent, sp, result>>
          \/ /\ frame.count # MaxCount /\ Tok(i) = CloserOf(frame.kind)
             /\ finishContainer(bumped)
          \/ /\ frame.count # MaxCount /\ Tok(i) \notin {",", CloserOf(frame.kind)}
             /\ Return("syntax")

Next ==
    \/ buildIndexOptions \/ parseFast \/ valueOpen \/ valueScalar \/ valueInvalid
    \/ objectKey \/ rootEnd \/ scopeEnd
    \/ parseScalar \/ parseOpen \/ parseInvalid \/ parseOpened
    \/ parseObjectKey \/ parseRootEnd \/ parseCompleted

Spec == Init /\ [][Next]_vars

\* The builder is one goroutine that runs until it returns.
FairSpec == Spec /\ WF_vars(Next)

-----------------------------------------------------------------------------
(***************************************************************************)
(* Properties.                                                             *)
(***************************************************************************)

EntryType ==
    [start : 0..MaxOffset, end : 0..MaxOffset, next : Nat, count : 0..MaxCount,
     kind : {"{", "[", "string", "num"}, flags : SUBSET {"escaped", "key"}]

ScopeType == [entry : Nat, count : 0..MaxOffset, kind : Opener]

Walking == {"value", "objectKey", "scopeEnd"}           \* the fast walk runs
Parsing == {"parse", "opened", "key", "completed"}      \* the diagnostic parser

\* Every variable has the type its Go field can hold: offsets and scope
\* counts fit 32-bit words, and a stored count its 26 bits (PackInfo).
TypeOK ==
    /\ doc \in Seq(Token) /\ cap \in Caps /\ hashKeys \in BOOLEAN
    /\ pc \in {"build", "parseFast", "done"} \cup Walking \cup Parsing
    /\ i \in 0..Len(doc)
    /\ entries \in Seq(EntryType)
    /\ stack \in Seq(ScopeType)
    /\ parent \in 0..MaxOffset /\ sp \in 0..MaxDepth
    /\ result \in {"none", "ok", "full", "syntax", "too large"}

\* The places where the walk relies on an earlier test: fastByteAt reads
\* the byte of a value without a bounds check, the scope stacks are fixed
\* arrays, and storage ends at its capacity.
MemorySafe ==
    /\ pc = "value" => i < Len(doc)
    /\ Len(stack) <= FastDepth
    /\ Len(entries) <= cap

\* The entries of containers that are still open.
OpenIn(es) == {k \in 1..Len(es) : es[k].end = 0}
Open       == OpenIn(entries)

\* p is the scope head in front of entry k: it names the last container
\* before k that is still open, or none.
ScopeHead(es, k, p) ==
    \/ p = NoTapeParent /\ \A m \in OpenIn(es) : m >= k
    \/ /\ p + 1 \in OpenIn(es) /\ p + 1 < k
       /\ \A m \in OpenIn(es) : m < k => m <= p + 1

\* The scopes a builder believes in are the open containers, innermost
\* last: the fast walk's stack holds exactly them, and the diagnostic
\* parser's list, threaded through the Next words (pushContainer), visits
\* exactly them.
ScopesAreOpen ==
    /\ \A k \in Open : entries[k].kind \in Opener
    /\ pc \in Walking =>
         /\ {stack[n].entry + 1 : n \in 1..Len(stack)} = Open
         /\ \A n \in 1..Len(stack) : stack[n].kind = entries[stack[n].entry + 1].kind
         /\ \A m, n \in 1..Len(stack) : m < n => stack[m].entry < stack[n].entry
    /\ pc \in Parsing =>
         /\ sp = Cardinality(Open)
         /\ ScopeHead(entries, Len(entries) + 1, parent)
         /\ \A k \in Open : ScopeHead(entries, k, entries[k].next)

\* Whether the subtrees of es nest.  The names of an enriched tape are
\* exempt: they carry a hash where the others carry a size.
NestIn(es, enriched) ==
    \A k \in 1..Len(es) :
        (es[k].end # 0 /\ ~(enriched /\ "key" \in es[k].flags)) =>
            /\ es[k].next >= 1 /\ k + es[k].next <= Len(es) + 1
            /\ \A m \in (k + 1)..(k + es[k].next - 1) :
                 /\ es[m].end # 0
                 /\ ~(enriched /\ "key" \in es[m].flags) => m + es[m].next <= k + es[k].next

\* Subtrees nest: from every complete entry the skip count leads to
\* a place on the tape (or just behind it), and no entry inside a subtree
\* is open or skips out of it.  Node's unchecked steps rely on this.
SubtreesNest == NestIn(entries, hashKeys /\ pc = "done")

\* At every step of either builder no unchecked access leaves its array, the
\* scopes are the open containers and the skip counts nest: the facts that the
\* walk's and Node's unchecked code relies on.
WalkSound == MemorySafe /\ ScopesAreOpen /\ SubtreesNest

\* A tape that BuildIndex returns says exactly what the document says,
\* whichever builder wrote it: spans, skip counts, member counts, kinds and
\* flags; with HashKeys the names carry their hashes and the objects the
\* bit that says so.
TapeFaithful ==
    result = "ok" =>
        LET ref == RefTape(doc) IN
        /\ Len(entries) = Len(ref)
        /\ \A k \in 1..Len(ref) :
             entries[k] =
               [ref[k] EXCEPT
                  !.next  = IF hashKeys /\ "key" \in ref[k].flags
                              THEN Hash[T(doc, ref[k].start)] ELSE @,
                  !.flags = IF hashKeys /\ ref[k].kind = "{" THEN {"escaped"} ELSE @]

\* BuildIndex succeeds exactly on well-formed documents that keep to the
\* limits and fit the storage; the fast walk's own, lower, depth limit and
\* its early verdicts never show.  ErrIndexFull is told only of documents
\* that need more entries, and ErrIndexTooLarge only of ones too large.
VerdictExact ==
    pc = "done" =>
        /\ result = "ok" <=>
             /\ WellFormed(doc)
             /\ Len(doc) <= MaxOffset /\ cap <= MaxOffset
             /\ Nesting(doc) <= MaxDepth
             /\ \A k \in Begins(doc) : Cardinality(Children(doc, k)) <= MaxCount
             /\ Cardinality(Begins(doc)) <= cap
        /\ result = "full" => Cardinality(Begins(doc)) > cap
        /\ (result = "too large" /\ WellFormed(doc)) =>
             \/ Len(doc) > MaxOffset \/ cap > MaxOffset
             \/ \E k \in Begins(doc) : Cardinality(Children(doc, k)) > MaxCount

\* BuildIndex is exact: the right verdict, and with it the right tape.
BuildExact == VerdictExact /\ TapeFaithful

\* An entry that is complete never changes again, unless the builder starts
\* over or the finished tape is enriched.
CompleteEntriesFinal ==
    [][ entries' = <<>> \/ pc' = "done" \/
        \A k \in 1..Len(entries) : entries[k].end # 0 => entries'[k] = entries[k] ]_vars

\* BuildIndex returns.
Terminates == <>(pc = "done")
=============================================================================
