--------------------------- MODULE IndexPositions ---------------------------
(***************************************************************************)
(* The position engine of the index (index_positions.go, index_bitmap.go,  *)
(* x/kernels/stage2_index_go.go): the first builder a large document is    *)
(* given to.  Chunk by chunk, stage 1 writes positions with both quotes of *)
(* every string, the index machine turns them into tape entries in the     *)
(* caller's storage, and a last pass marks the strings with escapes.  A    *)
(* document it declines is built again by the builders of TapeBuilder.     *)
(*                                                                         *)
(* The density sample may decline too: a choice, as in ValidPositions.     *)
(***************************************************************************)
EXTENDS Stage1

CONSTANTS Texts, Capacities,
          ChunkBlocks,      \* Stage1ChunkBlocks
          IndexMaxDepth,    \* Stage2IndexMaxDepth = fastWalkMaxDepth
          SlabLen,          \* Stage2IndexSlabLen
          MaxCount          \* Stage2IndexMaxCount

IndexAssumption ==
    /\ ChunkBlocks \in Nat \ {0} /\ SlabLen \in Nat /\ SlabLen > IndexMaxDepth
    /\ IndexMaxDepth <= MaxDepth
    /\ \A t \in Texts : Len(t) < 2 * (MaxCount + 1)      \* indexBitmapMaxBytes

VARIABLES
    text, capacity,
    pc,             \* "blocks", "finish"; then "built", "declined" or "undecided"
    block, stream, run, skipEscape,
    m,              \* Stage2IndexState, with the slab and the entries
    escape          \* indexBitmapEscapeState

vars == <<text, capacity, pc, block, stream, run, skipEscape, m, escape>>

Size == Len(text)
FullBlocks == Size \div BlockBytes
HasTail == FullBlocks * BlockBytes # Size

-----------------------------------------------------------------------------
(***************************************************************************)
(* Stage2IndexPositionsFused.  s is the machine: its registers, the slab   *)
(* of open containers, the entries, and for the call the label, the next   *)
(* position to read and whether it stopped.  ps are the positions.         *)
(***************************************************************************)
NoScope == [entry |-> 0, count |-> 0, object |-> FALSE]

Stage2IndexReset ==
    [bad |-> FALSE, depth |-> 0, row |-> "start", inObj |-> FALSE, key |-> FALSE, count |-> 0,
     inString |-> FALSE, stringEntry |-> 0, slab |-> [d \in 0..(SlabLen - 1) |-> NoScope], entries |-> <<>>,
     label |-> "dispatch", at |-> 1, stop |-> FALSE]

Fused(label, row) ==
    CASE label = "key"        -> {"Q"}
      [] label = "colon"      -> {"L"}
      [] label = "value"      -> {"Q", "O", "A", "S"}
      [] label = "comma"      -> {"M", "C"}
      [] label = "arrayComma" -> {"M", "B"}
      [] label = "arrayValue" -> {"Q", "O", "A", "S"} \cup (IF row = "A" THEN {"B"} ELSE {})
      [] OTHER                -> {}

AfterValue(s) == IF s.inObj THEN "comma" ELSE IF s.depth > 0 THEN "arrayComma" ELSE "dispatch"

Refuse(s) == [s EXCEPT !.bad = TRUE, !.stop = TRUE]
Full(s) == Len(s.entries) >= capacity

Entry(kind, start, end) ==
    [kind |-> kind, start |-> start, end |-> end, next |-> 1, count |-> 0, key |-> FALSE, int |-> FALSE, esc |-> FALSE]

openContainer(s, c, j, k) ==
    IF Full(s) \/ s.depth + 1 > IndexMaxDepth THEN Refuse(s)
    ELSE [s EXCEPT !.depth = @ + 1, !.bad = @ \/ s.count >= MaxCount,
                   !.slab = [@ EXCEPT ![(s.depth + 1) % SlabLen] =
                               [entry |-> Len(s.entries) + 1, count |-> s.count, object |-> c = "O"]],
                   !.entries = Append(@, [Entry(c, j, 0) EXCEPT !.next = 0]),
                   !.count = 0, !.inObj = (c = "O"), !.row = c, !.key = (c = "O"),
                   !.label = IF c = "O" THEN "key" ELSE "arrayValue", !.at = k + 1]

closeContainer(s, c, j, k) ==
    LET scope   == s.slab[s.depth % SlabLen]
        members == IF (c = "C" /\ s.row = "O") \/ (c = "B" /\ s.row = "A") THEN s.count ELSE s.count + 1
        h == [s EXCEPT !.depth = @ - 1, !.count = scope.count,
                       !.bad = @ \/ scope.object # (c = "C") \/ members > MaxCount,
                       !.entries = [@ EXCEPT ![scope.entry].end = j + 1,
                                             ![scope.entry].next = Len(s.entries) + 1 - scope.entry,
                                             ![scope.entry].count = members],
                       !.inObj = s.slab[(s.depth - 1) % SlabLen].object, !.row = c, !.key = FALSE, !.at = k + 1]
    IN  IF s.depth - 1 < 0 THEN Refuse(s) ELSE [h EXCEPT !.label = AfterValue(h)]

\* A string whose closing quote is the next position.  In the last position
\* of a chunk it is left open; the next chunk starts with its end.  A value
\* string of an object has a shortcut of its own (writeObjectString) when the
\* delimiter is there too, with the same effect.
writeString(s, isKey, j, ps, k) ==
    LET open == [s EXCEPT !.entries = Append(@, [Entry("Q", j, 0) EXCEPT !.key = isKey]),
                          !.row = IF isKey THEN "Qk" ELSE "Q", !.key = FALSE,
                          !.stringEntry = Len(s.entries) + 1, !.at = k + 1]
    IN  IF Full(s) THEN Refuse(s)
        ELSE IF k = Len(ps) THEN [open EXCEPT !.inString = TRUE, !.stop = TRUE]
        ELSE IF At(text, ps[k + 1]) # "\"" THEN Refuse(open)
        ELSE [open EXCEPT !.entries[Len(s.entries) + 1].end = ps[k + 1] + 1, !.at = k + 2,
                          !.label = IF isKey THEN "colon" ELSE AfterValue(open)]

\* A key with its closing quote, its colon and its value all in the chunk.
writeKey(s, j, ps, k) ==
    IF Len(ps) - k < 3 THEN writeString(s, TRUE, j, ps, k)
    ELSE IF Full(s) \/ At(text, ps[k + 1]) # "\"" \/ At(text, ps[k + 2]) # ":" THEN Refuse(s)
    ELSE [s EXCEPT !.entries = Append(@, [Entry("Q", j, ps[k + 1] + 1) EXCEPT !.key = TRUE]),
                   !.row = "L", !.key = FALSE, !.label = "value", !.at = k + 3]

\* The part of a dispatch that ends the string a chunk left open.
resumeString(s, j, k) ==
    LET h == [s EXCEPT !.entries = [@ EXCEPT ![s.stringEntry].end = j + 1], !.inString = FALSE, !.at = k + 1]
    IN  IF At(text, j) # "\"" THEN Refuse(s)
        ELSE [h EXCEPT !.label = IF s.row = "Qk" THEN "colon" ELSE AfterValue(s)]

\* Literals and numbers; the loops over digits are those of scanNumberFast.
writeScalar(s, j, k) ==
    LET c    == At(text, j)
        end  == IF c \in Digit \cup {"-"} THEN scanNumberFast(text, j) ELSE IF c = "f" THEN j + 5 ELSE j + 4
        kind == IF c \in Digit \cup {"-"} THEN "num" ELSE IF c = "n" THEN "null" ELSE "bool"
        int  == kind = "num" /\ \A i \in j..(end - 1) : At(text, i) \notin {".", "e", "E"}
    IN  IF Full(s) \/ ~validScalarTokenAt(text, j) THEN Refuse(s)
        ELSE [s EXCEPT !.entries = Append(@, [Entry(kind, j, end) EXCEPT !.int = int]),
                       !.row = "S", !.key = FALSE, !.label = AfterValue(s), !.at = k + 1]

Step(s, ps, k) ==
    LET j == ps[k]
        c == Class(At(text, j))
        fused == c \in Fused(s.label, s.row)
        h == IF fused THEN s ELSE [s EXCEPT !.bad = @ \/ c \notin stage2PairGood(s.row, s.inObj)]
    IN  IF s.inString THEN resumeString(s, j, k)
        ELSE CASE c \in {"O", "A"} -> openContainer(h, c, j, k)
               [] c \in {"C", "B"} -> closeContainer(h, c, j, k)
               [] c = "L" -> [h EXCEPT !.row = "L", !.key = FALSE, !.label = "value", !.at = k + 1]
               [] c = "M" -> [h EXCEPT !.bad = @ \/ (~fused /\ s.depth = 0) \/ s.count + 1 >= MaxCount,
                                       !.count = @ + 1, !.row = "M", !.key = s.inObj,
                                       !.label = IF s.inObj THEN "key" ELSE "arrayValue", !.at = k + 1]
               [] c = "Q" -> IF s.key THEN writeKey(h, j, ps, k) ELSE writeString(h, FALSE, j, ps, k)
               [] OTHER   -> writeScalar(h, j, k)

\* A call: the label is not part of the state.
Stage2IndexPositionsFused(ps) ==
    LET machine[k \in 0..Len(ps)] ==
            IF k = 0 THEN [m EXCEPT !.label = "dispatch", !.at = 1, !.stop = FALSE]
            ELSE LET s == machine[k - 1] IN IF s.stop \/ k < s.at THEN s ELSE Step(s, ps, k)
    IN  machine[Len(ps)]

Stage2IndexFinish == ~m.bad /\ m.row \in stage2EOFGood /\ m.depth = 0 /\ ~m.inString

-----------------------------------------------------------------------------
(***************************************************************************)
(* indexBitmapFinish marks the strings with escapes.  Only the first       *)
(* target of a string is looked up; seen says that the string the pass is  *)
(* in has its mark.  f is [ok, entry, seen, entries].                      *)
(***************************************************************************)

\* The entry a target at p belongs to: the last that starts in front of it,
\* searched from the one that was marked last.
EntryBefore(entries, from, p) ==
    Min({ e \in (from + 1)..Len(entries) : entries[e].start >= p } \cup {Len(entries) + 1}) - 1

\* Mutant: a mark is remembered to the end of the block, over other strings.
LeavesStringNever(inStr, from, lane) == FALSE

\* Whether a byte outside strings lies between lane from and the target.
LeavesString(inStr, from, lane) == (from..lane) \ inStr # {}

MarkTarget(f, rec, b, lane) ==
    LET seen == f.seen /\ ~LeavesString(rec.inStr, f.cursor, lane)
        e    == EntryBefore(f.entries, f.entry, b * BlockBytes + lane)
    IN  IF ~f.ok \/ seen THEN [f EXCEPT !.seen = seen, !.cursor = lane + 1]
        ELSE IF e < 1 \/ f.entries[e].kind # "Q" THEN [f EXCEPT !.ok = FALSE]
        ELSE [f EXCEPT !.entries = [@ EXCEPT ![e].esc = TRUE], !.entry = e, !.seen = TRUE, !.cursor = lane + 1]

\* A block without targets ends the string unless it lies in it whole.
MarkBlock(f, rec, b) ==
    LET marked == FoldLeft(LAMBDA g, lane : MarkTarget(g, rec, b, lane), [f EXCEPT !.cursor = 0],
                           Ascending(rec.escInStr, BlockBytes))
    IN  IF rec.escInStr = {} THEN [f EXCEPT !.seen = @ /\ rec.inStr = Lanes]
        ELSE [marked EXCEPT !.seen = @ /\ (marked.cursor..LastLane) \subseteq rec.inStr]

indexBitmapFinish(entries, recs, b) ==
    FoldLeft(LAMBDA f, k : MarkBlock(f, recs[k], b + k - 1),
             [ok |-> TRUE, entry |-> escape.entry, seen |-> escape.seen, cursor |-> 0, entries |-> entries],
             [k \in 1..Len(recs) |-> k])

-----------------------------------------------------------------------------
Init ==
    /\ text \in Texts /\ capacity \in Capacities
    /\ pc = "blocks" /\ block = 0 /\ stream = StreamStart
    /\ run = NoRun /\ skipEscape = -1
    /\ m = Stage2IndexReset /\ escape = [entry |-> 0, seen |-> FALSE]

\* consume: checks of the blocks, the machine, the marks.
ConsumeBlocks(count, then) ==
    \E recs \in {Stage1Blocks(text, block, count, stream)} :
    \E checks \in {CheckBlocks(text, run, skipEscape, recs, block)},
       ps \in {PositionsOf([k \in DOMAIN recs |-> recs[k].emit \cup recs[k].closers], block)} :
    \E s \in {Stage2IndexPositionsFused(ps)} :
    \E marks \in {indexBitmapFinish(s.entries, recs, block)} :
        /\ stream' = Last(recs).stream
        /\ block' = block + count
        /\ IF stream'.bad \/ checks.bad THEN pc' = "declined" /\ UNCHANGED <<run, skipEscape, m, escape>>
           ELSE /\ run' = checks.run /\ skipEscape' = checks.skip
                /\ IF s.bad THEN pc' = "declined" /\ m' = s /\ UNCHANGED escape
                   ELSE /\ m' = [s EXCEPT !.entries = marks.entries]
                        /\ escape' = [entry |-> marks.entry, seen |-> marks.seen]
                        /\ pc' = IF marks.ok THEN then ELSE "declined"
        /\ UNCHANGED <<text, capacity>>

Chunk ==
    /\ pc = "blocks" /\ block < FullBlocks
    /\ ConsumeBlocks(Min({ChunkBlocks, FullBlocks - block}), pc)

\* The density of the first chunk is not worth the engine.
Decline ==
    /\ pc = "blocks" /\ block = 0 /\ FullBlocks >= ChunkBlocks
    /\ pc' = "undecided"
    /\ UNCHANGED <<text, capacity, block, stream, run, skipEscape, m, escape>>

ConsumeTail == pc = "blocks" /\ block = FullBlocks /\ HasTail /\ ConsumeBlocks(1, "finish")

NoTail ==
    /\ pc = "blocks" /\ block = FullBlocks /\ ~HasTail
    /\ pc' = "finish"
    /\ UNCHANGED <<text, capacity, block, stream, run, skipEscape, m, escape>>

Finish ==
    /\ pc = "finish"
    /\ pc' = IF stream.inString \/ ~Stage2IndexFinish \/ LastRunFails(text, run) THEN "declined" ELSE "built"
    /\ UNCHANGED <<text, capacity, block, stream, run, skipEscape, m, escape>>

Next == Chunk \/ Decline \/ ConsumeTail \/ NoTail \/ Finish

Spec == Init /\ [][Next]_vars

-----------------------------------------------------------------------------
(***************************************************************************)
(* The tape of a document, from its bytes alone.                           *)
(***************************************************************************)
Outside == { i \in 0..(Size - 1) : i \notin RefInString(text) } \ RefQuotes(text)
Nesting(i, j) ==     \* opened in [i, j) and not closed there
    Cardinality({ k \in Outside : k \in i..(j - 1) /\ At(text, k) \in {"{", "["} }) -
    Cardinality({ k \in Outside : k \in i..(j - 1) /\ At(text, k) \in {"}", "]"} })

RefStarts == { i \in RefEmit(text) : At(text, i) \notin {"}", "]", ":", ","} }

RefEntryEnd(i) ==
    CASE At(text, i) \in {"{", "["} -> Min({ j \in (i + 1)..Size : Nesting(i, j) = 0 })
      [] At(text, i) = "\""         -> Min({ q \in RefQuotes(text) : q > i }) + 1
      [] OTHER                      -> Min({ j \in (i + 1)..Size : j = Size \/ At(text, j) \in Space \cup Structural })

RefKind(i) ==
    LET c == At(text, i)
    IN  CASE c \in Structural \cup {"\""} -> Class(c)
          [] c = "n" -> "null" [] c \in {"t", "f"} -> "bool" [] OTHER -> "num"

RefEntry(i) ==
    LET end    == RefEntryEnd(i)
        bytes  == { At(text, k) : k \in i..(end - 1) }
        commas == { k \in Outside : k \in i..(end - 1) /\ At(text, k) = "," /\ Nesting(i, k) = 1 }
    IN  [kind |-> RefKind(i), start |-> i, end |-> end,
         next |-> Cardinality({ k \in RefStarts : k \in i..(end - 1) }),
         count |-> IF RefKind(i) \notin {"O", "A"} \/ SpanEnd(text, i + 1, Space) = end - 1 THEN 0
                   ELSE Cardinality(commas) + 1,
         key |-> RefKind(i) = "Q" /\ Has(text, SpanEnd(text, end, Space), {":"}),
         int |-> RefKind(i) = "num" /\ bytes \cap {".", "e", "E"} = {},
         esc |-> RefKind(i) = "Q" /\ "\\" \in bytes]

\* The entries a document of these bytes has, in order.
RefTape ==
    LET starts == Ascending(RefStarts, Size)
    IN  [k \in 1..Len(starts) |-> RefEntry(starts[k])]

TooDeep == \E i \in 0..Size : Nesting(0, i) > IndexMaxDepth

\* A tape of the position engine is the tape of the document, entry by entry,
\* with every end, skip count, member count and escape mark, however strings,
\* keys and containers fall into blocks and chunks; and the engine declines
\* only text that is no document, nesting above its limit, or a tape the
\* storage cannot hold, so that nothing else is ever built twice.
TapeExact ==
    /\ pc = "built" => IsDocument(text) /\ m.entries = RefTape /\ Len(m.entries) <= capacity
    /\ pc = "declined" => (IsDocument(text) => TooDeep \/ Cardinality(RefStarts) > capacity)
=============================================================================
