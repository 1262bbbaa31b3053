----------------------------- MODULE RawLookup -----------------------------
(***************************************************************************)
(* Lookups that read the text itself, without a tape: rawSeeker, which     *)
(* validates what it passes (raw.go, range.go), and trustedSeeker, which   *)
(* does not and skips containers a block at a time (raw_trusted.go).       *)
(*                                                                         *)
(* They run on the documents TapeLookup indexes.  A value found is the     *)
(* pair of offsets <<start, end>> it covers.  A lookup of a compiled       *)
(* pointer is the same code over precomputed tokens; both report a         *)
(* malformed pointer before they look at the document.                     *)
(***************************************************************************)
EXTENDS TapeLookup

CONSTANT Block      \* tokens per block of skipComposite: 64 bytes in the code

ASSUME BlockAssumption == Block \in Nat \ {0}

NoRaw == <<>>
At(k) == IF k < Len(doc) THEN T(doc, k) ELSE "end"

\* How a call leaves the seeker: its offset, the value found, the error.
Passed(k)      == [i |-> k, raw |-> NoRaw, err |-> ""]
SyntaxError(k) == [i |-> k, raw |-> NoRaw, err |-> "syntax"]
LookupError(k) == [i |-> k, raw |-> NoRaw, err |-> "pointer"]
Captured(k, r) == IF r.err # "" THEN r ELSE [r EXCEPT !.raw = <<k, r.i>>]

Malformed(path) == \E n \in 1..Len(path) : path[n] = "~"

\* keyMatches, trustedKeyMatches and keyString: an escaped name is decoded.
KeyText(k) == IF T(doc, k) \in Escaped THEN Text[T(doc, k)] ELSE T(doc, k)

-----------------------------------------------------------------------------
(***************************************************************************)
(* rawSeeker.  With `first' it stops at the first match; otherwise it      *)
(* consumes the whole document, and a later duplicate replaces what an     *)
(* earlier one gave, its error included.                                   *)
(***************************************************************************)

skipValue(k, depth) ==
    LET r == parseLayout(k, depth) IN IF r.end = NoNode THEN SyntaxError(k) ELSE Passed(r.end)

captureValue(k, depth) == Captured(k, skipValue(k, depth))

\* The error of a candidate ends the search unless a duplicate may follow.
Ends(first, r) == r.err = "syntax" \/ (first /\ (r.err = "pointer" \/ r.raw # NoRaw))

\* Behind a value: the next one, the bracket with what was kept, or an error.
After(r, kept, close, Continue(_)) ==
    CASE At(r.i) = ","   -> Continue(r.i + 1)
      [] At(r.i) = close -> [kept EXCEPT !.i = r.i + 1]
      [] OTHER           -> SyntaxError(r.i)

RECURSIVE findValue(_, _, _, _), findElements(_, _, _, _, _, _), findMembers(_, _, _, _, _)

findElements(first, k, depth, path, n, kept) ==
    LET selected == classifyPointerIndex(Head(path)) = n
        r        == IF selected THEN findValue(first, k, depth, Tail(path)) ELSE skipValue(k, depth)
        now      == IF selected THEN r ELSE kept
        go(at)   == findElements(first, at, depth, path, n + 1, now)
    IN  IF Ends(first, r) THEN r ELSE After(r, now, "]", go)

findMembers(first, k, depth, path, kept) ==
    LET matched == KeyText(k) = Head(path)
        r       == IF matched THEN findValue(first, k + 2, depth, Tail(path)) ELSE skipValue(k + 2, depth)
        now     == IF matched THEN r ELSE kept
        go(at)  == findMembers(first, at, depth, path, now)
    IN  IF At(k) \notin Strings \/ At(k + 1) # ":" THEN SyntaxError(k)
        ELSE IF Ends(first, r) THEN r ELSE After(r, now, "}", go)

\* An index that is none is reported once the array is consumed.
findArray(first, k, depth, path) ==
    CASE depth > MaxDepth -> SyntaxError(k)
      [] depth <= MaxDepth /\ classifyPointerIndex(Head(path)) = Invalid ->
           IF first THEN LookupError(k)
           ELSE LET s == skipValue(k, depth - 1) IN IF s.err # "" THEN s ELSE LookupError(s.i)
      [] OTHER -> IF At(k + 1) = "]" THEN Passed(k + 2)
                  ELSE findElements(first, k + 1, depth, path, 0, Passed(k))

findObject(first, k, depth, path) ==
    IF depth > MaxDepth THEN SyntaxError(k)
    ELSE IF At(k + 1) = "}" THEN Passed(k + 2)
    ELSE findMembers(first, k + 1, depth, path, Passed(k))

findValue(first, k, depth, path) ==
    CASE path = <<>> -> captureValue(k, depth)
      [] path # <<>> /\ At(k) = "{" -> findObject(first, k, depth + 1, path)
      [] path # <<>> /\ At(k) = "[" -> findArray(first, k, depth + 1, path)
      [] OTHER -> skipValue(k, depth)

\* Nothing but the value may be there.
GetRaw(path) ==
    LET r == findValue(FALSE, 0, 0, path)
    IN  IF Malformed(path) THEN LookupError(0)
        ELSE IF r.err # "" THEN r
        ELSE IF r.i # Len(doc) THEN SyntaxError(r.i) ELSE r

ScanFirstRaw(path) ==
    IF Malformed(path) THEN LookupError(0) ELSE findValue(TRUE, 0, 0, path)

-----------------------------------------------------------------------------
(***************************************************************************)
(* EachArray and EachObject.  The callback fails on the value that starts  *)
(* at offset `fail'; calls lists what it was given.                        *)
(***************************************************************************)
RECURSIVE Each(_, _, _, _)
Each(k, close, fail, calls) ==
    LET value == IF close = "}" THEN k + 2 ELSE k
        r     == skipValue(value, 1)
        now   == Append(calls, << IF close = "}" THEN KeyText(k) ELSE Len(calls), value, r.i >>)
    IN  CASE close = "}" /\ (At(k) \notin Strings \/ At(k + 1) # ":") -> [calls |-> calls, err |-> "syntax"]
          [] close = "]" /\ r.err # "" -> [calls |-> calls, err |-> r.err]
          [] close = "}" /\ At(k) \in Strings /\ At(k + 1) = ":" /\ r.err # "" -> [calls |-> calls, err |-> r.err]
          [] OTHER ->
               IF value = fail THEN [calls |-> now, err |-> "callback"]
               ELSE CASE At(r.i) = ","   -> Each(r.i + 1, close, fail, now)
                      [] At(r.i) = close -> [calls |-> now, err |-> IF r.i + 1 = Len(doc) THEN "" ELSE "syntax"]
                      [] OTHER           -> [calls |-> now, err |-> "syntax"]

\* Mutant: what follows an empty container is not looked at.
EachInEmpty(open, fail) ==
    IF MaxDepth < 1 \/ At(0) # open THEN [calls |-> <<>>, err |-> "syntax"]
    ELSE IF At(1) = CloserOf(open) THEN [calls |-> <<>>, err |-> ""]
    ELSE Each(1, CloserOf(open), fail, <<>>)

EachIn(open, fail) ==
    IF MaxDepth < 1 \/ At(0) # open THEN [calls |-> <<>>, err |-> "syntax"]
    ELSE IF At(1) = CloserOf(open) THEN [calls |-> <<>>, err |-> IF Len(doc) = 2 THEN "" ELSE "syntax"]
    ELSE Each(1, CloserOf(open), fail, <<>>)

-----------------------------------------------------------------------------
(***************************************************************************)
(* trustedSeeker.  Strings and scalars end at the next delimiter; a        *)
(* container is skipped by counting brackets, a block at a time, and a     *)
(* block is looked into only when its counts could close the container or  *)
(* exceed the depth that is left.                                          *)
(***************************************************************************)
skipScalarTrusted(k) ==
    Min({j \in (k + 1)..Len(doc) :
           j = Len(doc) \/ T(doc, j) \in Closer \cup {","} \/ {T(doc, j - 1), T(doc, j)} \subseteq {"num", "bad"}})

InBlock(from, S) == {p \in from..(from + Block - 1) : p < Len(doc) /\ T(doc, p) \in S}
UpTo(S, p) == Cardinality({q \in S : q <= p})

\* Mutant: a block is passed over when it leaves the container open.
PassesBlockNet(nest, opened, closed, budget) == nest + opened - closed > 0 /\ nest + opened <= budget

PassesBlock(nest, opened, closed, budget) == nest - closed > 0 /\ nest + opened <= budget

RECURSIVE skipBlocks(_, _, _)
skipBlocks(from, nest, budget) ==
    LET opens    == InBlock(from, Opener)
        closes   == InBlock(from, Closer)
        opened   == Cardinality(opens)
        closed   == Cardinality(closes)
        Nest(p)  == nest + UpTo(opens, p) - UpTo(closes, p)
        ends     == {p \in closes : Nest(p) = 0}
        toodeep  == {p \in opens : Nest(p) > budget}
        next     == skipBlocks(from + Block, nest + opened - closed, budget)
    IN  CASE from >= Len(doc) -> Passed(Len(doc))
          [] from < Len(doc) /\ PassesBlock(nest, opened, closed, budget) -> next
          [] from < Len(doc) /\ ~PassesBlock(nest, opened, closed, budget) /\ nest + opened <= budget ->
               IF ends = {} THEN next ELSE Passed(Min(ends) + 1)
          [] OTHER ->
               IF ends \cup toodeep = {} THEN next
               ELSE IF Min(ends \cup toodeep) \in ends THEN Passed(Min(ends) + 1)
               ELSE SyntaxError(Min(toodeep))

skipComposite(k, depth) == skipBlocks(k, 0, MaxDepth - depth)

skipTrusted(k, depth) ==
    CASE At(k) = "end" -> Passed(k)
      [] At(k) \in Opener -> skipComposite(k, depth)
      [] At(k) \in Strings -> Passed(k + 1)
      [] OTHER -> Passed(IF At(k) \in Closer \cup {","} THEN k ELSE skipScalarTrusted(k))

captureTrusted(k, depth) ==
    LET r == skipTrusted(k, depth) IN IF r.i = k THEN r ELSE Captured(k, r)

\* Behind a value, malformed text ends the search without an error.
AfterTrusted(first, r, kept, close, Continue(_)) ==
    CASE At(r.i) = ","   -> Continue(r.i + 1)
      [] At(r.i) = close -> IF first THEN Passed(r.i + 1) ELSE [kept EXCEPT !.i = r.i + 1]
      [] At(r.i) = "end" -> IF first THEN Passed(r.i) ELSE [kept EXCEPT !.i = r.i]
      [] OTHER           -> Passed(r.i)

RECURSIVE findTrusted(_, _, _, _), elementsTrusted(_, _, _, _, _, _), membersTrusted(_, _, _, _, _)

elementsTrusted(first, k, depth, path, n, kept) ==
    LET selected == classifyPointerIndex(Head(path)) = n
        r        == IF selected THEN findTrusted(first, k, depth, Tail(path)) ELSE skipTrusted(k, depth)
        now      == IF selected THEN r ELSE kept
        go(at)   == elementsTrusted(first, at, depth, path, n + 1, now)
    IN  IF Ends(first, r) THEN r ELSE AfterTrusted(first, r, now, "]", go)

membersTrusted(first, k, depth, path, kept) ==
    LET matched == KeyText(k) = Head(path)
        r       == IF matched THEN findTrusted(first, k + 2, depth, Tail(path)) ELSE skipTrusted(k + 2, depth)
        now     == IF matched THEN r ELSE kept
        go(at)  == membersTrusted(first, at, depth, path, now)
    IN  CASE At(k) \in {"}", "end"} ->
               [(IF first THEN Passed(k) ELSE kept) EXCEPT !.i = IF At(k) = "}" THEN k + 1 ELSE k]
          [] At(k) \notin {"}", "end"} /\ (At(k) \notin Strings \/ At(k + 1) # ":") -> Passed(k)
          [] OTHER -> IF Ends(first, r) THEN r ELSE AfterTrusted(first, r, now, "}", go)

arrayTrusted(first, k, depth, path) ==
    CASE depth > MaxDepth -> SyntaxError(k)
      [] depth <= MaxDepth /\ classifyPointerIndex(Head(path)) = Invalid ->
           IF first THEN LookupError(k)
           ELSE LET s == skipTrusted(k, depth - 1) IN IF s.err # "" THEN s ELSE LookupError(s.i)
      [] OTHER -> IF At(k + 1) = "]" THEN Passed(k + 2)
                  ELSE elementsTrusted(first, k + 1, depth, path, 0, Passed(k))

objectTrusted(first, k, depth, path) ==
    IF depth > MaxDepth THEN SyntaxError(k) ELSE membersTrusted(first, k + 1, depth, path, Passed(k))

findTrusted(first, k, depth, path) ==
    CASE path = <<>> -> captureTrusted(k, depth)
      [] path # <<>> /\ At(k) = "{" -> objectTrusted(first, k, depth + 1, path)
      [] path # <<>> /\ At(k) = "[" -> arrayTrusted(first, k, depth + 1, path)
      [] OTHER -> skipTrusted(k, depth)

GetRawTrusted(path) ==
    IF Malformed(path) THEN LookupError(0) ELSE findTrusted(FALSE, 0, 0, path)
ScanFirstRawTrusted(path) ==
    IF Malformed(path) THEN LookupError(0) ELSE findTrusted(TRUE, 0, 0, path)

-----------------------------------------------------------------------------
(***************************************************************************)
(* Reference.  Following a path through every duplicate gives its targets, *)
(* and the arrays a token of it is no index for.                           *)
(***************************************************************************)
Valid == WellFormed(doc) /\ Nesting(doc) <= MaxDepth

\* The children of k that a token names, duplicates included.
Named(k, s) ==
    LET kids == Children(doc, k) IN
    CASE T(doc, k) = "{" -> {c \in kids : Text[T(doc, c - 2)] = s}
      [] T(doc, k) = "[" -> {c \in kids : classifyPointerIndex(s) = Cardinality({m \in kids : m < c})}
      [] OTHER -> {}

RECURSIVE Targets(_, _), Misindexed(_, _)
Targets(k, path) ==
    IF path = <<>> THEN {k} ELSE UNION {Targets(c, Tail(path)) : c \in Named(k, Head(path))}
Misindexed(k, path) ==
    IF path = <<>> THEN {}
    ELSE IF T(doc, k) = "[" /\ classifyPointerIndex(Head(path)) = Invalid THEN {k}
    ELSE UNION {Misindexed(c, Tail(path)) : c \in Named(k, Head(path))}

Extent(k) == <<k, EndOf(doc, k)>>
Outcome(r) == [raw |-> IF r.err = "" THEN r.raw ELSE NoRaw, err |-> r.err]
Located(raw) == [raw |-> raw, err |-> ""]
Misled == [raw |-> NoRaw, err |-> "pointer"]

\* What the first way through the document meets.
RefFirst(path) ==
    LET met == Targets(0, path) \cup Misindexed(0, path)
    IN  IF Malformed(path) THEN Misled
        ELSE IF met = {} THEN Located(NoRaw)
        ELSE IF Min(met) \in Targets(0, path) THEN Located(Extent(Min(met))) ELSE Misled

\* What the tape gives: the last member of every name.
RefLast(path) ==
    LET p == Pointer(0, path)
    IN  IF p.err THEN Misled
        ELSE Located(IF p.node = NoNode THEN NoRaw ELSE <<E(p.node).start, E(p.node).end>>)

(***************************************************************************)
(* Properties of the lookups, once the tape is finished or refused.        *)
(***************************************************************************)
\* A text lookup with GetRaw finds the bytes that Node.Pointer finds on the
\* tape, last duplicates replacing earlier ones and their errors, and
\* GetRawTrusted finds the same although it validates nothing; GetRaw never
\* succeeds on a document that is not valid.
GetRawExact ==
    /\ result = "ok" => \A path \in Paths :
         Outcome(GetRaw(path)) = RefLast(path) /\ Outcome(GetRawTrusted(path)) = RefLast(path)
    /\ pc = "done" /\ ~Valid => \A path \in Paths : GetRaw(path).err # ""

\* ScanFirstRaw and ScanFirstRawTrusted stop at the first target of the path,
\* through duplicates that lead nowhere; and on a document that is malformed
\* or too deep, what ScanFirstRaw returns is still a valid value, and the
\* trusted scan stays within the document.
ScanFirstExact ==
    pc = "done" => \A path \in Paths :
        /\ Valid => Outcome(ScanFirstRaw(path)) = RefFirst(path)
                    /\ Outcome(ScanFirstRawTrusted(path)) = RefFirst(path)
        /\ ScanFirstRaw(path).raw # NoRaw =>
             LET r == ScanFirstRaw(path).raw IN WellFormed(SubSeq(doc, r[1] + 1, r[2]))
        /\ ScanFirstRawTrusted(path).i <= Len(doc) /\ GetRawTrusted(path).i <= Len(doc)

\* EachArray and EachObject give the callback every child once and in order,
\* up to the one it fails on; on a document that is not valid they report an
\* error, after callbacks for valid values only.
EachExact ==
    pc = "done" => \A open \in Opener, fail \in {-1} \cup Offsets(doc) :
        LET each   == EachIn(open, fail)
            kids   == SetToSortSeq(Children(doc, 0), <)
            stop   == IF \E n \in DOMAIN kids : kids[n] = fail
                      THEN CHOOSE n \in DOMAIN kids : kids[n] = fail ELSE Len(kids)
        IN  /\ Valid /\ At(0) = open =>
                 /\ [n \in DOMAIN each.calls |-> <<each.calls[n][2], each.calls[n][3]>>]
                      = [n \in 1..stop |-> Extent(kids[n])]
                 /\ (each.err = "callback") = (fail \in ToSet(kids))
                 /\ each.err \in {"", "callback"}
            /\ ~Valid => /\ each.err # ""
                         /\ \A n \in DOMAIN each.calls :
                              WellFormed(SubSeq(doc, each.calls[n][2] + 1, each.calls[n][3]))
=============================================================================
