------------------------------- MODULE Stage1 -------------------------------
(***************************************************************************)
(* Stage 1 of the position engines (x/kernels): a block of bytes becomes   *)
(* masks, the masks become the positions of the tokens, and four bits of   *)
(* state carry from block to block.  A mask is the set of its lanes; a     *)
(* block has BlockBytes lanes where the code has 64.                       *)
(*                                                                         *)
(* The portable kernel is modelled.  The vector kernels compute the same   *)
(* masks with other instructions.                                          *)
(***************************************************************************)
EXTENDS ValidFast, FiniteSets, FiniteSetsExt, SequencesExt

CONSTANTS BlockBytes,       \* 64
          CoalesceBlocks    \* validUTF8CoalesceBlocks

BlockAssumption == BlockBytes \in {2, 4, 8, 16, 32, 64} /\ CoalesceBlocks \in Nat

Lanes == 0..(BlockBytes - 1)
LastLane == BlockBytes - 1
Structural == {"{", "}", "[", "]", ":", ","}

ShiftLeft(m, k) == { i + k : i \in m } \cap Lanes
Xor(a, b) == (a \ b) \cup (b \ a)
Carried(bit) == IF bit THEN {0} ELSE {}

\* A mask as the number its register holds.
Word(m) == FoldSet(LAMBDA i, sum : sum + 2^i, 0, m)
Mask(w) == { i \in Lanes : (w \div 2^i) % 2 = 1 }

\* The members of S below n, in ascending order.
Ascending(S, n) == SelectSeq([k \in 1..n |-> k - 1], LAMBDA i : i \in S)

\* The lanes of a block whose bytes are in S.
Stage1Block(block, S) == { i \in Lanes : At(block, i) \in S }

(***************************************************************************)
(* The carries.  Both return the mask and the bit for the next block.      *)
(***************************************************************************)

EvenLanes == { i \in Lanes : i % 2 = 0 }

\* The bytes that a run of backslashes escapes.
Stage1Escaped(backslash, carry) ==
    LET active  == backslash \ Carried(carry)
        follows == ShiftLeft(active, 1) \cup Carried(carry)
        starts  == (active \ EvenLanes) \ follows
        sum     == Word(starts) + Word(active)
    IN  IF backslash = {} THEN [mask |-> Carried(carry), carry |-> FALSE]
        ELSE IF active \cap follows = {} THEN [mask |-> follows, carry |-> LastLane \in active]
        ELSE [mask |-> Xor(EvenLanes, ShiftLeft(Mask(sum), 1)) \cap follows, carry |-> sum >= 2^BlockBytes]

\* The shifts that spread a parity over the block, 1, 2, 4 and so on.
Doublings == SelectSeq(<<1, 2, 4, 8, 16, 32>>, LAMBDA k : k < BlockBytes)

\* The bytes inside strings, opening quotes included, closing quotes not.
Stage1PrefixXOR(quotes, inString) ==
    LET all    == IF inString THEN Lanes ELSE {}
        spread == FoldLeft(LAMBDA m, k : Xor(m, ShiftLeft(m, k)), quotes, Doublings)
        m      == Xor(spread, all)
    IN  IF quotes = {} THEN [mask |-> all, carry |-> inString]
        ELSE [mask |-> m, carry |-> LastLane \in m]

(***************************************************************************)
(* One block.  Stream state: what carries over, and whether a control byte *)
(* was met where none may be.                                              *)
(***************************************************************************)
StreamStart == [escaped |-> FALSE, inString |-> FALSE, follows |-> FALSE, previousIn |-> FALSE, bad |-> FALSE]

Stage1Rec(block, st) ==
    LET escaped  == Stage1Escaped(Stage1Block(block, {"\\"}), st.escaped)
        rawQuote == Stage1Block(block, {"\""})
        space    == Stage1Block(block, Space)
        quotes   == rawQuote \ escaped.mask
        string   == Stage1PrefixXOR(quotes, st.inString)
        inString == string.mask
        outside  == Lanes \ (inString \cup quotes)
        cand     == Lanes \ (space \cup Stage1Block(block, Structural) \cup rawQuote \cup inString)
        starts   == (cand \ ShiftLeft(cand, 1)) \ Carried(st.follows)
        control  == Stage1Block(block, Control)
    IN  [emit     |-> ((Stage1Block(block, Structural) \cup starts) \cap outside) \cup (quotes \cap inString),
         closers  |-> (ShiftLeft(inString, 1) \cup Carried(st.previousIn)) \ inString,
         escInStr |-> escaped.mask \cap inString,
         inStr    |-> inString,
         nonASCII |-> Stage1Block(block, NonASCII) # {},
         stream   |-> [escaped |-> escaped.carry, inString |-> string.carry,
                       follows |-> LastLane \in cand, previousIn |-> LastLane \in inString,
                       bad |-> st.bad \/ control \cap (inString \cup (outside \ space)) # {}]]

\* Block number b of src; what lies behind its end is padded with spaces.
BlockAt(src, b) ==
    [k \in 1..BlockBytes |-> IF b * BlockBytes + k <= Len(src) THEN src[b * BlockBytes + k] ELSE " "]

\* The records of the blocks b, ..., b + count - 1, in a chunk.
Stage1Blocks(src, b, count, st) ==
    FoldLeft(LAMBDA recs, k :
               Append(recs, Stage1Rec(BlockAt(src, b + k), IF recs = <<>> THEN st ELSE Last(recs).stream)),
             <<>>, [k \in 1..count |-> k - 1])

\* The positions of a chunk: the lanes of its masks, in ascending order.
PositionsOf(masks, b) ==
    FlattenSeq([k \in 1..Len(masks) |->
                  LET lanes == Ascending(masks[k], BlockBytes)
                  IN  [n \in 1..Len(lanes) |-> (b + k - 1) * BlockBytes + lanes[n]]])

(***************************************************************************)
(* The checks that ride on a block's masks.                                *)
(***************************************************************************)

\* validUTF8Fast on the bytes of [i, j).
validUTF8Fast(src, i, j) ==
    \A k \in i..(j - 1) :
        /\ At(src, k) = "C2" => k + 1 < j /\ At(src, k + 1) = "80"
        /\ At(src, k) = "80" => k > i /\ At(src, k - 1) = "C2"

NoRun == [start |-> -1, end |-> 0]

\* Block b has bytes above ASCII: it joins the run, or the run is checked
\* and a new one begins.
ExtendRun(run, b) ==
    [start |-> IF run.start < 0 \/ b - run.end > CoalesceBlocks THEN b ELSE run.start, end |-> b + 1]

RunFails(src, run, b) ==
    /\ run.start >= 0 /\ b - run.end > CoalesceBlocks
    /\ ~validUTF8Fast(src, run.start * BlockBytes, run.end * BlockBytes)

\* Mutant: the low half of a pair is remembered only inside the block.
EscapeAtForgets(src, j, e) ==
    IF e.bad \/ j >= Len(src) THEN [e EXCEPT !.bad = TRUE]
    ELSE IF j = e.skip THEN e
    ELSE IF At(src, j) \in Escapable THEN e
    ELSE IF At(src, j) # "u" \/ unicodeEscapeEnd(src, j - 1) = NoValue THEN [e EXCEPT !.bad = TRUE]
    ELSE IF IsHighSurrogate(src, j + 1) /\ (j + 6) \div BlockBytes = j \div BlockBytes
         THEN [e EXCEPT !.skip = j + 6] ELSE e

\* The escape whose target is at j; the low half of a pair is skipped later.
EscapeAt(src, j, e) ==
    IF e.bad \/ j >= Len(src) THEN [e EXCEPT !.bad = TRUE]
    ELSE IF j = e.skip THEN e
    ELSE IF At(src, j) \in Escapable THEN e
    ELSE IF At(src, j) # "u" \/ unicodeEscapeEnd(src, j - 1) = NoValue THEN [e EXCEPT !.bad = TRUE]
    ELSE IF IsHighSurrogate(src, j + 1) THEN [e EXCEPT !.skip = j + 6] ELSE e

validBitmapEscapes(src, b, escInStr, skip) ==
    FoldLeft(LAMBDA e, i : EscapeAt(src, b * BlockBytes + i, e),
             [bad |-> FALSE, skip |-> skip], Ascending(escInStr, BlockBytes))

\* Block b of a chunk in turn: UTF-8 runs and escapes.  c is [bad, run, skip].
CheckBlock(src, c, rec, b) ==
    LET esc == validBitmapEscapes(src, b, rec.escInStr, c.skip)
    IN  IF c.bad \/ (rec.nonASCII /\ RunFails(src, c.run, b)) THEN [c EXCEPT !.bad = TRUE]
        ELSE [bad |-> esc.bad, run |-> IF rec.nonASCII THEN ExtendRun(c.run, b) ELSE c.run, skip |-> esc.skip]

CheckBlocks(src, run, skip, recs, b) ==
    FoldLeft(LAMBDA c, k : CheckBlock(src, c, recs[k], b + k - 1),
             [bad |-> FALSE, run |-> run, skip |-> skip], [k \in 1..Len(recs) |-> k])

\* The run that is still open at the end.
LastRunFails(src, run) ==
    /\ run.start >= 0
    /\ ~validUTF8Fast(src, run.start * BlockBytes, Min({run.end * BlockBytes, Len(src)}))

-----------------------------------------------------------------------------
(***************************************************************************)
(* The token grammar of stage 2 (stage2.go), shared by the validation and  *)
(* the index machine.                                                      *)
(***************************************************************************)

Class(c) ==
    CASE c = "{" -> "O" [] c = "[" -> "A" [] c = "}" -> "C" [] c = "]" -> "B"
      [] c = ":" -> "L" [] c = "," -> "M" [] c = "\"" -> "Q" [] OTHER -> "S"

\* The classes that may follow row prev; "Qk" is the quote of a key.
stage2PairGood(prev, inObj) ==
    CASE prev = "O" -> {"Q", "C"}
      [] prev = "A" -> {"O", "A", "Q", "S", "B"}
      [] prev \in {"C", "B", "Q", "S"} -> {"M", "C", "B"}
      [] prev = "M" /\ inObj -> {"Q"}
      [] prev = "Qk" -> {"L"}
      [] OTHER -> {"O", "A", "Q", "S"}       \* "L", "M" in an array, "start"

stage2EOFGood == {"C", "B", "Q", "S"}

isJSONSpaceOrStructural(src, i) == Has(src, i, Space \cup Structural)

\* A strict number or literal at j that ends at a token boundary.
validScalarTokenAt(src, j) ==
    LET c   == At(src, j)
        end == CASE c \in Digit \cup {"-"} -> scanNumberFast(src, j)
                 [] c = "t" -> literalFast(src, j, <<"t", "r", "u", "e">>)
                 [] c = "f" -> literalFast(src, j, <<"f", "a", "l", "s", "e">>)
                 [] c = "n" -> literalFast(src, j, <<"n", "u", "l", "l">>)
                 [] OTHER -> NoValue
    IN  end # NoValue /\ (end = Len(src) \/ isJSONSpaceOrStructural(src, end))

-----------------------------------------------------------------------------
(***************************************************************************)
(* What the positions of a text are, without blocks and carries.           *)
(***************************************************************************)

\* Byte i is escaped when an odd number of backslashes stands before it.
RefEscaped(src, i) ==
    LET run == CHOOSE k \in 0..i :
                   /\ \A b \in (i - k)..(i - 1) : At(src, b) = "\\"
                   /\ k = i \/ At(src, i - k - 1) # "\\"
    IN  run % 2 = 1

RefQuotes(src) == { i \in 0..(Len(src) - 1) : At(src, i) = "\"" /\ ~RefEscaped(src, i) }

\* Bytes in strings, opening quotes included: an odd number of quotes so far.
RefInString(src) ==
    LET quotes == RefQuotes(src)
    IN  { i \in 0..(Len(src) - 1) : Cardinality({ q \in quotes : q <= i }) % 2 = 1 }

\* Punctuation outside strings, opening quotes, and the first bytes of scalars.
RefEmit(src) ==
    LET quotes   == RefQuotes(src)
        inString == RefInString(src)
        outside  == ((0..(Len(src) - 1)) \ inString) \ quotes
        scalar   == { i \in (0..(Len(src) - 1)) \ inString : At(src, i) \notin Space \cup Structural \cup {"\""} }
    IN  { i \in outside : At(src, i) \in Structural } \cup { i \in scalar : i - 1 \notin scalar } \cup (quotes \cap inString)
=============================================================================
