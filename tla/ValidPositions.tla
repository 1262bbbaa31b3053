--------------------------- MODULE ValidPositions ---------------------------
(***************************************************************************)
(* The streamed validator of large documents (valid_positions.go): stage 1 *)
(* writes the positions of a few chunks, the grammar machine of stage 2    *)
(* reads them, and the scalars among them are checked afterwards.  Nothing *)
(* is kept from one batch to the next but a handful of registers.          *)
(*                                                                         *)
(* A step is one chunk of blocks, one batch of positions, the tail, or the *)
(* final verdict.  What the density sample decides, whether the engine     *)
(* runs and which shortcut numbers get, is a choice: its thresholds are    *)
(* tuned for speed, and the verdict must not depend on them.               *)
(***************************************************************************)
EXTENDS Stage1

CONSTANTS Texts,
          SampleBlocks, ChunkBlocks, BatchChunks,   \* 32, 32, 4
          KindsLen,                                 \* Stage2KindsLen
          NineDigits                                \* the digits vbNumberNine probes

EngineAssumption ==
    /\ {SampleBlocks, ChunkBlocks, BatchChunks, NineDigits} \subseteq Nat \ {0}
    /\ KindsLen \in Nat /\ KindsLen > MaxDepth

VARIABLES
    text,
    pc,             \* "sample", "blocks", "finish"; then "valid", "invalid" or "undecided"
    numberMode,     \* vbNumberNine or vbNumberShort
    batch, block,   \* the first block of the batch, the next one to classify
    stream,         \* Stage1IndexStream
    positions,      \* of the batch, so far
    grammar, kinds, \* Stage2State and its slab
    run, skipEscape

vars == <<text, pc, numberMode, batch, block, stream, positions, grammar, kinds, run, skipEscape>>

Size == Len(text)
FullBlocks == Size \div BlockBytes
HasTail == FullBlocks * BlockBytes # Size

-----------------------------------------------------------------------------
(***************************************************************************)
(* Stage2PositionsTrusted.  The machine knows from its label which tokens  *)
(* the last one may be followed by and takes those without the pair table; *)
(* any other goes through the table (handleKnown).  A violation is sticky  *)
(* and the machine runs on.  Registers: row and inObj are PrevRowIO.       *)
(***************************************************************************)
Stage2Reset == [bad |-> FALSE, depth |-> 0, row |-> "start", inObj |-> FALSE, key |-> FALSE]

Fused(label) ==
    CASE label = "key"        -> {"Q"}
      [] label = "colon"      -> {"L"}
      [] label = "value"      -> {"Q", "O", "A", "S"}
      [] label = "comma"      -> {"M", "C"}
      [] label = "arrayComma" -> {"M", "B"}
      [] label = "arrayValue" -> {"Q", "O", "A", "S"}
      [] OTHER                -> {}                     \* "dispatch"

AfterValue(inObj, depth) == IF inObj THEN "comma" ELSE IF depth > 0 THEN "arrayComma" ELSE "dispatch"

\* handleKnown: the rules a token outside the expected ones is held to.
Violates(m, c) ==
    \/ c \notin stage2PairGood(m.row, m.inObj)
    \/ c = "C" /\ ~m.inObj
    \/ c = "B" /\ m.inObj
    \/ c = "M" /\ m.depth = 0

Open(m, c) ==
    [m EXCEPT !.depth = @ + 1, !.bad = @ \/ m.depth + 1 > MaxDepth,
              !.kinds = [@ EXCEPT ![(m.depth + 1) % KindsLen] = (c = "O")],
              !.inObj = (c = "O"), !.row = c, !.key = (c = "O"),
              !.label = IF c = "O" THEN "key" ELSE "arrayValue"]

Close(m, c) ==
    LET outer == m.kinds[(m.depth - 1) % KindsLen]
    IN  [m EXCEPT !.depth = @ - 1, !.bad = @ \/ m.depth - 1 < 0,
                  !.inObj = outer, !.row = c, !.key = FALSE, !.label = AfterValue(outer, m.depth - 1)]

Comma(m) ==
    [m EXCEPT !.row = "M", !.key = m.inObj,
              !.label = IF m.inObj THEN "key" ELSE IF m.depth > 0 THEN "arrayValue" ELSE "dispatch"]

\* The key register is not cleared when a key was expected.
Quote(m) ==
    [m EXCEPT !.row = IF m.key THEN "Qk" ELSE "Q", !.key = (m.label = "key"),
              !.label = IF m.key THEN "colon" ELSE AfterValue(m.inObj, m.depth)]

Scalar(m, j) ==
    [m EXCEPT !.scalars = Append(@, j), !.row = "S", !.key = FALSE, !.label = AfterValue(m.inObj, m.depth)]

Token(m, j) ==
    LET c == Class(At(text, j))
        h == IF c \in Fused(m.label) THEN m ELSE [m EXCEPT !.bad = @ \/ Violates(m, c)]
    IN  CASE c \in {"O", "A"} -> Open(h, c)
          [] c \in {"C", "B"} -> Close(h, c)
          [] c = "L" -> [h EXCEPT !.row = "L", !.key = FALSE, !.label = IF m.label = "colon" THEN "value" ELSE "dispatch"]
          [] c = "M" -> Comma(h)
          [] c = "Q" -> Quote(h)
          [] OTHER   -> Scalar(h, j)

\* A call: the label is not part of the state and starts at dispatch.
Stage2PositionsTrusted(ps) ==
    LET start == [label |-> "dispatch", bad |-> grammar.bad, depth |-> grammar.depth, row |-> grammar.row,
                  inObj |-> grammar.inObj, key |-> grammar.key, kinds |-> kinds, scalars |-> <<>>]
    IN  FoldLeft(Token, start, ps)

Registers(m) == [bad |-> m.bad, depth |-> m.depth, row |-> m.row, inObj |-> m.inObj, key |-> m.key]

Stage2Finish == ~grammar.bad /\ grammar.row \in stage2EOFGood /\ grammar.depth = 0

\* The digits from j on, up to k of them, when k bytes are there.
Digits(j, k) == IF SpanEnd(text, j, Digit) - j > k THEN k ELSE SpanEnd(text, j, Digit) - j

\* Short numbers are recognised by their first bytes; all else is scanned.
validScalarTokenAtMode(j) ==
    LET width == Digits(j, 4)
        short == /\ numberMode = "short" /\ At(text, j) \in Digit /\ j + 4 <= Size
                 /\ width \in 1..3 /\ (At(text, j) = "0" => width = 1)
                 /\ isJSONSpaceOrStructural(text, j + width)
        nine  == /\ numberMode = "nine" /\ At(text, j) \in OneNine /\ j + NineDigits <= Size
                 /\ Digits(j, NineDigits) = NineDigits
                 /\ j + NineDigits = Size \/ isJSONSpaceOrStructural(text, j + NineDigits)
    IN  short \/ nine \/ validScalarTokenAt(text, j)

-----------------------------------------------------------------------------
Init ==
    /\ text \in Texts
    /\ pc = "sample" /\ numberMode = "nine"
    /\ batch = 0 /\ block = 0 /\ stream = StreamStart /\ positions = <<>>
    /\ grammar = Stage2Reset /\ kinds = [d \in 0..(KindsLen - 1) |-> FALSE]
    /\ run = NoRun /\ skipEscape = -1

\* validPositionsSample classifies the first blocks with a stream of its own.
Sample ==
    /\ pc = "sample"
    /\ \E recs \in {Stage1Blocks(text, 0, SampleBlocks, StreamStart)} :
        \/ /\ Size < SampleBlocks * BlockBytes
           /\ pc' = "undecided" /\ UNCHANGED numberMode
        \/ /\ Size >= SampleBlocks * BlockBytes /\ Last(recs).stream.bad
           /\ pc' = "invalid" /\ UNCHANGED numberMode
        \/ /\ Size >= SampleBlocks * BlockBytes /\ ~Last(recs).stream.bad
           /\ \/ pc' = "undecided" /\ UNCHANGED numberMode
              \/ pc' = "blocks" /\ numberMode' \in {"nine", "short"}
    /\ UNCHANGED <<text, batch, block, stream, positions, grammar, kinds, run, skipEscape>>

BatchEnd == Min({batch + BatchChunks * ChunkBlocks, FullBlocks})

\* One chunk of full blocks, classified with the carry of the blocks before it.
ChunkFrom(carry) ==
    /\ pc = "blocks" /\ block < BatchEnd
    /\ \E count \in {Min({ChunkBlocks, BatchEnd - block})} :
       \E recs \in {Stage1Blocks(text, block, count, carry)} :
       \E checks \in {CheckBlocks(text, run, skipEscape, recs, block)} :
          /\ stream' = Last(recs).stream
          /\ positions' = positions \o PositionsOf([k \in DOMAIN recs |-> recs[k].emit], block)
          /\ block' = block + count
          /\ run' = checks.run /\ skipEscape' = checks.skip
          /\ pc' = IF checks.bad THEN "invalid" ELSE pc
    /\ UNCHANGED <<text, numberMode, batch, grammar, kinds>>

\* Mutant: a chunk starts as if in front of it there were nothing.
ChunkFresh == ChunkFrom(StreamStart)

Chunk == ChunkFrom(stream)

\* consume: the grammar, then the scalars.
ConsumePositions(ps, then) ==
    \E m \in {Stage2PositionsTrusted(ps)} :
        /\ grammar' = Registers(m) /\ kinds' = m.kinds
        /\ pc' = IF m.bad \/ \E k \in DOMAIN m.scalars : ~validScalarTokenAtMode(m.scalars[k])
                 THEN "invalid" ELSE then

Consume ==
    /\ pc = "blocks" /\ batch < FullBlocks /\ block = BatchEnd
    /\ ConsumePositions(positions, pc)
    /\ batch' = block /\ positions' = <<>>
    /\ UNCHANGED <<text, numberMode, block, stream, run, skipEscape>>

\* The bytes behind the last full block, padded with spaces.
ConsumeTail ==
    /\ pc = "blocks" /\ batch = FullBlocks /\ HasTail
    /\ \E recs \in {Stage1Blocks(text, FullBlocks, 1, stream)} :
       \E checks \in {CheckBlocks(text, run, skipEscape, recs, FullBlocks)} :
          /\ stream' = Last(recs).stream
          /\ run' = checks.run /\ skipEscape' = checks.skip
          /\ IF checks.bad THEN pc' = "invalid" /\ UNCHANGED <<grammar, kinds>>
             ELSE ConsumePositions(PositionsOf(<<recs[1].emit>>, FullBlocks), "finish")
    /\ UNCHANGED <<text, numberMode, batch, block, positions>>

NoTail ==
    /\ pc = "blocks" /\ batch = FullBlocks /\ ~HasTail
    /\ pc' = "finish"
    /\ UNCHANGED <<text, numberMode, batch, block, stream, positions, grammar, kinds, run, skipEscape>>

Finish ==
    /\ pc = "finish"
    /\ pc' = IF stream.bad \/ stream.inString \/ ~Stage2Finish \/ LastRunFails(text, run)
             THEN "invalid" ELSE "valid"
    /\ UNCHANGED <<text, numberMode, batch, block, stream, positions, grammar, kinds, run, skipEscape>>

Next == Sample \/ Chunk \/ Consume \/ ConsumeTail \/ NoTail \/ Finish

Spec == Init /\ [][Next]_vars

-----------------------------------------------------------------------------
(***************************************************************************)
(* Properties.                                                             *)
(***************************************************************************)

\* The positions of a batch are those of the whole text that lie in it, and
\* the carried state is that of the byte in front of the next block: blocks
\* never show, wherever a run of backslashes, a string, a scalar or a quote
\* crosses from one into another.
PositionsExact ==
    pc = "blocks" =>
        /\ positions = Ascending({ i \in RefEmit(text) : i >= batch * BlockBytes }, block * BlockBytes)
        /\ block > 0 /\ block < FullBlocks => stream.inString = (block * BlockBytes - 1 \in RefInString(text))

\* Once the engine has decided, it has decided what the grammar says, in
\* whatever batches the text was read and whichever way numbers were checked.
EngineExact == pc \in {"valid", "invalid"} => (pc = "valid") = IsDocument(text)
=============================================================================
