---------------------------- MODULE MCPositions ----------------------------
(***************************************************************************)
(* The two position engines, on text cut into blocks of a few bytes.  A    *)
(* behaviour validates one text or builds the tape of one.  The engines    *)
(* share their text, stage 1 and its carries, never a behaviour.           *)
(***************************************************************************)
EXTENDS Naturals, Sequences, SequencesExt

CONSTANTS WordBytes, CoalesceBlocks

VARIABLES text, pc, block, stream, run, skipEscape,         \* of both
          numberMode, batch, positions, grammar, kinds,     \* ValidPositions'
          capacity, m, escape,                              \* IndexPositions'
          subject                                           \* "validate", "tape" or "marks"

shared     == <<text, pc, block, stream, run, skipEscape>>
validOnly  == <<numberMode, batch, positions, grammar, kinds>>
tapeOnly   == <<capacity, m, escape>>

\* All texts that start with start and go on with up to max pieces.
Family(start, pieces, max) == { start \o FlattenSeq(s) : s \in BoundedSeq(pieces, max) }

-----------------------------------------------------------------------------
(***************************************************************************)
(* "validate": blocks of four bytes, batches of two blocks.                *)
(***************************************************************************)
Tokens == { <<b>> : b \in {"[", "]", "{", "}", ",", ":", "1"} }

\* Containers and separators, at and beyond the nesting limit.
Structures == Family(<<>>, Tokens, 5) \cup Family(<<"[", "1">>, Tokens, 4)
         \cup Family(<<"{", "\"", "\"", ":">>, Tokens, 4)

\* Members of an object across batches.
Members == Family(<<"{", "\"", "a", "\"">>, {<<":">>, <<"1">>, <<",">>, <<"\"", "\"">>, <<"}">>, <<" ", " ">>}, 5)

\* Runs of backslashes and quotes.
Backslashes == Family(<<"\"">>, {<<"\\">>, <<"\\", "\\", "\\">>, <<"\"">>, <<"a">>}, 6)

\* Unicode escapes; pairs are longer than a block.
Escapes == Family(<<"\"">>, {<<"\\", "u", "D", "8", "0", "0">>, <<"\\", "u", "D", "C", "0", "0">>,
                             <<"\\", "u", "0", "0", "0", "0">>, <<"\\", "u", "D">>, <<"a">>, <<"\"">>}, 4)

\* Runes across blocks, with ASCII between them.
Runes == Family(<<"\"">>, {<<"C2">>, <<"80">>, <<"C2", "80">>, <<"a", "a", "a", "a">>, <<"a">>, <<"\"">>}, 4)

\* Scalars, spaces and control bytes across blocks.
Scalars == Family(<<"[">>, {<<"0">>, <<"1", "2">>, <<"-">>, <<".">>, <<"e">>, <<",">>, <<" ", " ">>, <<"]">>}, 4)
      \cup Family(<<" ", " ">>, {<<"t", "r", "u", "e">>, <<"n", "u", "l", "l">>, <<"f", "a", "l", "s", "e">>,
                                 <<"f", "a">>, <<"\n">>, <<"ctl">>, <<"\"">>}, 3)

ValidTexts == Structures \cup Members \cup Backslashes \cup Escapes \cup Runes \cup Scalars

-----------------------------------------------------------------------------
(***************************************************************************)
(* "tape": blocks of two bytes, so that every token meets every boundary.  *)
(***************************************************************************)

\* Objects, with keys that end in any place of a chunk.
MemberParts == {<<"\"", "\"">>, <<":">>, <<"1">>, <<",">>, <<"}">>}
Objects == Family(<<"{", "\"", "a", "\"">>, MemberParts, 5) \cup Family(<<"{", "\"", "\"", ":", "{">>, MemberParts, 4)
      \cup Family(<<" ", "{">>, MemberParts, 4)

\* Containers in each other, with members before and after.
Nested == Family(<<"[">>, {<<"[">>, <<"]">>, <<"{", "}">>, <<"1">>, <<",">>}, 5)
     \cup Family(<<"[", "[", "1", ",">>, {<<"[">>, <<"]">>, <<"1">>, <<",">>, <<" ">>}, 4)

\* Strings with and without escapes in one chunk, and over several.
StringTexts == Family(<<"[", "\"">>, {<<"\\", "\"">>, <<"\"", ",", "\"">>, <<"a">>, <<"a", "a", "a", "a">>, <<"\"", "]">>}, 5)
          \cup Family(<<"{", "\"", "a">>, {<<"\\", "\\">>, <<"a", "a", "a">>, <<"\"", ":", "\"">>, <<"\"", "}">>}, 5)

\* Every scalar, at the end of the text or of a chunk.
ScalarTexts == Family(<<"[">>, {<<"t", "r", "u", "e">>, <<"f", "a", "l", "s", "e">>, <<"n", "u", "l", "l">>, <<"0">>,
                                <<"-", "1", "2">>, <<".", "5">>, <<"e", "1">>, <<",">>, <<" ">>, <<"]">>}, 3)
          \cup Family(<<>>, {<<"t", "r", "u", "e">>, <<"0">>, <<"n", "u">>, <<"\"", "C2", "80", "\"">>, <<"\"", "C2">>,
                             <<"ctl">>, <<" ">>}, 3)

\* As many members as the bytes of the longest text allow.
Wide == { <<"[">> \o FlattenSeq([k \in 1..n |-> <<"1", ",">>]) \o <<"1", "]">> : n \in 0..9 }

TapeTexts == Objects \cup Nested \cup StringTexts \cup ScalarTexts \cup Wide

(***************************************************************************)
(* "marks": blocks of eight bytes with several strings in one block, each  *)
(* with or without escapes.                                                *)
(***************************************************************************)
MarkTexts == Family(<<"[", "\"">>, {<<"\\", "n">>, <<"\"", ",", "\"">>, <<"a">>, <<"a", "a", "a">>, <<"\"", "]">>}, 6)
        \cup Family(<<"{", "\"">>, {<<"\\", "n">>, <<"\"", ":", "\"">>, <<"\"", ",", "\"">>, <<"a">>, <<"\"", "}">>}, 5)

Tape == INSTANCE IndexPositions WITH
          Texts <- TapeTexts, Capacities <- {2, 16}, MaxDepth <- 3, BlockBytes <- 2, ChunkBlocks <- 2,
          IndexMaxDepth <- 2, SlabLen <- 4, MaxCount <- 12

Marks == INSTANCE IndexPositions WITH
          Texts <- MarkTexts, Capacities <- {16}, MaxDepth <- 3, BlockBytes <- 8, ChunkBlocks <- 2,
          IndexMaxDepth <- 2, SlabLen <- 4, MaxCount <- 16

Engine == INSTANCE ValidPositions WITH
          Texts <- ValidTexts, MaxDepth <- 2, BlockBytes <- 4, SampleBlocks <- 1, ChunkBlocks <- 1,
          BatchChunks <- 2, KindsLen <- 4, NineDigits <- 3

ASSUME Engine!BlockAssumption /\ Engine!EngineAssumption
ASSUME Tape!BlockAssumption /\ Marks!BlockAssumption
ASSUME Tape!IndexAssumption /\ Marks!IndexAssumption

-----------------------------------------------------------------------------
EngineRests ==
    /\ numberMode = "nine" /\ batch = 0 /\ positions = <<>>
    /\ grammar = Engine!Stage2Reset /\ kinds = [d \in 0..3 |-> FALSE]

TapeRests == capacity = 2 /\ m = Tape!Stage2IndexReset /\ escape = [entry |-> 0, seen |-> FALSE]

PositionsInit ==
    \/ subject = "validate" /\ Engine!Init /\ TapeRests
    \/ subject = "tape" /\ Tape!Init /\ EngineRests
    \/ subject = "marks" /\ Marks!Init /\ EngineRests

PositionsNext ==
    \/ subject = "validate" /\ Engine!Next /\ UNCHANGED <<tapeOnly, subject>>
    \/ subject = "tape" /\ Tape!Next /\ UNCHANGED <<validOnly, subject>>
    \/ subject = "marks" /\ Marks!Next /\ UNCHANGED <<validOnly, subject>>

PositionsSpec == PositionsInit /\ [][PositionsNext]_<<shared, validOnly, tapeOnly, subject>>

\* Each batch of the validator is handed the positions of the whole text that lie in it,
\* and the carry in front of a block is that of the text.
PositionsExact == subject = "validate" => Engine!PositionsExact

\* Whatever the position validator decides is what the grammar says.
EngineExact == Engine!EngineExact

\* The tape of the index engine is the tape of the document, and it declines only text
\* that is none, nests too deep or needs more storage.
TapeExact == Tape!TapeExact
=============================================================================
