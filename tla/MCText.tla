------------------------------- MODULE MCText -------------------------------
(***************************************************************************)
(* Text in and out: the scanners side by side on a text that grows piece   *)
(* by piece, and the two interfaces a program drives call by call, the     *)
(* cursor over a value and the Writer.  They share no state, so a          *)
(* behaviour exercises one of them and leaves the others as they began.    *)
(***************************************************************************)
EXTENDS Writer, ScannerAgreement, SequencesExt

VARIABLES mode, doc, i, depth, first, open, turn, seen, entered, fault   \* Cursor's
VARIABLE subject    \* "writer", "cursor" or "scanners"

walkVars == <<mode, doc, i, depth, first, open, turn, seen, entered, fault>>

-----------------------------------------------------------------------------
(***************************************************************************)
(* "scanners": families of texts.                                          *)
(***************************************************************************)
Singles(S) == { <<b>> : b \in S }

\* Containers and separators, with one number to put in them.
Structure == [start |-> <<>>, max |-> 6,
              pieces |-> Singles({"[", "]", "{", "}", ",", ":", "1", " "})]

\* Numbers, alone and run together.
Numbers == [start |-> <<>>, max |-> 6,
            pieces |-> Singles({"-", "+", "0", "1", ".", "e", " "})]

\* Literals, whole and cut.
Literals == [start |-> <<>>, max |-> 7,
             pieces |-> Singles({"n", "u", "l", "[", ","}) \cup
                        {<<"t">>, <<"r", "u">>, <<"f", "a", "l">>, <<"s">>, <<"e">>}]

\* StringFamily: simple escapes, runes and control bytes, whole and cut.
StringFamily == [start |-> <<"\"">>, max |-> 6,
            pieces |-> Singles({"\"", "\\", "a", "n", "u", "ctl", "C2", "80"})]

\* Unicode escapes and surrogate pairs, whole and cut.
Escapes == [start |-> <<"\"">>, max |-> 14,
            pieces |-> {<<"\"">>, <<"\\", "u">>, <<"D", "8">>, <<"D", "C">>, <<"0", "0">>}]

\* StringFamily inside a container.
Nested == [start |-> <<"[", "\"">>, max |-> 7,
           pieces |-> Singles({"\"", "\\", "]", "[", ",", "C2", "80"})]

\* An object and its members, past the depth the others reach.
Members == [start |-> <<"{", "\"">>, max |-> 8,
            pieces |-> {<<"\"">>, <<":">>, <<"1">>, <<",">>, <<"}">>, <<"\"", ":", "[">>, <<"]">>}]

\* Containers at the nesting limit, which is 9, and the texts that close them again.
Deep == [start |-> <<"[", "[", "[", "[", "[", "[", "[", "{", "\"", "\"", ":">>, max |-> 23,
         pieces |-> {<<"[">>, <<"{">>, <<"]">>, <<"}">>, <<"[", "]">>, <<"{", "}">>,
                     <<"}", "]", "]", "]", "]", "]", "]", "]">>,
                     <<"]", "}", "]", "]", "]", "]", "]", "]", "]">>}]

TextFamilies == {Structure, Numbers, Literals, StringFamily, Escapes, Nested, Members, Deep}

TextCompletions == { <<"0">>, <<":">>, <<"]">>, <<"}">>, <<"\"">>, <<"80">>, <<"e">>, <<"l">>, <<"l", "l">>, <<"u", "l", "l">>,
                   <<"r", "u", "e">>, <<"u", "e">>, <<"s", "e">>, <<"l", "s", "e">>, <<"a", "l", "s", "e">>,
                   <<"0", "0">>, <<"0", "0", "0">>, <<"0", "0", "0", "0">>,
                   <<"\\", "u", "D", "C", "0", "0">>, <<"u", "D", "C", "0", "0">>,
                   <<"D", "C", "0", "0">>, <<"C", "0", "0">> }

-----------------------------------------------------------------------------
(***************************************************************************)
(* "cursor": documents with white space in every gap or in none, each     *)
(* kind of scalar, and each one damaged in every place.                    *)
(***************************************************************************)
Spread(d) == FlattenSeq([n \in DOMAIN d |-> <<"sp", d[n]>>])
Spaced(d, gaps) == FlattenSeq([n \in DOMAIN d |-> IF n \in gaps THEN <<"sp", d[n]>> ELSE <<d[n]>>])

Scalars == { <<t>> : t \in {"s", "l", "e", "q", "int", "neg", "frac", "big", "true", "null"} }

Whole ==
    Scalars
    \cup { <<"[">> \o v \o <<",">> \o w \o <<"]">> : v \in Scalars, w \in {<<"int">>, <<"{", "}">>} }
    \cup { <<"{", s, ":">> \o v \o <<"}">> : s \in {"s", "l", "e", "q"}, v \in {<<"null">>, <<"[", "]">>, <<"[", "[", "]", "]">>} }
    \cup { <<"{", "s", ":", "[", "int", ",", "{", "}", "]", ",", t, ":", "frac", "}">> : t \in {"s", "l"} }

Sample == <<"{", "s", ":", "[", "int", ",", "true", "]", ",", "e", ":", "null", "}">>
Places == UNION {{ {}, {n}, DOMAIN Sample } : n \in DOMAIN Sample }

Damaged ==
    { SubSeq(Sample, 1, n) : n \in DOMAIN Sample }
    \cup { [Sample EXCEPT ![n] = t] : n \in DOMAIN Sample, t \in {"bad", "badstr", ",", ":", "]", "}", "[", "s"} }
    \cup { <<"[", "int", ",", "]">>, <<"[", ",", "int", "]">>, <<"{", ",", "s", ":", "int", "}">>,
           <<"{", "s", ":", "int", ",", "}">>, <<"[", "int", "sp", "int", "]">>, <<"int", "sp", "int">>,
           <<"[", "[", "[", "[", "]", "]", "]", "]">>, <<"[", "]", "]">>, <<"sp">> }

WalkDocs ==
    { <<>> } \cup Whole \cup { Spread(d) : d \in Whole } \cup { Spread(d) \o <<"sp">> : d \in Whole }
    \cup { Spaced(d, 2..Len(d)) : d \in Whole } \cup { Spaced(Sample, g) : g \in Places }
    \cup Damaged \cup { Spread(d) : d \in Damaged }

Walk == INSTANCE Cursor WITH
          MaxDepth <- 3, Docs <- WalkDocs, Strings <- {"s", "l", "e", "q"}, Escaped <- {"e"}

ASSUME Walk!CursorAssumption

-----------------------------------------------------------------------------
ScansRest == src = <<>> /\ family = Structure /\ slack = 0

TextInit ==
    /\ NewWriter
    /\ \/ subject = "scanners" /\ NewText /\ Walk!Init /\ doc = <<>> /\ mode = "cursor"
       \/ subject = "cursor" /\ Walk!Init /\ ScansRest
       \/ subject = "writer" /\ Walk!Init /\ doc = <<>> /\ mode = "cursor" /\ ScansRest

TextNext ==
    \/ subject = "scanners" /\ TypeMore /\ UNCHANGED <<vars, walkVars, subject>>
    \/ subject = "cursor" /\ Walk!Next /\ UNCHANGED <<vars, textVars, subject>>
    \/ subject = "writer" /\ Next /\ UNCHANGED <<walkVars, textVars, subject>>

TextSpec == TextInit /\ [][TextNext]_<<vars, walkVars, textVars, subject>>

\* A walk of valid text hands out every value of the containers it entered, once and in
\* order, whatever the program reads, skips or tries in vain: NextField, NextElement, Skip.
WalkExact == Walk!WalkExact

\* Only a walk of one whole, valid value ends in a Finish without error, and
\* valid text fails neither for its syntax nor for its depth.
WalkVerdict == Walk!WalkVerdict
=============================================================================
