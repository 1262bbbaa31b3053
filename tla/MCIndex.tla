------------------------------ MODULE MCIndex ------------------------------
(***************************************************************************)
(* The index: its builders, its readers, the lookups over text that need   *)
(* no index, and the probe of one object.  A behaviour builds the tape of  *)
(* one document of a family, or builds probes.                             *)
(***************************************************************************)
EXTENDS RawLookup, ObjectProbe

CONSTANTS AllUpTo, Alphabet, MaxMembers

VARIABLE subject    \* "build", "lookup", "raw" or "probe"

\* "e" spells "a" with an escape; "a" and "b" collide, and so do "e" and "c".
MCText == [s \in Strings |-> IF s = "e" THEN "a" ELSE s]
MCHash == [s \in Strings |-> IF s \in {"a", "b"} THEN 0 ELSE 1]

\* The members of an object, or the elements of an array, joined by commas.
Join(parts) == FoldLeft(LAMBDA s, p : IF s = <<>> THEN p ELSE s \o <<",">> \o p, <<>>, parts)
Member(s, v) == <<s, ":">> \o v
Object(parts) == <<"{">> \o Join(parts) \o <<"}">>
Array(parts)  == <<"[">> \o Join(parts) \o <<"]">>
Num == <<"num">>
Times(n, v) == Array([k \in 1..n |-> v])

-----------------------------------------------------------------------------
(***************************************************************************)
(* "build": every token sequence up to AllUpTo tokens, longer documents    *)
(* with each of their tokens dropped or replaced in turn, and documents at *)
(* and past the limits on elements and on length.                          *)
(***************************************************************************)
Longer ==
    { <<"{", "a", ":", "num", "}">>,
      <<"[", "a", ",", "num", ",", "a", "]">>,
      <<"[", "[", "[", "]", "]", "]">>,
      <<"[", "[", "a", "]", ",", "[", "]", "]">>,
      <<"[", "[", "[", "[", "]", "]", "]", "]">>,
      <<"{", "a", ":", "num", ",", "e", ":", "a", "}">>,
      <<"{", "a", ":", "{", "a", ":", "num", "}", "}">>,
      <<"{", "a", ":", "[", "a", ",", "num", "]", ",", "e", ":", "{", "}", "}">>,
      <<"[", "{", "a", ":", "[", "]", "}", ",", "num", "]">>,
      Times(5, Num), Times(6, Num) }

Widest(n) == Array(<<Times(5, Num), Times(n, Num)>>)
AtLimits ==
    { Widest(4), Widest(5), Widest(4) \o Num, Array(<<Times(6, Num)>>),
      Object([m \in 1..5 |-> Member("a", Num)]), Object([m \in 1..6 |-> Member("a", Num)]) }

Dropped(d)  == { SubSeq(d, 1, k - 1) \o SubSeq(d, k + 1, Len(d)) : k \in 1..Len(d) }
Replaced(d) == { [d EXCEPT ![k] = t] : k \in 1..Len(d), t \in {"]", "}", "{", ",", "a", "bad"} }

BuildDocs ==
    UNION { [1..n -> Alphabet] : n \in 0..AllUpTo }
      \cup Longer \cup AtLimits \cup UNION { Dropped(d) \cup Replaced(d) : d \in Longer }

-----------------------------------------------------------------------------
(***************************************************************************)
(* "lookup": objects whose names collide in every way, by equal text       *)
(* spelled plainly or with an escape, by equal hashes of different texts,  *)
(* and by repetition; flat and nested, alone and in an array.              *)
(***************************************************************************)
Values == { Num, <<"a">>, <<"{", "}">>, <<"[", "num", "]">> }

FlatObject(names) == Object([m \in DOMAIN names |-> Member(names[m], Num)])

\* One group of four members and one more, and every shorter object.
FlatObjects ==
    { FlatObject(names) : names \in UNION {[1..n -> Strings] : n \in 0..3} }
    \cup { FlatObject(names) : names \in [1..5 -> Strings \ {"c"}] }

MixedObjects ==
    { Object(<<Member(s, v), Member(t, w), Member("a", Num)>>) :
        s \in Strings, t \in Strings, v \in Values, w \in Values }

Arrays ==
    { Array(<<v, w>>) : v \in Values, w \in Values }
    \cup { Array(<<Object(<<Member(s, v)>>), w, Object(<<Member("b", v), Member(s, w)>>)>>) :
             s \in Strings, v \in Values, w \in Values }

LookupDocs == FlatObjects \cup MixedObjects \cup Arrays \cup Values

-----------------------------------------------------------------------------
(***************************************************************************)
(* "raw": repeated members that lead to a target, to nothing or to an      *)
(* array with no such index; containers long enough to span blocks; text   *)
(* that breaks off, or breaks the grammar, before, in and behind a target. *)
(***************************************************************************)
Inner == { Num, Array(<<>>), Array(<<Num, Num>>), Object(<<Member("b", Num)>>),
           Object(<<Member("a", Array(<<>>)), Member("b", Array(<<Num>>))>>) }

Duplicates ==
    { Object(<<Member(s, v), Member(t, w)>>) : s \in {"a", "e"}, t \in {"a", "b"}, v \in Inner, w \in Inner }
    \cup { Object(<<Member("a", v), Member("b", w), Member("e", v)>>) : v \in Inner, w \in Inner }

Lists == { Array(<<v, w>>) : v \in Inner, w \in Inner } \cup { Array(<<v, w, Num>>) : v \in Inner, w \in Inner }

Deep  == { Array(<<Array(<<Array(<<>>)>>)>>), Array(<<Array(<<Array(<<Array(<<>>)>>)>>)>>),
           Object(<<Member("a", Array(<<Array(<<Array(<<Num>>)>>)>>)), Member("a", Num)>>),
           Array(<<Array(<<>>), Array(<<Array(<<>>)>>), Array(<<Array(<<Array(<<>>)>>)>>)>>) }

Broken ==
    LET d == Object(<<Member("a", Array(<<Num>>)), Member("b", Object(<<Member("a", Num)>>))>>)
    IN  { SubSeq(d, 1, n) : n \in 0..(Len(d) - 1) }
        \cup { [d EXCEPT ![n] = t] : n \in DOMAIN d, t \in {"bad", ",", "]", "}", "num", "a"} }
        \cup { d \o <<t>> : t \in {"num", "]"} }

RawDocs == Duplicates \cup Lists \cup Deep \cup Broken \cup Inner

MCDocs == BuildDocs \cup LookupDocs \cup RawDocs

-----------------------------------------------------------------------------
(***************************************************************************)
(* "probe": names that share a slot of the table ("a", "b" and, one slot   *)
(* on, "c").  The value of a member named "c" has a subtree of its own.    *)
(***************************************************************************)
MCProbeHash == [s \in Strings |-> CASE s = "b" -> 15 [] s = "c" -> 8 [] OTHER -> 7]

MCProbeObjects ==
    { [m \in 1..n |-> [name |-> names[m], next |-> IF names[m] = "c" THEN 3 ELSE 1,
                       at   |-> 2 * m - 1 + 2 * Cardinality({j \in 1..(m - 1) : names[j] = "c"})]] :
        n \in 0..MaxMembers, names \in [1..MaxMembers -> Strings] }

ASSUME ProbeAssumption

-----------------------------------------------------------------------------
IndexInit ==
    /\ ProbeInit
    /\ \/ subject = "build" /\ Init /\ doc \in BuildDocs
       \/ subject = "lookup" /\ Init /\ doc \in LookupDocs /\ cap \in {4, MaxOffset}
       \/ subject = "raw" /\ Init /\ doc \in RawDocs /\ cap = MaxOffset /\ ~hashKeys
       \/ subject = "probe" /\ Init /\ doc = <<>> /\ cap = 1 /\ ~hashKeys

IndexNext ==
    \/ subject # "probe" /\ Next /\ UNCHANGED <<probeVars, subject>>
    \/ subject = "probe" /\ ProbeNext /\ UNCHANGED <<vars, subject>>

IndexSpec == IndexInit /\ [][IndexNext]_<<vars, probeVars, subject>> /\ WF_vars(subject # "probe" /\ Next)

\* BuildIndex returns.
BuildReturns == subject # "probe" => Terminates

\* The lookups over text are exact, trusted or not, last match or first: GetRaw,
\* ScanFirstRaw and their trusted forms.
RawExact == subject = "raw" => GetRawExact /\ ScanFirstExact

\* EachArray and EachObject give the callback every child once and in order, up to the
\* one it fails on, and report the error of a text that is not valid.
LoopsExact == subject = "raw" => EachExact
=============================================================================
