----------------------------- MODULE TokenText -----------------------------
(***************************************************************************)
(* Documents as sequences of tokens, and what a tape over one should say.  *)
(*                                                                         *)
(* A string token is its spelling between the quotes, "num" is any other   *)
(* scalar, and "bad" stands for bytes that begin no value.  Offsets count  *)
(* tokens from zero.                                                       *)
(*                                                                         *)
(* The reference is written over positions, nesting levels and             *)
(* neighbouring tokens; no step of it is a step of a parser.               *)
(***************************************************************************)
EXTENDS Integers, Sequences, FiniteSets, FiniteSetsExt, SequencesExt

CONSTANTS Strings,      \* the spellings of strings
          Escaped       \* those that contain an escape sequence

Opener == {"{", "["}
Closer == {"}", "]"}
Scalar == Strings \cup {"num"}
Token  == Opener \cup Closer \cup Scalar \cup {",", ":", "bad"}

CloserOf(kind) == IF kind = "{" THEN "}" ELSE "]"

ASSUME TokenAssumption ==
    /\ Strings \cap (Opener \cup Closer \cup {",", ":", "num", "bad", "end"}) = {}
    /\ Escaped \subseteq Strings

-----------------------------------------------------------------------------
(***************************************************************************)
(* Nesting.  Level(d, k) counts the containers open just before offset k;  *)
(* Around(d, k) is the offset of the innermost of them.                    *)
(***************************************************************************)

Offsets(d) == 0..(Len(d) - 1)
T(d, k)    == d[k + 1]

Level(d, k) ==
    Cardinality({m \in 0..(k - 1) : T(d, m) \in Opener})
      - Cardinality({m \in 0..(k - 1) : T(d, m) \in Closer})

Around(d, k) ==
    Max({m \in 0..(k - 1) : T(d, m) \in Opener /\ Level(d, m) = Level(d, k) - 1})

InObject(d, k) == Level(d, k) > 0 /\ T(d, Around(d, k)) = "{"

\* A string behind "{", or behind a comma between members, is a name.
IsName(d, k) ==
    /\ T(d, k) \in Strings /\ k > 0 /\ InObject(d, k)
    /\ T(d, k - 1) \in {"{", ","}

EndsValue(d, k) == T(d, k) \in Closer \/ (T(d, k) \in Scalar /\ ~IsName(d, k))

\* Whether the token at offset k may follow the one before it.
Follows(d, k) ==
    LET t == T(d, k)  p == T(d, k - 1) IN
    \/ /\ t \in Opener \cup Scalar
       /\ p \in {":", "["} \/ (p = "," /\ ~InObject(d, k)) \/ IsName(d, k)
    \/ t = ":" /\ IsName(d, k - 1)
    \/ t = "," /\ EndsValue(d, k - 1)
    \/ /\ t \in Closer /\ t = CloserOf(T(d, Around(d, k)))
       /\ p \in Opener \/ EndsValue(d, k - 1)

\* Exactly one JSON value: one balanced run of tokens, every one of which
\* may follow its predecessor.
WellFormed(d) ==
    /\ d # <<>> /\ Head(d) \in Opener \cup Scalar
    /\ \A k \in 1..(Len(d) - 1) : Level(d, k) > 0
    /\ Level(d, Len(d)) = 0
    /\ \A k \in 1..(Len(d) - 1) : Follows(d, k)

-----------------------------------------------------------------------------
(***************************************************************************)
(* What a tape says.  Its entries are the offsets where a value or a name  *)
(* begins, in order; an entry owns the tokens up to where the nesting      *)
(* level is first back at its own.                                         *)
(***************************************************************************)

Begins(d) == {k \in Offsets(d) : T(d, k) \in Opener \cup Scalar}

EndOf(d, k) ==
    IF T(d, k) \in Scalar THEN k + 1
    ELSE Min({j \in (k + 1)..Len(d) : Level(d, j) = Level(d, k)})

\* The offsets of the elements, or of the member values, of container k.
Children(d, k) ==
    {m \in Begins(d) : /\ k < m /\ m < EndOf(d, k)
                       /\ Level(d, m) = Level(d, k) + 1 /\ ~IsName(d, m)}

Nesting(d) == Max({Level(d, k) : k \in 0..Len(d)})

KindOf(t) == IF t \in Strings THEN "string" ELSE t

RefEntry(d, k) ==
    [start |-> k, end |-> EndOf(d, k),
     next  |-> Cardinality(Begins(d) \cap k..(EndOf(d, k) - 1)),
     count |-> IF T(d, k) \in Opener THEN Cardinality(Children(d, k)) ELSE 0,
     kind  |-> KindOf(T(d, k)),
     flags |-> (IF T(d, k) \in Escaped THEN {"escaped"} ELSE {})
                 \cup (IF IsName(d, k) THEN {"key"} ELSE {})]

RefTape(d) ==
    LET at == SelectSeq([k \in 1..Len(d) |-> k - 1], LAMBDA k : k \in Begins(d))
    IN  [n \in 1..Len(at) |-> RefEntry(d, at[n])]
=============================================================================
