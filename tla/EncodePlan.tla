----------------------------- MODULE EncodePlan -----------------------------
(***************************************************************************)
(* The encode plan CompileEncoder builds for one Go type: the field        *)
(* program of every struct, and which values lose a method when they       *)
(* cannot be addressed.                                                    *)
(*                                                                         *)
(* A type may have a method MarshalJSON, with a value or a pointer         *)
(* receiver; MethodOutput(t) is what it returns.                           *)
(* Output is a sequence of tokens; a literal of the program is one too.    *)
(***************************************************************************)
EXTENDS TypedPlan

Comma == <<",">>
OpenBrace == <<"{">>
CloseBrace == <<"}">>
NameToken(k) == <<"name", k>>

Method(t) == IF "method" \in DOMAIN Layout[t] THEN Layout[t].method ELSE "none"
MethodOutput(t) == Layout[t].output
Scalar(t) == Kind(t) \in {"scalar", "text"} /\ Method(t) = "none"

(***************************************************************************)
(* fuseSimpleStructFields.  A struct is simple when each of its members is *)
(* always written.  A simple struct of scalars inside a simple struct has  *)
(* its members spliced into the outer program: its brace and first name    *)
(* become one literal, its closing brace waits for the next literal or the *)
(* close.  Every literal starts with a comma, which the first one of a     *)
(* program loses.                                                          *)
(***************************************************************************)
EncodedField(f) ==
  [literal |-> <<Comma, NameToken(f.name)>>, node |-> f.node, path |-> f.path, hops |-> f.hops,
   omit |-> IF f.omit \in {"omitempty", "omitzero"} THEN f.omit ELSE "",
   quoted |-> f.quoted /\ (Scalar(f.node) \/ (Kind(f.node) = "pointer" /\ Scalar(Elem(f.node))))]
EncodeFields(t) == [i \in DOMAIN Fields[t] |-> EncodedField(Fields[t][i])]

Simple(t) ==
  /\ ~HasInline(t)
  /\ \A f \in ToSet(EncodeFields(t)) : f.hops = << >> /\ f.omit = ""

Leaf(f) == f.quoted \/ Scalar(f.node) \/ (Kind(f.node) = "bytes" /\ Method(f.node) = "none")

\* Mutant: the closing brace of a spliced struct is forgotten when another follows.
SpliceDropsClose(acc, f, child) ==
  IF child.fields = << >>
  THEN [acc EXCEPT !.pending = @ \o f.literal \o <<OpenBrace>> \o child.close]
  ELSE [acc EXCEPT !.fields = @ \o [j \in DOMAIN child.fields |->
                     [child.fields[j] EXCEPT !.path = f.path \o @,
                        !.literal = IF j = 1 THEN f.literal \o <<OpenBrace>> \o @ ELSE @]],
                   !.pending = child.close]

Splice(acc, f, child) ==
  IF child.fields = << >>
  THEN [acc EXCEPT !.pending = @ \o f.literal \o <<OpenBrace>> \o child.close]
  ELSE [acc EXCEPT !.fields = @ \o [j \in DOMAIN child.fields |->
                     [child.fields[j] EXCEPT !.path = f.path \o @,
                        !.literal = IF j = 1 THEN acc.pending \o f.literal \o <<OpenBrace>> \o @ ELSE @]],
                   !.pending = child.close]

(* `child' is the program of the struct the member holds. *)
Fusable(f, child) ==
  /\ Kind(f.node) = "struct" /\ Method(f.node) = "none" /\ child.simple
  /\ \A i \in DOMAIN child.fields : Leaf(child.fields[i])

Fuse(acc, f, child) ==
  IF Fusable(f, child)
  THEN [Splice(acc, f, child) EXCEPT !.extra = IF child.extra + 1 > @ THEN child.extra + 1 ELSE @]
  ELSE [acc EXCEPT !.fields = Append(@, [f EXCEPT !.literal = acc.pending \o @]), !.pending = << >>]

WithoutComma(f) == [f EXCEPT !.literal = Tail(@)]
Fused(acc) ==
  [simple |-> TRUE, close |-> Append(acc.pending, CloseBrace), extra |-> acc.extra,
   fields |-> IF acc.fields = << >> THEN << >> ELSE <<WithoutComma(Head(acc.fields))>> \o Tail(acc.fields)]

RECURSIVE Program(_)
Program(t) ==
  IF Simple(t)
  THEN Fused(FoldLeft(LAMBDA acc, f : Fuse(acc, f, Program(f.node)),
                      [fields |-> << >>, pending |-> << >>, extra |-> 0], EncodeFields(t)))
  ELSE [simple |-> FALSE, fields |-> EncodeFields(t), close |-> <<CloseBrace>>, extra |-> 0]
EncodeProgram == [t \in StructTypes |-> Program(t)]

(***************************************************************************)
(* computeEncPtrMarshaler: a pointer-receiver method that is out of reach  *)
(* when the value cannot be addressed, here or in a part held by value.    *)
(***************************************************************************)
RECURSIVE HasPtrMarshaler(_)
HasPtrMarshaler(t) ==
  \/ Method(t) = "pointer"
  \/ /\ Method(t) = "none" /\ Kind(t) = "struct"
     /\ \E f \in ToSet(EncodeProgram[t].fields) : f.hops = << >> /\ HasPtrMarshaler(f.node)
  \/ Method(t) = "none" /\ Kind(t) = "array" /\ HasPtrMarshaler(Elem(t))
=============================================================================
