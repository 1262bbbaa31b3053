----------------------------- MODULE TypedValue -----------------------------
(***************************************************************************)
(* Values as trees, and one call of a compiled Decoder on a destination.   *)
(***************************************************************************)
EXTENDS TypedDecode

(* The destination starts at word 1. *)
Dst == 1

(***************************************************************************)
(* What a value reads as: a tree.  A slice reads to its capacity, since    *)
(* merging decodes over the elements behind its length; `Visible' drops    *)
(* them again.                                                             *)
(***************************************************************************)
RECURSIVE Read(_, _, _, _)
Read(M, P, t, a) ==
  LET w == M[a] IN
  CASE Kind(t) = "struct" ->
         <<"struct", [i \in DOMAIN Members(t) |-> Read(M, P, Members(t)[i].type, a + MemberOffset(t, i))]>>
    [] Kind(t) = "array" ->
         <<"array", [i \in 1..ArrayLen(t) |-> Read(M, P, Elem(t), a + (i - 1) * Size(Elem(t)))]>>
    [] Kind(t) \notin {"struct", "array"} /\ w = Zero -> Zero
    [] Kind(t) = "pointer" /\ w # Zero -> <<"p", Read(M, P, Elem(t), w[2])>>
    [] Kind(t) \in {"slice", "bytes"} /\ w # Zero ->
         <<"s", w[3], [i \in 1..w[4] |-> Read(M, P, SliceElem(t), w[2] + (i - 1) * Size(SliceElem(t)))]>>
    [] Kind(t) = "map" /\ w # Zero ->
         <<"m", [k \in DOMAIN P[w[2]] |-> Read(M \o P[w[2]][k], P, Elem(t), Len(M) + 1)]>>
    [] Kind(t) \in {"any", "iface"} /\ Held(w) -> <<"box", w[2], Read(M, P, w[2], w[3])>>
    [] OTHER -> w

RECURSIVE Visible(_)
Visible(v) ==
  CASE v = Zero -> v
    [] v # Zero /\ v[1] \in {"struct", "array", "m"} -> << v[1], [i \in DOMAIN v[2] |-> Visible(v[2][i])] >>
    [] v # Zero /\ v[1] = "p" -> <<"p", Visible(v[2])>>
    [] v # Zero /\ v[1] = "s" -> <<"s", v[2], [i \in 1..v[2] |-> Visible(v[3][i])]>>
    [] v # Zero /\ v[1] = "box" -> <<"box", v[2], Visible(v[3])>>
    [] OTHER -> v

RECURSIVE ZeroTree(_)
ZeroTree(t) ==
  CASE Kind(t) = "struct" -> <<"struct", [i \in DOMAIN Members(t) |-> ZeroTree(Members(t)[i].type)]>>
    [] Kind(t) = "array"  -> <<"array", [i \in 1..ArrayLen(t) |-> ZeroTree(Elem(t))]>>
    [] OTHER -> Zero

(***************************************************************************)
(* One call.                                                               *)
(***************************************************************************)
NoRange == [ptr |-> 0, span |-> 0]
Context(replace, M, P, tracked, dest) ==
  [replace |-> replace, mem |-> M, maps |-> P, tr |-> EmptyTracker,
   tracked |-> replace /\ tracked, dest |-> IF replace THEN dest ELSE NoRange,
   boxes |-> << >>, busy |-> {}, depth |-> 0, allocs |-> 0, err |-> ""]

(* Decoder.Decode *)
RunDecode(replace, M, P, t, d) ==
  DecodeCompiled(Context(replace, M, P, TracksAliases(t),
                         IF TracksDestination(t) THEN [ptr |-> Dst, span |-> Size(t)] ELSE NoRange),
                 t, Dst, d)
=============================================================================
