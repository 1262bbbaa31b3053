-------------------------- MODULE ReplaceTracker --------------------------
(***************************************************************************)
(* The alias tracker of a Replace decode (decoderReplaceState): the        *)
(* storage already claimed by a destination of this operation, and the     *)
(* scopes the claims belong to.                                            *)
(*                                                                         *)
(* A reference is a claim: the slot that owns it (an address), the scope   *)
(* it was made in, and the words it covers.  A scope is a slot being       *)
(* decoded inside another one; decoding a slot a second time drops the     *)
(* claims made below it.  Scope ids are positions, 0 is the root; a freed  *)
(* entry has owner 0.  The inline arrays and their overflow slices are one *)
(* sequence here.                                                          *)
(***************************************************************************)
EXTENDS Integers, Sequences, FiniteSets, SequencesExt

(* A sequence written as a function, as the tuple it equals. *)
Eager(f) == SubSeq(f, 1, Len(f))

NoScope == [owner |-> 0, parent |-> 0]
EmptyTracker == [refs |-> << >>, scopes |-> << >>, cur |-> 0]

\* Mutant: only equal bases count as an overlap.
RangesAliasBase(p, n, q, m) == n # 0 /\ m # 0 /\ p = q

(* replaceMemoryRangesAlias: [p, p + n) and [q, q + m) overlap. *)
RangesAlias(p, n, q, m) == n # 0 /\ m # 0 /\ p < q + m /\ q < p + n

(* replaceReferencesAlias *)
ReferencesAlias(r, s) ==
  IF r.kind = "map" \/ s.kind = "map"
  THEN r.kind = s.kind /\ r.ptr = s.ptr
  ELSE IF r.span = 0 \/ s.span = 0
       THEN r.kind = "pointer" /\ s.kind = "pointer" /\ r.ptr = s.ptr
       ELSE RangesAlias(r.ptr, r.span, s.ptr, s.span)

(* A claim of the same slot in the same scope is the one being renewed. *)
SameClaim(r, s) == r.kind = s.kind /\ r.scope = s.scope /\ r.owner = s.owner

RECURSIVE DescendsFrom(_, _, _)
DescendsFrom(scopes, id, ancestor) ==
  /\ id # 0
  /\ id = ancestor \/ DescendsFrom(scopes, scopes[id].parent, ancestor)

(* storeReplaceReference: renew the slot's claim, or add one if it is live. *)
Store(tr, ref, live) ==
  LET own == {i \in DOMAIN tr.refs : SameClaim(tr.refs[i], ref)} IN
  IF own # {} THEN [tr EXCEPT !.refs[CHOOSE i \in own : \A j \in own : i <= j] = ref]
  ELSE IF live THEN [tr EXCEPT !.refs = Append(@, ref)] ELSE tr

(* replaceReferenceSeen, past the destination's own range: another slot    *)
(* claimed this storage; otherwise the claim is recorded.                  *)
Claimed(tr, ref) ==
  \E i \in DOMAIN tr.refs : ~SameClaim(tr.refs[i], ref) /\ ReferencesAlias(tr.refs[i], ref)

(* clearReplaceScope: the claims made in and below a scope go, and so do   *)
(* the scopes below it; trailing free entries are trimmed.                 *)
RECURSIVE TrimScopes(_)
TrimScopes(scopes) ==
  IF scopes # << >> /\ Last(scopes).owner = 0 THEN TrimScopes(Front(scopes)) ELSE scopes

ClearScope(tr, id) ==
  LET Below(s) == DescendsFrom(tr.scopes, s, id) IN
  [tr EXCEPT
     !.refs = SelectSeq(@, LAMBDA r : ~Below(r.scope)),
     !.scopes = TrimScopes(Eager([s \in DOMAIN @ |-> IF s # id /\ Below(s) THEN NoScope ELSE @[s]]))]

(* beginReplaceScope *)
BeginScope(tr, owner) ==
  LET open == {s \in DOMAIN tr.scopes : tr.scopes[s] = [owner |-> owner, parent |-> tr.cur]}
      free == {s \in DOMAIN tr.scopes : tr.scopes[s].owner = 0}
      new  == [owner |-> owner, parent |-> tr.cur]
      Least(S) == CHOOSE s \in S : \A u \in S : s <= u
  IN IF open # {} THEN [ClearScope(tr, Least(open)) EXCEPT !.cur = Least(open)]
     ELSE IF free # {} THEN [tr EXCEPT !.scopes[Least(free)] = new, !.cur = Least(free)]
     ELSE [tr EXCEPT !.scopes = Append(@, new), !.cur = Len(tr.scopes) + 1]

EndScope(tr, previous) == [tr EXCEPT !.cur = previous]

(* clearReplaceOwnerScope: the first scope of a slot, whoever its parent. *)
ClearOwner(tr, owner) ==
  LET open == {s \in DOMAIN tr.scopes : tr.scopes[s].owner = owner} IN
  IF open = {} THEN tr ELSE ClearScope(tr, CHOOSE s \in open : \A u \in open : s <= u)
=============================================================================
