------------------------------ MODULE SizeHint ------------------------------
(***************************************************************************)
(* What the output-size estimate of Marshal promises: it is one register   *)
(* that every successful call updates once, atomically, some time between  *)
(* the moment its output is complete and the moment it returns.            *)
(*                                                                         *)
(* A size up to HintMax replaces the estimate.  A larger one becomes an    *)
(* unconfirmed candidate, and is confirmed by the next call that reports   *)
(* the same size while it is the candidate.                                *)
(***************************************************************************)
EXTENDS Integers

CONSTANTS Procs, HintMax

VARIABLES hint,      \* [size, unconfirmed]
          pending    \* the size each process still has to report; 0 for none

Estimate(size, unconfirmed) == [size |-> size, unconfirmed |-> unconfirmed]

Updated(h, o) ==
    IF o <= HintMax \/ h.size = o THEN Estimate(o, FALSE) ELSE Estimate(o, TRUE)

Init == hint = Estimate(0, FALSE) /\ pending = [p \in Procs |-> 0]

Observe(p) ==
    /\ pending[p] = 0
    /\ pending'[p] \in Nat /\ pending' = [pending EXCEPT ![p] = pending'[p]]
    /\ UNCHANGED hint

Update(p) ==
    /\ pending[p] # 0
    /\ hint' = Updated(hint, pending[p])
    /\ pending' = [pending EXCEPT ![p] = 0]

Next == \E p \in Procs : Observe(p) \/ Update(p)

Spec == Init /\ [][Next]_<<hint, pending>>
=============================================================================
