----------------------------- MODULE MCScratch -----------------------------
(***************************************************************************)
(* The scratch of decoders and of encoders.  The two share no state, so a  *)
(* behaviour is about one of them: goroutines that compete for a decoder's *)
(* cached states ("pool"), one decode that nests ("nest"), or an encoder   *)
(* ("encode").                                                             *)
(***************************************************************************)
EXTENDS DecoderScratch, EncoderScratch, TLC

CONSTANTS Deep,         \* the process that decodes in "nest"
          Subjects

VARIABLE subject

(***************************************************************************)
(* One plan with a map and a catch-all whose values share a slot, and two  *)
(* types it meets behind interfaces: a struct with a map in it, and a map. *)
(***************************************************************************)
Plan(kind, slot, elem, limit) == [kind |-> kind, slot |-> slot, elem |-> elem, limit |-> limit]

MCPlans ==
  [static |-> Plan("map", 0, "int", 2), catchAll |-> Plan("inline", 0, "int", 1),
   behind |-> Plan("map", -1, "int", 1), dynamic |-> Plan("dynamic", -1, "any", 1)]

\* The same plans with a smaller budget, for the longest map to exceed.
SmallPlans == [n \in DOMAIN MCPlans |-> [MCPlans[n] EXCEPT !.limit = 1]]

ASSUME EncoderAssumption

ScratchInit == Init /\ EncoderInit /\ subject \in Subjects

ScratchNext ==
    \/ /\ subject = "pool" /\ Next
       /\ \A p \in Procs : stack'[p] = <<>>
       /\ UNCHANGED <<encoderVars, subject>>
    \/ /\ subject = "nest" /\ Next
       /\ \A p \in Procs \ {Deep} : pc'[p] = "idle"
       /\ UNCHANGED <<encoderVars, subject>>
    \/ subject = "encode" /\ EncoderNext /\ UNCHANGED <<vars, subject>>

ScratchSpec == ScratchInit /\ [][ScratchNext]_<<vars, encoderVars, subject>>

Symmetry == Permutations(Scratches)
=============================================================================
