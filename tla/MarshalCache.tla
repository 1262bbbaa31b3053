---------------------------- MODULE MarshalCache ----------------------------
(***************************************************************************)
(* Concurrent Marshal calls for one source type (encoder.go,               *)
(* marshal_hint.go): the encoder is compiled on first use and cached with  *)
(* LoadOrStore, and the cache entry carries an adaptive size estimate that *)
(* all calls update with a compare-and-swap loop.                          *)
(*                                                                         *)
(* One step is one atomic operation and the local work up to the next.     *)
(* The estimate's 64-bit word, a size and the unconfirmed bit, is a record;*)
(* sizes are lengths of slices, far below the 63 bits they have.  A        *)
(* process compiles at most once, so the entry it makes has its name.      *)
(***************************************************************************)
EXTENDS Integers

CONSTANTS Procs,       \* goroutines
          Nil,         \* no cache entry
          Sizes,       \* output lengths
          HintMin, HintMax, HintGrowth   \* marshalSizeHintMin, ...Max, ...Growth

ASSUME MarshalAssumption ==
    /\ Nil \notin Procs
    /\ Sizes \subseteq Nat \ {0}
    /\ HintMin \in Nat /\ HintMax \in Nat /\ HintGrowth \in Nat
    /\ HintMin * HintGrowth <= HintMax /\ HintMin <= HintMax

VARIABLES
    compiles,   \* whether the type can be encoded at all
    cached,     \* marshalEncoders' entry for the type
    hints,      \* sizeHint of each entry
    pc, entry,  \* where each process is, and the entry it uses
    alloc,      \* the capacity it gave its output
    observed,   \* the length of its output
    stored,     \* the estimate it loaded last
    reported    \* calls that have reported each size, saturating at 2 (history)

vars == <<compiles, cached, hints, pc, entry, alloc, observed, stored, reported>>

Estimate(size, unconfirmed) == [size |-> size, unconfirmed |-> unconfirmed]

Init ==
    /\ compiles \in BOOLEAN
    /\ cached = Nil
    /\ hints = [p \in Procs |-> Estimate(0, FALSE)]
    /\ pc = [p \in Procs |-> "idle"] /\ entry = [p \in Procs |-> Nil]
    /\ alloc = [p \in Procs |-> 0] /\ observed = [p \in Procs |-> 0]
    /\ stored = [p \in Procs |-> Estimate(0, FALSE)]
    /\ reported = [o \in Sizes |-> 0]

Hint(p) == hints[entry[p]]
locals  == <<entry, alloc, observed, stored>>

\* The call returns, and its variables are gone.
Return(p) ==
    /\ pc' = [pc EXCEPT ![p] = "idle"]
    /\ entry' = [entry EXCEPT ![p] = Nil]
    /\ alloc' = [alloc EXCEPT ![p] = 0] /\ observed' = [observed EXCEPT ![p] = 0]
    /\ stored' = [stored EXCEPT ![p] = Estimate(0, FALSE)]

-----------------------------------------------------------------------------
(***************************************************************************)
(* The steps of Marshal.                                                   *)
(***************************************************************************)

\* Marshal looks its type up.
Load(p) ==
    /\ pc[p] = "idle"
    /\ IF cached # Nil
       THEN entry' = [entry EXCEPT ![p] = cached] /\ pc' = [pc EXCEPT ![p] = "found"]
       ELSE pc' = [pc EXCEPT ![p] = "compile"] /\ UNCHANGED entry
    /\ UNCHANGED <<compiles, cached, hints, alloc, observed, stored, reported>>

\* newCachedEncoder: the entry that was stored first wins.
LoadOrStore(p) ==
    /\ pc[p] = "compile"
    /\ cached' = IF cached = Nil THEN p ELSE cached
    /\ entry' = [entry EXCEPT ![p] = cached']
    /\ pc' = [pc EXCEPT ![p] = "found"]
    /\ UNCHANGED <<compiles, hints, alloc, observed, stored, reported>>

\* The cached compile error is returned.
CompileError(p) ==
    /\ pc[p] = "found" /\ ~compiles
    /\ Return(p)
    /\ UNCHANGED <<compiles, cached, hints, reported>>

\* Mutant: the candidate's size is used before it is confirmed.
loadMarshalSizeHintTrusting(h) == IF h.size < HintMin THEN HintMin ELSE h.size

loadMarshalSizeHint(h) ==
    LET size == IF h.unconfirmed THEN HintMin * HintGrowth ELSE h.size
    IN  IF size < HintMin THEN HintMin ELSE size

Allocate(p) ==
    /\ pc[p] = "found" /\ compiles
    /\ alloc' = [alloc EXCEPT ![p] = loadMarshalSizeHint(Hint(p))]
    /\ pc' = [pc EXCEPT ![p] = "encode"]
    /\ UNCHANGED <<compiles, cached, hints, entry, observed, stored, reported>>

\* AppendJSON fails, or produces an output of some length.
AppendJSON(p) ==
    /\ pc[p] = "encode"
    /\ \/ Return(p)
       \/ \E o \in Sizes : /\ observed' = [observed EXCEPT ![p] = o]
                           /\ pc' = [pc EXCEPT ![p] = "update"]
                           /\ UNCHANGED <<entry, alloc, stored>>
    /\ UNCHANGED <<compiles, cached, hints, reported>>

Report(o) ==
    reported' = [reported EXCEPT ![o] = IF @ < 2 THEN @ + 1 ELSE @]

\* updateMarshalSizeHint loads the estimate; nothing to do when it is already
\* the confirmed size.
UpdateLoad(p) ==
    /\ pc[p] = "update"
    /\ IF Hint(p) = Estimate(observed[p], FALSE)
       THEN Return(p) /\ Report(observed[p])
       ELSE /\ stored' = [stored EXCEPT ![p] = Hint(p)]
            /\ pc' = [pc EXCEPT ![p] = "swap"]
            /\ UNCHANGED <<entry, alloc, observed, reported>>
    /\ UNCHANGED <<compiles, cached, hints>>

\* What the observation makes of the estimate it was computed from.
NextHint(h, o) ==
    IF o <= HintMax THEN Estimate(o, FALSE)
    ELSE IF h.unconfirmed /\ h.size = o THEN Estimate(o, FALSE)
    ELSE Estimate(o, TRUE)

\* Mutant: the new estimate is stored without comparing.
StoreHint(p) ==
    /\ pc[p] = "swap"
    /\ hints' = [hints EXCEPT ![entry[p]] = NextHint(stored[p], observed[p])]
    /\ Return(p) /\ Report(observed[p])
    /\ UNCHANGED <<compiles, cached>>

\* The compare-and-swap, or another round when the estimate has changed.  The
\* code's test for stored = next cannot succeed: UpdateLoad has returned for a
\* confirmed estimate of this size, and an unconfirmed one is confirmed.
CompareAndSwap(p) ==
    /\ pc[p] = "swap"
    /\ IF Hint(p) = stored[p]
       THEN /\ hints' = [hints EXCEPT ![entry[p]] = NextHint(stored[p], observed[p])]
            /\ Return(p) /\ Report(observed[p])
       ELSE pc' = [pc EXCEPT ![p] = "update"] /\ UNCHANGED <<hints, locals, reported>>
    /\ UNCHANGED <<compiles, cached>>

Next == \E p \in Procs : \/ Load(p) \/ LoadOrStore(p) \/ CompileError(p) \/ Allocate(p)
                         \/ AppendJSON(p) \/ UpdateLoad(p) \/ CompareAndSwap(p)

Spec == Init /\ [][Next]_vars

-----------------------------------------------------------------------------
(***************************************************************************)
(* Properties.                                                             *)
(***************************************************************************)

Estimates == [size : Sizes \cup {0}, unconfirmed : BOOLEAN]

\* Type invariant.
TypeOK ==
    /\ compiles \in BOOLEAN /\ cached \in Procs \cup {Nil}
    /\ hints \in [Procs -> Estimates]
    /\ pc \in [Procs -> {"idle", "compile", "found", "encode", "update", "swap"}]
    /\ entry \in [Procs -> Procs \cup {Nil}]
    /\ alloc \in [Procs -> Nat] /\ observed \in [Procs -> Sizes \cup {0}]
    /\ stored \in [Procs -> Estimates]
    /\ reported \in [Sizes -> 0..2]

\* However many goroutines compile the encoder at once, all of them go on
\* with the one entry that the cache keeps.
EntryShared ==
    \A p \in Procs : pc[p] \notin {"idle", "compile"} => cached # Nil /\ entry[p] = cached

\* A process in updateMarshalSizeHint has an output to report.
HasOutput == \A p \in Procs : pc[p] \in {"update", "swap"} => observed[p] \in Sizes

\* A candidate was reported once, a confirmed large size twice.
HintEarned ==
    \A e \in Procs :
        /\ hints[e].unconfirmed => hints[e].size \in Sizes /\ reported[hints[e].size] >= 1
        /\ ~hints[e].unconfirmed /\ hints[e].size > HintMax =>
              hints[e].size \in Sizes /\ reported[hints[e].size] = 2

\* One exceptional output does not inflate later allocations: a buffer larger
\* than HintMax has a size that two calls had reported before.
BudgetEarned ==
    \A p \in Procs : alloc[p] > HintMax => alloc[p] \in Sizes /\ reported[alloc[p]] = 2

\* The estimate is a register that each call updates once: no update is lost
\* or applied to an estimate that has changed since it was read.
Register == INSTANCE SizeHint WITH
    hint    <- IF cached = Nil THEN Estimate(0, FALSE) ELSE hints[cached],
    pending <- [p \in Procs |-> IF pc[p] \in {"update", "swap"} THEN observed[p] ELSE 0]

ImplementsSizeHint == Register!Spec
=============================================================================
