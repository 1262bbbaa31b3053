---------------------------- MODULE ScratchProofs ---------------------------
(***************************************************************************)
(* Proofs about what decoding and encoding keep between calls.             *)
(*                                                                         *)
(* The cache of decoder states, for any number of goroutines, slots and    *)
(* compiled nodes and for documents of any nesting: a state has one owner, *)
(* a state in the cache is clean, and the constructs of an operation share *)
(* no scratch.                                                             *)
(*                                                                         *)
(* The scratch of the encoder, for any plans, pools and number of nested   *)
(* calls: what goes back to a pool is clean, and the entry slice of a call *)
(* covers what its reset has to clear.                                     *)
(***************************************************************************)
EXTENDS DecoderScratch, EncoderScratch, FiniteSetTheorems, SequenceTheorems, WellFoundedInduction, TLAPS

-----------------------------------------------------------------------------
(***************************************************************************)
(* The cache of decoder states.                                            *)
(***************************************************************************)

SeenSets == [inUse : BOOLEAN, marked : BOOLEAN]
DecoderBoxes    == [inUse : BOOLEAN, boxed : BOOLEAN]

Inv == TypeOK /\ Exclusive /\ ReleasedClean /\ CachedClean

\* A new state has the type of a state and is clean.
LEMMA NewStateClean == NewState \in OpStates /\ IsClean(NewState)
  BY DEF NewState, OpStates, IsClean, EmptyBox

LEMMA InitInv == Init => Inv
  BY NewStateClean, ScratchAssumption
  DEF Init, Inv, TypeOK, Exclusive, ReleasedClean, CachedClean, Owning

\* Updates of a state give a state.
LEMMA SetFlags ==
    ASSUME NEW o \in OpStates
    PROVE  /\ [o EXCEPT !.arena = TRUE] \in OpStates
           /\ [o EXCEPT !.arena = FALSE] \in OpStates
           /\ [o EXCEPT !.refs = TRUE] \in OpStates
  BY DEF OpStates

LEMMA SetBatch ==
    ASSUME NEW o \in OpStates, NEW b \in Int
    PROVE  [o EXCEPT !.batch = b] \in OpStates
  BY DEF OpStates

\* resetOperationState and the clearing of the replace records leave nothing.
LEMMA ResetClean ==
    ASSUME NEW o \in OpStates
    PROVE  LET r == [resetOperationState(o) EXCEPT !.refs = FALSE]
           IN  r \in OpStates /\ IsClean(r)
  <1> DEFINE w == [k \in DOMAIN o.wide |-> [o.wide[k] EXCEPT !.inUse = FALSE]]
             r == [resetOperationState(o) EXCEPT !.refs = FALSE]
  <1>1. o.wide \in Seq(SeenSets)
    BY DEF OpStates, SeenSets
  <1>2. /\ w \in Seq(SeenSets) /\ Len(w) = Len(o.wide)
        /\ \A k \in 1..Len(w) : ~w[k].inUse
    <2>1. /\ Len(o.wide) \in Nat /\ DOMAIN o.wide = 1..Len(o.wide)
          /\ \A k \in 1..Len(o.wide) : o.wide[k] \in SeenSets
      BY <1>1
    <2>2. w \in [1..Len(o.wide) -> SeenSets] /\ \A k \in 1..Len(o.wide) : ~w[k].inUse
      BY <2>1 DEF SeenSets
    <2>. HIDE DEF w
    <2>3. w \in Seq(SeenSets)
      BY <2>1, <2>2, SeqDef
    <2>4. Len(w) = Len(o.wide)
      BY <2>1, <2>2, <2>3
    <2>. QED
      BY <2>2, <2>3, <2>4
  <1> HIDE DEF w
  <1>3. PICK v \in OpStates : v = resetReceivers(o) /\ v.batch = 0 /\ v.arena = FALSE
    <2>1. resetReceivers(o) \in OpStates
      <3> DEFINE b == [o EXCEPT !.batch = 0]
      <3>1. b \in OpStates
        BY 0 \in Int, SetBatch
      <3>2. resetReceivers(o) = [b EXCEPT !.arena = FALSE]
        BY DEF resetReceivers
      <3> HIDE DEF b
      <3>. QED
        BY <3>1, <3>2, SetFlags
    <2>2. resetReceivers(o).batch = 0 /\ resetReceivers(o).arena = FALSE
      BY DEF resetReceivers, OpStates
    <2>. QED
      BY <2>1, <2>2
  <1>4. PICK q \in OpStates : /\ q = resetOperationState(o) /\ q.batch = 0 /\ q.arena = FALSE
                              /\ q.maps = [n \in Nodes |-> EmptyBox] /\ q.wide = w
    <2>1. resetOperationState(o) = [v EXCEPT !.maps = [n \in Nodes |-> EmptyBox], !.wide = w]
      BY <1>3 DEF resetOperationState, w
    <2>. QED
      BY <1>2, <1>3, <2>1 DEF OpStates, EmptyBox, SeenSets
  <1>5. r \in OpStates /\ r.batch = 0 /\ r.arena = FALSE /\ r.refs = FALSE
        /\ r.maps = [n \in Nodes |-> EmptyBox] /\ r.wide = w
    BY <1>4 DEF OpStates
  <1> HIDE DEF r
  <1>6. IsClean(r)
    BY <1>2, <1>5 DEF IsClean
  <1>. QED
    BY <1>5, <1>6 DEF r

-----------------------------------------------------------------------------
(***************************************************************************)
(* Steps on the cache.                                                     *)
(***************************************************************************)

\* The parts of the invariant a process in the cache relies on.
LEMMA Owner ==
    ASSUME Inv, NEW p \in Procs
    PROVE  /\ pc[p] \in Owning => held[p] \in States /\ held[p] # Nil
           /\ pc[p] \notin Owning => held[p] = Nil
           /\ idx[p] \in 1..(CacheSlots + 1) /\ CacheSlots \in Nat
  BY ScratchAssumption DEF Inv, TypeOK

LEMMA TakeSwapInv ==
    ASSUME Inv, NEW p \in Procs, TakeSwap(p)
    PROVE  Inv'
  <1> DEFINE k == idx[p]
  <1>1. k \in 1..CacheSlots /\ held[p] = Nil /\ pc[p] = "take"
    BY Owner DEF TakeSwap, Owning
  <1>2. CASE cache[k] = Nil
    <2>1. /\ cache' = cache /\ held' = held /\ pc' = pc /\ ops' = ops
          /\ idx' = [idx EXCEPT ![p] = @ + 1]
      BY <1>1, <1>2 DEF TakeSwap, Inv, TypeOK
    <2>2. idx' \in [Procs -> 1..(CacheSlots + 1)]
      BY <1>1, <2>1, Owner DEF Inv, TypeOK
    <2>. QED
      BY <2>1, <2>2 DEF Inv, TypeOK, Exclusive, ReleasedClean, CachedClean
  <1>3. CASE cache[k] # Nil
    <2>1. /\ cache' = [cache EXCEPT ![k] = Nil]
          /\ held' = [held EXCEPT ![p] = cache[k]]
          /\ pc' = [pc EXCEPT ![p] = "decode"] /\ idx' = idx /\ ops' = ops
      BY <1>3 DEF TakeSwap
    <2>2. TypeOK'
      BY <1>1, <1>3, <2>1 DEF Inv, TypeOK, Owning
    <2>3. Exclusive'
      BY <1>1, <1>3, <2>1 DEF Inv, TypeOK, Exclusive
    <2>4. ReleasedClean' /\ CachedClean'
      BY <1>1, <2>1 DEF Inv, TypeOK, ReleasedClean, CachedClean
    <2>. QED
      BY <2>2, <2>3, <2>4 DEF Inv
  <1>. QED
    BY <1>2, <1>3

LEMMA TakeNewInv ==
    ASSUME Inv, NEW p \in Procs, TakeNew(p)
    PROVE  Inv'
  <1>1. PICK s \in Garbage : /\ held' = [held EXCEPT ![p] = s]
                             /\ ops' = [ops EXCEPT ![s] = NewState]
    BY DEF TakeNew
  <1>2. /\ s \in States /\ s # Nil
        /\ \A k \in 1..CacheSlots : cache[k] # s
        /\ \A q \in Procs : held[q] # s
    BY ScratchAssumption DEF Garbage
  <1>3. /\ pc[p] = "take" /\ pc' = [pc EXCEPT ![p] = "decode"]
        /\ cache' = cache /\ idx' = idx
    BY DEF TakeNew
  <1>4. TypeOK'
    BY <1>1, <1>2, <1>3, NewStateClean DEF Inv, TypeOK, Owning
  <1>5. Exclusive'
    BY <1>1, <1>2, <1>3 DEF Inv, TypeOK, Exclusive
  <1>6. ReleasedClean' /\ CachedClean'
    BY <1>1, <1>2, <1>3 DEF Inv, TypeOK, ReleasedClean, CachedClean, Owning
  <1>. QED
    BY <1>4, <1>5, <1>6 DEF Inv

\* A process changes the state it owns and nothing the cache holds.
LEMMA OwnStateStep ==
    ASSUME Inv, NEW p \in Procs, pc[p] \in Owning,
           NEW o \in OpStates, ops' = [ops EXCEPT ![held[p]] = o],
           NEW l \in Owning, pc' = [pc EXCEPT ![p] = l], l = "put" => IsClean(o),
           idx' \in [Procs -> 1..(CacheSlots + 1)], UNCHANGED <<cache, held>>
    PROVE  Inv'
  <1>1. held[p] \in States /\ held[p] # Nil
    BY Owner
  <1>2. TypeOK' /\ Exclusive'
    BY <1>1 DEF Inv, TypeOK, Exclusive, Owning
  <1>3. ops'[held[p]] = o
    BY <1>1 DEF Inv, TypeOK
  <1>4. ReleasedClean'
    <2>. SUFFICES ASSUME NEW q \in Procs, pc'[q] = "put" PROVE IsClean(ops'[held[q]])
      BY DEF ReleasedClean
    <2>1. CASE q = p
      BY <1>3, <2>1 DEF Inv, TypeOK
    <2>2. CASE q # p
      <3>1. pc[q] = "put" /\ held[q] \in States /\ held[q] # held[p]
        BY <1>1, <2>2, Owner DEF Inv, TypeOK, Exclusive, Owning
      <3>2. ops'[held[q]] = ops[held[q]]
        BY <3>1 DEF Inv, TypeOK
      <3>. QED
        BY <3>1, <3>2 DEF Inv, ReleasedClean
    <2>. QED
      BY <2>1, <2>2
  <1>5. CachedClean'
    BY <1>1 DEF Inv, TypeOK, Exclusive, CachedClean
  <1>. QED
    BY <1>2, <1>4, <1>5 DEF Inv

LEMMA ReleaseInv ==
    ASSUME Inv, NEW p \in Procs, Release(p)
    PROVE  Inv'
  <1>1. pc[p] \in Owning /\ "put" \in Owning
    BY DEF Release, Owning
  <1>2. held[p] \in States /\ ops[held[p]] \in OpStates
    BY <1>1, Owner DEF Inv, TypeOK
  <1> DEFINE r == [resetOperationState(ops[held[p]]) EXCEPT !.refs = FALSE]
  <1>3. r \in OpStates /\ IsClean(r)
    BY <1>2, ResetClean
  <1>4. /\ ops' = [ops EXCEPT ![held[p]] = r] /\ pc' = [pc EXCEPT ![p] = "put"]
        /\ UNCHANGED <<cache, held>>
    BY <1>2 DEF Release, Inv, TypeOK
  <1>5. idx' \in [Procs -> 1..(CacheSlots + 1)]
    BY Owner DEF Release, Inv, TypeOK
  <1> HIDE DEF r
  <1>. QED
    BY <1>1, <1>3, <1>4, <1>5, OwnStateStep

LEMMA PutInv ==
    ASSUME Inv, NEW p \in Procs, Put(p)
    PROVE  Inv'
  <1> DEFINE k == idx[p]
  <1>1. k \in 1..CacheSlots /\ pc[p] = "put" /\ held[p] \in States /\ held[p] # Nil
    BY Owner DEF Put, Owning
  <1>2. CASE cache[k] # Nil
    <2>1. /\ cache' = cache /\ held' = held /\ pc' = pc /\ ops' = ops
          /\ idx' = [idx EXCEPT ![p] = @ + 1]
      BY <1>2 DEF Put
    <2>2. idx' \in [Procs -> 1..(CacheSlots + 1)]
      BY <1>1, <2>1, Owner DEF Inv, TypeOK
    <2>. QED
      BY <2>1, <2>2 DEF Inv, TypeOK, Exclusive, ReleasedClean, CachedClean
  <1>3. CASE cache[k] = Nil
    <2>1. /\ cache' = [cache EXCEPT ![k] = held[p]]
          /\ held' = [held EXCEPT ![p] = Nil]
          /\ pc' = [pc EXCEPT ![p] = "idle"] /\ idx' = idx /\ ops' = ops
      BY <1>3 DEF Put
    <2>2. TypeOK'
      BY <1>1, <2>1 DEF Inv, TypeOK, Owning
    <2>3. Exclusive'
      BY <1>1, <2>1 DEF Inv, TypeOK, Exclusive
    <2>4. ReleasedClean' /\ CachedClean'
      BY <1>1, <2>1 DEF Inv, TypeOK, ReleasedClean, CachedClean
    <2>. QED
      BY <2>2, <2>3, <2>4 DEF Inv
  <1>. QED
    BY <1>2, <1>3

LEMMA DropInv ==
    ASSUME Inv, NEW p \in Procs, Drop(p)
    PROVE  Inv'
  <1>1. pc[p] = "put" /\ held[p] \in States /\ held[p] # Nil
    BY Owner DEF Drop, Owning
  <1>2. /\ ops' = [ops EXCEPT ![held[p]] = NewState] /\ held' = [held EXCEPT ![p] = Nil]
        /\ pc' = [pc EXCEPT ![p] = "idle"] /\ cache' = cache /\ idx' = idx
    BY DEF Drop
  <1>3. TypeOK' /\ Exclusive'
    BY <1>1, <1>2, NewStateClean DEF Inv, TypeOK, Exclusive, Owning
  <1>4. ReleasedClean' /\ CachedClean'
    BY <1>1, <1>2 DEF Inv, TypeOK, Exclusive, ReleasedClean, CachedClean, Owning
  <1>. QED
    BY <1>3, <1>4 DEF Inv

-----------------------------------------------------------------------------
(***************************************************************************)
(* Steps of a document: each turns the state its process owns into another *)
(* state.                                                                  *)
(***************************************************************************)

\* A sequence with one element replaced, or an element that is not there.
LEMMA SeqExcept ==
    ASSUME NEW S, NEW w \in Seq(S), NEW k, NEW e, k \in 1..Len(w) => e \in S
    PROVE  [w EXCEPT ![k] = e] \in Seq(S)
  <1>1. Len(w) \in Nat /\ w \in [1..Len(w) -> S]
    OBVIOUS
  <1>2. [w EXCEPT ![k] = e] \in [1..Len(w) -> S]
    BY <1>1
  <1>. QED
    BY <1>1, <1>2, SeqDef

LEMMA SetMaps ==
    ASSUME NEW o \in OpStates, NEW n
    PROVE  /\ [o EXCEPT !.maps[n].inUse = TRUE] \in OpStates
           /\ [o EXCEPT !.maps[n] = EmptyBox] \in OpStates
  BY DEF OpStates, EmptyBox

LEMMA SetEntry ==
    ASSUME NEW o \in OpStates, NEW m \in [Nodes -> DecoderBoxes], NEW i \in Int
    PROVE  [o EXCEPT !.maps = m, !.batch = i] \in OpStates
  BY DEF OpStates, DecoderBoxes

LEMMA SetWide ==
    ASSUME NEW o \in OpStates, NEW w \in Seq(SeenSets)
    PROVE  [o EXCEPT !.wide = w] \in OpStates
  BY DEF OpStates, SeenSets

LEMMA SetSeen ==
    ASSUME NEW o \in OpStates, NEW k
    PROVE  /\ [o EXCEPT !.wide[k].inUse = FALSE] \in OpStates
           /\ [o EXCEPT !.wide[k].marked = TRUE] \in OpStates
  <1>1. o.wide \in Seq(SeenSets)
    BY DEF OpStates, SeenSets
  <1>2. /\ [o.wide EXCEPT ![k].inUse = FALSE] \in Seq(SeenSets)
        /\ [o.wide EXCEPT ![k].marked = TRUE] \in Seq(SeenSets)
    <2>1. k \in 1..Len(o.wide) => o.wide[k] \in SeenSets
      BY <1>1
    <2>2. k \in 1..Len(o.wide) => /\ [o.wide[k] EXCEPT !.inUse = FALSE] \in SeenSets
                                  /\ [o.wide[k] EXCEPT !.marked = TRUE] \in SeenSets
      BY <2>1 DEF SeenSets
    <2>. QED
      BY <1>1, <2>2, SeqExcept
  <1>. QED
    BY <1>2, SetWide DEF OpStates

\* A process that decodes owns a state; the step it takes ends in a state o
\* and keeps it decoding, or lets it unwind or release.
LEMMA DecodeStep ==
    ASSUME Inv, NEW p \in Procs, pc[p] \in {"decode", "unwind"},
           NEW o \in OpStates, SetOp(p, o),
           pc' = pc \/ (\E l \in {"unwind", "release"} : pc' = [pc EXCEPT ![p] = l]),
           UNCHANGED <<cache, idx, held>>
    PROVE  Inv'
  <1>1. PICK l \in {"decode", "unwind", "release"} : pc' = [pc EXCEPT ![p] = l]
    BY DEF Inv, TypeOK
  <1>2. pc[p] \in Owning /\ l \in Owning /\ l # "put"
    BY <1>1 DEF Owning
  <1>3. idx' \in [Procs -> 1..(CacheSlots + 1)]
    BY DEF Inv, TypeOK
  <1>. QED
    BY <1>1, <1>2, <1>3, OwnStateStep DEF SetOp

\* A step that leaves every state alone.
LEMMA QuietStep ==
    ASSUME Inv, NEW p \in Procs, pc[p] \in {"decode", "unwind"}, ops' = ops,
           pc' = pc \/ (\E l \in {"unwind", "release"} : pc' = [pc EXCEPT ![p] = l]),
           UNCHANGED <<cache, idx, held>>
    PROVE  Inv'
  <1>1. held[p] \in States /\ ops[held[p]] \in OpStates
    BY Owner DEF Inv, TypeOK, Owning
  <1>2. SetOp(p, ops[held[p]])
    BY <1>1 DEF SetOp, Inv, TypeOK
  <1>. QED
    BY <1>1, <1>2, DecodeStep

LEMMA OpIsState ==
    ASSUME Inv, NEW p \in Procs, pc[p] \in {"decode", "unwind"}
    PROVE  Op(p) \in OpStates /\ Op(p).batch \in Int /\ Op(p).wide \in Seq(SeenSets)
  <1>1. Op(p) \in OpStates
    BY Owner DEF Op, Inv, TypeOK, Owning
  <1>. QED
    BY <1>1 DEF OpStates, SeenSets

LEMMA EnterMapInv ==
    ASSUME Inv, NEW p \in Procs, EnterMap(p)
    PROVE  Inv'
  <1>1. PICK kind, n : takeMapScratch(p, kind, n)
    BY DEF EnterMap
  <1>2. pc[p] = "decode" /\ UNCHANGED <<cache, pc, idx, held>>
    BY DEF EnterMap, AtValue
  <1>3. CASE Op(p).maps[n].inUse
    BY <1>1, <1>2, <1>3, QuietStep DEF takeMapScratch
  <1>4. CASE ~Op(p).maps[n].inUse
    <2>1. SetOp(p, [Op(p) EXCEPT !.maps[n].inUse = TRUE])
      BY <1>1, <1>4 DEF takeMapScratch
    <2>. QED
      BY <1>2, <2>1, OpIsState, SetMaps, DecodeStep
  <1>. QED
    BY <1>3, <1>4

LEMMA EnterWideInv ==
    ASSUME Inv, NEW p \in Procs, EnterWide(p)
    PROVE  Inv'
  <1>1. pc[p] = "decode" /\ UNCHANGED <<cache, pc, idx, held>>
    BY DEF EnterWide, AtValue
  <1> DEFINE w == Op(p).wide
             set == [inUse |-> TRUE, marked |-> FALSE]
  <1>2. w \in Seq(SeenSets) /\ set \in SeenSets
    BY <1>1, OpIsState DEF SeenSets
  <1>3. PICK v : /\ v = Append(w, set) \/ (\E k : v = [w EXCEPT ![k] = set])
                 /\ SetOp(p, [Op(p) EXCEPT !.wide = v])
    BY DEF EnterWide, takeWideSeen
  <1> HIDE DEF w, set
  <1>4. v \in Seq(SeenSets)
    BY <1>2, <1>3, SeqExcept
  <1>. QED
    BY <1>1, <1>3, <1>4, OpIsState, SetWide, DecodeStep

LEMMA EntryInv ==
    ASSUME Inv, NEW p \in Procs, BeginEntry(p) \/ EndEntry(p)
    PROVE  Inv'
  <1>1. pc[p] = "decode" /\ UNCHANGED <<cache, pc, idx, held>>
    BY DEF BeginEntry, EndEntry
  <1>2. Op(p) \in OpStates /\ Op(p).batch \in Int
    BY <1>1, OpIsState
  <1>3. CASE BeginEntry(p)
    <2> DEFINE m == IF Top(p).slot = 1 THEN [Op(p).maps EXCEPT ![Top(p).node].boxed = TRUE]
                                       ELSE Op(p).maps
               i == IF BatchesEntry(Top(p)) THEN Op(p).batch + 1 ELSE Op(p).batch
    <2>1. SetOp(p, [Op(p) EXCEPT !.maps = m, !.batch = i])
      BY <1>3 DEF BeginEntry
    <2>2. m \in [Nodes -> DecoderBoxes] /\ i \in Int
      <3>1. Op(p).maps \in [Nodes -> DecoderBoxes]
        BY <1>2 DEF OpStates, DecoderBoxes
      <3>2. \A n : [Op(p).maps EXCEPT ![n].boxed = TRUE] \in [Nodes -> DecoderBoxes]
        BY <3>1 DEF DecoderBoxes
      <3>. QED
        BY <1>2, <3>1, <3>2
    <2> HIDE DEF m, i
    <2>3. [Op(p) EXCEPT !.maps = m, !.batch = i] \in OpStates
      BY <1>2, <2>2, SetEntry
    <2>. QED
      BY <1>1, <2>1, <2>3, DecodeStep
  <1>4. CASE EndEntry(p)
    <2>1. SetOp(p, endReceiverBatch(p)) /\ endReceiverBatch(p) \in OpStates
      BY <1>2, <1>4 DEF EndEntry, endReceiverBatch, OpStates
    <2>. QED
      BY <1>1, <2>1, DecodeStep
  <1>. QED
    BY <1>3, <1>4

\* Giving scratch back turns a state into a state.
LEMMA GiveBackState ==
    ASSUME NEW o \in OpStates, NEW c
    PROVE  GiveBack(o, c) \in OpStates
  BY SetMaps, SetSeen DEF GiveBack

LEMMA LeaveInv ==
    ASSUME Inv, NEW p \in Procs,
           Mark(p) \/ nextReceiverShadow(p) \/ storeReplaceReference(p) \/ Leave(p)
    PROVE  Inv'
  <1>1. pc[p] = "decode" /\ UNCHANGED <<cache, pc, idx, held>>
    BY DEF Mark, nextReceiverShadow, storeReplaceReference, Leave
  <1>2. Op(p) \in OpStates
    BY <1>1, OpIsState
  <1>3. CASE Mark(p)
    <2>1. PICK k : SetOp(p, [Op(p) EXCEPT !.wide[k].marked = TRUE])
      BY <1>3 DEF Mark
    <2>. QED
      BY <1>1, <1>2, <2>1, SetSeen, DecodeStep
  <1>4. CASE nextReceiverShadow(p)
    <2>1. SetOp(p, [Op(p) EXCEPT !.arena = TRUE])
      BY <1>4 DEF nextReceiverShadow
    <2>. QED
      BY <1>1, <1>2, <2>1, SetFlags, DecodeStep
  <1>5. CASE storeReplaceReference(p)
    <2>1. SetOp(p, [Op(p) EXCEPT !.refs = TRUE])
      BY <1>5 DEF storeReplaceReference
    <2>. QED
      BY <1>1, <1>2, <2>1, SetFlags, DecodeStep
  <1>6. CASE Leave(p)
    <2>1. SetOp(p, GiveBack(Op(p), Top(p)))
      BY <1>6 DEF Leave
    <2>. QED
      BY <1>1, <1>2, <2>1, GiveBackState, DecodeStep
  <1>. QED
    BY <1>3, <1>4, <1>5, <1>6

LEMMA UnwindInv ==
    ASSUME Inv, NEW p \in Procs, Unwind(p)
    PROVE  Inv'
  <1>1. pc[p] = "unwind" /\ UNCHANGED <<cache, idx, held>>
    BY DEF Unwind
  <1>2. Op(p) \in OpStates /\ Op(p).batch \in Int
    BY <1>1, OpIsState
  <1>3. CASE stack[p] = <<>>
    BY <1>1, <1>3, QuietStep DEF Unwind
  <1>4. CASE stack[p] # <<>>
    <2>1. endReceiverBatch(p) \in OpStates
      BY <1>2 DEF endReceiverBatch, OpStates
    <2>2. PICK o \in OpStates : SetOp(p, o)
      BY <1>4, <2>1, GiveBackState DEF Unwind
    <2>3. pc' = pc
      BY <1>4 DEF Unwind
    <2>. QED
      BY <1>1, <2>2, <2>3, DecodeStep
  <1>. QED
    BY <1>3, <1>4

LEMMA PanicInv ==
    ASSUME Inv, NEW p \in Procs, Panic(p)
    PROVE  Inv'
  <1>1. pc[p] = "decode" /\ pc' = [pc EXCEPT ![p] = "release"] /\ UNCHANGED <<cache, idx, held>>
    BY DEF Panic
  <1>2. Op(p) \in OpStates /\ Op(p).wide \in Seq(SeenSets)
    BY <1>1, OpIsState
  <1>3. PICK W : SetOp(p, [Op(p) EXCEPT !.wide =
              [k \in DOMAIN @ |-> IF k \in W THEN [@[k] EXCEPT !.inUse = FALSE] ELSE @[k]]])
    BY DEF Panic
  <1> DEFINE w == Op(p).wide
             v == [k \in DOMAIN w |-> IF k \in W THEN [w[k] EXCEPT !.inUse = FALSE] ELSE w[k]]
  <1>4. v \in Seq(SeenSets)
    <2>1. Len(w) \in Nat /\ DOMAIN w = 1..Len(w) /\ \A k \in 1..Len(w) : w[k] \in SeenSets
      BY <1>2
    <2>2. v \in [1..Len(w) -> SeenSets]
      BY <2>1 DEF SeenSets
    <2>. QED
      BY <2>1, <2>2, SeqDef
  <1>5. SetOp(p, [Op(p) EXCEPT !.wide = v])
    BY <1>3
  <1> HIDE DEF v
  <1>. QED
    BY <1>1, <1>2, <1>4, <1>5, SetWide, DecodeStep

-----------------------------------------------------------------------------

LEMMA NextInv == Inv /\ [Next]_vars => Inv'
  <1>. SUFFICES ASSUME Inv, [Next]_vars PROVE Inv'
    OBVIOUS
  <1>1. CASE UNCHANGED vars
    BY <1>1 DEF Inv, TypeOK, Exclusive, ReleasedClean, CachedClean, vars
  <1>2. ASSUME NEW p \in Procs, StartDecode(p)
        PROVE  Inv'
    BY <1>2, ScratchAssumption
    DEF Inv, TypeOK, Exclusive, ReleasedClean, CachedClean, StartDecode, Owning
  <1>3. ASSUME NEW p \in Procs, Pool(p)
        PROVE  Inv'
    BY <1>3, TakeSwapInv, TakeNewInv, ReleaseInv, PutInv, DropInv DEF Pool
  <1>4. ASSUME NEW p \in Procs, EnterSequence(p) \/ Finish(p) \/ Fail(p)
        PROVE  Inv'
    BY <1>4, QuietStep DEF Finish, Fail, EnterSequence, AtValue
  <1>5. ASSUME NEW p \in Procs, Decode(p)
        PROVE  Inv'
    BY <1>4, <1>5, EnterMapInv, EnterWideInv, EntryInv, LeaveInv, UnwindInv, PanicInv DEF Decode
  <1>. QED
    BY <1>1, <1>2, <1>3, <1>5 DEF Next

\* The inductive invariant holds in every reachable state.
THEOREM ScratchInvariance == Spec => []Inv
  BY InitInv, NextInv, PTL DEF Spec

\* Two goroutines never own the same decoder state, and no owned state lies in
\* the cache (take, release).
THEOREM ScratchExclusive == Spec => []Exclusive
  BY ScratchInvariance, PTL DEF Inv

\* A cached decoder state holds nothing of the operation that used it, whether
\* that operation succeeded, failed or panicked (release, resetOperationState,
\* releaseTypedPlanState).
THEOREM ScratchCachedClean == Spec => []CachedClean
  BY ScratchInvariance, PTL DEF Inv

-----------------------------------------------------------------------------
(***************************************************************************)
(* What one operation has open, and the scratch it uses.                   *)
(***************************************************************************)

\* A wide record has no entries; receivers are batched only inside an entry;
\* only maps, catch-alls and wide records have scratch.
Constructs ==
    { c \in [kind : {"map", "inline", "wide", "seq"}, node : Nodes \cup {Nil}, slot : Nat,
             entry : BOOLEAN, first : BOOLEAN, batched : BOOLEAN, marked : BOOLEAN] :
        /\ c.kind \in {"map", "inline"} => c.node \in Nodes /\ c.slot \in {0, 1}
        /\ c.kind = "seq" => c.slot = 0
        /\ c.kind = "wide" => ~c.entry
        /\ c.batched => c.entry }

\* The scratch of construct c in state o is in use, and its seen set says what
\* the record decoded.
Uses(o, c) ==
    IF c.kind = "wide"
    THEN c.slot \in 1..Len(o.wide) /\ o.wide[c.slot].inUse /\ o.wide[c.slot].marked = c.marked
    ELSE c.slot = 1 => o.maps[c.node].inUse

Shares(c, d) ==
    IF c.kind = "wide" THEN d.kind = "wide" /\ c.slot = d.slot
    ELSE d.kind # "wide" /\ c.slot = 1 /\ d.slot = 1 /\ c.node = d.node

Batched(st) == { a \in 1..Len(st) : st[a].batched }

Agrees(o, st) ==
    /\ st \in Seq(Constructs)
    /\ \A a \in 1..Len(st) : Uses(o, st[a])
    /\ \A a, b \in 1..Len(st) : a # b => ~Shares(st[a], st[b])
    /\ o.batch = Cardinality(Batched(st))

StacksAgree ==
    /\ stack \in [Procs -> Seq(Constructs)]
    /\ \A p \in Procs : IF pc[p] \in {"decode", "unwind"} THEN Agrees(ops[held[p]], stack[p])
                        ELSE stack[p] = <<>>

ApartInv == Inv /\ StacksAgree

LEMMA LeastNumber ==
    ASSUME NEW T, T \subseteq Nat, T # {}
    PROVE  \E x \in T : \A y \in T : x <= y
  <1> DEFINE R == OpToRel(<, Nat)
  <1>1. IsWellFoundedOn(R, Nat)
    BY NatLessThanWellFounded
  <1> HIDE DEF R
  <1>2. PICK x \in T : \A y \in T : ~ (<<y, x>> \in R)
    BY <1>1, WFMin
  <1>3. ASSUME NEW y \in T, y < x
        PROVE  FALSE
    <2>1. <<y, x>> \in R
      BY <1>3 DEF R, OpToRel
    <2>. QED
      BY <1>2, <2>1
  <1>. QED
    BY <1>3

LEMMA BatchedFinite ==
    ASSUME NEW st \in Seq(Constructs)
    PROVE  IsFiniteSet(Batched(st)) /\ Cardinality(Batched(st)) \in Nat
  <1>1. Batched(st) \in SUBSET (1..Len(st)) /\ Len(st) \in Int /\ 1 \in Int
    BY DEF Batched
  <1>2. IsFiniteSet(1..Len(st))
    BY <1>1, FS_Interval
  <1>. QED
    BY <1>1, <1>2, FS_Subset, FS_CardinalityType

\* A clean state has nothing open.
LEMMA AgreesEmpty ==
    ASSUME NEW o \in OpStates, IsClean(o)
    PROVE  Agrees(o, <<>>)
  <1>1. <<>> \in Seq(Constructs) /\ Len(<<>>) = 0
    OBVIOUS
  <1>2. Batched(<<>>) = {}
    BY DEF Batched
  <1>. QED
    BY <1>1, <1>2, FS_EmptySet DEF Agrees, IsClean

\* A construct with scratch of its own is opened.
LEMMA AgreesPush ==
    ASSUME NEW o, NEW st, Agrees(o, st), NEW c \in Constructs, ~c.batched,
           NEW r, r.batch = o.batch, Uses(r, c),
           \A a \in 1..Len(st) : Uses(r, st[a]) /\ ~Shares(c, st[a])
    PROVE  Agrees(r, Append(st, c))
  <1> DEFINE n == Len(st)
             t == Append(st, c)
  <1>1. /\ st \in Seq(Constructs) /\ n \in Nat /\ t \in Seq(Constructs) /\ Len(t) = n + 1
        /\ \A a \in 1..n : t[a] = st[a]
        /\ t[n + 1] = c
    BY AppendProperties DEF Agrees
  <1> HIDE DEF t
  <1>2. \A a \in 1..Len(t) : a \in 1..n \/ a = n + 1
    BY <1>1
  <1>3. \A a \in 1..n : a \in 1..Len(t) /\ a # n + 1
    BY <1>1
  <1> HIDE DEF n
  <1>4. \A a \in 1..Len(t) : Uses(r, t[a])
    BY <1>1, <1>2 DEF n
  <1>5. ASSUME NEW a \in 1..Len(t), NEW b \in 1..Len(t), a # b
        PROVE  ~Shares(t[a], t[b])
    <2>1. \A i, j \in 1..n : i # j => ~Shares(st[i], st[j])
      BY DEF Agrees, n
    <2>2. \A i \in 1..n : ~Shares(c, st[i]) /\ ~Shares(st[i], c)
      BY DEF Shares, n
    <2>. QED
      BY <1>1, <1>2, <1>5, <2>1, <2>2
  <1>6. Batched(t) = Batched(st)
    <2>1. \A a \in 1..Len(t) : t[a].batched => a \in 1..n /\ st[a].batched
      BY <1>1, <1>2
    <2>. QED
      BY <1>1, <1>3, <2>1 DEF Batched, n
  <1>. QED
    BY <1>1, <1>4, <1>5, <1>6 DEF Agrees, t

\* The innermost construct is closed.
LEMMA AgreesPop ==
    ASSUME NEW o, NEW st, Agrees(o, st), st # <<>>, NEW r,
           r.batch = IF st[Len(st)].batched THEN o.batch - 1 ELSE o.batch,
           \A a \in 1..(Len(st) - 1) : Uses(r, st[a])
    PROVE  Agrees(r, SubSeq(st, 1, Len(st) - 1))
  <1> DEFINE n == Len(st)
             t == SubSeq(st, 1, n - 1)
  <1>1. st \in Seq(Constructs) /\ n \in Nat \ {0} /\ \A a \in 1..n : st[a] \in Constructs
    BY DEF Agrees
  <1>2. /\ t \in Seq(Constructs) /\ Len(t) = n - 1
        /\ \A a \in 1..(n - 1) : t[a] = st[a]
    <2>1. n - 1 \in Int /\ 1 \in Int /\ \A a \in 1..(n - 1) : st[a] \in Constructs
      BY <1>1
    <2> HIDE DEF n
    <2>2. /\ t \in Seq(Constructs) /\ Len(t) = IF 1 <= n - 1 THEN (n - 1) - 1 + 1 ELSE 0
          /\ \A a \in 1..((n - 1) - 1 + 1) : t[a] = st[1 + a - 1]
      BY <2>1, SubSeqProperties
    <2>. QED
      BY <1>1, <2>2
  <1> HIDE DEF t
  <1>3. \A a \in 1..Len(t) : a \in 1..n /\ a # n
    BY <1>1, <1>2
  <1>4. \A a \in 1..n : a # n => a \in 1..Len(t)
    BY <1>1, <1>2
  <1>5. Batched(t) = Batched(st) \ {n}
    BY <1>2, <1>3, <1>4 DEF Batched
  <1>6. n \in Batched(st) <=> st[n].batched
    BY <1>1 DEF Batched
  <1>7. r.batch = Cardinality(Batched(t))
    <2>1. o.batch = Cardinality(Batched(st)) /\ IsFiniteSet(Batched(st))
      BY <1>1, BatchedFinite DEF Agrees
    <2>. QED
      BY <1>5, <1>6, <2>1, FS_RemoveElement
  <1>8. \A a, b \in 1..Len(t) : a # b => ~Shares(t[a], t[b])
    BY <1>2, <1>3 DEF Agrees
  <1>9. \A a \in 1..Len(t) : Uses(r, t[a])
    BY <1>2
  <1>. QED
    BY <1>2, <1>7, <1>8, <1>9 DEF Agrees, t

\* A construct changes where it is, and keeps its scratch.
LEMMA AgreesChange ==
    ASSUME NEW o, NEW st, Agrees(o, st), NEW k \in 1..Len(st), NEW c \in Constructs,
           c.kind = st[k].kind, c.node = st[k].node, c.slot = st[k].slot, NEW r,
           r.batch = IF c.batched = st[k].batched THEN o.batch
                     ELSE IF c.batched THEN o.batch + 1 ELSE o.batch - 1,
           Uses(r, c), \A a \in 1..Len(st) : a # k => Uses(r, st[a])
    PROVE  Agrees(r, [st EXCEPT ![k] = c])
  <1> DEFINE t == [st EXCEPT ![k] = c]
  <1>1. /\ st \in Seq(Constructs) /\ t \in Seq(Constructs) /\ Len(t) = Len(st)
        /\ \A a \in 1..Len(st) : t[a] = IF a = k THEN c ELSE st[a]
        /\ st[k] \in Constructs
    BY ExceptSeq DEF Agrees
  <1> HIDE DEF t
  <1>2. \A a, b \in 1..Len(t) : a # b => ~Shares(t[a], t[b])
    <2>1. \A a, b \in 1..Len(st) : a # b => ~Shares(st[a], st[b])
      BY DEF Agrees
    <2>2. \A d : (Shares(c, d) <=> Shares(st[k], d)) /\ (Shares(d, c) <=> Shares(d, st[k]))
      BY DEF Shares
    <2>. QED
      BY <1>1, <2>1, <2>2
  <1>3. \A a \in 1..Len(t) : Uses(r, t[a])
    BY <1>1
  <1>4. r.batch = Cardinality(Batched(t))
    <2>1. o.batch = Cardinality(Batched(st)) /\ IsFiniteSet(Batched(st))
      BY <1>1, BatchedFinite DEF Agrees
    <2>2. /\ c.batched \in BOOLEAN /\ st[k].batched \in BOOLEAN
          /\ k \in Batched(st) <=> st[k].batched
      BY <1>1 DEF Batched, Constructs
    <2>3. CASE c.batched = st[k].batched
      <3>1. Batched(t) = Batched(st)
        BY <1>1, <2>3 DEF Batched
      <3>. QED
        BY <2>1, <2>3, <3>1
    <2>4. CASE c.batched /\ ~st[k].batched
      <3>1. Batched(t) = Batched(st) \cup {k}
        BY <1>1, <2>4 DEF Batched
      <3>. QED
        BY <2>1, <2>2, <2>4, <3>1, FS_AddElement
    <2>5. CASE ~c.batched /\ st[k].batched
      <3>1. Batched(t) = Batched(st) \ {k}
        BY <1>1, <2>5 DEF Batched
      <3>. QED
        BY <2>1, <2>2, <2>5, <3>1, FS_RemoveElement
    <2>. QED
      BY <2>2, <2>3, <2>4, <2>5
  <1>. QED
    BY <1>1, <1>2, <1>3, <1>4 DEF Agrees, t

-----------------------------------------------------------------------------
(***************************************************************************)
(* Steps of a document keep its stack and its state in agreement.          *)
(***************************************************************************)

LEMMA Working ==
    ASSUME ApartInv, NEW p \in Procs, pc[p] \in {"decode", "unwind"}
    PROVE  /\ held[p] \in States /\ held[p] # Nil
           /\ Op(p) \in OpStates /\ Op(p).batch \in Int /\ Op(p).wide \in Seq(SeenSets)
           /\ Agrees(Op(p), stack[p]) /\ stack[p] \in Seq(Constructs)
  <1>1. held[p] \in States /\ held[p] # Nil
    BY Owner DEF ApartInv, Owning
  <1>2. Agrees(Op(p), stack[p]) /\ stack[p] \in Seq(Constructs)
    BY DEF ApartInv, StacksAgree, Op
  <1>. QED
    BY <1>1, <1>2, OpIsState DEF ApartInv

\* The other processes keep their states and their stacks.
LEMMA DocumentStep ==
    ASSUME ApartInv, NEW p \in Procs, pc[p] \in {"decode", "unwind"}, NEW o, SetOp(p, o),
           NEW st, stack' = [stack EXCEPT ![p] = st], held' = held,
           pc' = pc \/ (\E l \in {"unwind", "release"} : pc' = [pc EXCEPT ![p] = l]),
           pc'[p] \in {"decode", "unwind"} => Agrees(o, st),
           pc'[p] = "release" => st = <<>>
    PROVE  StacksAgree'
  <1>1. held[p] \in States /\ held[p] # Nil
    BY Working
  <1>2. /\ ops' = [ops EXCEPT ![held[p]] = o] /\ ops'[held[p]] = o
        /\ \A s \in States \ {held[p]} : ops'[s] = ops[s]
    BY <1>1 DEF SetOp, ApartInv, Inv, TypeOK
  <1>3. pc'[p] \in {"decode", "unwind", "release"} /\ \A q \in Procs : q # p => pc'[q] = pc[q]
    BY DEF ApartInv, Inv, TypeOK
  <1>4. st \in Seq(Constructs)
    <2>1. CASE pc'[p] = "release"
      BY <2>1, EmptySeq
    <2>2. CASE pc'[p] \in {"decode", "unwind"}
      BY <2>2 DEF Agrees
    <2>. QED
      BY <1>3, <2>1, <2>2
  <1>5. stack' \in [Procs -> Seq(Constructs)] /\ stack'[p] = st
        /\ \A q \in Procs : q # p => stack'[q] = stack[q]
    BY <1>4 DEF ApartInv, StacksAgree
  <1>6. ASSUME NEW q \in Procs
        PROVE  IF pc'[q] \in {"decode", "unwind"} THEN Agrees(ops'[held'[q]], stack'[q])
               ELSE stack'[q] = <<>>
    <2>1. CASE q = p
      BY <1>2, <1>3, <1>5, <2>1
    <2>2. CASE q # p /\ pc[q] \in {"decode", "unwind"}
      <3>1. held[q] \in States /\ held[q] # held[p]
        BY <1>1, <2>2, Working DEF ApartInv, Inv, Exclusive
      <3>2. ops'[held'[q]] = ops[held[q]]
        BY <1>2, <3>1
      <3>. QED
        BY <1>3, <1>5, <2>2, <3>2 DEF ApartInv, StacksAgree
    <2>3. CASE q # p /\ pc[q] \notin {"decode", "unwind"}
      BY <1>3, <1>5, <2>3 DEF ApartInv, StacksAgree
    <2>. QED
      BY <2>1, <2>2, <2>3
  <1>. QED
    BY <1>5, <1>6 DEF StacksAgree

\* A step that leaves the state alone.
LEMMA StackStep ==
    ASSUME ApartInv, NEW p \in Procs, pc[p] \in {"decode", "unwind"}, ops' = ops,
           NEW st, stack' = [stack EXCEPT ![p] = st], held' = held,
           pc' = pc \/ (\E l \in {"unwind", "release"} : pc' = [pc EXCEPT ![p] = l]),
           pc'[p] \in {"decode", "unwind"} => Agrees(Op(p), st),
           pc'[p] = "release" => st = <<>>
    PROVE  StacksAgree'
  <1>1. SetOp(p, Op(p))
    BY Working DEF SetOp, Op, ApartInv, Inv, TypeOK
  <1>. QED
    BY <1>1, DocumentStep

LEMMA SameStack ==
    ASSUME ApartInv, NEW p \in Procs, stack' = stack
    PROVE  stack' = [stack EXCEPT ![p] = stack[p]]
  BY DEF ApartInv, StacksAgree

\* takeMapScratch: the scratch that is handed out is used by nothing that is
\* open.
LEMMA EnterMapApart ==
    ASSUME ApartInv, NEW p \in Procs, EnterMap(p)
    PROVE  StacksAgree'
  <1>1. PICK kind \in {"map", "inline"}, n \in Nodes : takeMapScratch(p, kind, n)
    BY DEF EnterMap, Nodes
  <1>2. pc[p] = "decode" /\ pc' = pc /\ held' = held
    BY DEF EnterMap, AtValue
  <1> DEFINE o == Op(p)
             st == stack[p]
  <1>3. o \in OpStates /\ Agrees(o, st) /\ st \in Seq(Constructs)
    BY <1>2, Working
  <1>4. \A a \in 1..Len(st) : Uses(o, st[a]) /\ st[a] \in Constructs
    BY <1>3 DEF Agrees
  <1> HIDE DEF o, st
  <1>5. CASE o.maps[n].inUse
    <2> DEFINE c == Construct(kind, n, 0)
    <2>1. c \in Constructs /\ ~c.batched /\ c.slot = 0 /\ c.kind = kind
      BY DEF Construct, Constructs
    <2>2. stack' = [stack EXCEPT ![p] = Append(st, c)] /\ ops' = ops
      BY <1>1, <1>5 DEF takeMapScratch, Push, o, st
    <2> HIDE DEF c
    <2>3. Uses(o, c) /\ \A a \in 1..Len(st) : Uses(o, st[a]) /\ ~Shares(c, st[a])
      BY <1>4, <2>1 DEF Uses, Shares
    <2>4. Agrees(o, Append(st, c))
      BY <1>3, <2>1, <2>3, AgreesPush
    <2>. QED
      BY <1>2, <2>2, <2>4, StackStep DEF o
  <1>6. CASE ~o.maps[n].inUse
    <2> DEFINE c == Construct(kind, n, 1)
               r == [o EXCEPT !.maps[n].inUse = TRUE]
    <2>1. c \in Constructs /\ ~c.batched /\ c.slot = 1 /\ c.kind = kind /\ c.node = n
      BY DEF Construct, Constructs
    <2>2. stack' = [stack EXCEPT ![p] = Append(st, c)] /\ SetOp(p, r)
      BY <1>1, <1>6 DEF takeMapScratch, Push, o, st
    <2>3. /\ r.batch = o.batch /\ r.wide = o.wide /\ r.maps[n].inUse
          /\ \A m \in Nodes : m # n => r.maps[m] = o.maps[m]
      BY <1>3 DEF OpStates
    <2> HIDE DEF c, r
    <2>4. Uses(r, c)
      BY <2>1, <2>3 DEF Uses
    <2>5. ASSUME NEW a \in 1..Len(st)
          PROVE  Uses(r, st[a]) /\ ~Shares(c, st[a])
      <3>1. Uses(o, st[a]) /\ st[a] \in Constructs
        BY <1>4
      <3>2. st[a].kind # "wide" /\ st[a].slot = 1 => st[a].node \in Nodes /\ st[a].node # n
        BY <1>6, <3>1 DEF Uses, Constructs
      <3>. QED
        BY <2>1, <2>3, <3>1, <3>2 DEF Uses, Shares
    <2>6. Agrees(r, Append(st, c))
      BY <1>3, <2>1, <2>3, <2>4, <2>5, AgreesPush
    <2>. QED
      BY <1>2, <2>2, <2>6, DocumentStep
  <1>. QED
    BY <1>5, <1>6

\* takeWideSeen: the first free seen set is free, and a new one is new.
LEMMA EnterWideApart ==
    ASSUME ApartInv, NEW p \in Procs, EnterWide(p)
    PROVE  StacksAgree'
  <1>1. pc[p] = "decode" /\ pc' = pc /\ held' = held /\ takeWideSeen(p)
    BY DEF EnterWide, AtValue
  <1> DEFINE o == Op(p)
             st == stack[p]
             wide == Op(p).wide
             free == { k \in 1..Len(wide) : ~wide[k].inUse }
             k    == IF free = {} THEN Len(wide) + 1 ELSE CHOOSE j \in free : \A l \in free : j <= l
             set  == [inUse |-> TRUE, marked |-> FALSE]
             w    == IF free = {} THEN Append(wide, set) ELSE [wide EXCEPT ![k] = set]
             r    == [o EXCEPT !.wide = w]
             c    == Construct("wide", Nil, k)
  <1>2. o \in OpStates /\ Agrees(o, st) /\ st \in Seq(Constructs) /\ wide \in Seq(SeenSets) /\ o.wide = wide
    BY <1>1, Working
  <1>3. \A a \in 1..Len(st) : Uses(o, st[a]) /\ st[a] \in Constructs
    BY <1>2 DEF Agrees
  <1>4. stack' = [stack EXCEPT ![p] = Append(st, c)] /\ SetOp(p, r)
    BY <1>1 DEF takeWideSeen, Push
  <1>5. Len(wide) \in Nat /\ set \in SeenSets /\ set.inUse /\ set.marked = FALSE
    BY <1>2 DEF SeenSets
  <1> HIDE DEF o, st, wide, set
  <1>6. /\ k \in Nat /\ (k \in free \/ k = Len(wide) + 1) /\ w \in Seq(SeenSets)
        /\ k \in 1..Len(w) /\ w[k] = set
        /\ \A j \in 1..Len(wide) : j # k => j \in 1..Len(w) /\ w[j] = wide[j]
    <2>1. CASE free = {}
      <3>1. k = Len(wide) + 1 /\ w = Append(wide, set)
        BY <2>1
      <3> HIDE DEF k, w
      <3>. QED
        BY <1>2, <1>5, <3>1, AppendProperties
    <2>2. CASE free # {}
      <3>1. \E j \in free : \A l \in free : j <= l
        <4>1. free \subseteq Nat
          BY <1>5
        <4> HIDE DEF free
        <4>. QED
          BY <2>2, <4>1, LeastNumber
      <3>2. k \in free /\ w = [wide EXCEPT ![k] = set]
        BY <2>2, <3>1
      <3>3. k \in 1..Len(wide)
        BY <3>2
      <3> HIDE DEF k, w
      <3>. QED
        BY <1>2, <1>5, <3>2, <3>3, ExceptSeq
    <2>. QED
      BY <2>1, <2>2
  <1>7. r.batch = o.batch /\ r.maps = o.maps /\ r.wide = w
    BY <1>2 DEF OpStates
  <1>8. c \in Constructs /\ ~c.batched /\ c.slot = k /\ c.kind = "wide" /\ c.marked = FALSE
    BY <1>6 DEF Construct, Constructs
  <1> HIDE DEF k, w, r, c
  <1>9. Uses(r, c)
    BY <1>5, <1>6, <1>7, <1>8 DEF Uses
  <1>10. ASSUME NEW a \in 1..Len(st)
         PROVE  Uses(r, st[a]) /\ ~Shares(c, st[a])
    <2>1. Uses(o, st[a])
      BY <1>3
    <2>2. CASE st[a].kind = "wide"
      <3>1. st[a].slot \in 1..Len(wide) /\ wide[st[a].slot].inUse
        BY <1>2, <2>1, <2>2 DEF Uses
      <3>2. st[a].slot # k
        BY <1>5, <1>6, <3>1
      <3>. QED
        BY <1>2, <1>6, <1>7, <1>8, <2>1, <2>2, <3>1, <3>2 DEF Uses, Shares
    <2>3. CASE st[a].kind # "wide"
      BY <1>7, <1>8, <2>1, <2>3 DEF Uses, Shares
    <2>. QED
      BY <2>2, <2>3
  <1>11. Agrees(r, Append(st, c))
    BY <1>2, <1>7, <1>8, <1>9, <1>10, AgreesPush
  <1>. QED
    BY <1>1, <1>4, <1>11, DocumentStep

LEMMA EnterSequenceApart ==
    ASSUME ApartInv, NEW p \in Procs, EnterSequence(p)
    PROVE  StacksAgree'
  <1> DEFINE c == Construct("seq", Nil, 0)
             o == Op(p)
             st == stack[p]
  <1>1. pc[p] = "decode" /\ pc' = pc /\ held' = held /\ ops' = ops
        /\ stack' = [stack EXCEPT ![p] = Append(st, c)]
    BY DEF EnterSequence, AtValue, Push
  <1>2. c \in Constructs /\ ~c.batched /\ c.slot = 0 /\ c.kind = "seq"
    BY DEF Construct, Constructs
  <1>3. o \in OpStates /\ Agrees(o, st)
    BY <1>1, Working
  <1> HIDE DEF c, o, st
  <1>4. Uses(o, c) /\ \A a \in 1..Len(st) : Uses(o, st[a]) /\ ~Shares(c, st[a])
    BY <1>2, <1>3 DEF Uses, Shares, Agrees
  <1>5. Agrees(o, Append(st, c))
    BY <1>2, <1>3, <1>4, AgreesPush
  <1>. QED
    BY <1>1, <1>5, StackStep DEF o

\* A field of a wide record marks the seen set of that record only.
LEMMA MarkApart ==
    ASSUME ApartInv, NEW p \in Procs, Mark(p)
    PROVE  StacksAgree'
  <1> DEFINE o == Op(p)
             st == stack[p]
  <1>1. PICK k \in 1..Len(st) :
          /\ pc[p] = "decode" /\ st[k].kind = "wide"
          /\ SetOp(p, [o EXCEPT !.wide[st[k].slot].marked = TRUE])
          /\ stack' = [stack EXCEPT ![p][k].marked = TRUE]
          /\ pc' = pc /\ held' = held
    BY DEF Mark
  <1>2. o \in OpStates /\ o.wide \in Seq(SeenSets) /\ Agrees(o, st) /\ st \in Seq(Constructs)
        /\ st[k] \in Constructs
    BY <1>1, Working
  <1> DEFINE i == st[k].slot
             c == [st[k] EXCEPT !.marked = TRUE]
             w == [o.wide EXCEPT ![i].marked = TRUE]
             r == [o EXCEPT !.wide[i].marked = TRUE]
  <1>3. Uses(o, st[k]) /\ i \in 1..Len(o.wide) /\ o.wide[i].inUse /\ o.wide[i] \in SeenSets
    <2>1. Uses(o, st[k]) /\ st[k].kind = "wide"
      BY <1>1, <1>2 DEF Agrees
    <2>2. i \in 1..Len(o.wide) /\ o.wide[i].inUse
      BY ONLY <2>1 DEF Uses
    <2>3. o.wide[i] \in SeenSets
      BY <1>2, <2>2, ElementOfSeq
    <2>. QED
      BY ONLY <2>1, <2>2, <2>3
  <1>4. stack' = [stack EXCEPT ![p] = [st EXCEPT ![k] = c]]
    BY <1>1, <1>2 DEF ApartInv, StacksAgree
  <1>5. /\ c \in Constructs /\ c.kind = "wide" /\ c.node = st[k].node /\ c.slot = i
        /\ c.batched = st[k].batched /\ c.marked = TRUE
    BY <1>1, <1>2 DEF Constructs
  <1>6. /\ Len(w) = Len(o.wide) /\ w[i].inUse = o.wide[i].inUse /\ w[i].marked = TRUE
        /\ \A j \in 1..Len(o.wide) : j # i => w[j] = o.wide[j]
    <2> DEFINE e == [o.wide[i] EXCEPT !.marked = TRUE]
    <2>1. e \in SeenSets /\ e.inUse = o.wide[i].inUse /\ e.marked = TRUE
      BY <1>3 DEF SeenSets
    <2>2. w = [o.wide EXCEPT ![i] = e]
      BY <1>2, <1>3
    <2> HIDE DEF e, w, i
    <2>3. /\ Len([o.wide EXCEPT ![i] = e]) = Len(o.wide)
          /\ \A j \in 1..Len(o.wide) : [o.wide EXCEPT ![i] = e][j] = IF j = i THEN e ELSE o.wide[j]
      BY <1>2, <1>3, <2>1, ExceptSeq
    <2>. QED
      BY <1>3, <2>1, <2>2, <2>3
  <1>7. r.batch = o.batch /\ r.maps = o.maps /\ r.wide = w
    BY <1>2 DEF OpStates
  <1> HIDE DEF o, st, c, w, r, i
  <1>8. Uses(r, c)
    BY <1>3, <1>5, <1>6, <1>7 DEF Uses
  <1>9. ASSUME NEW a \in 1..Len(st), a # k
        PROVE  Uses(r, st[a])
    <2>1. Uses(o, st[a]) /\ ~Shares(st[a], st[k])
      BY <1>2, <1>9 DEF Agrees
    <2>. QED
      BY <1>1, <1>6, <1>7, <2>1 DEF Uses, Shares, i
  <1>10. Agrees(r, [st EXCEPT ![k] = c])
    BY <1>1, <1>2, <1>5, <1>7, <1>8, <1>9, AgreesChange DEF i
  <1>. QED
    BY <1>1, <1>4, <1>10, DocumentStep DEF r, i

LEMMA NewTop ==
    ASSUME NEW st \in Seq(Constructs), st # <<>>, NEW c \in Constructs
    PROVE  /\ Len(st) \in 1..Len(st) /\ st[Len(st)] \in Constructs
           /\ Append(SubSeq(st, 1, Len(st) - 1), c) = [st EXCEPT ![Len(st)] = c]
  <1> DEFINE n == Len(st)
             b == SubSeq(st, 1, n - 1)
             t == [st EXCEPT ![n] = c]
             u == Append(b, c)
  <1>1. n \in Nat \ {0} /\ n \in 1..n /\ \A a \in 1..n : st[a] \in Constructs
    OBVIOUS
  <1>2. /\ b \in Seq(Constructs) /\ Len(b) = n - 1
        /\ \A a \in 1..(n - 1) : b[a] = st[a]
    <2>1. n - 1 \in Int /\ 1 \in Int /\ \A a \in 1..(n - 1) : st[a] \in Constructs
      BY <1>1
    <2> HIDE DEF n
    <2>2. /\ b \in Seq(Constructs) /\ Len(b) = IF 1 <= n - 1 THEN (n - 1) - 1 + 1 ELSE 0
          /\ \A a \in 1..((n - 1) - 1 + 1) : b[a] = st[1 + a - 1]
      BY <2>1, SubSeqProperties
    <2>. QED
      BY <1>1, <2>2
  <1> HIDE DEF b
  <1>3. /\ u \in Seq(Constructs) /\ Len(u) = n /\ u[n] = c
        /\ \A a \in 1..(n - 1) : u[a] = st[a]
    BY <1>1, <1>2, AppendProperties
  <1>4. /\ t \in Seq(Constructs) /\ Len(t) = n
        /\ \A a \in 1..n : t[a] = IF a = n THEN c ELSE st[a]
    BY <1>1, ExceptSeq
  <1> HIDE DEF u, t
  <1>5. \A a \in 1..n : u[a] = t[a]
    <2>1. \A a \in 1..n : a = n \/ a \in 1..(n - 1)
      BY <1>1
    <2>. QED
      BY <1>1, <1>3, <1>4, <2>1
  <1>6. u = t
    BY <1>3, <1>4, <1>5, SeqEqual
  <1>. QED
    BY <1>1, <1>6 DEF u, t, b

\* beginReceiverBatch and endReceiverBatch.
LEMMA EntryApart ==
    ASSUME ApartInv, NEW p \in Procs, BeginEntry(p) \/ EndEntry(p)
    PROVE  StacksAgree'
  <1> DEFINE o == Op(p)
             st == stack[p]
             n == Len(st)
             top == Top(p)
  <1>1. pc[p] = "decode" /\ pc' = pc /\ held' = held /\ st # <<>>
    BY DEF BeginEntry, EndEntry
  <1>2. o \in OpStates /\ o.batch \in Int /\ Agrees(o, st) /\ st \in Seq(Constructs)
        /\ n \in 1..n /\ top \in Constructs /\ top = st[n]
    <2>1. o \in OpStates /\ o.batch \in Int /\ Agrees(o, st) /\ st \in Seq(Constructs)
      BY <1>1, Working
    <2>2. n \in 1..n /\ st[n] \in Constructs
      BY <1>1, <2>1
    <2>. QED
      BY <2>1, <2>2 DEF Top
  <1>3. \A a \in 1..n : Uses(o, st[a])
    BY <1>2 DEF Agrees
  <1>4. CASE BeginEntry(p)
    <2> DEFINE m == IF top.slot = 1 THEN [o.maps EXCEPT ![top.node].boxed = TRUE] ELSE o.maps
               i == IF BatchesEntry(top) THEN o.batch + 1 ELSE o.batch
               r == [o EXCEPT !.maps = m, !.batch = i]
               c == [top EXCEPT !.entry = TRUE, !.first = FALSE, !.batched = BatchesEntry(top)]
    <2>1. top.kind # "wide" /\ ~top.entry /\ SetOp(p, r)
          /\ stack' = [stack EXCEPT ![p] = Append(Below(p), c)]
      BY <1>4 DEF BeginEntry
    <2>2. BatchesEntry(top) \in BOOLEAN
      BY DEF BatchesEntry
    <2>3. c \in Constructs /\ c.kind = top.kind /\ c.node = top.node /\ c.slot = top.slot
          /\ c.batched = BatchesEntry(top) /\ top.batched = FALSE
      <3> HIDE DEF top
      <3>. QED
        BY <1>2, <2>1, <2>2 DEF Constructs
    <2>4. stack' = [stack EXCEPT ![p] = [st EXCEPT ![n] = c]]
      BY <1>1, <1>2, <2>1, <2>3, NewTop DEF Below
    <2>5. /\ r.wide = o.wide /\ r.batch = i
          /\ \A x \in Nodes : r.maps[x].inUse = o.maps[x].inUse
      <3>1. r.wide = o.wide /\ r.batch = i /\ r.maps = m
        BY <1>2 DEF OpStates
      <3>2. \A x \in Nodes : m[x].inUse = o.maps[x].inUse
        BY <1>2 DEF OpStates
      <3>. QED
        BY <3>1, <3>2
    <2> HIDE DEF r, c, m
    <2>6. \A a \in 1..n : Uses(r, st[a])
      <3>1. \A a \in 1..n : st[a] \in Constructs
        BY <1>2
      <3>2. \A a \in 1..n : st[a].kind # "wide" /\ st[a].slot = 1 => st[a].node \in Nodes
        BY <3>1 DEF Constructs
      <3>. QED
        BY <1>3, <2>5, <3>2 DEF Uses
    <2>7. Uses(r, c)
      BY <1>2, <2>1, <2>3, <2>6 DEF Uses
    <2>8. r.batch = IF c.batched = top.batched THEN o.batch ELSE IF c.batched THEN o.batch + 1 ELSE o.batch - 1
      BY <2>2, <2>3, <2>5
    <2> HIDE DEF top, o, st, n
    <2>9. Agrees(r, [st EXCEPT ![n] = c])
      BY <1>2, <2>3, <2>6, <2>7, <2>8, AgreesChange DEF n
    <2>. QED
      BY <1>1, <2>1, <2>4, <2>9, DocumentStep
  <1>5. CASE EndEntry(p)
    <2> DEFINE r == endReceiverBatch(p)
               c == [top EXCEPT !.entry = FALSE, !.batched = FALSE]
    <2>1. top.entry /\ SetOp(p, r) /\ stack' = [stack EXCEPT ![p] = Append(Below(p), c)]
      BY <1>5 DEF EndEntry
    <2>2. c \in Constructs /\ c.kind = top.kind /\ c.node = top.node /\ c.slot = top.slot
          /\ c.batched = FALSE /\ top.kind # "wide"
      <3> HIDE DEF top
      <3>. QED
        BY <1>2, <2>1 DEF Constructs
    <2>3. stack' = [stack EXCEPT ![p] = [st EXCEPT ![n] = c]]
      BY <1>1, <1>2, <2>1, <2>2, NewTop DEF Below
    <2>4. r.wide = o.wide /\ r.maps = o.maps /\ r.batch = IF top.batched THEN o.batch - 1 ELSE o.batch
      BY <1>2 DEF endReceiverBatch, OpStates
    <2>5. top.batched \in BOOLEAN
      <3> HIDE DEF top
      <3>. QED
        BY <1>2 DEF Constructs
    <2> HIDE DEF r, c
    <2>6. \A a \in 1..n : Uses(r, st[a])
      BY <1>3, <2>4 DEF Uses
    <2>7. Uses(r, c)
      BY <1>2, <2>2, <2>6 DEF Uses
    <2>8. r.batch = IF c.batched = top.batched THEN o.batch ELSE IF c.batched THEN o.batch + 1 ELSE o.batch - 1
      BY <2>2, <2>4, <2>5
    <2> HIDE DEF top, o, st, n
    <2>9. Agrees(r, [st EXCEPT ![n] = c])
      BY <1>2, <2>2, <2>6, <2>7, <2>8, AgreesChange DEF n
    <2>. QED
      BY <1>1, <2>1, <2>3, <2>9, DocumentStep
  <1>. QED
    BY <1>4, <1>5

\* Receivers and replace records are not scratch of a construct.
LEMMA FlagsApart ==
    ASSUME ApartInv, NEW p \in Procs, nextReceiverShadow(p) \/ storeReplaceReference(p)
    PROVE  StacksAgree'
  <1> DEFINE o == Op(p)
             st == stack[p]
  <1>1. pc[p] = "decode" /\ pc' = pc /\ held' = held /\ stack' = stack
    BY DEF nextReceiverShadow, storeReplaceReference
  <1>2. o \in OpStates /\ Agrees(o, st)
    BY <1>1, Working
  <1>3. PICK r \in {[o EXCEPT !.arena = TRUE], [o EXCEPT !.refs = TRUE]} : SetOp(p, r)
    BY DEF nextReceiverShadow, storeReplaceReference
  <1>4. r.wide = o.wide /\ r.maps = o.maps /\ r.batch = o.batch
    BY <1>2, <1>3 DEF OpStates
  <1> HIDE DEF o, st
  <1>5. Agrees(r, st)
    BY <1>2, <1>4 DEF Agrees, Uses
  <1>. QED
    BY <1>1, <1>3, <1>5, SameStack, DocumentStep DEF st

\* A construct that gives its scratch back takes nothing from the others.
LEMMA GiveBackApart ==
    ASSUME NEW o \in OpStates, NEW c \in Constructs, NEW d \in Constructs,
           Uses(o, c), Uses(o, d), ~Shares(c, d)
    PROVE  Uses(GiveBack(o, c), d)
  <1> DEFINE r == GiveBack(o, c)
  <1>1. CASE c.kind = "wide"
    <2> DEFINE i == c.slot
               e == [o.wide[i] EXCEPT !.inUse = FALSE]
    <2>0. o.wide \in Seq(SeenSets) /\ i \in 1..Len(o.wide)
      BY <1>1 DEF Uses, OpStates, SeenSets
    <2>1. o.wide \in Seq(SeenSets) /\ i \in 1..Len(o.wide) /\ o.wide[i] \in SeenSets
      BY <2>0, ElementOfSeq
    <2>2. r = [o EXCEPT !.wide = [o.wide EXCEPT ![i] = e]]
      BY <1>1 DEF GiveBack
    <2>3. e \in SeenSets
      BY <2>1 DEF SeenSets
    <2> HIDE DEF e, i
    <2>4. /\ Len([o.wide EXCEPT ![i] = e]) = Len(o.wide)
          /\ \A j \in 1..Len(o.wide) : [o.wide EXCEPT ![i] = e][j] = IF j = i THEN e ELSE o.wide[j]
      BY <2>1, <2>3, ExceptSeq
    <2>5. r.wide = [o.wide EXCEPT ![i] = e] /\ r.maps = o.maps
      BY <2>2 DEF OpStates
    <2> HIDE DEF r
    <2>6. d.kind = "wide" => d.slot # i
      BY <1>1 DEF Shares, i
    <2>. QED
      BY <2>4, <2>5, <2>6 DEF Uses, r
  <1>2. CASE c.kind # "wide" /\ c.slot = 1
    <2>1. r = [o EXCEPT !.maps[c.node] = EmptyBox]
      BY <1>2 DEF GiveBack
    <2>2. r.wide = o.wide /\ \A x \in Nodes : x # c.node => r.maps[x] = o.maps[x]
      BY <2>1 DEF OpStates
    <2> HIDE DEF r
    <2>3. d.kind # "wide" /\ d.slot = 1 => d.node \in Nodes /\ d.node # c.node
      BY <1>2 DEF Shares, Constructs
    <2>. QED
      BY <2>2, <2>3 DEF Uses, r
  <1>3. CASE c.kind # "wide" /\ c.slot # 1
    BY <1>3 DEF GiveBack
  <1>. QED
    BY <1>1, <1>2, <1>3

LEMMA GiveBackBatch ==
    ASSUME NEW o \in OpStates, NEW c
    PROVE  GiveBack(o, c).batch = o.batch
  BY DEF GiveBack, OpStates

\* The innermost construct ends, with its value or with an error.
LEMMA ClosingApart ==
    ASSUME ApartInv, NEW p \in Procs, pc[p] \in {"decode", "unwind"}, stack[p] # <<>>,
           NEW r, SetOp(p, r),
           \/ r = GiveBack(endReceiverBatch(p), Top(p)) \/ r = endReceiverBatch(p),
           stack' = [stack EXCEPT ![p] = Below(p)], pc' = pc, held' = held
    PROVE  StacksAgree'
  <1> DEFINE st == stack[p]
             n == Len(st)
             c == Top(p)
             o == Op(p)
             e == endReceiverBatch(p)
  <1>1. o \in OpStates /\ o.batch \in Int /\ Agrees(o, st) /\ st \in Seq(Constructs)
        /\ n \in Nat \ {0} /\ c = st[n] /\ \A a \in 1..n : st[a] \in Constructs
    <2>1. o \in OpStates /\ o.batch \in Int /\ Agrees(o, st) /\ st \in Seq(Constructs)
      BY Working
    <2>2. n \in Nat \ {0} /\ \A a \in 1..n : st[a] \in Constructs
      BY <2>1
    <2>. QED
      BY <2>1, <2>2 DEF Top
  <1>2. /\ e \in OpStates /\ e.wide = o.wide /\ e.maps = o.maps
        /\ e.batch = IF c.batched THEN o.batch - 1 ELSE o.batch
    BY <1>1 DEF endReceiverBatch, OpStates
  <1> HIDE DEF c, o, e, st, n
  <1>3. \A a \in 1..n : Uses(e, st[a])
    BY <1>1, <1>2 DEF Agrees, Uses, n
  <1>4. r.batch = e.batch
    BY <1>2, GiveBackBatch DEF e, c
  <1>5. ASSUME NEW a \in 1..(n - 1)
        PROVE  Uses(r, st[a])
    <2>1. a \in 1..n /\ n \in 1..n /\ a # n
      BY <1>1
    <2>2. Uses(e, st[a]) /\ Uses(e, st[n]) /\ st[a] \in Constructs /\ st[n] \in Constructs
      BY <1>1, <1>3, <2>1
    <2>3. ~Shares(st[n], st[a])
      BY <1>1, <2>1 DEF Agrees, n
    <2>4. Uses(GiveBack(e, st[n]), st[a])
      BY <1>2, <2>2, <2>3, GiveBackApart
    <2>. QED
      BY <1>1, <2>2, <2>4 DEF e, c
  <1>6. Agrees(r, SubSeq(st, 1, n - 1))
    BY <1>1, <1>2, <1>4, <1>5, AgreesPop DEF n, st
  <1>. QED
    BY <1>6, DocumentStep DEF Below, st, n

LEMMA LeaveApart ==
    ASSUME ApartInv, NEW p \in Procs, Leave(p)
    PROVE  StacksAgree'
  <1>1. /\ pc[p] = "decode" /\ stack[p] # <<>> /\ ~Top(p).entry /\ pc' = pc /\ held' = held
        /\ SetOp(p, GiveBack(Op(p), Top(p))) /\ stack' = [stack EXCEPT ![p] = Below(p)]
    BY DEF Leave
  <1>2. Top(p) \in Constructs /\ Op(p) \in OpStates
    BY <1>1, Working DEF Top
  <1>3. ~Top(p).batched
    BY <1>1, <1>2 DEF Constructs
  <1>4. endReceiverBatch(p) = Op(p)
    BY <1>2, <1>3 DEF endReceiverBatch, OpStates
  <1>. QED
    BY <1>1, <1>4, ClosingApart

LEMMA UnwindApart ==
    ASSUME ApartInv, NEW p \in Procs, Unwind(p)
    PROVE  StacksAgree'
  <1>1. pc[p] = "unwind" /\ held' = held
    BY DEF Unwind
  <1>2. CASE stack[p] = <<>>
    <2>1. ops' = ops /\ stack' = stack /\ pc' = [pc EXCEPT ![p] = "release"]
      BY <1>2 DEF Unwind
    <2>2. pc'[p] = "release"
      BY <2>1 DEF ApartInv, Inv, TypeOK
    <2>. QED
      BY <1>1, <1>2, <2>1, <2>2, SameStack, StackStep
  <1>3. CASE stack[p] # <<>>
    BY <1>1, <1>3, ClosingApart DEF Unwind
  <1>. QED
    BY <1>2, <1>3

\* The document ends, fails, or a user's method panics.
LEMMA EndingApart ==
    ASSUME ApartInv, NEW p \in Procs, Finish(p) \/ Fail(p) \/ Panic(p)
    PROVE  StacksAgree'
  <1>1. pc[p] = "decode" /\ held' = held
    BY DEF Finish, Fail, Panic
  <1>2. pc \in [Procs -> {"idle", "take"} \cup Owning]
    BY DEF ApartInv, Inv, TypeOK
  <1>3. CASE Finish(p)
    <2>1. ops' = ops /\ stack' = stack /\ stack[p] = <<>> /\ pc' = [pc EXCEPT ![p] = "release"]
          /\ pc'[p] = "release"
      BY <1>2, <1>3 DEF Finish
    <2>. QED
      BY <1>1, <2>1, SameStack, StackStep
  <1>4. CASE Fail(p)
    <2>1. ops' = ops /\ stack' = stack /\ pc' = [pc EXCEPT ![p] = "unwind"] /\ pc'[p] = "unwind"
      BY <1>2, <1>4 DEF Fail
    <2>. QED
      BY <1>1, <2>1, SameStack, Working, StackStep
  <1>5. CASE Panic(p)
    <2>1. PICK r : SetOp(p, r) /\ stack' = [stack EXCEPT ![p] = <<>>]
                   /\ pc' = [pc EXCEPT ![p] = "release"]
      BY <1>5 DEF Panic
    <2>2. pc'[p] = "release"
      BY <1>2, <2>1
    <2>. QED
      BY <1>1, <2>1, <2>2, DocumentStep
  <1>. QED
    BY <1>3, <1>4, <1>5

-----------------------------------------------------------------------------
(***************************************************************************)
(* A process that takes or releases a state has nothing open.              *)
(***************************************************************************)

LEMMA PoolStep ==
    ASSUME ApartInv, NEW p \in Procs, pc[p] \notin {"decode", "unwind"}, stack' = stack,
           \A q \in Procs \ {p} :
              /\ pc'[q] = pc[q]
              /\ pc[q] \in {"decode", "unwind"} => held'[q] = held[q] /\ ops'[held[q]] = ops[held[q]],
           pc'[p] \in {"decode", "unwind"} => ops'[held'[p]] \in OpStates /\ IsClean(ops'[held'[p]])
    PROVE  StacksAgree'
  <1>1. ASSUME NEW q \in Procs
        PROVE  IF pc'[q] \in {"decode", "unwind"} THEN Agrees(ops'[held'[q]], stack'[q])
               ELSE stack'[q] = <<>>
    <2>1. CASE q = p
      <3>1. stack'[p] = <<>>
        BY DEF ApartInv, StacksAgree
      <3>. QED
        BY <2>1, <3>1, AgreesEmpty
    <2>2. CASE q # p /\ pc[q] \in {"decode", "unwind"}
      BY <2>2 DEF ApartInv, StacksAgree
    <2>3. CASE q # p /\ pc[q] \notin {"decode", "unwind"}
      BY <2>3 DEF ApartInv, StacksAgree
    <2>. QED
      BY <2>1, <2>2, <2>3
  <1>. QED
    BY <1>1 DEF ApartInv, StacksAgree

LEMMA PoolApart ==
    ASSUME ApartInv, NEW p \in Procs, StartDecode(p) \/ Pool(p)
    PROVE  StacksAgree'
  <1>1. /\ pc[p] \notin {"decode", "unwind"} /\ stack' = stack
        /\ pc \in [Procs -> {"idle", "take"} \cup Owning]
    BY DEF StartDecode, Pool, TakeSwap, TakeNew, Release, Put, Drop, ApartInv, Inv, TypeOK
  <1>2. /\ held \in [Procs -> States \cup {Nil}] /\ ops \in [States -> OpStates]
        /\ idx[p] \in 1..(CacheSlots + 1) /\ CacheSlots \in Nat
        /\ cache \in [1..CacheSlots -> States \cup {Nil}]
    BY ScratchAssumption DEF ApartInv, Inv, TypeOK
  <1>3. \A q \in Procs : pc[q] \in {"decode", "unwind"} => held[q] \in States /\ held[q] # Nil
    BY Working
  <1>4. CASE StartDecode(p)
    <2>1. pc' = [pc EXCEPT ![p] = "take"] /\ held' = held /\ ops' = ops
      BY <1>4 DEF StartDecode
    <2>2. pc'[p] = "take" /\ \A q \in Procs \ {p} : pc'[q] = pc[q]
      BY <1>1, <2>1
    <2>. QED
      BY <1>1, <2>1, <2>2, PoolStep
  <1>5. CASE TakeSwap(p)
    <2>1. idx[p] \in 1..CacheSlots /\ ops' = ops
      BY <1>2, <1>5 DEF TakeSwap
    <2>2. CASE cache[idx[p]] = Nil
      BY <1>1, <1>5, <2>1, <2>2, PoolStep DEF TakeSwap
    <2>3. CASE cache[idx[p]] # Nil
      <3>1. held' = [held EXCEPT ![p] = cache[idx[p]]] /\ pc' = [pc EXCEPT ![p] = "decode"]
        BY <1>5, <2>3 DEF TakeSwap
      <3>2. held'[p] = cache[idx[p]] /\ \A q \in Procs \ {p} : pc'[q] = pc[q] /\ held'[q] = held[q]
        BY <1>1, <1>2, <3>1
      <3>3. cache[idx[p]] \in States /\ IsClean(ops[cache[idx[p]]])
        BY <1>2, <2>1, <2>3 DEF ApartInv, Inv, CachedClean
      <3>. QED
        BY <1>1, <1>2, <2>1, <3>2, <3>3, PoolStep
    <2>. QED
      BY <2>2, <2>3
  <1>6. CASE TakeNew(p)
    <2>1. PICK s \in Garbage : /\ held' = [held EXCEPT ![p] = s]
                               /\ ops' = [ops EXCEPT ![s] = NewState]
      BY <1>6 DEF TakeNew
    <2>2. s \in States /\ \A q \in Procs : held[q] # s
      BY DEF Garbage
    <2>3. pc' = [pc EXCEPT ![p] = "decode"]
      BY <1>6 DEF TakeNew
    <2>4. /\ held'[p] = s /\ ops'[s] = NewState
          /\ \A q \in Procs \ {p} : pc'[q] = pc[q] /\ held'[q] = held[q]
          /\ \A t \in States \ {s} : ops'[t] = ops[t]
      BY <1>1, <1>2, <2>1, <2>2, <2>3
    <2>. QED
      BY <1>1, <1>3, <2>2, <2>4, NewStateClean, PoolStep
  <1>7. CASE Release(p) \/ Drop(p)
    <2>1. pc[p] \in {"release", "put"}
      BY <1>7 DEF Release, Drop
    <2>2. held[p] \in States /\ held[p] # Nil
      BY <2>1, Owner DEF ApartInv, Owning
    <2>3. PICK v : ops' = [ops EXCEPT ![held[p]] = v]
      BY <1>7 DEF Release, Drop
    <2>4. PICK l \in {"put", "idle"} : pc' = [pc EXCEPT ![p] = l]
      BY <1>7 DEF Release, Drop
    <2>5. \A q \in Procs \ {p} : pc'[q] = pc[q] /\ held'[q] = held[q]
      BY <1>1, <1>2, <1>7, <2>4 DEF Release, Drop
    <2>6. pc'[p] = l
      BY <1>1, <2>4
    <2>7. ASSUME NEW q \in Procs \ {p}, pc[q] \in {"decode", "unwind"}
          PROVE  ops'[held[q]] = ops[held[q]]
      <3>1. held[q] \in States /\ held[q] # held[p]
        BY <1>3, <2>2, <2>7 DEF ApartInv, Inv, Exclusive
      <3>. QED
        BY <1>2, <2>3, <3>1
    <2>. QED
      BY <1>1, <2>4, <2>5, <2>6, <2>7, PoolStep
  <1>8. CASE Put(p)
    <2>1. ops' = ops /\ pc[p] = "put"
          /\ \A q \in Procs \ {p} : pc'[q] = pc[q] /\ held'[q] = held[q]
      BY <1>1, <1>2, <1>8 DEF Put
    <2>2. pc'[p] \in {"put", "idle"}
      BY <1>1, <1>8 DEF Put
    <2>. QED
      BY <1>1, <2>1, <2>2, PoolStep
  <1>. QED
    BY <1>4, <1>5, <1>6, <1>7, <1>8 DEF Pool

LEMMA ApartInit == Init => ApartInv
  <1> SUFFICES ASSUME Init PROVE ApartInv
    OBVIOUS
  <1>1. stack = [p \in Procs |-> <<>>] /\ pc = [p \in Procs |-> "idle"] /\ <<>> \in Seq(Constructs)
    BY DEF Init
  <1>. QED
    BY <1>1, InitInv DEF ApartInv, StacksAgree

LEMMA ApartNext == ApartInv /\ [Next]_vars => ApartInv'
  <1>. SUFFICES ASSUME ApartInv, [Next]_vars PROVE StacksAgree'
    BY NextInv DEF ApartInv
  <1>1. CASE UNCHANGED vars
    BY <1>1 DEF ApartInv, StacksAgree, vars
  <1>2. ASSUME NEW p \in Procs, StartDecode(p) \/ Pool(p)
        PROVE  StacksAgree'
    BY <1>2, PoolApart
  <1>3. ASSUME NEW p \in Procs, Decode(p)
        PROVE  StacksAgree'
    BY <1>3, EnterMapApart, EnterWideApart, EnterSequenceApart, MarkApart, EntryApart, FlagsApart,
       LeaveApart, UnwindApart, EndingApart DEF Decode
  <1>. QED
    BY <1>1, <1>2, <1>3 DEF Next

\* Inside one operation: two open constructs never share boxes or a seen set,
\* in recursive types either (takeMapScratch, takeInlineDecoder, takeWideSeen);
\* a seen set says what its record decoded; and the receiver batches are those
\* of the open entries, through errors too (beginReceiverBatch).
THEOREM ScratchIsApart == Spec => []ScratchApart
  <1>1. ApartInv => ScratchApart
    <2> SUFFICES ASSUME ApartInv
                 PROVE  ScratchApart
      OBVIOUS
    <2>1. ASSUME NEW p \in Procs, pc[p] \in {"decode", "unwind"}
          PROVE  /\ stack[p] \in Seq(Constructs)
                 /\ \A a \in 1..Len(stack[p]) : Uses(Op(p), stack[p][a]) /\ stack[p][a] \in Constructs
                 /\ \A a, b \in 1..Len(stack[p]) : a # b => ~Shares(stack[p][a], stack[p][b])
                 /\ Op(p).batch = Cardinality(Batched(stack[p]))
      BY <2>1, Working DEF Agrees
    <2>2. ScratchUnshared
      <3>1. ASSUME NEW p \in Procs, pc[p] \in {"decode", "unwind"}, NEW a \in 1..Len(stack[p]),
                   stack[p][a].slot # 0
            PROVE  IF stack[p][a].kind = "wide" THEN Op(p).wide[stack[p][a].slot].inUse
                   ELSE Op(p).maps[stack[p][a].node].inUse
        <4>1. Uses(Op(p), stack[p][a]) /\ stack[p][a] \in Constructs
          BY <2>1, <3>1
        <4>. QED
          BY <3>1, <4>1 DEF Uses, Constructs
      <3>2. ASSUME NEW p \in Procs, pc[p] \in {"decode", "unwind"},
                   NEW a \in 1..Len(stack[p]), NEW b \in 1..Len(stack[p]), a # b,
                   stack[p][a].slot # 0, stack[p][a].slot = stack[p][b].slot
            PROVE  \/ (stack[p][a].kind = "wide") # (stack[p][b].kind = "wide")
                   \/ stack[p][a].kind # "wide" /\ stack[p][a].node # stack[p][b].node
        <4>1. ~Shares(stack[p][a], stack[p][b]) /\ stack[p][a] \in Constructs /\ stack[p][b] \in Constructs
          BY <2>1, <3>2
        <4>. QED
          BY <3>2, <4>1 DEF Shares, Constructs
      <3>. QED
        BY <3>1, <3>2 DEF ScratchUnshared
    <2>3. SeenSetOwn
      BY <2>1 DEF SeenSetOwn, Uses
    <2>4. BatchBalanced
      BY <2>1 DEF BatchBalanced, Batched
    <2>. QED
      BY <2>2, <2>3, <2>4 DEF ScratchApart
  <1>. QED
    BY <1>1, ApartInit, ApartNext, PTL DEF Spec

-----------------------------------------------------------------------------
(***************************************************************************)
(* The scratch of the encoder.                                             *)
(***************************************************************************)

Slices == {NilSlice} \union [len : Nat, dirty : Nat]
Elems  == {""} \union {MapPlans[n].elem : n \in DOMAIN MapPlans}

ScratchStates ==
  [entries : Slices, used : Nat, backing : [Slots -> Slices],
   dynBacking : Slices, dynElem : Elems, boxes : BOOLEAN]
BoxStates == [entries : Slices, backing : Slices, value : BOOLEAN]
OpenFrames ==
  [node : DOMAIN MapPlans, len : Nat, count : Nat, entries : Slices, backing : Slices,
   box : 0..Boxes, own : BOOLEAN, oneShot : BOOLEAN]
Calls == [scratch : Scratches, frames : Seq(OpenFrames), live : BOOLEAN]

EncoderTypeOK ==
  /\ idle \subseteq Scratches /\ scr \in [Scratches -> ScratchStates]
  /\ idleBox \subseteq 1..Boxes /\ box \in [1..Boxes -> BoxStates]
  /\ calls \in Seq(Calls)

\* A scratch is pooled or belongs to one call.
Apart ==
  /\ \A i \in 1..Len(calls) : calls[i].scratch \notin idle
  /\ \A i, j \in 1..Len(calls) : i # j => calls[i].scratch # calls[j].scratch

\* What a scratch holds between two borrowings: clean backings, and an entry
\* slice that covers the remembered prefix and is dirty only inside it.
ScratchOk(s) ==
  /\ \A i \in Slots : s.backing[i].dirty = 0
  /\ s.dynBacking.dirty = 0
  /\ s.entries.dirty <= s.used
  /\ s.entries # NilSlice => s.used <= s.entries.len

ScratchesOk == \A s \in Scratches : ScratchOk(scr[s])

IdleOk == \A s \in idle : scr[s].used = 0 /\ ~scr[s].boxes /\ scr[s].entries # NilSlice

BoxesOk ==
  /\ \A b \in 1..Boxes : box[b].entries.dirty = 0 /\ box[b].backing.dirty = 0
  /\ \A b \in idleBox : ~box[b].value

\* An open map will clear all that is dirty in its backing, and leaves dirty
\* entries only in the prefix its call remembers when it has left.
FrameOk(f, used) ==
  /\ f.backing.dirty <= f.count
  /\ f.entries.dirty <= IF f.own THEN f.count ELSE Larger(used, f.count)
  /\ f.own => f.box # 0

\* The j-th open map of a call gives the call's scratch an entry slice when it
\* leaves, if no map further in has.
Gives(c, j, used) ==
  /\ ~c.frames[j].own /\ \A i \in 1..j : ~c.frames[i].oneShot
  /\ Larger(used, c.frames[j].count) <= c.frames[j].entries.len

CallOk(c, s) ==
  /\ \A j \in 1..Len(c.frames) : FrameOk(c.frames[j], s.used)
  /\ c.live <=> \A j \in 1..Len(c.frames) : ~c.frames[j].oneShot
  /\ \A i, j \in 1..Len(c.frames) : c.frames[i].oneShot /\ c.frames[j].oneShot => i = j
  /\ s.entries # NilSlice \/ \E j \in 1..Len(c.frames) : Gives(c, j, s.used)

CallsOk == \A i \in 1..Len(calls) : CallOk(calls[i], scr[calls[i].scratch])

EncoderInv == EncoderTypeOK /\ Apart /\ ScratchesOk /\ IdleOk /\ BoxesOk /\ CallsOk

-----------------------------------------------------------------------------
(***************************************************************************)
(* Slices.                                                                 *)
(***************************************************************************)

\* A slice has a length and a prefix of dirty slots; nil has neither.
LEMMA SliceFacts ==
    ASSUME NEW x \in Slices
    PROVE  /\ x.len \in Int /\ x.dirty \in Nat
           /\ x # NilSlice => x \in [len : Nat, dirty : Nat] /\ x.len \in Nat
           /\ x = NilSlice => x.len = -1 /\ x.dirty = 0
  BY DEF Slices, NilSlice

\* A new slice has the slots it was asked for.
LEMMA MadeSlice ==
    ASSUME NEW n \in Nat, NEW k \in Nat
    PROVE  /\ Made(n, k) \in Slices /\ Made(n, k).len = n /\ Made(n, k).dirty = k
           /\ Made(n, k) # NilSlice
  BY DEF Made, Slices, NilSlice

\* Clearing a prefix that covers all that is dirty leaves the slice clean.
LEMMA Clearing ==
    ASSUME NEW x \in Slices, NEW u \in Nat
    PROVE  /\ ClearPrefix(x, u) \in Slices /\ ClearPrefix(x, u).len = x.len
           /\ x.dirty <= u => ClearPrefix(x, u).dirty = 0
           /\ x # NilSlice => ClearPrefix(x, u) # NilSlice
  BY SliceFacts DEF ClearPrefix, Slices, NilSlice

\* The slice a map collects into is long enough, and dirty where it was or
\* where the map wrote.
LEMMA Filling ==
    ASSUME NEW x \in Slices, NEW n \in Nat, NEW k \in Nat
    PROVE  LET r == Filled(x, n, k)
           IN  /\ r \in Slices /\ r.len >= n /\ r.len >= x.len
               /\ r.dirty <= Larger(x.dirty, k)
  <1>1. CASE x.len >= n
    BY <1>1, SliceFacts DEF Filled, Larger, Slices, NilSlice
  <1>2. CASE ~(x.len >= n)
    BY <1>2, SliceFacts, MadeSlice DEF Filled, Larger
  <1>. QED
    BY <1>1, <1>2

-----------------------------------------------------------------------------
(***************************************************************************)
(* Borrowing from a scratch and giving back to it.                         *)
(***************************************************************************)

\* A new scratch is clean, and remembers nothing.
LEMMA NewScratchOk ==
    ASSUME NEW x \in {NilSlice, Made(0, 0)}
    PROVE  /\ NewScratch(x) \in ScratchStates /\ ScratchOk(NewScratch(x))
           /\ NewScratch(x).used = 0 /\ ~NewScratch(x).boxes /\ NewScratch(x).entries = x
  <1>1. NilSlice \in Slices /\ x \in Slices /\ NilSlice.dirty = 0 /\ x.dirty = 0
        /\ (x # NilSlice => x.len = 0)
    BY MadeSlice DEF Slices, NilSlice
  <1>. QED
    BY <1>1 DEF NewScratch, ScratchStates, ScratchOk, Elems

\* A map plan has a slot of its own, or none.
LEMMA NodeFacts ==
    ASSUME EncoderAssumption, NEW node \in DOMAIN MapPlans
    PROVE  /\ MapPlans[node].slot \in Int
           /\ MapPlans[node].slot >= 0 => MapPlans[node].slot \in Slots
           /\ MapPlans[node].elem \in Elems /\ MapPlans[node].limit \in Nat
  <1>1. MapPlans[node].slot \in Nat \union {-1} /\ MapPlans[node].limit \in Nat
    BY DEF EncoderAssumption
  <1>2. MapPlans[node].slot \in {MapPlans[n].slot : n \in DOMAIN MapPlans}
    OBVIOUS
  <1>3. MapPlans[node].slot >= 0 => MapPlans[node].slot # -1
    BY <1>1
  <1>4. MapPlans[node].slot >= 0 => MapPlans[node].slot \in Slots
    BY <1>2, <1>3, Zenon DEF Slots
  <1>5. MapPlans[node].elem \in Elems
    BY Zenon DEF Elems
  <1>. QED
    BY <1>1, <1>4, <1>5

\* takeValueBacking: the backing is clean, and the entries are not touched.
LEMMA Taking ==
    ASSUME EncoderAssumption, NEW node \in DOMAIN MapPlans, NEW n \in Nat,
           NEW s \in ScratchStates, ScratchOk(s)
    PROVE  LET t == TakeBacking(s, node, n)
           IN  /\ t.slice \in Slices /\ t.slice.dirty = 0
               /\ t.left \in ScratchStates /\ ScratchOk(t.left)
               /\ t.left.entries = s.entries /\ t.left.used = s.used
  <1> DEFINE i == MapPlans[node].slot
             found == IF i >= 0 THEN s.backing[i]
                      ELSE IF s.dynElem = MapPlans[node].elem THEN s.dynBacking ELSE NilSlice
             left == IF i >= 0 THEN [s EXCEPT !.backing[i] = NilSlice]
                     ELSE [s EXCEPT !.dynBacking = NilSlice, !.dynElem = ""]
             slice == IF found.len >= n THEN found ELSE Made(n, 0)
  <1>1. NilSlice \in Slices /\ NilSlice.dirty = 0 /\ "" \in Elems
    BY DEF Slices, NilSlice, Elems
  <1>2. found \in Slices /\ found.dirty = 0
    BY <1>1, NodeFacts DEF ScratchStates, ScratchOk
  <1>3. slice \in Slices /\ slice.dirty = 0
    BY <1>2, MadeSlice, 0 \in Nat
  <1>4. left \in ScratchStates /\ ScratchOk(left) /\ left.entries = s.entries /\ left.used = s.used
    <2>1. CASE i >= 0
      <3>1. i \in Slots /\ left = [s EXCEPT !.backing[i] = NilSlice]
        BY <2>1, NodeFacts
      <3>. QED
        BY <1>1, <3>1 DEF ScratchStates, ScratchOk
    <2>2. CASE ~(i >= 0)
      <3>1. left = [s EXCEPT !.dynBacking = NilSlice, !.dynElem = ""]
        BY <2>2
      <3>. QED
        BY <1>1, <3>1 DEF ScratchStates, ScratchOk
    <2>. QED
      BY <2>1, <2>2
  <1>5. TakeBacking(s, node, n).slice = slice /\ TakeBacking(s, node, n).left = left
    BY DEF TakeBacking
  <1>. QED
    BY <1>3, <1>4, <1>5

\* releaseValueBackingPrefix: what is kept is clean.
LEMMA ReleasingBacking ==
    ASSUME EncoderAssumption, NEW node \in DOMAIN MapPlans, NEW s \in ScratchStates, ScratchOk(s),
           NEW slice \in Slices, NEW used \in Nat, slice.dirty <= used
    PROVE  LET r == ReleaseBacking(s, node, slice, used)
           IN  /\ r \in ScratchStates /\ ScratchOk(r)
               /\ r.entries = s.entries /\ r.used = s.used
  <1> DEFINE x == ClearPrefix(slice, used)
             i == MapPlans[node].slot
             r == Restore(s, node, x)
  <1>1. x \in Slices /\ x.dirty = 0
    BY Clearing
  <1> HIDE DEF x
  <1>2. CASE r = s
    BY <1>2 DEF ReleaseBacking, x
  <1>3. CASE i >= 0 /\ r = [s EXCEPT !.backing[i] = x]
    <2>1. i \in Slots
      BY <1>3, NodeFacts
    <2>2. r \in ScratchStates /\ ScratchOk(r) /\ r.entries = s.entries /\ r.used = s.used
      BY <1>1, <1>3, <2>1 DEF ScratchStates, ScratchOk
    <2>. QED
      BY <2>2 DEF ReleaseBacking, x
  <1>4. CASE r = [s EXCEPT !.dynBacking = x, !.dynElem = MapPlans[node].elem]
    <2>1. r \in ScratchStates /\ ScratchOk(r) /\ r.entries = s.entries /\ r.used = s.used
      BY <1>1, <1>4, NodeFacts DEF ScratchStates, ScratchOk
    <2>. QED
      BY <2>1 DEF ReleaseBacking, x
  <1>. QED
    BY <1>2, <1>3, <1>4 DEF Restore

\* releaseMapScratch: an entry slice that is kept covers the largest prefix the
\* call remembers.
LEMMA ReleasingEntries ==
    ASSUME NEW s \in ScratchStates, ScratchOk(s), NEW slice \in Slices, NEW count \in Nat,
           slice.dirty <= Larger(s.used, count)
    PROVE  LET r == ReleaseEntries(s, slice, count)
           IN  /\ r \in ScratchStates /\ ScratchOk(r)
               /\ r.used >= s.used
               /\ r = s \/ r.entries # NilSlice
               /\ Larger(s.used, count) <= slice.len => r.entries # NilSlice
  <1> DEFINE used == Larger(s.used, count)
             r == ReleaseEntries(s, slice, count)
  <1>1. s.used \in Nat /\ used \in Nat /\ used >= s.used /\ slice.len \in Int
    BY SliceFacts DEF Larger, ScratchStates
  <1>2. CASE s.entries # NilSlice \/ used > slice.len
    <2>1. r = s
      BY <1>2 DEF ReleaseEntries
    <2>. QED
      BY <1>1, <1>2, <2>1
  <1>3. CASE ~(s.entries # NilSlice \/ used > slice.len)
    <2>1. r = [s EXCEPT !.entries = slice, !.used = used]
      BY <1>3 DEF ReleaseEntries
    <2>2. used <= slice.len /\ slice # NilSlice
      BY <1>1, <1>3, SliceFacts
    <2> HIDE DEF r, used
    <2>3. r \in ScratchStates /\ r.entries = slice /\ r.used = used
          /\ r.backing = s.backing /\ r.dynBacking = s.dynBacking
      BY <1>1, <2>1 DEF ScratchStates
    <2>4. ScratchOk(r)
      BY <2>2, <2>3 DEF ScratchOk, used
    <2>. QED
      BY <1>1, <2>2, <2>3, <2>4 DEF r, used
  <1>. QED
    BY <1>2, <1>3

-----------------------------------------------------------------------------
(***************************************************************************)
(* A step of the innermost call.                                           *)
(***************************************************************************)

\* The call that runs is the last one and holds a scratch.
LEMMA InnermostCall ==
    ASSUME EncoderInv, calls # << >>
    PROVE  /\ Len(calls) \in Nat \ {0} /\ Call = calls[Len(calls)] /\ Call \in Calls
           /\ Call.scratch \in Scratches /\ Call.scratch \notin idle
           /\ Scr \in ScratchStates /\ ScratchOk(Scr) /\ CallOk(Call, Scr)
           /\ Frames \in Seq(OpenFrames) /\ Call.live \in BOOLEAN
  <1>1. calls \in Seq(Calls) /\ scr \in [Scratches -> ScratchStates]
    BY DEF EncoderInv, EncoderTypeOK
  <1>2. Len(calls) \in Nat \ {0} /\ calls[Len(calls)] \in Calls /\ Call = calls[Len(calls)]
    BY <1>1 DEF Call, Last
  <1>3. Call.scratch \in Scratches /\ Frames \in Seq(OpenFrames) /\ Call.live \in BOOLEAN
    BY <1>2 DEF Calls, Frames
  <1>4. ScratchOk(Scr) /\ CallOk(Call, Scr) /\ Call.scratch \notin idle
    BY <1>2, <1>3 DEF EncoderInv, Apart, ScratchesOk, CallsOk, Scr
  <1>. QED
    BY <1>1, <1>2, <1>3, <1>4 DEF Scr

\* A call is its scratch, its open maps and whether the scratch is in sight.
LEMMA ChangedCall ==
    ASSUME NEW o \in Calls, NEW fs \in Seq(OpenFrames), NEW live \in BOOLEAN
    PROVE  [[o EXCEPT !.frames = fs] EXCEPT !.live = live]
             = [scratch |-> o.scratch, frames |-> fs, live |-> live]
  <1>1. /\ o = [scratch |-> o.scratch, frames |-> o.frames, live |-> o.live]
        /\ o.scratch \in Scratches
    BY DEF Calls
  <1>2. [o EXCEPT !.frames = fs] = [scratch |-> o.scratch, frames |-> fs, live |-> o.live]
    BY <1>1
  <1>3. [[scratch |-> o.scratch, frames |-> fs, live |-> o.live] EXCEPT !.live = live]
          = [scratch |-> o.scratch, frames |-> fs, live |-> live]
    OBVIOUS
  <1>. QED
    BY <1>2, <1>3, Zenon

\* What a step does to the maps that the last call has open.
LEMMA SettingFrames ==
    ASSUME EncoderInv, calls # << >>, NEW fs \in Seq(OpenFrames), NEW live \in BOOLEAN
    PROVE  SetFrames(fs, live) =
             [calls EXCEPT ![Len(calls)] = [scratch |-> Call.scratch, frames |-> fs, live |-> live]]
  <1> DEFINE c == [scratch |-> Call.scratch, frames |-> fs, live |-> live]
             n == Len(calls)
             mid == [calls EXCEPT ![n].frames = fs]
  <1>1. calls \in Seq(Calls) /\ n \in 1..Len(calls) /\ calls[n] = Call /\ Call \in Calls
    BY InnermostCall DEF EncoderInv, EncoderTypeOK
  <1>2. [[calls[n] EXCEPT !.frames = fs] EXCEPT !.live = live] = c
    BY <1>1, ChangedCall
  <1>3. mid = [calls EXCEPT ![n] = [calls[n] EXCEPT !.frames = fs]]
    BY <1>1
  <1>4. SetFrames(fs, live) = [mid EXCEPT ![n] = [mid[n] EXCEPT !.live = live]]
    BY <1>1 DEF SetFrames
  <1>5. mid[n] = [calls[n] EXCEPT !.frames = fs]
    BY <1>1, <1>3
  <1>6. SetFrames(fs, live) = [mid EXCEPT ![n] = c]
    BY <1>2, <1>4, <1>5
  <1>. QED
    BY <1>1, <1>3, <1>6

\* The innermost call and its scratch change, and nothing else.
LEMMA InnermostStep ==
    ASSUME EncoderInv, calls # << >>, NEW c \in Calls, c.scratch = Call.scratch,
           NEW s \in ScratchStates, ScratchOk(s), CallOk(c, s),
           calls' = [calls EXCEPT ![Len(calls)] = c], scr' = [scr EXCEPT ![Call.scratch] = s], idle' = idle
    PROVE  /\ idle' \subseteq Scratches /\ scr' \in [Scratches -> ScratchStates] /\ calls' \in Seq(Calls)
           /\ (Apart /\ ScratchesOk /\ IdleOk /\ CallsOk)'
  <1>1. calls \in Seq(Calls) /\ Len(calls) \in Nat \ {0} /\ Call = calls[Len(calls)] /\ Call.scratch \in Scratches
        /\ Call.scratch \notin idle /\ scr \in [Scratches -> ScratchStates] /\ idle \subseteq Scratches
    BY InnermostCall DEF EncoderInv, EncoderTypeOK
  <1>2. /\ calls' \in Seq(Calls) /\ Len(calls') = Len(calls)
        /\ \A i \in 1..Len(calls) : calls'[i] = IF i = Len(calls) THEN c ELSE calls[i]
    BY <1>1, ExceptSeq
  <1>3. \A i \in 1..Len(calls) : calls'[i].scratch = calls[i].scratch
    BY <1>1, <1>2
  <1>4. Apart'
    <2>0. /\ \A i \in 1..Len(calls) : calls[i].scratch \notin idle
          /\ \A i, j \in 1..Len(calls) : i # j => calls[i].scratch # calls[j].scratch
          /\ Len(calls') = Len(calls)
      BY <1>2 DEF EncoderInv, Apart
    <2>1. ASSUME NEW i \in 1..Len(calls')
          PROVE  calls'[i].scratch \notin idle'
      <3>1. i \in 1..Len(calls)
        BY <2>0
      <3>2. calls'[i].scratch \notin idle
        BY <1>3, <2>0, <3>1
      <3>. QED
        BY <3>2
    <2>2. ASSUME NEW i \in 1..Len(calls'), NEW j \in 1..Len(calls'), i # j
          PROVE  calls'[i].scratch # calls'[j].scratch
      <3>1. i \in 1..Len(calls) /\ j \in 1..Len(calls)
        BY <2>0
      <3>. QED
        BY <1>3, <2>0, <2>2, <3>1
    <2>. QED
      BY <2>1, <2>2 DEF Apart
  <1>5. scr' \in [Scratches -> ScratchStates] /\ \A q \in Scratches : scr'[q] = IF q = Call.scratch THEN s ELSE scr[q]
    BY <1>1
  <1>6. ScratchesOk' /\ IdleOk'
    BY <1>1, <1>5 DEF EncoderInv, ScratchesOk, IdleOk
  <1>7. CallsOk'
    <2> SUFFICES ASSUME NEW i \in 1..Len(calls)
                 PROVE  CallOk(calls'[i], scr'[calls'[i].scratch])
      BY <1>2 DEF CallsOk
    <2>1. CASE i = Len(calls)
      BY <1>1, <1>2, <1>5, <2>1
    <2>2. CASE i # Len(calls)
      <3>0. calls[i] \in Calls
        BY <1>1, ElementOfSeq
      <3>1. calls'[i] = calls[i] /\ calls[i].scratch \in Scratches
        BY <1>2, <2>2, <3>0 DEF Calls
      <3>2. calls[i].scratch # Call.scratch
        <4>1. \A a, b \in 1..Len(calls) : a # b => calls[a].scratch # calls[b].scratch
          BY DEF EncoderInv, Apart
        <4>2. Len(calls) \in 1..Len(calls)
          BY <1>1
        <4>. QED
          BY <1>1, <2>2, <4>1, <4>2, Zenon
      <3>. QED
        BY <1>5, <3>1, <3>2 DEF EncoderInv, CallsOk
    <2>. QED
      BY <2>1, <2>2
  <1>. QED
    BY <1>1, <1>2, <1>4, <1>5, <1>6, <1>7

-----------------------------------------------------------------------------
(***************************************************************************)
(* Entering a map.                                                         *)
(***************************************************************************)

\* A map that opens moves the slot's entries and its backing to itself.
LEMMA OpenInv ==
    ASSUME EncoderAssumption, EncoderInv, calls # << >>, NEW node \in DOMAIN MapPlans, NEW n \in 1..MaxLen,
           NEW b \in 0..Boxes, MapPlans[node].kind = "dynamic" => b # 0, NEW k \in 0..n,
           Open(node, n, b, k), idleBox' = idleBox \ {b}
    PROVE  EncoderInv'
  <1> DEFINE dynamic == MapPlans[node].kind = "dynamic"
             retain  == n <= MapPlans[node].limit
             oneShot == MapPlans[node].kind = "inline" /\ ~retain /\ Call.live
             own     == dynamic /\ retain
             borrow  == ~own /\ retain /\ Call.live
             took    == TakeBacking(Scr, node, n)
             entries == IF own THEN box[b].entries ELSE IF borrow THEN Scr.entries ELSE NilSlice
             backing == IF own THEN box[b].backing ELSE IF borrow THEN took.slice ELSE NilSlice
             left    == IF borrow THEN [took.left EXCEPT !.entries = NilSlice] ELSE Scr
             keyed   == ~dynamic /\ Call.live /\ ~oneShot
             frame   == [node |-> node, len |-> n, count |-> k, entries |-> Filled(entries, n, k),
                         backing |-> Filled(backing, n, k), box |-> b, own |-> own, oneShot |-> oneShot]
             s       == [left EXCEPT !.boxes = @ \/ keyed]
             c       == [scratch |-> Call.scratch, frames |-> Append(Frames, frame), live |-> Call.live /\ ~oneShot]
  <1>1. /\ Call \in Calls /\ Call.scratch \in Scratches /\ Frames \in Seq(OpenFrames) /\ Call.live \in BOOLEAN
        /\ Scr \in ScratchStates /\ ScratchOk(Scr) /\ CallOk(Call, Scr) /\ Frames = Call.frames
    BY InnermostCall DEF Frames
  <1>2. n \in Nat /\ k \in Nat /\ k <= n /\ n >= 1
    BY DEF EncoderAssumption
  <1>3. /\ box \in [1..Boxes -> BoxStates] /\ (own => b \in 1..Boxes)
        /\ \A x \in 1..Boxes : box[x].entries.dirty = 0 /\ box[x].backing.dirty = 0
    BY DEF EncoderInv, EncoderTypeOK, BoxesOk, EncoderAssumption
  <1>4. NilSlice \in Slices /\ NilSlice.dirty = 0
    BY DEF Slices, NilSlice
  <1>5. /\ took.slice \in Slices /\ took.slice.dirty = 0
        /\ took.left \in ScratchStates /\ ScratchOk(took.left)
        /\ took.left.entries = Scr.entries /\ took.left.used = Scr.used
    BY <1>1, <1>2, Taking
  <1>6. Scr.used \in Nat /\ Scr.entries \in Slices /\ Scr.entries.dirty <= Scr.used
    BY <1>1 DEF ScratchStates, ScratchOk
  <1>7. /\ entries \in Slices /\ backing \in Slices /\ backing.dirty = 0
        /\ ~borrow => entries.dirty = 0
        /\ borrow => entries = Scr.entries
    BY <1>3, <1>4, <1>5, <1>6 DEF BoxStates
  <1>8. /\ frame.entries \in Slices /\ frame.entries.len >= n /\ frame.entries.len >= entries.len
        /\ frame.entries.dirty <= Larger(entries.dirty, k)
        /\ frame.backing \in Slices /\ frame.backing.dirty <= Larger(backing.dirty, k)
    BY <1>2, <1>7, Filling
  <1>9. frame \in OpenFrames
    BY <1>2, <1>8 DEF OpenFrames
  <1>10. FrameOk(frame, Scr.used)
    <2>1. frame.own = own /\ frame.count = k /\ frame.box = b
      OBVIOUS
    <2>2. frame.entries.dirty \in Nat /\ frame.backing.dirty \in Nat /\ entries.dirty \in Nat
      BY <1>7, <1>8, SliceFacts
    <2>3. own => ~borrow /\ b # 0
      OBVIOUS
    <2> HIDE DEF frame, entries, backing, own, borrow
    <2>4. frame.backing.dirty <= k
      BY <1>2, <1>7, <1>8, <2>2 DEF Larger
    <2>5. frame.entries.dirty <= IF own THEN k ELSE Larger(Scr.used, k)
      BY <1>2, <1>6, <1>7, <1>8, <2>2, <2>3 DEF Larger
    <2>. QED
      BY <2>1, <2>3, <2>4, <2>5 DEF FrameOk
  <1>11. /\ s \in ScratchStates /\ ScratchOk(s) /\ s.used = Scr.used
         /\ s.entries = IF borrow THEN NilSlice ELSE Scr.entries
    <2>1. /\ left \in ScratchStates /\ ScratchOk(left) /\ left.used = Scr.used
          /\ left.entries = IF borrow THEN NilSlice ELSE Scr.entries
      <3>1. CASE borrow
        <4>1. left = [took.left EXCEPT !.entries = NilSlice]
          BY <3>1
        <4>2. left \in ScratchStates /\ left.used = took.left.used /\ left.entries = NilSlice
              /\ left.backing = took.left.backing /\ left.dynBacking = took.left.dynBacking
          BY <1>4, <1>5, <4>1 DEF ScratchStates
        <4>. QED
          BY <1>4, <1>5, <1>6, <3>1, <4>2 DEF ScratchOk
      <3>2. CASE ~borrow
        BY <1>1, <3>2
      <3>. QED
        BY <3>1, <3>2
    <2> HIDE DEF left, keyed
    <2>2. keyed \in BOOLEAN
      BY DEF keyed
    <2>. QED
      BY <2>1, <2>2 DEF ScratchStates, ScratchOk
  <1>12. /\ Append(Frames, frame) \in Seq(OpenFrames) /\ Len(Append(Frames, frame)) = Len(Frames) + 1
         /\ \A j \in 1..Len(Frames) : Append(Frames, frame)[j] = Frames[j]
         /\ Append(Frames, frame)[Len(Frames) + 1] = frame
         /\ Len(Frames) \in Nat
    BY <1>1, <1>9
  <1>13. c \in Calls
    BY <1>1, <1>12 DEF Calls
  <1>14. CallOk(c, s)
    <2> DEFINE fs == Append(Frames, frame)
    <2>1. /\ c.frames = fs /\ c.live = (Call.live /\ ~oneShot) /\ Call.frames = Frames
          /\ frame.own = own /\ frame.oneShot = oneShot /\ frame.count = k
      BY DEF Frames
    <2> HIDE DEF c, s, fs, frame
    <2>2. \A j \in 1..Len(fs) : FrameOk(fs[j], s.used)
      <3>1. \A j \in 1..Len(Frames) : FrameOk(Frames[j], s.used)
        BY <1>1, <1>11, <2>1 DEF CallOk
      <3>. QED
        BY <1>10, <1>11, <1>12, <3>1 DEF fs
    <2>3. c.live <=> \A j \in 1..Len(fs) : ~fs[j].oneShot
      <3>1. Call.live <=> \A j \in 1..Len(Frames) : ~Frames[j].oneShot
        BY <1>1, <2>1 DEF CallOk
      <3>2. CASE oneShot
        <4>1. fs[Len(fs)] = frame /\ Len(fs) \in 1..Len(fs)
          BY <1>12 DEF fs
        <4>2. fs[Len(fs)].oneShot
          BY <2>1, <3>2, <4>1, Zenon
        <4>3. ~c.live
          BY <2>1, <3>2, Zenon
        <4>. QED
          BY <4>1, <4>2, <4>3, Zenon
      <3>3. CASE ~oneShot
        <4>1. (\A j \in 1..Len(fs) : ~fs[j].oneShot) <=> (\A j \in 1..Len(Frames) : ~Frames[j].oneShot)
          <5>1. \A j \in 1..Len(fs) : j \in 1..Len(Frames) \/ j = Len(Frames) + 1
            BY <1>12 DEF fs
          <5>2. \A j \in 1..Len(Frames) : j \in 1..Len(fs) /\ fs[j] = Frames[j]
            BY <1>12 DEF fs
          <5>3. ~fs[Len(Frames) + 1].oneShot
            BY <1>12, <2>1, <3>3 DEF fs
          <5>. QED
            BY <5>1, <5>2, <5>3, Zenon
        <4>. QED
          BY <2>1, <3>1, <3>3, <4>1, Zenon
      <3>. QED
        BY <3>2, <3>3
    <2>4. s.entries # NilSlice \/ \E j \in 1..Len(fs) : Gives(c, j, s.used)
      <3>1. CASE Scr.entries = NilSlice
        <4>1. PICK j \in 1..Len(Frames) : Gives(Call, j, Scr.used)
          BY <1>1, <2>1, <3>1 DEF CallOk
        <4>2. Gives(c, j, s.used)
          BY <1>11, <1>12, <2>1, <4>1 DEF Gives, fs
        <4>. QED
          BY <1>12, <4>2 DEF fs
      <3>2. CASE Scr.entries # NilSlice /\ borrow
        <4>1. Scr.used <= Scr.entries.len /\ Scr.entries.len \in Nat /\ frame.entries.len \in Int
          BY <1>1, <1>6, <1>8, <3>2, SliceFacts DEF ScratchOk
        <4>2. Larger(s.used, frame.count) <= frame.entries.len
          BY <1>2, <1>6, <1>7, <1>8, <1>11, <2>1, <3>2, <4>1 DEF Larger
        <4>3. ~frame.own /\ ~frame.oneShot /\ \A j \in 1..Len(Frames) : ~Frames[j].oneShot
          BY <1>1, <2>1, <3>2 DEF CallOk
        <4>4. Gives(c, Len(Frames) + 1, s.used)
          BY <1>12, <2>1, <4>2, <4>3 DEF Gives, fs
        <4>. QED
          BY <1>12, <4>4 DEF fs
      <3>3. CASE Scr.entries # NilSlice /\ ~borrow
        BY <1>11, <3>3
      <3>. QED
        BY <3>1, <3>2, <3>3
    <2>5. \A i, j \in 1..Len(fs) : fs[i].oneShot /\ fs[j].oneShot => i = j
      <3>1. Call.live <=> \A j \in 1..Len(Frames) : ~Frames[j].oneShot
        BY <1>1, <2>1 DEF CallOk
      <3>2. \A i, j \in 1..Len(Frames) : Frames[i].oneShot /\ Frames[j].oneShot => i = j
        BY <1>1, <2>1 DEF CallOk
      <3>3. frame.oneShot => Call.live
        BY <2>1
      <3>4. ASSUME NEW j \in 1..Len(fs)
            PROVE  (j \in 1..Len(Frames) /\ fs[j] = Frames[j]) \/ (j = Len(Frames) + 1 /\ fs[j] = frame)
        <4>1. j \in 1..Len(Frames) \/ j = Len(Frames) + 1
          BY <1>12 DEF fs
        <4>. QED
          BY <1>12, <4>1 DEF fs
      <3>. QED
        BY <3>1, <3>2, <3>3, <3>4
    <2>. QED
      BY <2>1, <2>2, <2>3, <2>4, <2>5 DEF CallOk
  <1>15. /\ calls' = SetFrames(Append(Frames, frame), Call.live /\ ~oneShot)
         /\ scr' = [scr EXCEPT ![Call.scratch] = s] /\ idle' = idle
         /\ box' = IF ~dynamic THEN box
                   ELSE [box EXCEPT ![b] = [entries |-> IF own THEN NilSlice ELSE box[b].entries,
                                            backing |-> IF own THEN NilSlice ELSE box[b].backing, value |-> TRUE]]
    BY DEF Open
  <1>16. calls' = [calls EXCEPT ![Len(calls)] = c]
    BY <1>1, <1>12, <1>15, SettingFrames
  <1>17. /\ idle' \subseteq Scratches /\ scr' \in [Scratches -> ScratchStates] /\ calls' \in Seq(Calls)
         /\ (Apart /\ ScratchesOk /\ IdleOk /\ CallsOk)'
    <2>1. c.scratch = Call.scratch
      OBVIOUS
    <2> HIDE DEF c, s
    <2>. QED
      BY <1>11, <1>13, <1>14, <1>15, <1>16, <2>1, InnermostStep
  <1>18. idleBox' \subseteq 1..Boxes /\ box' \in [1..Boxes -> BoxStates] /\ BoxesOk'
    <2> HIDE DEF frame, s, c, entries, backing, left, took
    <2>0. idleBox' \subseteq idleBox /\ idleBox \subseteq 1..Boxes /\ b \notin idleBox'
          /\ \A x \in idleBox : ~box[x].value
      BY DEF EncoderInv, EncoderTypeOK, BoxesOk
    <2>1. CASE ~dynamic
      BY <1>3, <1>15, <2>0, <2>1 DEF BoxesOk
    <2>2. CASE dynamic
      <3> DEFINE y == [entries |-> IF own THEN NilSlice ELSE box[b].entries,
                       backing |-> IF own THEN NilSlice ELSE box[b].backing, value |-> TRUE]
      <3>1. b \in 1..Boxes /\ y \in BoxStates /\ y.entries.dirty = 0 /\ y.backing.dirty = 0
        BY <1>3, <1>4, <2>2 DEF BoxStates
      <3>2. box' = [box EXCEPT ![b] = y]
        BY <1>15, <2>2
      <3> HIDE DEF y
      <3>3. box' \in [1..Boxes -> BoxStates] /\ \A x \in 1..Boxes : box'[x] = IF x = b THEN y ELSE box[x]
        BY <1>3, <3>1, <3>2
      <3>. QED
        BY <1>3, <2>0, <3>1, <3>3 DEF BoxesOk
    <2>. QED
      BY <2>1, <2>2
  <1>. QED
    BY <1>17, <1>18 DEF EncoderInv, EncoderTypeOK

\* encodeMapValue and encodeInlineMembers.
LEMMA EnterStaticInv ==
    ASSUME EncoderAssumption, EncoderInv, EnterStatic
    PROVE  EncoderInv'
  <1>1. PICK node \in DOMAIN MapPlans, n \in 1..MaxLen :
          /\ MapPlans[node].kind # "dynamic"
          /\ \E k \in (IF MapPlans[node].kind = "map" THEN {n - 1, n} ELSE {n}) : Open(node, n, 0, k)
    BY DEF EnterStatic
  <1>2. PICK k \in {n - 1, n} : Open(node, n, 0, k)
    BY <1>1
  <1>3. k \in 0..n
    BY DEF EncoderAssumption
  <1>4. calls # << >> /\ idleBox' = idleBox \ {0} /\ 0 \in 0..Boxes
    BY DEF EnterStatic, HasRoom, EncoderInv, EncoderTypeOK, EncoderAssumption
  <1>. QED
    BY <1>1, <1>2, <1>3, <1>4, OpenInv

\* encodeDynamicValue.
LEMMA EnterDynamicInv ==
    ASSUME EncoderAssumption, EncoderInv, EnterDynamic
    PROVE  EncoderInv'
  <1>1. PICK node \in DOMAIN MapPlans, n \in 1..MaxLen, b \in 1..Boxes :
          idleBox' = idleBox \ {b} /\ \E k \in {n - 1, n} : Open(node, n, b, k)
    BY DEF EnterDynamic
  <1>2. PICK k \in {n - 1, n} : Open(node, n, b, k)
    BY <1>1
  <1>3. k \in 0..n /\ b \in 0..Boxes /\ b # 0
    BY DEF EncoderAssumption
  <1>4. calls # << >>
    BY DEF EnterDynamic, HasRoom
  <1>. QED
    BY <1>1, <1>2, <1>3, <1>4, OpenInv

-----------------------------------------------------------------------------
(***************************************************************************)
(* Leaving a map.                                                          *)
(***************************************************************************)

\* A map that closes, with its value written or with an error, puts them back.
LEMMA EncoderLeaveInv ==
    ASSUME EncoderAssumption, EncoderInv, LeaveMap
    PROVE  EncoderInv'
  <1> DEFINE f     == Last(Frames)
             L     == Len(Frames)
             mid   == ReleaseBacking(Scr, f.node, f.backing, f.count)
             freed == ReleaseEntries(mid, f.entries, f.count)
             s     == IF f.own \/ ~Call.live THEN Scr ELSE freed
             fs    == Front(Frames)
             c     == [scratch |-> Call.scratch, frames |-> fs, live |-> Call.live \/ f.oneShot]
  <1>1. /\ calls # << >> /\ Frames # << >> /\ Call \in Calls /\ Call.scratch \in Scratches
        /\ Frames \in Seq(OpenFrames) /\ Call.live \in BOOLEAN
        /\ Scr \in ScratchStates /\ ScratchOk(Scr) /\ CallOk(Call, Scr) /\ Frames = Call.frames
    BY InnermostCall DEF Frames, LeaveMap
  <1>2. /\ L \in Nat \ {0} /\ f = Frames[L] /\ f \in OpenFrames
        /\ fs \in Seq(OpenFrames) /\ Len(fs) = L - 1
        /\ \A j \in 1..(L - 1) : fs[j] = Frames[j]
    <2>1. L \in Nat \ {0} /\ f = Frames[L] /\ Frames[L] \in OpenFrames
      BY <1>1 DEF Last
    <2>2. \A j \in 1..(L - 1) : Frames[j] \in OpenFrames
      BY <1>1, <2>1
    <2>3. fs = SubSeq(Frames, 1, L - 1) /\ L - 1 \in Int /\ 1 \in Int
      BY <2>1 DEF Front
    <2> HIDE DEF L, f, fs
    <2>4. /\ fs \in Seq(OpenFrames) /\ Len(fs) = IF 1 <= L - 1 THEN (L - 1) - 1 + 1 ELSE 0
          /\ \A j \in 1..((L - 1) - 1 + 1) : fs[j] = Frames[1 + j - 1]
      BY <2>2, <2>3, SubSeqProperties
    <2>. QED
      BY <2>1, <2>4
  <1>3. /\ f.node \in DOMAIN MapPlans /\ f.count \in Nat /\ f.entries \in Slices /\ f.backing \in Slices
        /\ f.own \in BOOLEAN /\ f.oneShot \in BOOLEAN /\ f.box \in 0..Boxes
        /\ Scr.used \in Nat /\ FrameOk(f, Scr.used)
    <2>1. FrameOk(Frames[L], Scr.used)
      BY <1>1, <1>2 DEF CallOk
    <2> HIDE DEF f
    <2>. QED
      BY <1>1, <1>2, <2>1 DEF OpenFrames, ScratchStates
  <1>4. f.backing.dirty <= f.count
    BY <1>3 DEF FrameOk
  <1>5. mid \in ScratchStates /\ ScratchOk(mid) /\ mid.entries = Scr.entries /\ mid.used = Scr.used
    BY <1>1, <1>3, <1>4, ReleasingBacking
  <1>6. ~f.own => /\ freed \in ScratchStates /\ ScratchOk(freed) /\ freed.used >= Scr.used
                  /\ freed = mid \/ freed.entries # NilSlice
                  /\ Larger(Scr.used, f.count) <= f.entries.len => freed.entries # NilSlice
    <2> HIDE DEF f, mid
    <2>1. ~f.own => f.entries.dirty <= Larger(mid.used, f.count)
      BY <1>3, <1>5 DEF FrameOk
    <2>. QED
      BY <1>3, <1>5, <2>1, ReleasingEntries
  <1> HIDE DEF mid, freed, f, L, fs
  <1>7. s \in ScratchStates /\ ScratchOk(s) /\ s.used >= Scr.used /\ s.used \in Nat
    <2>1. s \in ScratchStates /\ ScratchOk(s) /\ s.used >= Scr.used
      BY <1>1, <1>3, <1>6
    <2>. QED
      BY <2>1 DEF ScratchStates
  <1>8. c \in Calls
    BY <1>1, <1>2, <1>3 DEF Calls
  <1>9. CallOk(c, s)
    <2>1. /\ c.frames = fs /\ c.live = (Call.live \/ f.oneShot) /\ Call.frames = Frames
          /\ L = Len(Frames) /\ L \in 1..L
      BY <1>1, <1>2 DEF L
    <2>2. /\ \A j \in 1..L : FrameOk(Frames[j], Scr.used)
          /\ Call.live <=> \A j \in 1..L : ~Frames[j].oneShot
          /\ \A i, j \in 1..L : Frames[i].oneShot /\ Frames[j].oneShot => i = j
          /\ Scr.entries # NilSlice \/ \E j \in 1..L : Gives(Call, j, Scr.used)
      BY <1>1, <2>1 DEF CallOk
    <2>3. \A j \in 1..Len(fs) : j \in 1..L /\ j # L /\ fs[j] = Frames[j]
      BY <1>2
    <2>4. \A j \in 1..L : j # L => j \in 1..Len(fs)
      BY <1>2
    <2> HIDE DEF c, s
    <2>5. ASSUME NEW j \in 1..Len(fs)
          PROVE  FrameOk(fs[j], s.used)
      <3>1. FrameOk(Frames[j], Scr.used) /\ fs[j] = Frames[j] /\ Frames[j] \in OpenFrames
        BY <1>1, <2>1, <2>2, <2>3, ElementOfSeq
      <3>2. Frames[j].count \in Nat /\ Frames[j].entries.dirty \in Nat
        BY <3>1, SliceFacts DEF OpenFrames
      <3>. QED
        BY <1>3, <1>7, <3>1, <3>2 DEF FrameOk, Larger
    <2>6. \A i, j \in 1..Len(fs) : fs[i].oneShot /\ fs[j].oneShot => i = j
      BY <2>2, <2>3
    <2>7. c.live <=> \A j \in 1..Len(fs) : ~fs[j].oneShot
      <3>1. CASE Call.live
        BY <2>1, <2>2, <2>3, <3>1
      <3>2. CASE ~Call.live /\ f.oneShot
        <4>1. \A j \in 1..Len(fs) : ~fs[j].oneShot
          BY <1>2, <2>1, <2>2, <2>3, <3>2
        <4>. QED
          BY <2>1, <3>2, <4>1
      <3>3. CASE ~Call.live /\ ~f.oneShot
        <4>1. PICK j \in 1..L : Frames[j].oneShot
          BY <2>2, <3>3
        <4>2. j # L
          BY <1>2, <3>3, <4>1
        <4>3. j \in 1..Len(fs) /\ fs[j].oneShot
          BY <2>3, <2>4, <4>1, <4>2
        <4>. QED
          BY <2>1, <3>3, <4>3
      <3>. QED
        BY <3>1, <3>2, <3>3
    <2>8. s.entries # NilSlice \/ \E j \in 1..Len(fs) : Gives(c, j, s.used)
      <3> SUFFICES ASSUME s.entries = NilSlice
                   PROVE  \E j \in 1..Len(fs) : Gives(c, j, s.used)
        OBVIOUS
      <3>1. s.used = Scr.used /\ Scr.entries = NilSlice
        BY <1>5, <1>6 DEF s
      <3>2. PICK j \in 1..L : Gives(Call, j, Scr.used)
        BY <2>2, <3>1
      <3>3. ~Gives(Call, L, Scr.used)
        <4>1. CASE f.own
          BY <1>2, <2>1, <4>1 DEF Gives
        <4>2. CASE ~f.own /\ Call.live
          <5>1. ~(Larger(Scr.used, f.count) <= f.entries.len)
            BY <1>6, <4>2 DEF s
          <5>. QED
            BY <1>2, <2>1, <5>1 DEF Gives
        <4>3. CASE ~Call.live
          <5>1. PICK i \in 1..L : Frames[i].oneShot
            BY <2>2, <4>3
          <5>. QED
            BY <2>1, <5>1 DEF Gives
        <4>. QED
          BY <4>1, <4>2, <4>3
      <3>4. j \in 1..Len(fs) /\ fs[j] = Frames[j] /\ \A i \in 1..j : i \in 1..Len(fs)
        BY <1>2, <2>3, <2>4, <3>2, <3>3
      <3>5. \A i \in 1..j : fs[i] = Frames[i]
        BY <2>3, <3>4
      <3>6. Gives(c, j, s.used)
        BY <2>1, <3>1, <3>2, <3>4, <3>5 DEF Gives
      <3>. QED
        BY <3>4, <3>6
    <2>. QED
      BY <2>1, <2>5, <2>6, <2>7, <2>8 DEF CallOk
  <1>10. /\ calls' = SetFrames(fs, Call.live \/ f.oneShot)
         /\ scr' = [scr EXCEPT ![Call.scratch] = IF f.own \/ ~Call.live THEN @ ELSE freed]
         /\ box' = IF f.box = 0 THEN box
                   ELSE [box EXCEPT ![f.box] =
                          IF f.own THEN [entries |-> ClearPrefix(f.entries, f.count),
                                         backing |-> ClearPrefix(f.backing, f.count), value |-> FALSE]
                          ELSE [@ EXCEPT !.value = FALSE]]
         /\ idleBox' = idleBox \union ({f.box} \ {0}) /\ idle' = idle
    BY DEF LeaveMap, freed, mid, f, fs
  <1>11. calls' = [calls EXCEPT ![Len(calls)] = c]
    BY <1>1, <1>2, <1>3, <1>10, SettingFrames
  <1>12. scr' = [scr EXCEPT ![Call.scratch] = s]
    BY <1>10 DEF Scr
  <1>13. /\ idle' \subseteq Scratches /\ scr' \in [Scratches -> ScratchStates] /\ calls' \in Seq(Calls)
         /\ (Apart /\ ScratchesOk /\ IdleOk /\ CallsOk)'
    <2>1. c.scratch = Call.scratch
      OBVIOUS
    <2> HIDE DEF c, s
    <2>. QED
      BY <1>1, <1>7, <1>8, <1>9, <1>10, <1>11, <1>12, <2>1, InnermostStep
  <1>14. idleBox' \subseteq 1..Boxes /\ box' \in [1..Boxes -> BoxStates] /\ BoxesOk'
    <2>0. /\ box \in [1..Boxes -> BoxStates] /\ idleBox \subseteq 1..Boxes
          /\ \A x \in 1..Boxes : box[x].entries.dirty = 0 /\ box[x].backing.dirty = 0
          /\ \A x \in idleBox : ~box[x].value
      BY DEF EncoderInv, EncoderTypeOK, BoxesOk
    <2>1. CASE f.box = 0
      BY <1>10, <2>0, <2>1 DEF BoxesOk
    <2>2. CASE f.box # 0
      <3> DEFINE b == f.box
                 y == IF f.own THEN [entries |-> ClearPrefix(f.entries, f.count),
                                     backing |-> ClearPrefix(f.backing, f.count), value |-> FALSE]
                      ELSE [box[b] EXCEPT !.value = FALSE]
      <3>1. b \in 1..Boxes /\ box[b] \in BoxStates
        BY <1>3, <2>0, <2>2 DEF EncoderAssumption
      <3>2. y \in BoxStates /\ y.entries.dirty = 0 /\ y.backing.dirty = 0 /\ ~y.value
        <4>1. CASE f.own
          <5>1. f.entries.dirty <= f.count
            BY <1>3, <4>1 DEF FrameOk
          <5>2. /\ ClearPrefix(f.entries, f.count) \in Slices /\ ClearPrefix(f.entries, f.count).dirty = 0
                /\ ClearPrefix(f.backing, f.count) \in Slices /\ ClearPrefix(f.backing, f.count).dirty = 0
            BY <1>3, <1>4, <5>1, Clearing
          <5>. QED
            BY <4>1, <5>2 DEF BoxStates
        <4>2. CASE ~f.own
          BY <2>0, <3>1, <4>2 DEF BoxStates
        <4>. QED
          BY <4>1, <4>2
      <3>3. box' = [box EXCEPT ![b] = y] /\ idleBox' = idleBox \union {b}
        BY <1>10, <2>2
      <3> HIDE DEF y, b
      <3>4. box' \in [1..Boxes -> BoxStates] /\ \A x \in 1..Boxes : box'[x] = IF x = b THEN y ELSE box[x]
        BY <2>0, <3>1, <3>2, <3>3
      <3>5. idleBox' \subseteq 1..Boxes
        BY <2>0, <3>1, <3>3
      <3>. QED
        BY <2>0, <3>1, <3>2, <3>3, <3>4, <3>5 DEF BoxesOk
    <2>. QED
      BY <2>1, <2>2
  <1>. QED
    BY <1>13, <1>14 DEF EncoderInv, EncoderTypeOK

-----------------------------------------------------------------------------
(***************************************************************************)
(* Custom methods, and the calls.                                          *)
(***************************************************************************)

\* A method may be called while maps are open; it dirties the box it is given.
LEMMA CallMarshalerInv ==
    ASSUME EncoderInv, CallMarshaler
    PROVE  EncoderInv'
  <1> DEFINE s == [Scr EXCEPT !.boxes = TRUE]
  <1>1. /\ calls # << >> /\ Call \in Calls /\ Call = calls[Len(calls)] /\ calls \in Seq(Calls) /\ Len(calls) \in 1..Len(calls)
        /\ Scr \in ScratchStates /\ ScratchOk(Scr) /\ CallOk(Call, Scr)
    BY InnermostCall DEF CallMarshaler, EncoderInv, EncoderTypeOK
  <1>2. s \in ScratchStates /\ s.used = Scr.used /\ s.entries = Scr.entries
        /\ s.backing = Scr.backing /\ s.dynBacking = Scr.dynBacking
    BY <1>1 DEF ScratchStates
  <1>3. scr' = [scr EXCEPT ![Call.scratch] = s] /\ idle' = idle /\ idleBox' = idleBox /\ box' = box /\ calls' = calls
    <2>1. scr \in [Scratches -> ScratchStates] /\ Call.scratch \in Scratches
      BY <1>1, InnermostCall DEF EncoderInv, EncoderTypeOK
    <2>2. scr' = [scr EXCEPT ![Call.scratch].boxes = TRUE]
      BY DEF CallMarshaler
    <2>. QED
      BY <2>1, <2>2 DEF CallMarshaler, Scr
  <1> HIDE DEF s
  <1>4. ScratchOk(s) /\ CallOk(Call, s)
    BY <1>1, <1>2 DEF ScratchOk, CallOk
  <1>5. calls' = [calls EXCEPT ![Len(calls)] = Call]
    BY <1>1, <1>3
  <1>6. /\ idle' \subseteq Scratches /\ scr' \in [Scratches -> ScratchStates] /\ calls' \in Seq(Calls)
        /\ (Apart /\ ScratchesOk /\ IdleOk /\ CallsOk)'
    BY <1>1, <1>2, <1>3, <1>4, <1>5, InnermostStep
  <1>. QED
    BY <1>3, <1>6 DEF EncoderInv, EncoderTypeOK, BoxesOk

\* A call takes a scratch that no other call holds, a pooled or a new one.
LEMMA BeginInv ==
    ASSUME EncoderInv, Begin
    PROVE  EncoderInv'
  <1>1. PICK s \in Scratches, new \in BOOLEAN :
          /\ s \notin {calls[i].scratch : i \in DOMAIN calls} /\ (new \/ s \in idle)
          /\ scr' = IF new THEN [scr EXCEPT ![s] = NewScratch(Made(0, 0))] ELSE scr
          /\ calls' = Append(calls, [scratch |-> s, frames |-> << >>, live |-> TRUE])
          /\ idle' = idle \ {s}
    BY DEF Begin
  <1> DEFINE c == [scratch |-> s, frames |-> << >>, live |-> TRUE]
             n == Len(calls)
  <1>2. /\ calls \in Seq(Calls) /\ n \in Nat /\ idleBox' = idleBox /\ box' = box
        /\ scr \in [Scratches -> ScratchStates] /\ idle \subseteq Scratches
    BY DEF EncoderInv, EncoderTypeOK, Begin
  <1>3. c \in Calls /\ c.scratch = s /\ c.frames = << >> /\ c.live = TRUE /\ Len(c.frames) = 0
    BY DEF Calls
  <1>4. \A i \in 1..n : calls[i].scratch # s /\ calls[i].scratch \in Scratches
    <2>1. DOMAIN calls = 1..n /\ \A i \in 1..n : calls[i] \in Calls
      BY <1>2
    <2>. QED
      BY <1>1, <2>1 DEF Calls
  <1> HIDE DEF c
  <1>5. /\ calls' \in Seq(Calls) /\ Len(calls') = n + 1 /\ calls'[n + 1] = c
        /\ \A i \in 1..n : calls'[i] = calls[i]
    BY <1>1, <1>2, <1>3, AppendProperties DEF c
  <1>6. \A i \in 1..(n + 1) : i \in 1..n \/ i = n + 1
    BY <1>2
  <1> HIDE DEF n
  <1>7. Apart'
    <2>1. ASSUME NEW i \in 1..Len(calls')
          PROVE  calls'[i].scratch \notin idle'
      <3>1. CASE i \in 1..n
        <4>1. calls[i].scratch \notin idle
          BY <3>1 DEF EncoderInv, Apart, n
        <4>. QED
          BY <1>1, <1>5, <3>1, <4>1
      <3>2. CASE i = n + 1
        BY <1>1, <1>3, <1>5, <3>2
      <3>. QED
        BY <1>5, <1>6, <3>1, <3>2
    <2>2. ASSUME NEW i \in 1..Len(calls'), NEW j \in 1..Len(calls'), i # j
          PROVE  calls'[i].scratch # calls'[j].scratch
      <3>1. CASE i \in 1..n /\ j \in 1..n
        <4>1. calls[i].scratch # calls[j].scratch
          BY <2>2, <3>1 DEF EncoderInv, Apart, n
        <4>. QED
          BY <1>5, <3>1, <4>1
      <3>2. CASE i = n + 1 /\ j \in 1..n
        BY <1>3, <1>4, <1>5, <3>2
      <3>3. CASE j = n + 1 /\ i \in 1..n
        BY <1>3, <1>4, <1>5, <3>3
      <3>. QED
        BY <1>5, <1>6, <2>2, <3>1, <3>2, <3>3
    <2>. QED
      BY <2>1, <2>2 DEF Apart
  <1>8. /\ scr' \in [Scratches -> ScratchStates] /\ ScratchesOk'
        /\ scr'[s].used = 0 /\ scr'[s].entries # NilSlice
        /\ \A q \in Scratches \ {s} : scr'[q] = scr[q]
    <2> DEFINE z == NewScratch(Made(0, 0))
    <2>1. z \in ScratchStates /\ ScratchOk(z) /\ z.used = 0 /\ z.entries # NilSlice
      BY NewScratchOk, MadeSlice
    <2> HIDE DEF z
    <2>2. CASE new
      <3>1. scr' = [scr EXCEPT ![s] = z]
        BY <1>1, <2>2 DEF z
      <3>. QED
        BY <1>2, <2>1, <3>1 DEF EncoderInv, ScratchesOk
    <2>3. CASE ~new
      <3>1. scr' = scr /\ s \in idle
        BY <1>1, <2>3
      <3>. QED
        BY <1>2, <3>1 DEF EncoderInv, ScratchesOk, IdleOk
    <2>. QED
      BY <2>2, <2>3
  <1>9. idle' \subseteq Scratches /\ IdleOk'
    BY <1>1, <1>2, <1>8 DEF EncoderInv, IdleOk
  <1>10. CallsOk'
    <2> SUFFICES ASSUME NEW i \in 1..Len(calls')
                 PROVE  CallOk(calls'[i], scr'[calls'[i].scratch])
      BY DEF CallsOk
    <2>1. CASE i \in 1..n
      <3>1. calls'[i] = calls[i] /\ scr'[calls[i].scratch] = scr[calls[i].scratch]
        BY <1>4, <1>5, <1>8, <2>1
      <3>. QED
        BY <2>1, <3>1 DEF EncoderInv, CallsOk, n
    <2>2. CASE i = n + 1
      <3>1. CallOk(c, scr'[s])
        BY <1>3, <1>8 DEF CallOk
      <3>. QED
        BY <1>3, <1>5, <2>2, <3>1
    <2>. QED
      BY <1>5, <1>6, <2>1, <2>2
  <1>. QED
    BY <1>2, <1>5, <1>7, <1>8, <1>9, <1>10 DEF EncoderInv, EncoderTypeOK, BoxesOk

\* The innermost call ends, and the others keep what they have.
LEMMA EndingCall ==
    ASSUME EncoderInv, calls # << >>, calls' = Front(calls), idle' \subseteq idle \union {Call.scratch},
           \A q \in Scratches \ (idle \union {Call.scratch}) : scr'[q] = scr[q]
    PROVE  calls' \in Seq(Calls) /\ Apart' /\ CallsOk'
  <1> DEFINE n == Len(calls)
  <1>1. /\ calls \in Seq(Calls) /\ n \in Nat \ {0} /\ Call = calls[n] /\ n \in 1..n
        /\ \A i \in 1..n : calls[i] \in Calls
    BY InnermostCall DEF EncoderInv, EncoderTypeOK
  <1>2. /\ calls' \in Seq(Calls) /\ Len(calls') = n - 1
        /\ \A i \in 1..(n - 1) : calls'[i] = calls[i]
    <2>1. calls' = SubSeq(calls, 1, n - 1) /\ n - 1 \in Int /\ 1 \in Int /\ \A i \in 1..(n - 1) : calls[i] \in Calls
      BY <1>1 DEF Front
    <2> HIDE DEF n
    <2>2. /\ SubSeq(calls, 1, n - 1) \in Seq(Calls)
          /\ Len(SubSeq(calls, 1, n - 1)) = IF 1 <= n - 1 THEN (n - 1) - 1 + 1 ELSE 0
          /\ \A i \in 1..((n - 1) - 1 + 1) : SubSeq(calls, 1, n - 1)[i] = calls[1 + i - 1]
      BY <2>1, SubSeqProperties
    <2>. QED
      BY <1>1, <2>1, <2>2
  <1>3. ASSUME NEW i \in 1..Len(calls')
        PROVE  /\ i \in 1..n /\ i # n /\ calls'[i] = calls[i] /\ calls[i].scratch \in Scratches
    BY <1>1, <1>2, SMTT(20) DEF Calls
  <1>4. /\ \A i \in 1..n : calls[i].scratch \notin idle
        /\ \A i, j \in 1..n : i # j => calls[i].scratch # calls[j].scratch
    BY DEF EncoderInv, Apart
  <1> HIDE DEF n
  <1>5. Apart'
    <2>1. ASSUME NEW i \in 1..Len(calls')
          PROVE  calls'[i].scratch \notin idle'
      <3>1. calls'[i].scratch \notin idle \union {Call.scratch}
        BY <1>1, <1>3, <1>4
      <3>. QED
        BY <3>1
    <2>2. ASSUME NEW i \in 1..Len(calls'), NEW j \in 1..Len(calls'), i # j
          PROVE  calls'[i].scratch # calls'[j].scratch
      BY <1>3, <1>4, <2>2
    <2>. QED
      BY <2>1, <2>2 DEF Apart
  <1>6. CallsOk'
    <2> SUFFICES ASSUME NEW i \in 1..Len(calls')
                 PROVE  CallOk(calls'[i], scr'[calls'[i].scratch])
      BY DEF CallsOk
    <2>1. calls[i].scratch \notin idle \union {Call.scratch}
      BY <1>1, <1>3, <1>4
    <2>2. scr'[calls'[i].scratch] = scr[calls[i].scratch]
      BY <1>3, <2>1
    <2>. QED
      BY <1>3, <2>2 DEF EncoderInv, CallsOk, n
  <1>. QED
    BY <1>2, <1>5, <1>6

\* A call that returns resets its scratch before it goes back to the pool.
LEMMA ReturnInv ==
    ASSUME EncoderInv, Return
    PROVE  EncoderInv'
  <1> DEFINE r == Reset(Scr)
  <1>1. /\ calls # << >> /\ Frames = << >> /\ Call \in Calls /\ Call.scratch \in Scratches /\ Call.scratch \notin idle
        /\ Scr \in ScratchStates /\ ScratchOk(Scr) /\ CallOk(Call, Scr) /\ Frames = Call.frames
    BY InnermostCall DEF Return, Frames
  <1>2. /\ scr \in [Scratches -> ScratchStates] /\ idle \subseteq Scratches
        /\ idle' = {Call.scratch} /\ calls' = Front(calls) /\ idleBox' = idleBox /\ box' = box
        /\ scr' = [s \in Scratches |-> IF s = Call.scratch THEN Reset(scr[s])
                                       ELSE IF s \in idle THEN NewScratch(NilSlice) ELSE scr[s]]
    BY DEF Return, EncoderInv, EncoderTypeOK
  <1>3. Scr.entries # NilSlice /\ Scr.entries \in Slices /\ Scr.used \in Nat /\ Scr.entries.dirty <= Scr.used
    <2>1. Len(Call.frames) = 0
      BY <1>1
    <2>2. Scr.entries # NilSlice
      BY <1>1, <2>1 DEF CallOk
    <2>. QED
      BY <1>1, <2>2 DEF ScratchStates, ScratchOk
  <1>4. r \in ScratchStates /\ ScratchOk(r) /\ r.used = 0 /\ ~r.boxes /\ r.entries # NilSlice
    <2> DEFINE x == ClearPrefix(Scr.entries, Scr.used)
    <2>1. x \in Slices /\ x.dirty = 0 /\ x # NilSlice
      BY <1>3, Clearing
    <2> HIDE DEF x
    <2>2. r = [Scr EXCEPT !.boxes = FALSE, !.entries = x, !.used = 0]
      BY DEF Reset, x
    <2>3. r \in ScratchStates /\ r.used = 0 /\ ~r.boxes /\ r.entries = x
          /\ r.backing = Scr.backing /\ r.dynBacking = Scr.dynBacking
      <3> DEFINE m == [Scr EXCEPT !.boxes = FALSE, !.entries = x]
      <3>1. /\ m \in ScratchStates /\ m.entries = x /\ m.boxes = FALSE
            /\ m.backing = Scr.backing /\ m.dynBacking = Scr.dynBacking
        BY <1>1, <2>1 DEF ScratchStates
      <3>2. r = [m EXCEPT !.used = 0]
        BY <2>2
      <3> HIDE DEF m
      <3>. QED
        BY <3>1, <3>2 DEF ScratchStates
    <2>4. 0 <= x.len
      BY <2>1, SliceFacts
    <2>. QED
      BY <1>1, <2>1, <2>3, <2>4 DEF ScratchOk
  <1> HIDE DEF r
  <1>5. \A s \in Scratches : scr'[s] = IF s = Call.scratch THEN r
                                       ELSE IF s \in idle THEN NewScratch(NilSlice) ELSE scr[s]
    BY <1>1, <1>2 DEF r, Scr
  <1>6. scr' \in [Scratches -> ScratchStates] /\ ScratchesOk'
    <2>1. NewScratch(NilSlice) \in ScratchStates /\ ScratchOk(NewScratch(NilSlice))
      BY NewScratchOk
    <2>2. \A s \in Scratches : scr'[s] \in ScratchStates /\ ScratchOk(scr'[s])
      BY <1>2, <1>4, <1>5, <2>1 DEF EncoderInv, ScratchesOk
    <2>. QED
      BY <1>2, <2>2 DEF ScratchesOk
  <1>7. idle' \subseteq Scratches /\ IdleOk'
    BY <1>1, <1>2, <1>4, <1>5 DEF IdleOk
  <1>8. calls' \in Seq(Calls) /\ Apart' /\ CallsOk'
    <2>1. idle' \subseteq idle \union {Call.scratch}
      BY <1>2
    <2>2. \A q \in Scratches \ (idle \union {Call.scratch}) : scr'[q] = scr[q]
      BY <1>5
    <2>. QED
      BY <1>1, <1>2, <2>1, <2>2, EndingCall
  <1>. QED
    BY <1>2, <1>6, <1>7, <1>8 DEF EncoderInv, EncoderTypeOK, BoxesOk

\* A panic drops the scratch and the boxes of the call; no pool sees them.
LEMMA EncoderPanicInv ==
    ASSUME EncoderInv, Recovered
    PROVE  EncoderInv'
  <1> DEFINE r == NewScratch(NilSlice)
             lost == {f.box : f \in ToSet(Frames)}
  <1>1. calls # << >> /\ Call.scratch \in Scratches /\ Call.scratch \notin idle
    BY InnermostCall DEF Recovered
  <1>2. /\ scr \in [Scratches -> ScratchStates] /\ idle \subseteq Scratches
        /\ box \in [1..Boxes -> BoxStates] /\ idleBox \subseteq 1..Boxes
        /\ idle' = idle /\ calls' = Front(calls) /\ idleBox' = idleBox
        /\ scr' = [scr EXCEPT ![Call.scratch] = r]
        /\ box' = [b \in 1..Boxes |-> IF b \in lost THEN NewBox ELSE box[b]]
    BY DEF Recovered, EncoderInv, EncoderTypeOK
  <1>3. r \in ScratchStates /\ ScratchOk(r)
    BY NewScratchOk
  <1>4. NewBox \in BoxStates /\ NewBox.entries.dirty = 0 /\ NewBox.backing.dirty = 0 /\ ~NewBox.value
    BY DEF NewBox, BoxStates, Slices, NilSlice
  <1> HIDE DEF r, lost
  <1>5. scr' \in [Scratches -> ScratchStates] /\ ScratchesOk' /\ idle' \subseteq Scratches /\ IdleOk'
    BY <1>1, <1>2, <1>3 DEF EncoderInv, ScratchesOk, IdleOk
  <1>6. box' \in [1..Boxes -> BoxStates] /\ BoxesOk'
    <2>1. \A b \in 1..Boxes : box'[b] = NewBox \/ box'[b] = box[b]
      BY <1>2
    <2>. QED
      BY <1>2, <1>4, <2>1 DEF EncoderInv, BoxesOk
  <1>7. calls' \in Seq(Calls) /\ Apart' /\ CallsOk'
    <2>1. idle' \subseteq idle \union {Call.scratch}
      BY <1>2
    <2>2. \A q \in Scratches \ (idle \union {Call.scratch}) : scr'[q] = scr[q]
      BY <1>1, <1>2
    <2>. QED
      BY <1>1, <1>2, <2>1, <2>2, EndingCall
  <1>. QED
    BY <1>2, <1>5, <1>6, <1>7 DEF EncoderInv, EncoderTypeOK

-----------------------------------------------------------------------------
(***************************************************************************)
(* The theorems.                                                           *)
(***************************************************************************)

\* The pools are empty and no call runs.
LEMMA EncoderInitInv == ASSUME EncoderAssumption PROVE EncoderInit => EncoderInv
  <1> SUFFICES ASSUME EncoderInit
               PROVE  EncoderInv
    OBVIOUS
  <1>1. /\ idle = {} /\ idleBox = {} /\ calls = << >>
        /\ scr = [s \in Scratches |-> NewScratch(NilSlice)]
        /\ box = [b \in 1..Boxes |-> NewBox]
    BY DEF EncoderInit
  <1>2. NewScratch(NilSlice) \in ScratchStates /\ ScratchOk(NewScratch(NilSlice))
    BY NewScratchOk
  <1>3. NewBox \in BoxStates /\ NewBox.entries.dirty = 0 /\ NewBox.backing.dirty = 0
    BY DEF NewBox, BoxStates, Slices, NilSlice
  <1>4. calls \in Seq(Calls) /\ Len(calls) = 0
    BY <1>1
  <1>5. EncoderTypeOK
    BY <1>1, <1>2, <1>3, <1>4 DEF EncoderTypeOK
  <1>. QED
    BY <1>1, <1>2, <1>3, <1>4, <1>5 DEF EncoderInv, Apart, ScratchesOk, IdleOk, BoxesOk, CallsOk

\* The invariant is inductive: one case per action.
LEMMA EncoderNextInv == ASSUME EncoderAssumption PROVE EncoderInv /\ [EncoderNext]_encoderVars => EncoderInv'
  <1> SUFFICES ASSUME EncoderInv, [EncoderNext]_encoderVars
               PROVE  EncoderInv'
    OBVIOUS
  <1>1. CASE EnterStatic
    BY <1>1, EnterStaticInv
  <1>2. CASE EnterDynamic
    BY <1>2, EnterDynamicInv
  <1>3. CASE LeaveMap
    BY <1>3, EncoderLeaveInv
  <1>4. CASE CallMarshaler
    BY <1>4, CallMarshalerInv
  <1>5. CASE Begin
    BY <1>5, BeginInv
  <1>6. CASE Return
    BY <1>6, ReturnInv
  <1>7. CASE Recovered
    BY <1>7, EncoderPanicInv
  <1>8. CASE UNCHANGED encoderVars
    BY <1>8 DEF encoderVars, EncoderInv, EncoderTypeOK, Apart, ScratchesOk, IdleOk, BoxesOk, CallsOk
  <1>. QED
    BY <1>1, <1>2, <1>3, <1>4, <1>5, <1>6, <1>7, <1>8 DEF EncoderNext

\* The scratch of an encoder throughout: calls, boxes, idle objects and open
\* maps hold storage that is theirs alone, clean where the code relies on it.
THEOREM EncoderInvariance == ASSUME EncoderAssumption PROVE EncoderSpec => []EncoderInv
  BY EncoderInitInv, EncoderNextInv, PTL DEF EncoderSpec

\* The storage of a scratch, a box and a call keeps its type: a slice is nil or
\* has a length, and an open map remembers the box it borrowed.
THEOREM EncoderTypes == ASSUME EncoderAssumption PROVE EncoderSpec => []EncoderTypeOK
  <1>1. EncoderInv => EncoderTypeOK
    BY DEF EncoderInv
  <1>. QED
    BY <1>1, EncoderInvariance, PTL

\* reset, releaseMapScratch and the box's release: nothing of an encoded value
\* is left in an object that is back in a pool, whatever maps, errors, panics
\* and nested calls there were.
THEOREM PooledIsClean == ASSUME EncoderAssumption PROVE EncoderSpec => []PooledClean
  <1>1. EncoderInv => PooledClean
    <2> SUFFICES ASSUME EncoderInv
                 PROVE  PooledClean
      OBVIOUS
    <2>1. ASSUME NEW s \in idle
          PROVE  /\ \A x \in ScratchSlices(scr[s]) : x.dirty = 0
                 /\ scr[s].used = 0 /\ ~scr[s].boxes
      <3>1. scr[s] \in ScratchStates /\ ScratchOk(scr[s]) /\ scr[s].used = 0 /\ ~scr[s].boxes
        BY DEF EncoderInv, EncoderTypeOK, ScratchesOk, IdleOk
      <3>2. scr[s].entries.dirty = 0
        <4>1. scr[s].entries \in Slices
          BY <3>1 DEF ScratchStates
        <4>. QED
          BY <3>1, <4>1, SliceFacts DEF ScratchOk
      <3>. QED
        BY <3>1, <3>2 DEF ScratchOk, ScratchSlices
    <2>2. \A b \in idleBox : (\A x \in BoxSlices(box[b]) : x.dirty = 0) /\ ~box[b].value
      BY DEF EncoderInv, EncoderTypeOK, BoxesOk, BoxSlices
    <2>. QED
      BY <2>1, <2>2 DEF PooledClean
  <1>. QED
    BY <1>1, EncoderInvariance, PTL

\* reset of a call's scratch: between the maps of the call the entry slice is
\* there, is as long as the largest prefix the call remembers, and is dirty
\* only inside it.
THEOREM ResetIsCovered == ASSUME EncoderAssumption PROVE EncoderSpec => []ResetCovers
  <1>1. EncoderInv => ResetCovers
    <2> SUFFICES ASSUME EncoderInv, NEW i \in DOMAIN calls, calls[i].frames = << >>
                 PROVE  LET s == scr[calls[i].scratch]
                        IN  s.entries # NilSlice /\ s.used <= s.entries.len /\ s.entries.dirty <= s.used
      BY DEF ResetCovers
    <2>1. i \in 1..Len(calls) /\ calls[i] \in Calls /\ Len(calls[i].frames) = 0
      BY DEF EncoderInv, EncoderTypeOK
    <2>2. CallOk(calls[i], scr[calls[i].scratch]) /\ ScratchOk(scr[calls[i].scratch])
      BY <2>1 DEF EncoderInv, CallsOk, ScratchesOk, Calls
    <2>3. scr[calls[i].scratch].entries # NilSlice
      BY <2>1, <2>2 DEF CallOk
    <2>. QED
      BY <2>2, <2>3 DEF ScratchOk
  <1>. QED
    BY <1>1, EncoderInvariance, PTL
=============================================================================
