--------------------------- MODULE DecoderScratch ---------------------------
(***************************************************************************)
(* The operation state that concurrent Decode calls of one Decoder share   *)
(* (decoder_scratch.go): a lock-free cache of CacheSlots states, and inside *)
(* each state the scratch that nested maps, inline catch-alls and wide     *)
(* records borrow while one document is decoded.                           *)
(*                                                                         *)
(* A process is a goroutine in Decode, DecodePrefix or DecodeArray.  Its   *)
(* steps on the shared cache are the single atomic operations of take and  *)
(* release; what it does to the state it holds is local.  Decoding is      *)
(* abstracted to the stack of constructs that hold scratch: a document may *)
(* nest them in any way, fail anywhere, or panic in a user's method.  The  *)
(* Decoder is one compiled with Replace, which uses all of the state.      *)
(*                                                                         *)
(* A state that reaches neither the cache nor a process is garbage; its    *)
(* identity may be allocated again.                                        *)
(***************************************************************************)
EXTENDS Integers, Sequences, FiniteSets

CONSTANTS Procs,        \* goroutines
          States,       \* identities of decoderState objects
          Nil,          \* no state
          CacheSlots,   \* decoderPlanStateCacheSlots
          MapNodes,     \* compiled maps that own a scratch slot
          InlineNodes,  \* inline catch-alls that own a scratch slot
          ReceiverNodes,\* those whose elements reach a user's unmarshaler
          MaxNest       \* bound on the constructs open at once

ASSUME ScratchAssumption ==
    /\ CacheSlots \in Nat /\ MaxNest \in Nat
    /\ Nil \notin States

Nodes == MapNodes \cup InlineNodes

VARIABLES cache,        \* the slots: a state or Nil
          pc,           \* where each process is
          idx,          \* its loop index over the slots
          held,         \* the state it owns
          ops,          \* the contents of each state
          stack         \* the constructs each process has open, innermost last

vars == <<cache, pc, idx, held, ops, stack>>

\* A map scratch: in use, and whether its key and element boxes hold decoded
\* values.
EmptyBox == [inUse |-> FALSE, boxed |-> FALSE]

\* A new decoderState: batch is the receiver-batch depth, arena says that
\* receiver arrays are attached, refs that replaced storage is recorded.
NewState == [maps |-> [n \in Nodes |-> EmptyBox], wide |-> <<>>,
             batch |-> 0, arena |-> FALSE, refs |-> FALSE]

\* A construct: a "map", a struct's "inline" catch-all, a "wide" record, or a
\* "seq", a slice or array whose elements reach a user's unmarshaler.  slot is
\* 0 when it has no scratch or boxes of its own, otherwise the scratch of the
\* state (1, or the index of a wide record's seen set).
Construct(kind, node, slot) ==
    [kind |-> kind, node |-> node, slot |-> slot,
     entry |-> FALSE, first |-> TRUE, batched |-> FALSE, marked |-> FALSE]

Init ==
    /\ cache = [k \in 1..CacheSlots |-> Nil]
    /\ pc = [p \in Procs |-> "idle"]
    /\ idx = [p \in Procs |-> 1]
    /\ held = [p \in Procs |-> Nil]
    /\ ops = [s \in States |-> NewState]
    /\ stack = [p \in Procs |-> <<>>]

Garbage == { s \in States : /\ \A k \in 1..CacheSlots : cache[k] # s
                            /\ \A p \in Procs : held[p] # s }

Op(p)  == ops[held[p]]
Top(p) == stack[p][Len(stack[p])]
Below(p) == SubSeq(stack[p], 1, Len(stack[p]) - 1)

-----------------------------------------------------------------------------
(***************************************************************************)
(* take and release.                                                       *)
(***************************************************************************)

StartDecode(p) ==
    /\ pc[p] = "idle"
    /\ pc' = [pc EXCEPT ![p] = "take"] /\ idx' = [idx EXCEPT ![p] = 1]
    /\ UNCHANGED <<cache, held, ops, stack>>

\* Mutant: the slot is read but not emptied.
TakeLoad(p) ==
    /\ pc[p] = "take" /\ idx[p] <= CacheSlots
    /\ IF cache[idx[p]] # Nil
       THEN /\ held' = [held EXCEPT ![p] = cache[idx[p]]]
            /\ pc' = [pc EXCEPT ![p] = "decode"]
            /\ UNCHANGED idx
       ELSE idx' = [idx EXCEPT ![p] = @ + 1] /\ UNCHANGED <<held, pc>>
    /\ UNCHANGED <<cache, ops, stack>>

\* Swap(nil) on the next slot.
TakeSwap(p) ==
    /\ pc[p] = "take" /\ idx[p] <= CacheSlots
    /\ cache' = [cache EXCEPT ![idx[p]] = Nil]
    /\ IF cache[idx[p]] # Nil
       THEN /\ held' = [held EXCEPT ![p] = cache[idx[p]]]
            /\ pc' = [pc EXCEPT ![p] = "decode"]
            /\ UNCHANGED idx
       ELSE idx' = [idx EXCEPT ![p] = @ + 1] /\ UNCHANGED <<held, pc>>
    /\ UNCHANGED <<ops, stack>>

\* Every slot was empty: allocate.
TakeNew(p) ==
    /\ pc[p] = "take" /\ idx[p] > CacheSlots
    /\ \E s \in Garbage :
          /\ held' = [held EXCEPT ![p] = s]
          /\ ops' = [ops EXCEPT ![s] = NewState]
    /\ pc' = [pc EXCEPT ![p] = "decode"]
    /\ UNCHANGED <<cache, idx, stack>>

\* resetReceivers: arrays and the batch depth.
resetReceivers(o) == [o EXCEPT !.batch = 0, !.arena = FALSE]

\* Mutant: the scratch is marked free but its boxes keep their values.
resetOperationStateKeepsBoxes(o) ==
    [resetReceivers(o) EXCEPT
        !.maps = [n \in Nodes |-> [@[n] EXCEPT !.inUse = FALSE]],
        !.wide = [k \in DOMAIN o.wide |-> [o.wide[k] EXCEPT !.inUse = FALSE]]]

\* resetOperationState: what an operation left in its state.
resetOperationState(o) ==
    [resetReceivers(o) EXCEPT
        !.maps = [n \in Nodes |-> EmptyBox],
        !.wide = [k \in DOMAIN o.wide |-> [o.wide[k] EXCEPT !.inUse = FALSE]]]

\* releaseTypedPlanState clears the replace records, release the rest, before
\* the state can be seen by anyone else.
Release(p) ==
    /\ pc[p] = "release"
    /\ ops' = [ops EXCEPT ![held[p]] = [resetOperationState(@) EXCEPT !.refs = FALSE]]
    /\ pc' = [pc EXCEPT ![p] = "put"] /\ idx' = [idx EXCEPT ![p] = 1]
    /\ UNCHANGED <<cache, held, stack>>

\* CompareAndSwap(nil, state) on the next slot.
Put(p) ==
    /\ pc[p] = "put" /\ idx[p] <= CacheSlots
    /\ IF cache[idx[p]] = Nil
       THEN /\ cache' = [cache EXCEPT ![idx[p]] = held[p]]
            /\ held' = [held EXCEPT ![p] = Nil]
            /\ pc' = [pc EXCEPT ![p] = "idle"]
            /\ UNCHANGED idx
       ELSE idx' = [idx EXCEPT ![p] = @ + 1] /\ UNCHANGED <<cache, held, pc>>
    /\ UNCHANGED <<ops, stack>>

\* Every slot was taken: the state becomes garbage.
Drop(p) ==
    /\ pc[p] = "put" /\ idx[p] > CacheSlots
    /\ ops' = [ops EXCEPT ![held[p]] = NewState]
    /\ held' = [held EXCEPT ![p] = Nil]
    /\ pc' = [pc EXCEPT ![p] = "idle"]
    /\ UNCHANGED <<cache, idx, stack>>

-----------------------------------------------------------------------------
(***************************************************************************)
(* Decoding a document.                                                    *)
(***************************************************************************)

\* A value can be decoded here: at the root, in a field of a record, or in an
\* entry of the innermost map.
AtValue(p) ==
    /\ pc[p] = "decode" /\ Len(stack[p]) < MaxNest
    /\ stack[p] # <<>> /\ Top(p).kind \in {"map", "seq"} => Top(p).entry

Push(p, c) == stack' = [stack EXCEPT ![p] = Append(@, c)]
SetOp(p, o) == ops' = [ops EXCEPT ![held[p]] = o]

\* Mutant: scratch that is active further out is handed out again.
takeMapScratchAlways(p, kind, n) ==
    /\ Push(p, Construct(kind, n, 1))
    /\ SetOp(p, [Op(p) EXCEPT !.maps[n].inUse = TRUE])

\* takeMapScratch and takeInlineDecoder: the node's own scratch, unless it is
\* active further out in a recursive type.
takeMapScratch(p, kind, n) ==
    IF Op(p).maps[n].inUse
    THEN Push(p, Construct(kind, n, 0)) /\ UNCHANGED ops
    ELSE /\ Push(p, Construct(kind, n, 1))
         /\ SetOp(p, [Op(p) EXCEPT !.maps[n].inUse = TRUE])

EnterMap(p) ==
    /\ AtValue(p)
    /\ \/ \E n \in MapNodes : takeMapScratch(p, "map", n)
       \/ \E n \in InlineNodes : takeMapScratch(p, "inline", n)
    /\ UNCHANGED <<cache, pc, idx, held>>

\* takeWideSeen: the first free seen set, cleared, or a new one.
takeWideSeen(p) ==
    LET wide == Op(p).wide
        free == { k \in 1..Len(wide) : ~wide[k].inUse }
        k    == IF free = {} THEN Len(wide) + 1 ELSE CHOOSE j \in free : \A l \in free : j <= l
        set  == [inUse |-> TRUE, marked |-> FALSE]
    IN  /\ Push(p, Construct("wide", Nil, k))
        /\ SetOp(p, [Op(p) EXCEPT !.wide = IF free = {} THEN Append(@, set) ELSE [@ EXCEPT ![k] = set]])

EnterWide(p) == AtValue(p) /\ takeWideSeen(p) /\ UNCHANGED <<cache, pc, idx, held>>

\* A slice or an array of receivers.
EnterSequence(p) ==
    AtValue(p) /\ Push(p, Construct("seq", Nil, 0)) /\ UNCHANGED <<cache, pc, idx, held, ops>>

\* A field of the innermost wide record is decoded; the record's catch-all may
\* be open, between two entries.
Mark(p) ==
    \E k \in 1..Len(stack[p]) :
        /\ pc[p] = "decode" /\ stack[p][k].kind = "wide" /\ ~stack[p][k].marked
        /\ k = Len(stack[p]) \/ (k = Len(stack[p]) - 1 /\ Top(p).kind = "inline" /\ ~Top(p).entry)
        /\ SetOp(p, [Op(p) EXCEPT !.wide[stack[p][k].slot].marked = TRUE])
        /\ stack' = [stack EXCEPT ![p][k].marked = TRUE]
        /\ UNCHANGED <<cache, pc, idx, held>>

\* beginReceiverBatch is called for the second and later entries.
BatchesEntry(c) == ~c.first /\ (c.kind = "seq" \/ c.node \in ReceiverNodes)

\* An entry of the innermost map, catch-all or sequence begins: its boxes are
\* filled and receivers may be batched.
BeginEntry(p) ==
    LET c == Top(p)
    IN  /\ pc[p] = "decode" /\ stack[p] # <<>> /\ c.kind # "wide" /\ ~c.entry
        /\ SetOp(p, [Op(p) EXCEPT
              !.maps = IF c.slot = 1 THEN [@ EXCEPT ![c.node].boxed = TRUE] ELSE @,
              !.batch = IF BatchesEntry(c) THEN @ + 1 ELSE @])
        /\ stack' = [stack EXCEPT ![p] = Append(Below(p),
              [c EXCEPT !.entry = TRUE, !.first = FALSE, !.batched = BatchesEntry(c)])]
        /\ UNCHANGED <<cache, pc, idx, held>>

\* The operation state after the innermost construct's entry has ended.
endReceiverBatch(p) == [Op(p) EXCEPT !.batch = IF Top(p).batched THEN @ - 1 ELSE @]

EndEntry(p) ==
    /\ pc[p] = "decode" /\ stack[p] # <<>> /\ Top(p).entry
    /\ SetOp(p, endReceiverBatch(p))
    /\ stack' = [stack EXCEPT ![p] =
          Append(Below(p), [Top(p) EXCEPT !.entry = FALSE, !.batched = FALSE])]
    /\ UNCHANGED <<cache, pc, idx, held>>

\* A standard unmarshaler inside a batch gets a receiver from an arena.
nextReceiverShadow(p) ==
    /\ pc[p] = "decode" /\ Op(p).batch > 0
    /\ SetOp(p, [Op(p) EXCEPT !.arena = TRUE])
    /\ UNCHANGED <<cache, pc, idx, held, stack>>

\* Replace mode records storage it has reused.
storeReplaceReference(p) ==
    /\ pc[p] = "decode"
    /\ SetOp(p, [Op(p) EXCEPT !.refs = TRUE])
    /\ UNCHANGED <<cache, pc, idx, held, stack>>

\* The state o after construct c has given its scratch back: releaseMapScratch,
\* releaseInlineMapScratch or releaseWideSeen.
GiveBack(o, c) ==
    IF c.kind = "wide" THEN [o EXCEPT !.wide[c.slot].inUse = FALSE]
    ELSE IF c.slot = 1 THEN [o EXCEPT !.maps[c.node] = EmptyBox]
    ELSE o

Leave(p) ==
    /\ pc[p] = "decode" /\ stack[p] # <<>> /\ ~Top(p).entry
    /\ SetOp(p, GiveBack(Op(p), Top(p)))
    /\ stack' = [stack EXCEPT ![p] = Below(p)]
    /\ UNCHANGED <<cache, pc, idx, held>>

\* The document is decoded.
Finish(p) ==
    /\ pc[p] = "decode" /\ stack[p] = <<>>
    /\ pc' = [pc EXCEPT ![p] = "release"]
    /\ UNCHANGED <<cache, idx, held, ops, stack>>

Fail(p) ==
    /\ pc[p] = "decode"
    /\ pc' = [pc EXCEPT ![p] = "unwind"]
    /\ UNCHANGED <<cache, idx, held, ops, stack>>

\* An error returns through the innermost construct.  A catch-all keeps its
\* scratch: only its own end releases it.
Unwind(p) ==
    /\ pc[p] = "unwind"
    /\ IF stack[p] = <<>>
       THEN pc' = [pc EXCEPT ![p] = "release"] /\ UNCHANGED <<ops, stack>>
       ELSE /\ SetOp(p, IF Top(p).kind = "inline" THEN endReceiverBatch(p)
                        ELSE GiveBack(endReceiverBatch(p), Top(p)))
            /\ stack' = [stack EXCEPT ![p] = Below(p)]
            /\ UNCHANGED pc
    /\ UNCHANGED <<cache, idx, held>>

\* A user's method panics: only deferred calls run.
Panic(p) ==
    LET wides == { stack[p][k].slot : k \in { k \in 1..Len(stack[p]) : stack[p][k].kind = "wide" } }
    IN  /\ pc[p] = "decode"
        /\ SetOp(p, [Op(p) EXCEPT !.wide =
              [k \in DOMAIN @ |-> IF k \in wides THEN [@[k] EXCEPT !.inUse = FALSE] ELSE @[k]]])
        /\ stack' = [stack EXCEPT ![p] = <<>>]
        /\ pc' = [pc EXCEPT ![p] = "release"]
        /\ UNCHANGED <<cache, idx, held>>

Pool(p)   == TakeSwap(p) \/ TakeNew(p) \/ Release(p) \/ Put(p) \/ Drop(p)
Decode(p) == \/ EnterMap(p) \/ EnterWide(p) \/ EnterSequence(p) \/ Mark(p) \/ BeginEntry(p) \/ EndEntry(p)
             \/ nextReceiverShadow(p) \/ storeReplaceReference(p) \/ Leave(p)
             \/ Finish(p) \/ Fail(p) \/ Unwind(p) \/ Panic(p)

Next == \E p \in Procs : StartDecode(p) \/ Pool(p) \/ Decode(p)

Spec == Init /\ [][Next]_vars

-----------------------------------------------------------------------------
(***************************************************************************)
(* Properties.                                                             *)
(***************************************************************************)

Owning == {"decode", "unwind", "release", "put"}

OpStates == [maps : [Nodes -> [inUse : BOOLEAN, boxed : BOOLEAN]],
             wide : Seq([inUse : BOOLEAN, marked : BOOLEAN]),
             batch : Int, arena : BOOLEAN, refs : BOOLEAN]

\* Type invariant; a process owns a state exactly from take to release.
TypeOK ==
    /\ cache \in [1..CacheSlots -> States \cup {Nil}]
    /\ pc \in [Procs -> {"idle", "take"} \cup Owning]
    /\ idx \in [Procs -> 1..(CacheSlots + 1)]
    /\ held \in [Procs -> States \cup {Nil}]
    /\ ops \in [States -> OpStates]
    /\ \A p \in Procs : held[p] # Nil <=> pc[p] \in Owning

\* A state is owned by one goroutine, or lies in one slot of the cache: two
\* concurrent calls of one Decoder never decode into the same scratch.
Exclusive ==
    /\ \A p, q \in Procs : p # q /\ held[p] # Nil => held[p] # held[q]
    /\ \A p \in Procs, k \in 1..CacheSlots : held[p] # Nil => cache[k] # held[p]
    /\ \A k, l \in 1..CacheSlots : k # l /\ cache[k] # Nil => cache[k] # cache[l]

\* What an operation left behind is gone.
IsClean(o) ==
    /\ \A n \in Nodes : o.maps[n] = EmptyBox
    /\ \A k \in 1..Len(o.wide) : ~o.wide[k].inUse
    /\ o.batch = 0 /\ ~o.arena /\ ~o.refs

\* A state is clean from the moment release has reset it.
ReleasedClean == \A p \in Procs : pc[p] = "put" => IsClean(ops[held[p]])

\* A cached state is as good as a new one, however its last operation ended:
\* no decoded value, receiver or reference outlives the call, and no scratch
\* stays marked as used.
CachedClean ==
    \A k \in 1..CacheSlots : cache[k] # Nil => IsClean(ops[cache[k]])

\* Two open constructs of one document never share boxes or a seen set, in
\* recursive types either, and the scratch a construct uses is in use.
ScratchUnshared ==
    \A p \in Procs : pc[p] \in {"decode", "unwind"} =>
        /\ \A a \in 1..Len(stack[p]) :
              LET c == stack[p][a]
              IN  c.slot # 0 => IF c.kind = "wide" THEN Op(p).wide[c.slot].inUse
                                ELSE Op(p).maps[c.node].inUse
        /\ \A a, b \in 1..Len(stack[p]) :
              LET c == stack[p][a]  d == stack[p][b]
              IN  a # b /\ c.slot # 0 /\ c.slot = d.slot
                    => (c.kind = "wide") # (d.kind = "wide")
                       \/ (c.kind # "wide" /\ c.node # d.node)

\* The seen set of a wide record holds what that record decoded, and nothing
\* from an earlier or an inner record: Replace resets exactly the fields that
\* were missing.
SeenSetOwn ==
    \A p \in Procs : pc[p] = "decode" =>
        \A a \in 1..Len(stack[p]) :
            LET c == stack[p][a]
            IN  c.kind = "wide" => Op(p).wide[c.slot].marked = c.marked

\* Receivers are batched exactly inside a later entry of some map or sequence
\* of receivers: the batch depth counts those entries, through errors too.
BatchBalanced ==
    \A p \in Procs : pc[p] \in {"decode", "unwind"} =>
        Op(p).batch = Cardinality({ a \in 1..Len(stack[p]) : stack[p][a].batched })

\* Inside one operation every open construct has its own scratch: boxes and
\* seen sets are not shared, a seen set says what its record decoded, and the
\* receiver batches are those of the open entries, through errors too.
ScratchApart == ScratchUnshared /\ SeenSetOwn /\ BatchBalanced
=============================================================================
