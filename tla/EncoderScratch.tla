--------------------------- MODULE EncoderScratch ---------------------------
(***************************************************************************)
(* The storage an Encoder keeps between calls.                             *)
(*                                                                         *)
(* Encoding a map copies its entries into an entry slice and its values    *)
(* into a backing slice, sorts and writes them, and returns both.  A call  *)
(* of AppendJSON borrows one scratch object from a sync.Pool; the maps     *)
(* inside the value borrow from that scratch, one at a time, and fall back *)
(* to fresh storage while an outer map holds it.  A map inside an          *)
(* interface borrows from a box of its own.  A custom method may call      *)
(* AppendJSON again, return an error, or panic.                            *)
(*                                                                         *)
(* A slice is its capacity and the number of leading slots that are not    *)
(* zero.  Borrowing moves it: the place it was in is nil until it returns. *)
(* The key arena and the map iterator travel with the entry slice.         *)
(* sync.Pool is external: Get returns an object nobody else has, or a new  *)
(* one.                                                                    *)
(***************************************************************************)
EXTENDS Integers, Sequences, FiniteSets, SequencesExt

CONSTANTS
  MapPlans,    \* map plans: name -> [kind, slot, elem, limit]
  Scratches,   \* bound: the encoderScratch objects
  Boxes,       \* bound: dynamicEncodeBox objects
  MaxLen,      \* bound: members of a map
  MaxFrames    \* bound: maps open at once, over all calls

\* What the pools need of the constants.
EncoderAssumption ==
  /\ MaxLen \in Nat \ {0} /\ MaxFrames \in Nat \ {0}
  /\ Boxes \in Nat
  /\ \A n \in DOMAIN MapPlans :
       /\ MapPlans[n].kind \in {"map", "inline", "dynamic"}
       /\ MapPlans[n].slot \in Nat \union {-1}
       /\ MapPlans[n].limit \in Nat

VARIABLES
  idle,     \* pooled scratch objects
  scr,      \* scratch -> what it holds
  idleBox,  \* pooled boxes
  box,      \* box -> what it holds
  calls     \* the calls in progress, the innermost last

encoderVars == <<idle, scr, idleBox, box, calls>>

Slots == {MapPlans[n].slot : n \in DOMAIN MapPlans} \ {-1}

NilSlice == [len |-> -1, dirty |-> 0]
Made(n, k) == [len |-> n, dirty |-> k]
Larger(a, b) == IF a > b THEN a ELSE b

(* newEncoderScratchPool's New; the first entry slice is empty, not nil. *)
NewScratch(s) ==
  [entries |-> s, used |-> 0, backing |-> [i \in Slots |-> NilSlice],
   dynBacking |-> NilSlice, dynElem |-> "", boxes |-> FALSE]
NewBox == [entries |-> NilSlice, backing |-> NilSlice, value |-> FALSE]

ScratchSlices(s) == {s.entries, s.dynBacking} \union {s.backing[i] : i \in Slots}
BoxSlices(b) == {b.entries, b.backing}
OpFrames(os) == UNION {ToSet(os[i].frames) : i \in DOMAIN os}

(***************************************************************************)
(* One map.  `live' is FALSE while an oversized catch-all hides the        *)
(* scratch from everything below it.                                       *)
(***************************************************************************)
Call == Last(calls)
Scr == scr[Call.scratch]
Frames == Call.frames
SetFrames(fs, live) == [calls EXCEPT ![Len(calls)].frames = fs, ![Len(calls)].live = live]
OpenMaps == Cardinality({m \in (1..Len(calls)) \X (1..MaxFrames) : m[2] <= Len(calls[m[1]].frames)})

(* takeValueBacking: the slice found, and the scratch without it. *)
TakeBacking(s, node, n) ==
  LET i == MapPlans[node].slot
      found == IF i >= 0 THEN s.backing[i] ELSE IF s.dynElem = MapPlans[node].elem THEN s.dynBacking ELSE NilSlice
  IN [slice |-> IF found.len >= n THEN found ELSE Made(n, 0),
      left  |-> IF i >= 0 THEN [s EXCEPT !.backing[i] = NilSlice]
                ELSE [s EXCEPT !.dynBacking = NilSlice, !.dynElem = ""]]

(* clearEncoderValueBacking: the first `used' slots. *)
ClearPrefix(slice, used) == [slice EXCEPT !.dirty = IF @ <= used THEN 0 ELSE @]

(* A backing goes back unless it is too long, or a map further in restored *)
(* one first.                                                              *)
Restore(s, node, slice) ==
  LET i == MapPlans[node].slot IN
  IF MapPlans[node].kind # "inline" /\ slice.len > MapPlans[node].limit THEN s
  ELSE IF i >= 0 THEN IF s.backing[i] # NilSlice THEN s ELSE [s EXCEPT !.backing[i] = slice]
  ELSE IF s.dynElem # "" THEN s
  ELSE [s EXCEPT !.dynBacking = slice, !.dynElem = MapPlans[node].elem]

\* Mutant: one slot fewer than were collected is cleared.
ReleaseBackingShort(s, node, slice, used) == Restore(s, node, ClearPrefix(slice, used - 1))

(* releaseMapValueBacking and releaseValueBackingPrefix. *)
ReleaseBacking(s, node, slice, used) == Restore(s, node, ClearPrefix(slice, used))

\* Mutant: a shorter entry slice replaces the one the prefix was written to.
ReleaseEntriesAlways(s, slice, count) ==
  IF s.entries # NilSlice THEN s ELSE [s EXCEPT !.entries = slice, !.used = Larger(s.used, count)]

(* releaseMapScratch without a box: the largest prefix written by this     *)
(* call is remembered and cleared once, at its end; a smaller slice than   *)
(* that is not kept.                                                       *)
ReleaseEntries(s, slice, count) ==
  LET used == Larger(s.used, count) IN
  IF s.entries # NilSlice \/ used > slice.len THEN s ELSE [s EXCEPT !.entries = slice, !.used = used]

(***************************************************************************)
(* Entering a map of n members: encodeMapValue and encodeInlineMembers up  *)
(* to the first value.  k of the n members are collected; k < n when a key *)
(* cannot be written (the last, as a bound), and the map goes back at once *)
(***************************************************************************)
Filled(slice, n, k) == IF slice.len >= n THEN [slice EXCEPT !.dirty = Larger(@, k)] ELSE Made(n, k)

Open(node, n, b, k) ==
  LET dynamic == MapPlans[node].kind = "dynamic"
      retain  == n <= MapPlans[node].limit
      oneShot == MapPlans[node].kind = "inline" /\ ~retain /\ Call.live
      own     == dynamic /\ retain
      borrow  == ~own /\ retain /\ Call.live
      took    == TakeBacking(Scr, node, n)
      entries == IF own THEN box[b].entries ELSE IF borrow THEN Scr.entries ELSE NilSlice
      backing == IF own THEN box[b].backing ELSE IF borrow THEN took.slice ELSE NilSlice
      left    == IF borrow THEN [took.left EXCEPT !.entries = NilSlice] ELSE Scr
      keyed   == ~dynamic /\ Call.live /\ ~oneShot
      frame   == [node |-> node, len |-> n, count |-> k, entries |-> Filled(entries, n, k),
                  backing |-> Filled(backing, n, k), box |-> b, own |-> own, oneShot |-> oneShot]
  IN /\ scr' = [scr EXCEPT ![Call.scratch] = [left EXCEPT !.boxes = @ \/ keyed]]
     /\ box' = IF ~dynamic THEN box
               ELSE [box EXCEPT ![b] = [entries |-> IF own THEN NilSlice ELSE @.entries,
                                        backing |-> IF own THEN NilSlice ELSE @.backing, value |-> TRUE]]
     /\ calls' = SetFrames(Append(Frames, frame), Call.live /\ ~oneShot)
     /\ UNCHANGED idle

HasRoom == calls # << >> /\ OpenMaps < MaxFrames
(* A map whose key could not be written is on its way out. *)
Collecting ==
  IF calls = << >> \/ Frames = << >> THEN FALSE ELSE Last(Frames).count < Last(Frames).len

(* A map of a compiled plan, or a struct's catch-all. *)
EnterStatic ==
  /\ HasRoom /\ ~Collecting
  /\ \E node \in DOMAIN MapPlans, n \in 1..MaxLen :
       /\ MapPlans[node].kind # "dynamic"
       /\ \E k \in (IF MapPlans[node].kind = "map" THEN {n - 1, n} ELSE {n}) : Open(node, n, 0, k)
  /\ UNCHANGED idleBox

(* encodeDynamicValue: a map in an interface, with a box from its own      *)
(* pool or a new one.                                                      *)
EnterDynamic ==
  /\ HasRoom /\ ~Collecting
  /\ \E node \in DOMAIN MapPlans, n \in 1..MaxLen, b \in 1..Boxes :
       /\ MapPlans[node].kind = "dynamic"
       /\ b \notin {f.box : f \in OpFrames(calls)}
       /\ idleBox' = idleBox \ {b}
       /\ \E k \in {n - 1, n} : Open(node, n, b, k)

(***************************************************************************)
(* Leaving a map, after its last value or with the error of one.           *)
(***************************************************************************)
LeaveMap ==
  /\ calls # << >> /\ Frames # << >>
  /\ LET f     == Last(Frames)
         freed == ReleaseEntries(ReleaseBacking(Scr, f.node, f.backing, f.count), f.entries, f.count)
     IN /\ scr' = [scr EXCEPT ![Call.scratch] = IF f.own \/ ~Call.live THEN @ ELSE freed]
        /\ box' = IF f.box = 0 THEN box
                  ELSE [box EXCEPT ![f.box] =
                          IF f.own THEN [entries |-> ClearPrefix(f.entries, f.count),
                                         backing |-> ClearPrefix(f.backing, f.count), value |-> FALSE]
                          ELSE [@ EXCEPT !.value = FALSE]]
        /\ calls' = SetFrames(Front(Frames), Call.live \/ f.oneShot)
        /\ idleBox' = idleBox \union ({f.box} \ {0})
        /\ UNCHANGED idle

(***************************************************************************)
(* Custom methods, and the calls.                                          *)
(***************************************************************************)
(* A value-receiver method is called on a copy in a slot of the scratch. *)
CallMarshaler ==
  /\ calls # << >> /\ Call.live /\ ~Collecting
  /\ scr' = [scr EXCEPT ![Call.scratch].boxes = TRUE]
  /\ UNCHANGED <<idle, idleBox, box, calls>>

(* AppendJSON, by the program or by a custom method of the value being     *)
(* encoded: Get, which may find nothing pooled.                            *)
Begin ==
  /\ Len(calls) < Cardinality(Scratches) /\ ~Collecting
  /\ \E s \in Scratches, new \in BOOLEAN :
       /\ s \notin {calls[i].scratch : i \in DOMAIN calls} /\ (new \/ s \in idle)
       /\ scr' = IF new THEN [scr EXCEPT ![s] = NewScratch(Made(0, 0))] ELSE scr
       /\ calls' = Append(calls, [scratch |-> s, frames |-> << >>, live |-> TRUE])
       /\ idle' = idle \ {s}
  /\ UNCHANGED <<idleBox, box>>

(* reset, then Put.  The pool, which may forget anything, keeps one. *)
Reset(s) == [s EXCEPT !.boxes = FALSE, !.entries = ClearPrefix(@, s.used), !.used = 0]

Return ==
  /\ calls # << >> /\ Frames = << >>
  /\ scr' = [s \in Scratches |-> IF s = Call.scratch THEN Reset(scr[s])
                                    ELSE IF s \in idle THEN NewScratch(NilSlice) ELSE scr[s]]
  /\ calls' = Front(calls)
  /\ idle' = {Call.scratch}
  /\ UNCHANGED <<idleBox, box>>

(* A panic that the program, or a custom method further out, recovers:     *)
(* nothing is returned to a pool.                                          *)
Recovered ==
  /\ calls # << >>
  /\ scr' = [scr EXCEPT ![Call.scratch] = NewScratch(NilSlice)]
  /\ box' = [b \in 1..Boxes |-> IF b \in {f.box : f \in ToSet(Frames)} THEN NewBox ELSE box[b]]
  /\ calls' = Front(calls)
  /\ UNCHANGED <<idle, idleBox>>

EncoderInit ==
  /\ idle = {} /\ idleBox = {} /\ calls = << >>
  /\ scr = [s \in Scratches |-> NewScratch(NilSlice)]
  /\ box = [b \in 1..Boxes |-> NewBox]

EncoderNext == EnterStatic \/ EnterDynamic \/ LeaveMap \/ CallMarshaler \/ Begin \/ Return \/ Recovered

EncoderSpec == EncoderInit /\ [][EncoderNext]_encoderVars

(***************************************************************************)
(* Properties.                                                             *)
(***************************************************************************)
(* Whatever the calls did, with errors at any point, nothing of the values *)
(* they encoded is left in an object that is back in a pool: a later call, *)
(* of another goroutine and perhaps another type, cannot meet it.          *)
PooledClean ==
  /\ \A s \in idle :
       /\ \A x \in ScratchSlices(scr[s]) : x.dirty = 0
       /\ scr[s].used = 0 /\ ~scr[s].boxes
  /\ \A b \in idleBox :
       /\ \A x \in BoxSlices(box[b]) : x.dirty = 0
       /\ ~box[b].value

(* Between maps of a call its scratch has an entry slice again, at least   *)
(* as long as the largest prefix the call remembers and dirty only inside  *)
(* it: the reslice in reset cannot panic, and clears all that was kept.    *)
ResetCovers ==
  \A i \in DOMAIN calls : calls[i].frames = << >> =>
    LET s == scr[calls[i].scratch]
    IN s.entries # NilSlice /\ s.used <= s.entries.len /\ s.entries.dirty <= s.used

(* `an exceptional map borrows none of the pooled resources and cannot     *)
(* replace warm scratch': a pooled scratch keeps no entry slice longer     *)
(* than the largest limit of a plan.                                       *)
RetentionBounded ==
  \A s \in idle : \E n \in DOMAIN MapPlans : scr[s].entries.len <= MapPlans[n].limit
=============================================================================
