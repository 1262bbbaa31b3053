---------------------------- MODULE ObjectProbe ----------------------------
(***************************************************************************)
(* ObjectProbe of index_probe.go: an open-addressed table over the members *)
(* of one object, built in storage that the caller reuses from object to   *)
(* object.  Names without escapes go into the table by the hash of their   *)
(* bytes, names with escapes into a list behind it, in document order.     *)
(*                                                                         *)
(* A member is its name's spelling, the size of its value's subtree, and   *)
(* the offset of the name's entry from the object's; a slot holds a hash   *)
(* and such an offset, where 0 means empty: 0 is the object itself.        *)
(***************************************************************************)
EXTENDS Integers, Sequences, FiniteSets, FiniteSetsExt

CONSTANTS Names, EscapedNames,     \* spellings, and those with an escape
          NameText,                 \* the text a spelling decodes to
          NameHash,                 \* HashKeyContent
          Objects,              \* the objects to probe: sequences of members
          StorageCap,           \* cap(storage)
          MaxBuilds             \* bound on the builds in one storage

PlainNames == Names \ EscapedNames

\* What the probe needs of the constants.
ProbeAssumption ==
    /\ EscapedNames \subseteq Names
    /\ NameText \in [Names -> PlainNames] /\ \A s \in PlainNames : NameText[s] = s
    /\ NameHash \in [Names -> Nat]
    /\ Objects \subseteq Seq([name : Names, next : Nat \ {0}, at : Nat])
    /\ \A o \in Objects : \A m \in 1..Len(o) :
          o[m].at = IF m = 1 THEN 1 ELSE o[m - 1].at + 1 + o[m - 1].next
    /\ StorageCap \in Nat /\ MaxBuilds \in Nat

VARIABLES obj,          \* the object of this build
          member, off,  \* the loop: members done, the next name's offset
          storage,      \* the caller's slots; a build may leave anything in them
          fresh,        \* slots this build allocated for itself, or <<>>
          grown,        \* the escaped list, once it outgrew the slots, or <<>>
          nescaped,     \* len(escaped)
          builds

probeVars == <<obj, member, off, storage, fresh, grown, nescaped, builds>>

EmptySlot == [hash |-> 0, off |-> 0]
Zeroed(n) == [k \in 1..n |-> EmptySlot]

PowerOfTwo[k \in Nat] == IF k = 0 THEN 1 ELSE 2 * PowerOfTwo[k - 1]

\* The smallest power of two that is at least 2 * count.
ProbeCapacity(count) == Min({p \in {PowerOfTwo[k] : k \in 0..(2 * count)} : p >= 2 * count})

RequiredProbeSlots(o) ==
    IF o = <<>> THEN 0
    ELSE ProbeCapacity(Len(o)) + Cardinality({m \in 1..Len(o) : o[m].name \in EscapedNames})

capacity == IF obj = <<>> THEN 0 ELSE ProbeCapacity(Len(obj))

\* The slots this build works in, and where its escaped list lies.
Slots == IF fresh # <<>> THEN fresh ELSE storage
escaped ==
    IF grown # <<>> THEN SubSeq(grown, 1, nescaped)
    ELSE SubSeq(Slots, capacity + 1, capacity + nescaped)

ProbeInit ==
    /\ obj = <<>> /\ member = 0 /\ off = 1 /\ builds = 0
    /\ storage = Zeroed(StorageCap) /\ fresh = <<>> /\ grown = <<>> /\ nescaped = 0

\* Mutant: the slots of the last build are not cleared.
BuildWithoutClear(o) ==
    /\ member = Len(obj) /\ builds < MaxBuilds
    /\ obj' = o /\ member' = 0 /\ off' = 1 /\ nescaped' = 0 /\ grown' = <<>>
    /\ builds' = builds + 1
    /\ fresh' = IF o # <<>> /\ StorageCap < ProbeCapacity(Len(o))
                  THEN Zeroed(ProbeCapacity(Len(o)) + Len(o)) ELSE <<>>
    /\ UNCHANGED storage

\* BuildObjectProbe up to its loop: the table part of the storage is
\* cleared, or new slots are allocated when the table does not fit.
BuildObjectProbe(o) ==
    /\ member = Len(obj) /\ builds < MaxBuilds
    /\ obj' = o /\ member' = 0 /\ off' = 1 /\ nescaped' = 0 /\ grown' = <<>>
    /\ builds' = builds + 1
    /\ IF o = <<>> THEN fresh' = <<>> /\ UNCHANGED storage
       ELSE LET c == ProbeCapacity(Len(o)) IN
            IF StorageCap < c
              THEN fresh' = Zeroed(c + Len(o)) /\ UNCHANGED storage
              ELSE /\ fresh' = <<>>
                   /\ storage' = [k \in 1..StorageCap |-> IF k <= c THEN EmptySlot ELSE storage[k]]

\* The loop goes on behind the value of the member just added.
Advance ==
    /\ member' = member + 1
    /\ off' = off + 1 + obj[member + 1].next
    /\ UNCHANGED <<obj, builds>>

PutSlot(k, slot) ==
    IF fresh # <<>>
      THEN fresh' = [fresh EXCEPT ![k] = slot] /\ UNCHANGED storage
      ELSE storage' = [storage EXCEPT ![k] = slot] /\ UNCHANGED fresh

\* An escaped name is appended to the list, which is moved once if the slots
\* behind the table are used up.
AddEscaped ==
    /\ member < Len(obj) /\ obj[member + 1].name \in EscapedNames
    /\ LET slot == [hash |-> 0, off |-> off]
           room == IF grown # <<>> THEN Len(grown) ELSE Len(Slots) - capacity
           moved == escaped \o Zeroed(Len(obj) - member)
       IN \/ /\ nescaped < room /\ grown # <<>>
             /\ grown' = [grown EXCEPT ![nescaped + 1] = slot]
             /\ UNCHANGED <<storage, fresh>>
          \/ /\ nescaped < room /\ grown = <<>>
             /\ PutSlot(capacity + nescaped + 1, slot) /\ UNCHANGED grown
          \/ /\ nescaped = room
             /\ grown' = [moved EXCEPT ![nescaped + 1] = slot]
             /\ UNCHANGED <<storage, fresh>>
    /\ nescaped' = nescaped + 1
    /\ Advance

\* The name whose entry is at offset o (EntryAt(header, o)).
NameAt(o) == obj[CHOOSE m \in 1..Len(obj) : obj[m].at = o].name

\* The slot reached by d steps of linear probing from hash.
ProbeAt(hash, d) == Slots[((hash + d) % capacity) + 1]

\* How far a probe for hash goes: to the first slot that is empty or, with
\* the same hash, holds this name.
Reach(hash, name) ==
    Min({d \in 0..(capacity - 1) :
            \/ ProbeAt(hash, d).off = 0
            \/ ProbeAt(hash, d).hash = hash /\ NameAt(ProbeAt(hash, d).off) = name})

\* probeInsert: a later member with the same bytes takes the slot over.
AddPlain ==
    /\ member < Len(obj) /\ obj[member + 1].name \notin EscapedNames
    /\ LET name == obj[member + 1].name
           hash == NameHash[name]
       IN  PutSlot(((hash + Reach(hash, name)) % capacity) + 1, [hash |-> hash, off |-> off])
    /\ UNCHANGED <<grown, nescaped>>
    /\ Advance

\* Get: the table's member, unless a later escaped name decodes to the key.
ProbeGet(key) ==
    LET hit  == IF capacity = 0 THEN 0 ELSE ProbeAt(NameHash[key], Reach(NameHash[key], key)).off
        best == {escaped[k].off : k \in {j \in 1..nescaped : NameText[NameAt(escaped[j].off)] = key}}
    IN  Max({hit} \cup best)

ProbeNext == (\E o \in Objects : BuildObjectProbe(o)) \/ AddEscaped \/ AddPlain

ProbeSpec == ProbeInit /\ [][ProbeNext]_probeVars

-----------------------------------------------------------------------------
(***************************************************************************)
(* Properties.                                                             *)
(***************************************************************************)

\* The table is never more than half full, so a probe, successful or not,
\* meets an empty slot and the unbounded loops of probeInsert and Get end.
HalfEmpty ==
    2 * Cardinality({k \in 1..capacity : Slots[k].off # 0}) <= capacity

\* At every point of a build, whatever earlier builds left in the storage,
\* Get answers for the members added so far what a scan of them would: the
\* last one whose name decodes to the key.
ProbeExact ==
    \A key \in PlainNames :
        ProbeGet(key) = Max({0} \cup {obj[m].at : m \in {n \in 1..member : NameText[obj[n].name] = key}})

\* Storage of RequiredProbeSlots is enough: nothing is allocated.
RequiredIsEnough ==
    RequiredProbeSlots(obj) <= StorageCap => fresh = <<>> /\ grown = <<>>

\* A probe is sound: it answers as a scan would, its unbounded loops meet an
\* empty slot, and the storage it asks for is enough.
ProbeSound == ProbeExact /\ HalfEmpty /\ RequiredIsEnough
=============================================================================
