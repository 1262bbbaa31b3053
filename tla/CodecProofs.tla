---------------------------- MODULE CodecProofs -----------------------------
(***************************************************************************)
(* Proofs about how a codec comes to be and is kept.                       *)
(*                                                                         *)
(* The compiler of plans, for any types, graphs and journal size: a plan   *)
(* that is published is whole and owns its scratch, and a type compiles    *)
(* exactly when it has a plan.                                             *)
(*                                                                         *)
(* What the table, the nodes and the scratch must satisfy is stated of a   *)
(* level: the first c entries of the journal, with the scratch reserved    *)
(* when it had c entries.  The level a call of compileAt found when it     *)
(* began is intact while the call lasts, because nothing below it is       *)
(* written, and it is the level an abandoned attempt goes back to.         *)
(*                                                                         *)
(* Marshal's cache, for any number of goroutines, output sizes and         *)
(* thresholds: one entry is shared, no buffer is inflated by a single      *)
(* observation, and the compare-and-swap loop implements an atomic         *)
(* register.                                                               *)
(***************************************************************************)
EXTENDS MarshalCache, TypeCompiler, FiniteSetTheorems, SequenceTheorems, WellFoundedInduction, TLAPS

-----------------------------------------------------------------------------
(***************************************************************************)
(* The compiler: what its invariant says.                                  *)
(***************************************************************************)
Ops   == Kinds \cup {"invalid", "hook", "replace"}
Slots == Nat \cup {-1}
Copies == [node : Nat, op : Ops]
NodeRecords ==
    [type : Types, baseKind : Kinds \cup {"invalid"}, op : Ops, elem : Nat, fields : Seq(Copies),
     structuralFast : BOOLEAN, encMapKey : Slots, encBacking : Slots, encScratch : Slots]
FrameRecords ==
    [node : Nat, next : Nat, created : Nat, scratch : Nat, backing : Nat, hadMap : BOOLEAN]
ScratchTypes == {"key", "value"} \X Types
Running == {"run", "ok", "err"}

JournalOk ==
    /\ createdCount \in Nat /\ created \in [1..InlineSize -> Types \cup {0}] /\ createdOverflow \in Seq(Types)
    /\ \A k \in 1..InlineSize : k <= createdCount => created[k] \in Types
    /\ Len(createdOverflow) = IF createdCount > InlineSize THEN createdCount - InlineSize ELSE 0

CompilerTypeOK ==
    /\ graph \in Graphs /\ mode \in Modes
    /\ nodes \in [Types -> Nat] /\ heap \in Seq(NodeRecords)
    /\ JournalOk
    /\ encScratchTypes \in Seq(ScratchTypes) /\ encBackingSlots \in Nat /\ encHasMap \in BOOLEAN
    /\ decodeNeedsFinalize \in BOOLEAN
    /\ stack \in Seq(FrameRecords)
    /\ step \in Running \cup {"start", "done", "published", "failed"} /\ ret \in Nat

\* The types that were entered in the table, in order.
Journal == [k \in 1..createdCount |-> JournalAt(k)]

-----------------------------------------------------------------------------
(***************************************************************************)
(* A level.  g and md are the graph and the mode, J the journal, nd and hp *)
(* the table and the nodes; open are the journal positions of the types    *)
(* still in the making, wait those that nothing refers to yet.             *)
(***************************************************************************)
Decodes(md) == md \in {"decode", "replace"}
Settled(g, md, t) ==
    IF g[t].hook THEN "hook" ELSE IF md = "replace" /\ g[t].kind \in {"ref", "map"} THEN "replace" ELSE g[t].kind

Refs(r) == { f.node : f \in Range(r.fields) } \cup ({r.elem} \ {0})

\* The type runs once the types up to c have nodes.
Provided(g, J, c, t) ==
    g[t].hook \/ (g[t].kind # "chan" /\ \A p \in Range(g[t].parts) : \E l \in 1..c : J[l] = p)

\* A copy is settled, or will be finalized, or is not read.
CopyOk(md, J, nd, hp, open, fin, f) ==
    \/ f.op = hp[f.node].op /\ \A o \in open : nd[J[o]] # f.node
    \/ IF Decodes(md) THEN fin ELSE f.op = "invalid"

\* The record r of the k-th type: it refers to nodes of the level and is
\* either in the making or settled.
RecordOk(g, md, J, nd, hp, open, c, fin, k, r) ==
    /\ r.type = J[k]
    /\ \A m \in Refs(r) : \E l \in 1..c : nd[J[l]] = m
    /\ \A f \in Range(r.fields) : CopyOk(md, J, nd, hp, open, fin, f)
    /\ r.structuralFast => Decodes(md) /\ \A f \in Range(r.fields) : f.op \in FastOps
    /\ k \in open => /\ r.baseKind = "invalid" /\ r.structuralFast = FALSE /\ r.encScratch = -1
                     /\ Decodes(md) \/ r.op = "invalid"
    /\ k \notin open => r.op = Settled(g, md, J[k]) /\ Provided(g, J, c, J[k])

Whole(g, md, J, nd, hp, open, c, fin) ==
    \A k \in 1..c :
        nd[J[k]] \in 1..Len(hp) /\ RecordOk(g, md, J, nd, hp, open, c, fin, k, hp[nd[J[k]]])

Reached(J, nd, hp, wait, c) ==
    \A k \in 2..c : k \in wait \/ \E l \in 1..(k - 1) : nd[J[k]] \in Refs(hp[nd[J[l]]])

Keyed(r) == r.encMapKey >= 0

\* The s slots and b backings belong to the types of the level, each to one.
Owned(J, nd, hp, types, c, s, b, hm) ==
    /\ s <= Len(types)
    /\ \A k \in 1..c : LET r == hp[nd[J[k]]] IN
          /\ Keyed(r) => /\ r.encMapKey < s /\ types[r.encMapKey + 1] = <<"key", J[k]>>
                         /\ r.encBacking \in 0..(b - 1)
          /\ r.encScratch >= 0 => r.encScratch < s /\ types[r.encScratch + 1] = <<"value", J[k]>>
    /\ \A m \in 0..(s - 1) : \E k \in 1..c : hp[nd[J[k]]].encMapKey = m \/ hp[nd[J[k]]].encScratch = m
    /\ \A m \in 0..(b - 1) : \E k \in 1..c : Keyed(hp[nd[J[k]]]) /\ hp[nd[J[k]]].encBacking = m
    /\ \A k, l \in 1..c :
          Keyed(hp[nd[J[k]]]) /\ Keyed(hp[nd[J[l]]]) /\ hp[nd[J[k]]].encBacking = hp[nd[J[l]]].encBacking => k = l
    /\ hm <=> \E k \in 1..c : Keyed(hp[nd[J[k]]])

-----------------------------------------------------------------------------
(***************************************************************************)
(* The invariant.                                                          *)
(***************************************************************************)
\* The i-th level, the one the i-th call found; behind the last is the present.
Cut(i)        == IF i <= Len(stack) THEN stack[i].created ELSE createdCount
ScratchCut(i) == IF i <= Len(stack) THEN stack[i].scratch ELSE Len(encScratchTypes)
BackingCut(i) == IF i <= Len(stack) THEN stack[i].backing ELSE encBackingSlots
MapCut(i)     == IF i <= Len(stack) THEN stack[i].hadMap ELSE encHasMap
Open(i)       == { stack[j].created + 1 : j \in 1..(i - 1) }

\* The result that was returned waits for the call around it.
Returned == IF step = "ok" THEN { k \in 1..createdCount : nodes[Journal[k]] = ret } ELSE {}
Wait(i)  == Open(i) \cup IF i <= Len(stack) THEN {} ELSE Returned

Level(i) ==
    /\ Whole(graph, mode, Journal, nodes, heap, Open(i), Cut(i), decodeNeedsFinalize)
    /\ Reached(Journal, nodes, heap, Wait(i), Cut(i))
    /\ mode = "encode" =>
         Owned(Journal, nodes, heap, encScratchTypes, Cut(i), ScratchCut(i), BackingCut(i), MapCut(i))

LevelsOk ==
    /\ \A i \in 1..Len(stack) : Level(i)
    /\ step \in {"start", "run", "ok", "done"} => Level(Len(stack) + 1)

TypeAt(i) == heap[stack[i].node].type

\* A call in progress entered its type behind its level, goes through the parts
\* in order, and is inside the next one; those before are in the table to stay.
FrameOk(i) ==
    LET f == stack[i]
        t == TypeAt(i)
        parts == graph[t].parts
    IN  /\ f.created < createdCount /\ Journal[f.created + 1] = t
        /\ f.node \in 1..Len(heap) /\ (i < Len(stack) \/ step # "err" => nodes[t] = f.node)
        /\ f.scratch <= Len(encScratchTypes)
        /\ i < Len(stack) => f.next <= Len(parts) /\ parts[f.next] = TypeAt(i + 1)
        /\ \A q \in 1..(f.next - 1) : q <= Len(parts) /\ \E k \in 1..Cut(i + 1) : Journal[k] = parts[q]
        /\ f.next >= 1 /\ (f.next <= Len(parts) => heap[f.node].elem = 0 /\ (graph[t].inline => heap[f.node].encMapKey = -1))

StackOk ==
    /\ \A i \in 1..Len(stack) : FrameOk(i)
    /\ \A i, j \in 1..Len(stack) : i < j => stack[i].created < stack[j].created /\ stack[i].scratch <= stack[j].scratch
    /\ stack # <<>> => stack[1].created = 0 /\ stack[1].scratch = 0 /\ stack[1].backing = 0 /\ TypeAt(1) = Root

TableOk ==
    /\ \A k, l \in 1..createdCount : Journal[k] = Journal[l] => k = l
    /\ \A t \in Types : nodes[t] # 0 => \E k \in 1..createdCount : Journal[k] = t

\* A failed call has a part that has no plan, or a type that never has one.
Hopeless == graph[Type].kind = "chan" \/ \E p \in Range(graph[Type].parts) : p \notin Compilable

StepOk ==
    /\ step \in Running <=> stack # <<>>
    /\ step = "start" => createdCount = 0 /\ encScratchTypes = <<>> /\ encBackingSlots = 0 /\ encHasMap = FALSE
    /\ step = "ok" => /\ Frame.next <= Len(graph[Type].parts) /\ nodes[Part] = ret
                      /\ \E k \in (Frame.created + 2)..createdCount : Journal[k] = Part
    /\ step = "err" => Hopeless
    /\ step = "done" => createdCount > 0 /\ Journal[1] = Root /\ nodes[Root] = ret
    /\ VerdictRight /\ PlanSound

Inv == CompilerTypeOK /\ TableOk /\ StackOk /\ LevelsOk /\ StepOk

-----------------------------------------------------------------------------
(***************************************************************************)
(* The journal is one sequence, although it lies in two places.            *)
(***************************************************************************)

\* Its first entries lie in the array, the rest in the overflow.
LEMMA JournalIs ==
    ASSUME CompilerAssumption, JournalOk
    PROVE  /\ Journal \in Seq(Types) /\ Len(Journal) = createdCount
           /\ \A k \in 1..createdCount : Journal[k] = JournalAt(k) /\ Journal[k] \in Types
  <1>1. ASSUME NEW k \in 1..createdCount
        PROVE  JournalAt(k) \in Types
    BY <1>1 DEF CompilerAssumption, JournalOk, JournalAt
  <1>2. createdCount \in Nat
    BY DEF JournalOk
  <1>. QED
    BY <1>1, <1>2 DEF Journal

\* recordCreated appends to it.
LEMMA JournalGrows ==
    ASSUME CompilerAssumption, JournalOk, NEW t \in Types, recordCreated(t)
    PROVE  /\ JournalOk' /\ createdCount' = createdCount + 1
           /\ Journal'[createdCount + 1] = t
           /\ \A k \in 1..createdCount : Journal'[k] = Journal[k]
  <1>1. /\ InlineSize \in Nat /\ createdCount \in Nat /\ createdOverflow \in Seq(Types)
        /\ created \in [1..InlineSize -> Types \cup {0}]
        /\ createdCount' = createdCount + 1
    BY DEF CompilerAssumption, JournalOk, recordCreated
  <1>2. Journal' = [k \in 1..(createdCount + 1) |-> JournalAt(k)']
    BY <1>1 DEF Journal
  <1>3. CASE createdCount < InlineSize
    <2>1. created' = [created EXCEPT ![createdCount + 1] = t] /\ createdOverflow' = createdOverflow
      BY <1>3 DEF recordCreated
    <2>2. JournalOk'
      BY <1>1, <1>3, <2>1 DEF JournalOk
    <2>3. \A k \in 1..createdCount : JournalAt(k)' = JournalAt(k)
      BY <1>1, <1>3, <2>1 DEF JournalAt
    <2>4. createdCount + 1 <= InlineSize /\ created'[createdCount + 1] = t
      BY <1>1, <1>3, <2>1
    <2>5. ASSUME NEW k, k = createdCount + 1
          PROVE  JournalAt(k)' = t
      BY <2>4, <2>5, <1>1 DEF JournalAt
    <2>. QED
      BY <1>1, <1>2, <2>2, <2>3, <2>5 DEF Journal
  <1>4. CASE ~(createdCount < InlineSize)
    <2>1. created' = created /\ createdOverflow' = Append(createdOverflow, t)
      BY <1>4 DEF recordCreated
    <2>2. Len(createdOverflow) = createdCount - InlineSize
      BY <1>1, <1>4 DEF JournalOk
    <2>3. /\ createdOverflow' \in Seq(Types) /\ Len(createdOverflow') = createdCount - InlineSize + 1
          /\ createdOverflow'[createdCount - InlineSize + 1] = t
          /\ \A k \in 1..(createdCount - InlineSize) : createdOverflow'[k] = createdOverflow[k]
      BY <1>1, <2>1, <2>2, AppendProperties, SMTT(20)
    <2>4. JournalOk'
      <3>1. \A k \in 1..InlineSize : k <= createdCount' => created'[k] \in Types
        BY <1>1, <1>4, <2>1 DEF JournalOk
      <3>. QED
        BY <1>1, <1>4, <2>1, <2>3, <3>1 DEF JournalOk
    <2>5. ASSUME NEW k \in 1..createdCount
          PROVE  JournalAt(k)' = JournalAt(k)
      <3>1. CASE k <= InlineSize
        BY <3>1, <2>1, <1>1 DEF JournalAt
      <3>2. CASE ~(k <= InlineSize)
        <4>1. k - InlineSize \in 1..(createdCount - InlineSize)
          BY <3>2, <1>1
        <4>. QED
          BY <3>2, <2>3, <4>1, <1>1 DEF JournalAt
      <3>. QED
        BY <3>1, <3>2
    <2>6. ASSUME NEW k, k = createdCount + 1
          PROVE  JournalAt(k)' = t
      <3>1. ~(k <= InlineSize) /\ k - InlineSize = createdCount - InlineSize + 1
        BY <1>1, <1>4, <2>6
      <3>. QED
        BY <2>3, <3>1 DEF JournalAt
    <2>. QED
      BY <1>1, <1>2, <2>4, <2>5, <2>6 DEF Journal
  <1>. QED
    BY <1>3, <1>4

\* The table without what was created after start knows the entries before.
LEMMA RolledBack ==
    ASSUME CompilerAssumption, CompilerTypeOK, TableOk, NEW c \in 0..createdCount
    PROVE  LET nd == rollbackCreated(c)
           IN  /\ nd \in [Types -> Nat]
               /\ \A k \in 1..c : nd[Journal[k]] = nodes[Journal[k]]
               /\ \A t \in Types : nd[t] # 0 => \E k \in 1..c : Journal[k] = t
  <1> DEFINE gone == { JournalAt(k) : k \in (c + 1)..createdCount }
             nd == [t \in Types |-> IF t \in gone THEN 0 ELSE nodes[t]]
  <1>1. createdCount \in Nat /\ nodes \in [Types -> Nat] /\ JournalOk
    BY DEF CompilerTypeOK, JournalOk
  <1>2. rollbackCreated(c) = nd
    BY DEF rollbackCreated
  <1>3. \A k \in 1..createdCount : Journal[k] = JournalAt(k) /\ Journal[k] \in Types
    BY <1>1, JournalIs
  <1>4. ASSUME NEW k \in 1..c
        PROVE  nd[Journal[k]] = nodes[Journal[k]]
    <2>1. k \in 1..createdCount /\ Journal[k] \in Types
      BY <1>1, <1>3
    <2>2. ASSUME NEW l \in (c + 1)..createdCount, JournalAt(l) = Journal[k]
          PROVE  FALSE
      <3>1. l \in 1..createdCount /\ l # k
        BY <1>1
      <3>2. Journal[l] = Journal[k]
        BY <1>3, <2>2, <3>1
      <3>. QED
        BY <2>1, <3>1, <3>2 DEF TableOk
    <2>3. Journal[k] \notin gone
      BY <2>2
    <2>. QED
      BY <2>1, <2>3
  <1>5. ASSUME NEW t \in Types, nd[t] # 0
        PROVE  \E k \in 1..c : Journal[k] = t
    <2>1. t \notin gone /\ nodes[t] # 0
      BY <1>5
    <2>2. PICK k \in 1..createdCount : Journal[k] = t
      BY <2>1 DEF TableOk
    <2>3. k \notin (c + 1)..createdCount
      BY <1>3, <2>1, <2>2
    <2>4. k \in 1..c
      BY <1>1, <2>3
    <2>. QED
      BY <2>2, <2>4
  <1>6. nd \in [Types -> Nat]
    BY <1>1
  <1> HIDE DEF nd, gone
  <1>. QED
    BY <1>2, <1>4, <1>5, <1>6

\* The journal as it was when it had c entries.
Inlined(c) == [k \in 1..InlineSize |-> IF k > c THEN 0 ELSE created[k]]
Spilled(c) == SubSeq(createdOverflow, 1, c - (IF c < InlineSize THEN c ELSE InlineSize))

\* Cut back, the array and the overflow hold the first entries and no others.
LEMMA JournalCut ==
    ASSUME CompilerAssumption, JournalOk, NEW c \in 0..createdCount
    PROVE  /\ Inlined(c) \in [1..InlineSize -> Types \cup {0}] /\ Spilled(c) \in Seq(Types)
           /\ \A k \in 1..InlineSize : k <= c => Inlined(c)[k] = created[k]
           /\ Len(Spilled(c)) = IF c > InlineSize THEN c - InlineSize ELSE 0
           /\ \A k \in 1..Len(Spilled(c)) : Spilled(c)[k] = createdOverflow[k]
  <1>1. /\ InlineSize \in Nat /\ createdCount \in Nat /\ c \in Nat /\ c <= createdCount
        /\ createdOverflow \in Seq(Types) /\ created \in [1..InlineSize -> Types \cup {0}]
        /\ Len(createdOverflow) = IF createdCount > InlineSize THEN createdCount - InlineSize ELSE 0
    BY DEF CompilerAssumption, JournalOk
  <1>2. /\ Inlined(c) \in [1..InlineSize -> Types \cup {0}]
        /\ \A k \in 1..InlineSize : k <= c => Inlined(c)[k] = created[k]
    BY <1>1 DEF Inlined
  <1> DEFINE n == c - (IF c < InlineSize THEN c ELSE InlineSize)
  <1>3. n \in Nat /\ n <= Len(createdOverflow) /\ n = (IF c > InlineSize THEN c - InlineSize ELSE 0)
    BY <1>1
  <1> HIDE DEF n
  <1>4. \A k \in 1..n : createdOverflow[k] \in Types
    BY <1>1, <1>3
  <1>5. /\ SubSeq(createdOverflow, 1, n) \in Seq(Types)
        /\ Len(SubSeq(createdOverflow, 1, n)) = IF 1 <= n THEN n - 1 + 1 ELSE 0
        /\ \A i \in 1..(n - 1 + 1) : SubSeq(createdOverflow, 1, n)[i] = createdOverflow[1 + i - 1]
    BY <1>3, <1>4, SubSeqProperties
  <1>6. Spilled(c) = SubSeq(createdOverflow, 1, n)
    BY DEF Spilled, n
  <1>7. Len(Spilled(c)) = n
    BY <1>3, <1>5, <1>6
  <1>8. \A k \in 1..n : Spilled(c)[k] = createdOverflow[k]
    BY <1>3, <1>5, <1>6
  <1>. QED
    BY <1>2, <1>3, <1>5, <1>6, <1>7, <1>8

\* What is left of the journal when everything behind c is taken back.
LEMMA JournalShrinks ==
    ASSUME CompilerAssumption, JournalOk, NEW c \in 0..createdCount,
           createdCount' = c, created' = Inlined(c), createdOverflow' = Spilled(c)
    PROVE  JournalOk' /\ \A k \in 1..c : Journal'[k] = Journal[k]
  <1>1. InlineSize \in Nat /\ createdCount \in Nat /\ c \in Nat /\ c <= createdCount
    BY DEF CompilerAssumption, JournalOk
  <1>2. ASSUME NEW k \in 1..InlineSize, k <= c
        PROVE  created'[k] \in Types
    BY <1>1, <1>2, JournalCut, SMTT(30) DEF JournalOk
  <1>3. JournalOk'
    BY <1>1, <1>2, JournalCut DEF JournalOk
  <1>4. ASSUME NEW k \in 1..c
        PROVE  JournalAt(k)' = JournalAt(k)
    <2>1. CASE k <= InlineSize
      BY <1>1, <2>1, JournalCut, SMTT(60) DEF JournalAt
    <2>2. CASE ~(k <= InlineSize)
      <3>1. k - InlineSize \in 1..Len(Spilled(c))
        BY <1>1, <2>2, JournalCut
      <3>. QED
        BY <1>1, <2>2, <3>1, JournalCut DEF JournalAt
    <2>. QED
      BY <2>1, <2>2
  <1>5. Journal' = [k \in 1..c |-> JournalAt(k)']
    BY DEF Journal
  <1>6. \A k \in 1..c : k \in 1..createdCount
    BY <1>1
  <1>. QED
    BY <1>1, <1>3, <1>4, <1>5, <1>6 DEF Journal

\* The same, with the type whose methods stand in for its layout.
LEMMA JournalReplaced ==
    ASSUME CompilerAssumption, JournalOk, NEW c \in Nat, c < createdCount, NEW t \in Types,
           createdCount' = c + 1,
           created' = IF c < InlineSize THEN [Inlined(c) EXCEPT ![c + 1] = t] ELSE Inlined(c),
           createdOverflow' = IF c < InlineSize THEN Spilled(c) ELSE Append(Spilled(c), t)
    PROVE  /\ JournalOk' /\ Journal'[c + 1] = t
           /\ \A k \in 1..c : Journal'[k] = Journal[k]
  <1>1. InlineSize \in Nat /\ createdCount \in Nat /\ c \in Nat /\ c \in 0..createdCount
    BY DEF CompilerAssumption, JournalOk
  <1> DEFINE in == Inlined(c)
             sp == Spilled(c)
  <1>2. /\ in \in [1..InlineSize -> Types \cup {0}] /\ sp \in Seq(Types)
        /\ \A k \in 1..InlineSize : k <= c => in[k] = created[k]
        /\ Len(sp) = IF c > InlineSize THEN c - InlineSize ELSE 0
        /\ \A k \in 1..Len(sp) : sp[k] = createdOverflow[k]
    BY <1>1, JournalCut
  <1>a. \A k \in 1..InlineSize : k <= c => created[k] \in Types
    BY <1>1 DEF JournalOk
  <1>3. /\ created' = IF c < InlineSize THEN [in EXCEPT ![c + 1] = t] ELSE in
        /\ createdOverflow' = IF c < InlineSize THEN sp ELSE Append(sp, t)
    OBVIOUS
  <1> HIDE DEF in, sp
  <1>4. Journal' = [k \in 1..(c + 1) |-> JournalAt(k)']
    BY DEF Journal
  <1>5. Journal = [k \in 1..createdCount |-> JournalAt(k)] /\ \A k \in 1..c : k \in 1..createdCount
    BY <1>1 DEF Journal
  <1>6. CASE c < InlineSize
    <2>0. created' = [in EXCEPT ![c + 1] = t] /\ createdOverflow' = sp
      BY ONLY <1>3, <1>6
    <2>1. created' = [in EXCEPT ![c + 1] = t] /\ createdOverflow' = sp /\ c + 1 \in 1..InlineSize
      <3>1. c + 1 \in 1..InlineSize
        BY <1>1, <1>6
      <3>. QED
        BY ONLY <2>0, <3>1
    <2>2. JournalOk'
      <3>1. created' \in [1..InlineSize -> Types \cup {0}]
        BY <1>2, <2>1
      <3>2. \A k \in 1..InlineSize : k <= createdCount' => created'[k] \in Types
        BY <1>1, <1>2, <1>a, <2>1
      <3>3. Len(sp) = 0 /\ createdCount' \in Nat /\ ~(createdCount' > InlineSize)
        BY <1>1, <1>2, <1>6
      <3>. QED
        BY <1>2, <2>1, <3>1, <3>2, <3>3 DEF JournalOk
    <2>3. \A k \in 1..c : JournalAt(k)' = JournalAt(k)
      BY <1>1, <1>2, <1>6, <2>1 DEF JournalAt
    <2>4. ASSUME NEW k, k = c + 1 PROVE JournalAt(k)' = t
      BY <1>1, <1>2, <2>1, <2>4 DEF JournalAt
    <2>. QED
      BY <1>1, <1>4, <1>5, <2>2, <2>3, <2>4
  <1>7. CASE ~(c < InlineSize)
    <2>0. created' = in /\ createdOverflow' = Append(sp, t)
      BY ONLY <1>3, <1>7
    <2>1. created' = in /\ createdOverflow' = Append(sp, t) /\ Len(sp) = c - InlineSize
      BY <1>1, <1>2, <1>7, <2>0
    <2>2. /\ createdOverflow' \in Seq(Types) /\ Len(createdOverflow') = c - InlineSize + 1
          /\ createdOverflow'[c - InlineSize + 1] = t
          /\ \A k \in 1..(c - InlineSize) : createdOverflow'[k] = sp[k]
      <3>1. /\ Append(sp, t) \in Seq(Types) /\ Len(Append(sp, t)) = Len(sp) + 1
            /\ \A k \in 1..Len(sp) : Append(sp, t)[k] = sp[k]
            /\ Append(sp, t)[Len(sp) + 1] = t
        BY <1>2, AppendProperties
      <3>. QED
        BY <2>1, <3>1
    <2>3. JournalOk'
      <3>1. \A k \in 1..InlineSize : k <= createdCount' => created'[k] \in Types
        BY <1>1, <1>2, <1>a, <1>7, <2>1, SMTT(60)
      <3>. QED
        BY <1>1, <1>2, <1>7, <2>1, <2>2, <3>1 DEF JournalOk
    <2>4. ASSUME NEW k \in 1..c PROVE JournalAt(k)' = JournalAt(k)
      <3>1. CASE k <= InlineSize
        BY <1>1, <1>2, <2>1, <3>1 DEF JournalAt
      <3>2. CASE ~(k <= InlineSize)
        <4>1. k - InlineSize \in 1..(c - InlineSize)
          BY <1>1, <3>2
        <4>2. createdOverflow'[k - InlineSize] = createdOverflow[k - InlineSize]
          BY <1>2, <2>1, <2>2, <4>1
        <4>. QED
          BY <3>2, <4>2 DEF JournalAt
      <3>. QED
        BY <3>1, <3>2
    <2>5. ASSUME NEW k, k = c + 1 PROVE JournalAt(k)' = t
      <3>1. ~(k <= InlineSize) /\ k - InlineSize = c - InlineSize + 1
        BY <1>1, <1>7, <2>5
      <3>. QED
        BY <2>2, <3>1 DEF JournalAt
    <2>. QED
      BY <1>1, <1>4, <1>5, <2>3, <2>4, <2>5
  <1>. QED
    BY <1>6, <1>7

-----------------------------------------------------------------------------
(***************************************************************************)
(* Levels.  A level stays when nothing below its cut changes; it stays or  *)
(* grows by one type when the record of that type is all that changes.     *)
(***************************************************************************)

\* The first c types and their records stay as they are.
SameTypes(J, J2, nd, nd2, hp, hp2, c) ==
    /\ Len(hp) \in Nat /\ Len(hp2) \in Nat /\ Len(hp) <= Len(hp2)
    /\ \A k \in 1..c : J2[k] = J[k] /\ nd2[J[k]] = nd[J[k]] /\ hp2[nd[J[k]]] = hp[nd[J[k]]]

\* What the decoder is to finalize stays so.
FinKept(md, fin, fin2) == Decodes(md) /\ fin => fin2

\* A level stays whole when its types and records stay as they are.
LEMMA WholeKept ==
    ASSUME NEW g, NEW md, NEW J, NEW J2, NEW nd, NEW nd2, NEW hp, NEW hp2, NEW open, NEW c \in Nat,
           NEW fin, NEW fin2,
           Whole(g, md, J, nd, hp, open, c, fin), open \subseteq 1..c,
           SameTypes(J, J2, nd, nd2, hp, hp2, c), FinKept(md, fin, fin2)
    PROVE  Whole(g, md, J2, nd2, hp2, open, c, fin2)
  <1>0. /\ Len(hp) \in Nat /\ Len(hp2) \in Nat /\ Len(hp) <= Len(hp2)
        /\ \A k \in 1..c : J2[k] = J[k] /\ nd2[J[k]] = nd[J[k]] /\ hp2[nd[J[k]]] = hp[nd[J[k]]]
    BY DEF SameTypes
  <1> SUFFICES ASSUME NEW k \in 1..c
               PROVE  nd2[J2[k]] \in 1..Len(hp2) /\ RecordOk(g, md, J2, nd2, hp2, open, c, fin2, k, hp2[nd2[J2[k]]])
    BY DEF Whole
  <1> DEFINE r == hp[nd[J[k]]]
  <1>1. nd[J[k]] \in 1..Len(hp) /\ RecordOk(g, md, J, nd, hp, open, c, fin, k, r)
    BY DEF Whole
  <1>2. J2[k] = J[k] /\ nd2[J2[k]] = nd[J[k]] /\ hp2[nd2[J2[k]]] = r
    BY <1>0
  <1>3. nd2[J2[k]] \in 1..Len(hp2)
    BY <1>0, <1>1, <1>2
  <1> HIDE DEF r
  <1>4. \A m \in Refs(r) : \E l \in 1..c : nd2[J2[l]] = m
    BY <1>0, <1>1 DEF RecordOk
  <1>5. ASSUME NEW f \in Range(r.fields)
        PROVE  CopyOk(md, J2, nd2, hp2, open, fin2, f)
    <2>1. CopyOk(md, J, nd, hp, open, fin, f) /\ f.node \in Refs(r)
      BY <1>1 DEF RecordOk, Refs
    <2>2. PICK l \in 1..c : nd[J[l]] = f.node
      BY <1>1, <2>1 DEF RecordOk
    <2>3. hp2[f.node] = hp[f.node]
      BY <1>0, <2>2
    <2>4. \A o \in open : nd2[J2[o]] = nd[J[o]]
      BY <1>0
    <2>. QED
      BY <2>1, <2>3, <2>4 DEF CopyOk, FinKept
  <1>6. Provided(g, J, c, J[k]) => Provided(g, J2, c, J[k])
    BY <1>0 DEF Provided
  <1>7. RecordOk(g, md, J2, nd2, hp2, open, c, fin2, k, r)
    BY <1>1, <1>2, <1>4, <1>5, <1>6 DEF RecordOk
  <1>. QED
    BY <1>2, <1>3, <1>7

\* Of the first c2 nodes only the one at p is new, or is replaced.
Adds(J, J2, nd, nd2, hp, hp2, c, c2, p) ==
    /\ c2 = c \/ (c2 = c + 1 /\ p = c2)
    /\ \A k \in 1..c : J2[k] = J[k] /\ nd2[J[k]] = nd[J[k]] /\ (k # p => hp2[nd[J[k]]] = hp[nd[J[k]]])

\* It is new, or was in the making; the others stay in the making or out of it.
Forms(open, open2, c, c2, p) ==
    /\ c2 = c => p \in open
    /\ open2 \subseteq 1..c2 /\ \A k \in 1..c2 : k # p => (k \in open2 <=> k \in open)

\* A level grows by one type, or the record of an open one gets a part.
LEMMA WholePut ==
    ASSUME NEW g, NEW md, NEW J, NEW J2, NEW nd, NEW nd2, NEW hp, NEW hp2, NEW open, NEW open2,
           NEW c \in Nat, NEW c2 \in Nat, NEW fin, NEW fin2, NEW p \in 1..c2,
           Whole(g, md, J, nd, hp, open, c, fin), open \subseteq 1..c,
           Len(hp) \in Nat, Len(hp2) \in Nat, Len(hp) <= Len(hp2),
           Adds(J, J2, nd, nd2, hp, hp2, c, c2, p), Forms(open, open2, c, c2, p),
           \A k, l \in 1..c2 : J2[k] = J2[l] => k = l,
           Decodes(md) /\ fin => fin2,
           nd2[J2[p]] \in 1..Len(hp2),
           RecordOk(g, md, J2, nd2, hp2, open2, c2, fin2, p, hp2[nd2[J2[p]]])
    PROVE  Whole(g, md, J2, nd2, hp2, open2, c2, fin2)
  <1> USE DEF Adds, Forms
  <1> DEFINE n == nd2[J2[p]]
  <1>0. c <= c2 /\ 1..c \subseteq 1..c2 /\ \A k \in 1..c2 : k # p => k \in 1..c
    OBVIOUS
  <1>1. SUFFICES ASSUME NEW k \in 1..c, k # p
                 PROVE  nd2[J2[k]] \in 1..Len(hp2) /\ RecordOk(g, md, J2, nd2, hp2, open2, c2, fin2, k, hp2[nd2[J2[k]]])
    BY <1>0 DEF Whole
  <1> DEFINE r == hp[nd[J[k]]]
  <1>2. nd[J[k]] \in 1..Len(hp) /\ RecordOk(g, md, J, nd, hp, open, c, fin, k, r)
    BY DEF Whole
  <1>3. J2[k] = J[k] /\ nd2[J2[k]] = nd[J[k]] /\ hp2[nd2[J2[k]]] = r
    BY <1>1
  <1>4. nd2[J2[k]] \in 1..Len(hp2)
    BY <1>2, <1>3
  <1> HIDE DEF r
  <1>5. \A m \in Refs(r) : \E l \in 1..c2 : nd2[J2[l]] = m
    <2> SUFFICES ASSUME NEW m \in Refs(r) PROVE \E l \in 1..c2 : nd2[J2[l]] = m
      OBVIOUS
    <2>1. PICK l \in 1..c : nd[J[l]] = m
      BY <1>2 DEF RecordOk
    <2>2. l \in 1..c2 /\ nd2[J2[l]] = m
      BY <2>1, <1>0
    <2>. QED
      BY <2>2
  <1>6. ASSUME NEW l \in 1..c, nd[J[l]] = n
        PROVE  l = p /\ p \in open
    <2>1. CASE l # p
      <3>1. hp2[n] = hp[n] /\ hp[n].type = J[l]
        BY <1>6, <2>1 DEF Whole, RecordOk
      <3>2. hp2[n].type = J2[p]
        BY DEF RecordOk
      <3>3. J2[l] = J2[p] /\ l \in 1..c2
        BY <1>0, <3>1, <3>2
      <3>. QED
        BY <2>1, <3>3
    <2>2. CASE l = p
      BY <2>2
    <2>. QED
      BY <2>1, <2>2
  <1>7. ASSUME NEW f \in Range(r.fields)
        PROVE  CopyOk(md, J2, nd2, hp2, open2, fin2, f)
    <2>1. CopyOk(md, J, nd, hp, open, fin, f) /\ f.node \in Refs(r)
      BY <1>2 DEF RecordOk, Refs
    <2>2. PICK l \in 1..c : nd[J[l]] = f.node
      BY <1>2, <2>1 DEF RecordOk
    <2>3. CASE IF Decodes(md) THEN fin ELSE f.op = "invalid"
      BY <2>3 DEF CopyOk
    <2>4. CASE f.op = hp[f.node].op /\ \A o \in open : nd[J[o]] # f.node
      <3>1. f.node # n
        BY <1>6, <2>2, <2>4
      <3>2. l # p
        <4>1. CASE c2 = c
          BY <4>1, <2>2, <2>4
        <4>2. CASE c2 = c + 1 /\ p = c2
          BY <4>2
        <4>. QED
          BY <4>1, <4>2
      <3>3. hp2[f.node] = hp[f.node]
        BY <2>2, <3>2
      <3>4. ASSUME NEW o \in open2
            PROVE  nd2[J2[o]] # f.node
        <4>1. CASE o = p
          BY <4>1, <3>1
        <4>2. CASE o # p
          <5>1. o \in open /\ o \in 1..c
            BY <4>2
          <5>. QED
            BY <5>1, <2>4
        <4>. QED
          BY <4>1, <4>2
      <3>. QED
        BY <2>4, <3>3, <3>4 DEF CopyOk
    <2>. QED
      BY <2>1, <2>3, <2>4 DEF CopyOk
  <1>8. Provided(g, J, c, J[k]) => Provided(g, J2, c2, J[k])
    <2>1. ASSUME NEW x, \E l \in 1..c : J[l] = x
          PROVE  \E l \in 1..c2 : J2[l] = x
      BY <1>0, <2>1
    <2>. QED
      BY <2>1 DEF Provided
  <1>9. k \in 1..c2 /\ (k \in open2 <=> k \in open)
    BY <1>0, <1>1
  <1>10. RecordOk(g, md, J2, nd2, hp2, open2, c2, fin2, k, r)
    BY <1>2, <1>3, <1>5, <1>7, <1>8, <1>9 DEF RecordOk
  <1>. QED
    BY <1>3, <1>4, <1>10

\* What a level's nodes refer to stays in the level.
LEMMA ReachedKept ==
    ASSUME NEW J, NEW J2, NEW nd, NEW nd2, NEW hp, NEW hp2, NEW wait, NEW wait2, NEW c \in Nat,
           Reached(J, nd, hp, wait, c), wait \cap (2..c) \subseteq wait2,
           \A k \in 1..c : J2[k] = J[k] /\ nd2[J[k]] = nd[J[k]] /\ Refs(hp[nd[J[k]]]) \subseteq Refs(hp2[nd[J[k]]])
    PROVE  Reached(J2, nd2, hp2, wait2, c)
  <1> SUFFICES ASSUME NEW k \in 2..c, k \notin wait2
               PROVE  \E l \in 1..(k - 1) : nd2[J2[k]] \in Refs(hp2[nd2[J2[l]]])
    BY DEF Reached
  <1>1. k \notin wait /\ k \in 1..c
    OBVIOUS
  <1>2. PICK l \in 1..(k - 1) : nd[J[k]] \in Refs(hp[nd[J[l]]])
    BY <1>1 DEF Reached
  <1>3. l \in 1..c
    OBVIOUS
  <1>. QED
    BY <1>1, <1>2, <1>3

\* It stays there when one record is new or is replaced.
LEMMA ReachedGrows ==
    ASSUME NEW J, NEW nd, NEW hp, NEW wait, NEW c \in Nat, Reached(J, nd, hp, wait, c), c + 1 \in wait
    PROVE  Reached(J, nd, hp, wait, c + 1)
  BY DEF Reached

\* The first c nodes and the first s slots are the same.
Alike(J, J2, nd, nd2, hp, hp2, types, types2, c, s) ==
    /\ \A k \in 1..c : J2[k] = J[k] /\ nd2[J[k]] = nd[J[k]] /\ hp2[nd[J[k]]] = hp[nd[J[k]]]
    /\ \A m \in 1..s : types2[m] = types[m]

\* The scratch slots of a level keep their owners.
LEMMA OwnedKept ==
    ASSUME NEW J, NEW J2, NEW nd, NEW nd2, NEW hp, NEW hp2, NEW types, NEW types2,
           NEW c \in Nat, NEW s \in Nat, NEW b \in Nat, NEW hm \in BOOLEAN,
           Owned(J, nd, hp, types, c, s, b, hm),
           Alike(J, J2, nd, nd2, hp, hp2, types, types2, c, s),
           \A k \in 1..c : nd[J[k]] \in 1..Len(hp), hp \in Seq(NodeRecords),
           Len(types2) \in Nat, s <= Len(types2)
    PROVE  Owned(J2, nd2, hp2, types2, c, s, b, hm)
  <1> DEFINE R(k) == hp[nd[J[k]]]
             R2(k) == hp2[nd2[J2[k]]]
  <1>0. \A m \in 1..s : types2[m] = types[m]
    BY DEF Alike
  <1>1. \A k \in 1..c : R2(k) = R(k) /\ R(k) \in NodeRecords
    BY ElementOfSeq DEF Alike
  <1>2. \A k \in 1..c : /\ Keyed(R(k)) => /\ R(k).encMapKey < s /\ types[R(k).encMapKey + 1] = <<"key", J[k]>>
                                         /\ R(k).encBacking \in 0..(b - 1)
                        /\ R(k).encScratch >= 0 => R(k).encScratch < s /\ types[R(k).encScratch + 1] = <<"value", J[k]>>
    BY DEF Owned
  <1>3. /\ \A m \in 0..(s - 1) : \E k \in 1..c : R(k).encMapKey = m \/ R(k).encScratch = m
        /\ \A m \in 0..(b - 1) : \E k \in 1..c : Keyed(R(k)) /\ R(k).encBacking = m
        /\ \A k, l \in 1..c : Keyed(R(k)) /\ Keyed(R(l)) /\ R(k).encBacking = R(l).encBacking => k = l
        /\ hm <=> \E k \in 1..c : Keyed(R(k))
    BY DEF Owned
  <1>4. \A k \in 1..c : J2[k] = J[k]
    BY DEF Alike
  <1> HIDE DEF R, R2
  <1>5. ASSUME NEW k \in 1..c
        PROVE  /\ Keyed(R2(k)) => /\ R2(k).encMapKey < s /\ types2[R2(k).encMapKey + 1] = <<"key", J2[k]>>
                                  /\ R2(k).encBacking \in 0..(b - 1)
               /\ R2(k).encScratch >= 0 => R2(k).encScratch < s /\ types2[R2(k).encScratch + 1] = <<"value", J2[k]>>
    <2>1. R(k).encMapKey \in Nat \cup {-1} /\ R(k).encScratch \in Nat \cup {-1}
      BY <1>1 DEF NodeRecords, Slots
    <2>2. Keyed(R(k)) => R(k).encMapKey + 1 \in 1..s
      BY <1>2, <2>1, SMTT(20) DEF Keyed
    <2>3. R(k).encScratch >= 0 => R(k).encScratch + 1 \in 1..s
      BY <1>2, <2>1
    <2>4. Keyed(R(k)) => types2[R(k).encMapKey + 1] = types[R(k).encMapKey + 1]
      BY <1>0, <2>2
    <2>5. R(k).encScratch >= 0 => types2[R(k).encScratch + 1] = types[R(k).encScratch + 1]
      BY <1>0, <2>3
    <2>6. R2(k) = R(k) /\ J2[k] = J[k]
      BY <1>1, <1>4
    <2>7. Keyed(R(k)) => R(k).encMapKey < s /\ types2[R(k).encMapKey + 1] = <<"key", J[k]>> /\ R(k).encBacking \in 0..(b - 1)
      BY <1>2, <2>4, Zenon
    <2>8. R(k).encScratch >= 0 => R(k).encScratch < s /\ types2[R(k).encScratch + 1] = <<"value", J[k]>>
      BY <1>2, <2>5, Zenon
    <2>. QED
      BY ONLY <2>6, <2>7, <2>8
  <1>6. /\ \A m \in 0..(s - 1) : \E k \in 1..c : R2(k).encMapKey = m \/ R2(k).encScratch = m
        /\ \A m \in 0..(b - 1) : \E k \in 1..c : Keyed(R2(k)) /\ R2(k).encBacking = m
        /\ \A k, l \in 1..c : Keyed(R2(k)) /\ Keyed(R2(l)) /\ R2(k).encBacking = R2(l).encBacking => k = l
        /\ hm <=> \E k \in 1..c : Keyed(R2(k))
    <2>1. \A k \in 1..c : R2(k) = R(k)
      BY <1>1
    <2>2. \A m \in 0..(s - 1) : \E k \in 1..c : R2(k).encMapKey = m \/ R2(k).encScratch = m
      BY ONLY <1>3, <2>1, Zenon
    <2>3. \A m \in 0..(b - 1) : \E k \in 1..c : Keyed(R2(k)) /\ R2(k).encBacking = m
      BY ONLY <1>3, <2>1, ZenonT(30)
    <2>4. \A k, l \in 1..c : Keyed(R2(k)) /\ Keyed(R2(l)) /\ R2(k).encBacking = R2(l).encBacking => k = l
      BY <1>3, <2>1
    <2>5. hm <=> \E k \in 1..c : Keyed(R2(k))
      BY ONLY <1>3, <2>1, ZenonT(40)
    <2>. QED
      BY <2>2, <2>3, <2>4, <2>5
  <1>. QED
    BY <1>5, <1>6 DEF Owned, R2

\* The record r of type t, which replaces q if p <= c, may take the next key slot
\* with the next backing, or the next box; what q had it keeps.
Takes(p, c, q, r, t, types, types2, s, s2, b, b2, hm, hm2) ==
    /\ p <= c /\ Keyed(q) => r.encMapKey = q.encMapKey /\ r.encBacking = q.encBacking
    /\ p <= c /\ q.encScratch >= 0 => r.encScratch = q.encScratch
    /\ Keyed(r) => \/ p <= c /\ Keyed(q)
                   \/ r.encMapKey = s /\ s2 = s + 1 /\ types2[s + 1] = <<"key", t>> /\ r.encBacking = b /\ b2 = b + 1
    /\ r.encScratch >= 0 => \/ p <= c /\ q.encScratch >= 0
                            \/ r.encScratch = s /\ s2 = s + 1 /\ types2[s + 1] = <<"value", t>>
    /\ s2 = s \/ (s2 = s + 1 /\ (r.encMapKey = s \/ r.encScratch = s))
    /\ b2 = b \/ (b2 = b + 1 /\ Keyed(r) /\ r.encBacking = b)
    /\ hm2 <=> (hm \/ Keyed(r))
    /\ \A m \in 1..s : types2[m] = types[m]

\* Both, for the record r at p.
Puts(J, J2, nd, nd2, hp, hp2, types, types2, c, c2, s, s2, b, b2, hm, hm2, p, r) ==
    /\ Adds(J, J2, nd, nd2, hp, hp2, c, c2, p) /\ hp2[nd2[J2[p]]] = r
    /\ Takes(p, c, hp[nd[J[p]]], r, J2[p], types, types2, s, s2, b, b2, hm, hm2)

\* A slot that is reserved for the record that changes has no other owner.
LEMMA OwnedPut ==
    ASSUME NEW J, NEW J2, NEW nd, NEW nd2, NEW hp \in Seq(NodeRecords), NEW hp2 \in Seq(NodeRecords),
           NEW types, NEW types2, NEW c \in Nat, NEW c2 \in Nat, NEW s \in Nat, NEW s2 \in Nat,
           NEW b \in Nat, NEW b2 \in Nat, NEW hm \in BOOLEAN, NEW hm2 \in BOOLEAN, NEW p \in 1..c2, NEW r \in NodeRecords,
           Owned(J, nd, hp, types, c, s, b, hm),
           \A k \in 1..c : nd[J[k]] \in 1..Len(hp),
           Puts(J, J2, nd, nd2, hp, hp2, types, types2, c, c2, s, s2, b, b2, hm, hm2, p, r),
           Len(types2) \in Nat, s2 <= Len(types2)
    PROVE  Owned(J2, nd2, hp2, types2, c2, s2, b2, hm2)
  <1> USE DEF Puts, Adds, Takes
  <1> DEFINE R(k) == hp[nd[J[k]]]
             R2(k) == hp2[nd2[J2[k]]]
  <1>n. /\ s \in Nat /\ s2 \in Nat /\ b \in Nat /\ b2 \in Nat /\ c \in Nat /\ c2 \in Nat
    OBVIOUS
  <1>0. /\ c <= c2 /\ 1..c \subseteq 1..c2 /\ \A k \in 1..c2 : k # p => k \in 1..c
        /\ p <= c => p \in 1..c
        /\ s <= s2 /\ b <= b2
    OBVIOUS
  <1>1. /\ \A k \in 1..c : R(k) \in NodeRecords /\ J2[k] = J[k] /\ (k # p => R2(k) = R(k))
        /\ R2(p) = r
    BY ElementOfSeq, SMTT(20)
  <1>2. \A k \in 1..c : /\ Keyed(R(k)) => /\ R(k).encMapKey < s /\ types[R(k).encMapKey + 1] = <<"key", J[k]>>
                                         /\ R(k).encBacking \in 0..(b - 1)
                        /\ R(k).encScratch >= 0 => R(k).encScratch < s /\ types[R(k).encScratch + 1] = <<"value", J[k]>>
    BY DEF Owned
  <1>3. /\ \A m \in 0..(s - 1) : \E k \in 1..c : R(k).encMapKey = m \/ R(k).encScratch = m
        /\ \A m \in 0..(b - 1) : \E k \in 1..c : Keyed(R(k)) /\ R(k).encBacking = m
        /\ \A k, l \in 1..c : Keyed(R(k)) /\ Keyed(R(l)) /\ R(k).encBacking = R(l).encBacking => k = l
        /\ hm <=> \E k \in 1..c : Keyed(R(k))
    BY DEF Owned
  <1>4. p <= c => /\ Keyed(R(p)) => r.encMapKey = R(p).encMapKey /\ r.encBacking = R(p).encBacking
                  /\ R(p).encScratch >= 0 => r.encScratch = R(p).encScratch
    OBVIOUS
  <1>5. Keyed(r) => \/ p <= c /\ Keyed(R(p))
                    \/ r.encMapKey = s /\ s2 = s + 1 /\ types2[s + 1] = <<"key", J2[p]>> /\ r.encBacking = b /\ b2 = b + 1
    OBVIOUS
  <1>6. r.encScratch >= 0 => \/ p <= c /\ R(p).encScratch >= 0
                             \/ r.encScratch = s /\ s2 = s + 1 /\ types2[s + 1] = <<"value", J2[p]>>
    OBVIOUS
  <1>7. \A k \in 1..c : R(k).encMapKey \in Nat \cup {-1} /\ R(k).encScratch \in Nat \cup {-1}
    BY <1>1 DEF NodeRecords, Slots
  <1>8. r.encMapKey \in Nat \cup {-1} /\ r.encScratch \in Nat \cup {-1}
    BY DEF NodeRecords, Slots
  <1> HIDE DEF R, R2
  <1>9. ASSUME NEW k \in 1..c
        PROVE  /\ Keyed(R(k)) => types2[R(k).encMapKey + 1] = <<"key", J2[k]>>
               /\ R(k).encScratch >= 0 => types2[R(k).encScratch + 1] = <<"value", J2[k]>>
    <2>0. R(k).encMapKey \in Nat \cup {-1} /\ R(k).encScratch \in Nat \cup {-1}
      BY <1>7
    <2>1. Keyed(R(k)) => R(k).encMapKey + 1 \in 1..s
      <3>1. Keyed(R(k)) => R(k).encMapKey < s
        BY <1>2
      <3>. QED
        BY ONLY <1>n, <2>0, <3>1 DEF Keyed
    <2>2. R(k).encScratch >= 0 => R(k).encScratch + 1 \in 1..s
      <3>1. R(k).encScratch >= 0 => R(k).encScratch < s
        BY <1>2
      <3>. QED
        BY ONLY <1>n, <2>0, <3>1
    <2>3. J2[k] = J[k]
      BY <1>1
    <2>4. Keyed(R(k)) => types[R(k).encMapKey + 1] = <<"key", J2[k]>>
      BY <1>2, <2>3
    <2>5. R(k).encScratch >= 0 => types[R(k).encScratch + 1] = <<"value", J2[k]>>
      BY <1>2, <2>3
    <2>. QED
      BY <2>1, <2>2, <2>4, <2>5
  <1>10. ASSUME NEW k \in 1..c2
         PROVE  /\ Keyed(R2(k)) => /\ R2(k).encMapKey < s2 /\ types2[R2(k).encMapKey + 1] = <<"key", J2[k]>>
                                   /\ R2(k).encBacking \in 0..(b2 - 1)
                /\ R2(k).encScratch >= 0 => R2(k).encScratch < s2 /\ types2[R2(k).encScratch + 1] = <<"value", J2[k]>>
    <2>1. CASE k # p
      <3>1. k \in 1..c /\ R2(k) = R(k)
        BY <1>0, <1>1, <2>1
      <3>a. /\ R(k).encMapKey \in Nat \cup {-1} /\ R(k).encScratch \in Nat \cup {-1}
            /\ Keyed(R(k)) => R(k).encMapKey < s /\ R(k).encBacking \in 0..(b - 1)
        BY <1>2, <1>7, <3>1
      <3>b. R(k).encScratch >= 0 => R(k).encScratch < s
        BY <1>2, <3>1
      <3>2. Keyed(R(k)) => R(k).encMapKey < s2 /\ R(k).encBacking \in 0..(b2 - 1)
        BY ONLY <1>n, <1>0, <3>a DEF Keyed
      <3>3. R(k).encScratch >= 0 => R(k).encScratch < s2
        BY <1>0, <3>a, <3>b
      <3>. QED
        BY <1>9, <3>1, <3>2, <3>3
    <2>2. CASE k = p
      <3>1. CASE p <= c
        <4>1. p \in 1..c
          BY <1>0, <3>1
        <4>d. Keyed(R(p)) => /\ R(p).encMapKey < s /\ types2[R(p).encMapKey + 1] = <<"key", J2[p]>>
                             /\ R(p).encBacking \in 0..(b - 1)
          BY <1>2, <1>9, <4>1
        <4>e. Keyed(R(p)) => r.encMapKey = R(p).encMapKey /\ r.encBacking = R(p).encBacking
          BY <1>4, <3>1
        <4>f. R(p).encMapKey \in Nat \cup {-1}
          BY <1>7, <4>1
        <4>2. Keyed(R(p)) => r.encMapKey < s2 /\ types2[r.encMapKey + 1] = <<"key", J2[p]>> /\ r.encBacking \in 0..(b2 - 1)
          <5>1. \A x \in Nat \cup {-1} : x < s => x < s2
            BY ONLY <1>n, <1>0
          <5>2. \A x \in 0..(b - 1) : x \in 0..(b2 - 1)
            BY ONLY <1>n, <1>0
          <5>. QED
            BY ONLY <4>d, <4>e, <4>f, <5>1, <5>2
        <4>a. R(p).encScratch >= 0 => R(p).encScratch < s /\ types2[R(p).encScratch + 1] = <<"value", J2[p]>>
          <5>1. R(p).encScratch >= 0 => R(p).encScratch < s
            BY <1>2, <4>1
          <5>. QED
            BY <5>1, <1>9, <4>1
        <4>b. R(p).encScratch >= 0 => r.encScratch = R(p).encScratch
          BY <1>4, <3>1
        <4>c. R(p).encScratch \in Nat \cup {-1}
          BY <1>7, <4>1
        <4>3. R(p).encScratch >= 0 => r.encScratch < s2 /\ types2[r.encScratch + 1] = <<"value", J2[p]>>
          BY ONLY <1>n, <1>0, <4>a, <4>b, <4>c
        <4>4. r.encMapKey = s /\ s2 = s + 1 /\ r.encBacking = b /\ b2 = b + 1 => r.encMapKey < s2 /\ r.encBacking \in 0..(b2 - 1)
          OBVIOUS
        <4>5. r.encScratch = s /\ s2 = s + 1 => r.encScratch < s2
          OBVIOUS
        <4>. QED
          BY <1>1, <1>5, <1>6, <2>2, <4>2, <4>3, <4>4, <4>5
      <3>2. CASE ~(p <= c)
        BY <1>1, <1>5, <1>6, <2>2, <3>2, SMTT(30)
      <3>. QED
        BY <3>1, <3>2
    <2>. QED
      BY <2>1, <2>2
  <1>11. ASSUME NEW m \in 0..(s2 - 1)
         PROVE  \E k \in 1..c2 : R2(k).encMapKey = m \/ R2(k).encScratch = m
    <2>1. CASE m = s
      <3>1. r.encMapKey = m \/ r.encScratch = m
        BY <2>1
      <3>. QED
        BY <1>1, <3>1
    <2>2. CASE m # s
      <3>1. m \in 0..(s - 1)
        BY <2>2
      <3>2. PICK k \in 1..c : R(k).encMapKey = m \/ R(k).encScratch = m
        BY <1>3, <3>1
      <3>3. CASE k = p
        <4>1. p <= c
          BY <3>3
        <4>2. r.encMapKey = m \/ r.encScratch = m
          BY <1>4, <3>1, <3>2, <3>3, <4>1, SMTT(30) DEF Keyed
        <4>. QED
          BY <1>1, <4>2
      <3>4. CASE k # p
        BY <1>0, <1>1, <3>2, <3>4
      <3>. QED
        BY <3>3, <3>4
    <2>. QED
      BY <2>1, <2>2
  <1>12. ASSUME NEW m \in 0..(b2 - 1)
         PROVE  \E k \in 1..c2 : Keyed(R2(k)) /\ R2(k).encBacking = m
    <2>1. CASE m = b
      <3>1. Keyed(r) /\ r.encBacking = m
        BY <2>1
      <3>. QED
        BY <1>1, <3>1
    <2>2. CASE m # b
      <3>1. m \in 0..(b - 1)
        BY <2>2
      <3>2. PICK k \in 1..c : Keyed(R(k)) /\ R(k).encBacking = m
        BY <1>3, <3>1
      <3>3. CASE k = p
        <4>1. p <= c
          BY <3>3
        <4>2. Keyed(r) /\ r.encBacking = m
          BY <1>4, <3>2, <3>3, <4>1 DEF Keyed
        <4>. QED
          BY <1>1, <4>2
      <3>4. CASE k # p
        BY <1>0, <1>1, <3>2, <3>4
      <3>. QED
        BY <3>3, <3>4
    <2>. QED
      BY <2>1, <2>2
  <1>13. ASSUME NEW k \in 1..c2, k # p, Keyed(R2(k)), Keyed(R2(p)), R2(k).encBacking = R2(p).encBacking
         PROVE  FALSE
    <2>1. k \in 1..c /\ R2(k) = R(k) /\ R2(p) = r
      BY <1>0, <1>1, <1>13
    <2>2. R(k).encBacking \in 0..(b - 1) /\ R(k).encBacking # b
      BY <1>2, <1>13, <2>1
    <2>3. p <= c /\ Keyed(R(p)) /\ r.encBacking = R(p).encBacking
      BY <1>4, <1>5, <1>13, <2>1, <2>2
    <2>. QED
      BY <1>0, <1>3, <1>13, <2>1, <2>3
  <1>14. \A k, l \in 1..c2 : Keyed(R2(k)) /\ Keyed(R2(l)) /\ R2(k).encBacking = R2(l).encBacking => k = l
    BY <1>0, <1>1, <1>3, <1>13, SMTT(20)
  <1>15. hm2 <=> \E k \in 1..c2 : Keyed(R2(k))
    <2>1. hm2 => \E k \in 1..c2 : Keyed(R2(k))
      <3>1. CASE Keyed(r)
        BY <1>1, <3>1
      <3>2. CASE hm /\ ~Keyed(r)
        <4>1. PICK k \in 1..c : Keyed(R(k))
          BY <1>3, <3>2
        <4>2. k # p
          <5>1. ASSUME k = p PROVE FALSE
            <6>1. r.encMapKey = R(p).encMapKey
              BY <1>4, <4>1, <5>1
            <6>. QED
              BY <3>2, <4>1, <5>1, <6>1 DEF Keyed
          <5>. QED
            BY <5>1
        <4>. QED
          BY <1>0, <1>1, <4>1, <4>2
      <3>. QED
        BY <3>1, <3>2
    <2>2. ASSUME NEW k \in 1..c2, Keyed(R2(k))
          PROVE  hm2
      BY <1>0, <1>1, <1>3, <2>2, SMTT(20)
    <2>. QED
      BY <2>1, <2>2
  <1>. QED
    BY <1>10, <1>11, <1>12, <1>14, <1>15 DEF Owned, R2

-----------------------------------------------------------------------------
(***************************************************************************)
(* What a level says of the plan that is published from it.                *)
(***************************************************************************)

\* A set of numbers that is not empty has a least member.
LEMMA LeastPosition ==
    ASSUME NEW T, T \subseteq Nat, T # {}
    PROVE  \E x \in T : \A y \in T : x <= y
  <1> DEFINE R == OpToRel(<, Nat)
  <1>1. IsWellFoundedOn(R, Nat)
    BY NatLessThanWellFounded
  <1> HIDE DEF R
  <1>2. PICK x \in T : \A y \in T : ~ (<<y, x>> \in R)
    BY <1>1, WFMin
  <1>3. ASSUME NEW y \in T, y < x
        PROVE  FALSE
    <2>1. <<y, x>> \in R
      BY <1>3 DEF R, OpToRel
    <2>. QED
      BY <1>2, <2>1
  <1>. QED
    BY <1>3

\* Two sets that a function pairs off are of one size.
LEMMA OneToOne ==
    ASSUME NEW S, IsFiniteSet(S), NEW T, NEW f \in [S -> T],
           \A x, y \in S : f[x] = f[y] => x = y, \A z \in T : \E x \in S : f[x] = z
    PROVE  IsFiniteSet(T) /\ Cardinality(T) = Cardinality(S)
  <1>1. f \in Bijection(S, T)
    BY DEF Bijection, Injection, Surjection, IsInjective
  <1>2. ExistsBijection(S, T)
    BY <1>1 DEF ExistsBijection
  <1>. QED
    BY <1>2, FS_Bijection

Closed(hp, n) == { S \in SUBSET (1..Len(hp)) : n \in S /\ \A m \in S : Refs(hp[m]) \subseteq S }
PlanOf(hp, n) == { k \in 1..Len(hp) : \A S \in Closed(hp, n) : k \in S }

\* The nodes of the first c types; they refer to each other only.
Entries(J, nd, c) == { nd[J[k]] : k \in 1..c }
Spanned(J, nd, hp, c) ==
    \A k \in 1..c : nd[J[k]] \in 1..Len(hp) /\ \A m \in Refs(hp[nd[J[k]]]) : \E l \in 1..c : nd[J[l]] = m

\* The plan of the first type is the nodes of all.
LEMMA PlanIs ==
    ASSUME NEW J, NEW nd, NEW hp, NEW c \in Nat, c > 0,
           Spanned(J, nd, hp, c), Reached(J, nd, hp, {}, c)
    PROVE  PlanOf(hp, nd[J[1]]) = Entries(J, nd, c)
  <1> USE DEF Spanned, Entries
  <1> DEFINE N == { nd[J[k]] : k \in 1..c }
  <1>1. N \in Closed(hp, nd[J[1]])
    <2>1. N \subseteq 1..Len(hp) /\ nd[J[1]] \in N
      OBVIOUS
    <2>2. ASSUME NEW m \in N, NEW x \in Refs(hp[m])
          PROVE  x \in N
      OBVIOUS
    <2> HIDE DEF N
    <2>. QED
      BY <2>1, <2>2 DEF Closed
  <1>2. PlanOf(hp, nd[J[1]]) \subseteq N
    BY <1>1 DEF PlanOf
  <1>3. ASSUME NEW S \in Closed(hp, nd[J[1]]), NEW k \in 1..c, nd[J[k]] \notin S
        PROVE  FALSE
    <2> DEFINE missing == { l \in 1..c : nd[J[l]] \notin S }
    <2>1. missing \subseteq Nat /\ missing # {}
      BY <1>3
    <2>2. PICK l \in missing : \A y \in missing : l <= y
      BY <2>1, LeastPosition
    <2>3. l # 1
      BY <2>2 DEF Closed
    <2>4. l \in 2..c
      BY <2>2, <2>3
    <2>5. PICK q \in 1..(l - 1) : nd[J[l]] \in Refs(hp[nd[J[q]]])
      BY <2>4 DEF Reached
    <2>6. q \in 1..c /\ ~(l <= q)
      BY <2>4, <2>5
    <2>7. nd[J[q]] \in S
      BY <2>2, <2>6
    <2>8. nd[J[l]] \in S
      BY <2>5, <2>7 DEF Closed
    <2>. QED
      BY <2>2, <2>8
  <1>4. N \subseteq PlanOf(hp, nd[J[1]])
    <2> SUFFICES ASSUME NEW k \in 1..c PROVE nd[J[k]] \in PlanOf(hp, nd[J[1]])
      OBVIOUS
    <2>. QED
      BY <1>3 DEF PlanOf
  <1>. QED
    BY <1>2, <1>4

\* Slots, boxes and backings of the nodes in plan, each with its type.
SlotsFit(J, nd, hp, types, c, b, hm, plan) ==
    LET keys == { n \in plan : hp[n].encMapKey >= 0 }
        boxes == { n \in plan : hp[n].encScratch >= 0 }
    IN  /\ \A n \in keys : \E k \in 1..c : n = nd[J[k]] /\ types[hp[n].encMapKey + 1] = <<"key", J[k]>>
        /\ \A n \in boxes : \E k \in 1..c : n = nd[J[k]] /\ types[hp[n].encScratch + 1] = <<"value", J[k]>>
        /\ Cardinality(keys) + Cardinality(boxes) = Len(types)
        /\ { hp[n].encBacking : n \in keys } = 0..(b - 1)
        /\ Cardinality(keys) = b /\ hm = (keys # {})

\* They fit a plan that owns them.
LEMMA SlotsAre ==
    ASSUME NEW J, NEW nd, NEW hp \in Seq(NodeRecords), NEW types, NEW c \in Nat, NEW b \in Nat, NEW hm \in BOOLEAN,
           Len(types) \in Nat, Owned(J, nd, hp, types, c, Len(types), b, hm),
           \A k \in 1..c : nd[J[k]] \in 1..Len(hp), NEW plan, plan = Entries(J, nd, c)
    PROVE  SlotsFit(J, nd, hp, types, c, b, hm, plan)
  <1> USE DEF Entries
  <1> DEFINE s == Len(types)
             keys == { n \in plan : hp[n].encMapKey >= 0 }
             boxes == { n \in plan : hp[n].encScratch >= 0 }
             kf == [n \in keys |-> hp[n].encMapKey]
             xf == [n \in boxes |-> hp[n].encScratch]
             bf == [n \in keys |-> hp[n].encBacking]
             KS == { hp[n].encMapKey : n \in keys }
             XS == { hp[n].encScratch : n \in boxes }
  <1>1. \A n \in plan : n \in 1..Len(hp) /\ hp[n] \in NodeRecords
    BY ElementOfSeq
  <1>2. IsFiniteSet(plan)
    <2>1. Len(hp) \in Int /\ 1 \in Int
      BY LenProperties
    <2>2. IsFiniteSet(1..Len(hp))
      BY <2>1, FS_Interval
    <2>3. plan \in SUBSET (1..Len(hp))
      BY <1>1
    <2>. QED
      BY <2>2, <2>3, FS_Subset
  <1>3. IsFiniteSet(keys) /\ IsFiniteSet(boxes)
    BY <1>2, FS_Subset
  <1>4. \A n \in keys : \E k \in 1..c :
           /\ n = nd[J[k]] /\ Keyed(hp[nd[J[k]]]) /\ hp[n].encMapKey < s
           /\ types[hp[n].encMapKey + 1] = <<"key", J[k]>> /\ hp[n].encBacking \in 0..(b - 1)
    <2> SUFFICES ASSUME NEW n \in keys
                 PROVE  \E k \in 1..c :
                           /\ n = nd[J[k]] /\ Keyed(hp[nd[J[k]]]) /\ hp[n].encMapKey < s
                           /\ types[hp[n].encMapKey + 1] = <<"key", J[k]>> /\ hp[n].encBacking \in 0..(b - 1)
      OBVIOUS
    <2>1. PICK k \in 1..c : n = nd[J[k]]
      OBVIOUS
    <2>2. Keyed(hp[nd[J[k]]])
      BY <2>1 DEF Keyed
    <2>3. /\ hp[nd[J[k]]].encMapKey < s /\ types[hp[nd[J[k]]].encMapKey + 1] = <<"key", J[k]>>
          /\ hp[nd[J[k]]].encBacking \in 0..(b - 1)
      BY <2>2 DEF Owned
    <2>. QED
      BY <2>1, <2>2, <2>3
  <1>5. \A n \in boxes : \E k \in 1..c :
           n = nd[J[k]] /\ hp[n].encScratch < s /\ types[hp[n].encScratch + 1] = <<"value", J[k]>>
    <2> SUFFICES ASSUME NEW n \in boxes
                 PROVE  \E k \in 1..c :
                           n = nd[J[k]] /\ hp[n].encScratch < s /\ types[hp[n].encScratch + 1] = <<"value", J[k]>>
      OBVIOUS
    <2>1. PICK k \in 1..c : n = nd[J[k]]
      OBVIOUS
    <2>2. hp[nd[J[k]]].encScratch >= 0
      BY <2>1
    <2>3. hp[nd[J[k]]].encScratch < s /\ types[hp[nd[J[k]]].encScratch + 1] = <<"value", J[k]>>
      BY <2>2 DEF Owned
    <2>. QED
      BY <2>1, <2>3
  <1>6. \A k \in 1..c : /\ Keyed(hp[nd[J[k]]]) => nd[J[k]] \in keys
                        /\ hp[nd[J[k]]].encScratch >= 0 => nd[J[k]] \in boxes
    BY DEF Keyed
  <1>7. /\ \A m \in 0..(s - 1) : \E k \in 1..c : hp[nd[J[k]]].encMapKey = m \/ hp[nd[J[k]]].encScratch = m
        /\ \A m \in 0..(b - 1) : \E k \in 1..c : Keyed(hp[nd[J[k]]]) /\ hp[nd[J[k]]].encBacking = m
        /\ \A k, l \in 1..c : Keyed(hp[nd[J[k]]]) /\ Keyed(hp[nd[J[l]]]) /\ hp[nd[J[k]]].encBacking = hp[nd[J[l]]].encBacking => k = l
        /\ hm <=> \E k \in 1..c : Keyed(hp[nd[J[k]]])
    BY DEF Owned
  <1>8. /\ \A n \in keys : n \in plan /\ hp[n].encMapKey \in Nat
        /\ \A n \in boxes : n \in plan /\ hp[n].encScratch \in Nat
    <2>1. \A n \in plan : hp[n].encMapKey \in Nat \cup {-1} /\ hp[n].encScratch \in Nat \cup {-1}
      BY <1>1 DEF NodeRecords, Slots
    <2>. QED
      BY <2>1
  <1>9. s \in Nat
    OBVIOUS
  <1> HIDE DEF keys, boxes, s
  <1>10. Cardinality(KS) = Cardinality(keys) /\ IsFiniteSet(KS)
    <2>1. kf \in [keys -> KS]
      OBVIOUS
    <2>2. ASSUME NEW x \in keys, NEW y \in keys, kf[x] = kf[y]
          PROVE  x = y
      <3>1. hp[x].encMapKey = hp[y].encMapKey
        BY <2>2
      <3>2. PICK k \in 1..c : x = nd[J[k]] /\ types[hp[x].encMapKey + 1] = <<"key", J[k]>>
        BY <1>4
      <3>3. PICK l \in 1..c : y = nd[J[l]] /\ types[hp[y].encMapKey + 1] = <<"key", J[l]>>
        BY <1>4
      <3>4. J[k] = J[l]
        BY <3>1, <3>2, <3>3, SMTT(60)
      <3>. QED
        BY <3>2, <3>3, <3>4
    <2>3. \A z \in KS : \E x \in keys : kf[x] = z
      OBVIOUS
    <2> HIDE DEF kf, KS
    <2>. QED
      BY <1>3, <2>1, <2>2, <2>3, OneToOne
  <1>11. Cardinality(XS) = Cardinality(boxes) /\ IsFiniteSet(XS)
    <2>1. xf \in [boxes -> XS]
      OBVIOUS
    <2>2. ASSUME NEW x \in boxes, NEW y \in boxes, xf[x] = xf[y]
          PROVE  x = y
      <3>1. hp[x].encScratch = hp[y].encScratch
        BY <2>2
      <3>2. PICK k \in 1..c : x = nd[J[k]] /\ types[hp[x].encScratch + 1] = <<"value", J[k]>>
        BY <1>5
      <3>3. PICK l \in 1..c : y = nd[J[l]] /\ types[hp[y].encScratch + 1] = <<"value", J[l]>>
        BY <1>5
      <3>4. J[k] = J[l]
        BY <3>1, <3>2, <3>3, SMTT(60)
      <3>. QED
        BY <3>2, <3>3, <3>4
    <2>3. \A z \in XS : \E x \in boxes : xf[x] = z
      OBVIOUS
    <2> HIDE DEF xf, XS
    <2>. QED
      BY <1>3, <2>1, <2>2, <2>3, OneToOne
  <1>12. KS \cap XS = {}
    <2>1. ASSUME NEW x \in keys, NEW y \in boxes, hp[x].encMapKey = hp[y].encScratch
          PROVE  FALSE
      <3>1. PICK k \in 1..c : types[hp[x].encMapKey + 1] = <<"key", J[k]>>
        BY <1>4
      <3>2. PICK l \in 1..c : types[hp[y].encScratch + 1] = <<"value", J[l]>>
        BY <1>5
      <3>. QED
        BY <2>1, <3>1, <3>2
    <2>. QED
      BY <2>1
  <1>13. KS \cup XS = 0..(s - 1)
    <2>1. ASSUME NEW x \in keys PROVE hp[x].encMapKey \in 0..(s - 1)
      <3>1. hp[x].encMapKey < s /\ hp[x].encMapKey \in Nat
        BY <1>4, <1>8
      <3>. QED
        BY <1>9, <3>1
    <2>2. ASSUME NEW x \in boxes PROVE hp[x].encScratch \in 0..(s - 1)
      <3>1. hp[x].encScratch < s /\ hp[x].encScratch \in Nat
        BY <1>5, <1>8
      <3>. QED
        BY <1>9, <3>1
    <2>3. ASSUME NEW m \in 0..(s - 1) PROVE m \in KS \cup XS
      <3>1. PICK k \in 1..c : hp[nd[J[k]]].encMapKey = m \/ hp[nd[J[k]]].encScratch = m
        BY <1>7
      <3>2. m >= 0
        OBVIOUS
      <3>3. CASE hp[nd[J[k]]].encMapKey = m
        BY <1>6, <3>2, <3>3 DEF Keyed
      <3>4. CASE hp[nd[J[k]]].encScratch = m
        BY <1>6, <3>2, <3>4
      <3>. QED
        BY <3>1, <3>3, <3>4
    <2>. QED
      BY <2>1, <2>2, <2>3
  <1>14. Cardinality(keys) + Cardinality(boxes) = s
    <2> HIDE DEF KS, XS
    <2>1. Cardinality(KS \cup XS) = Cardinality(KS) + Cardinality(XS) - Cardinality(KS \cap XS)
      BY <1>10, <1>11, FS_Union
    <2>2. Cardinality(KS \cap XS) = 0
      BY <1>12, FS_EmptySet
    <2>3. 0 \in Int /\ s - 1 \in Int
      BY <1>9
    <2>4. Cardinality(0..(s - 1)) = IF 0 > s - 1 THEN 0 ELSE s - 1 - 0 + 1
      BY <2>3, FS_Interval
    <2>5. Cardinality(KS) \in Nat /\ Cardinality(XS) \in Nat
      BY <1>10, <1>11, FS_CardinalityType
    <2>6. Cardinality(KS \cup XS) = s
      <3>1. Cardinality(KS \cup XS) = Cardinality(0..(s - 1))
        BY <1>13
      <3>. QED
        BY ONLY <1>9, <2>4, <3>1
    <2>7. Cardinality(KS) + Cardinality(XS) = s
      BY ONLY <2>1, <2>2, <2>5, <2>6
    <2>. QED
      BY ONLY <1>10, <1>11, <2>7
  <1>15. { hp[n].encBacking : n \in keys } = 0..(b - 1)
    <2>1. \A n \in keys : hp[n].encBacking \in 0..(b - 1)
      BY <1>4
    <2>2. ASSUME NEW m \in 0..(b - 1) PROVE \E n \in keys : hp[n].encBacking = m
      BY <1>6, <1>7
    <2>. QED
      BY <2>1, <2>2
  <1>16. Cardinality(keys) = b
    <2>1. bf \in [keys -> 0..(b - 1)]
      BY <1>4
    <2>2. ASSUME NEW x \in keys, NEW y \in keys, bf[x] = bf[y]
          PROVE  x = y
      <3>1. hp[x].encBacking = hp[y].encBacking
        BY <2>2
      <3>2. PICK k \in 1..c : x = nd[J[k]] /\ Keyed(hp[nd[J[k]]])
        BY <1>4
      <3>3. PICK l \in 1..c : y = nd[J[l]] /\ Keyed(hp[nd[J[l]]])
        BY <1>4
      <3>4. k = l
        BY <1>7, <3>1, <3>2, <3>3
      <3>. QED
        BY <3>2, <3>3, <3>4
    <2>3. \A z \in 0..(b - 1) : \E x \in keys : bf[x] = z
      <3> SUFFICES ASSUME NEW z \in 0..(b - 1) PROVE \E x \in keys : bf[x] = z
        OBVIOUS
      <3>. QED
        BY <1>6, <1>7
    <2> HIDE DEF bf
    <2>4. Cardinality(0..(b - 1)) = Cardinality(keys)
      BY <1>3, <2>1, <2>2, <2>3, OneToOne
    <2>5. 0 \in Int /\ b - 1 \in Int
      OBVIOUS
    <2>6. Cardinality(0..(b - 1)) = IF 0 > b - 1 THEN 0 ELSE b - 1 - 0 + 1
      BY <2>5, FS_Interval
    <2>. QED
      BY <2>4, <2>6
  <1>17. hm = (keys # {})
    BY <1>4, <1>6, <1>7
  <1>18. /\ \A n \in keys : \E k \in 1..c : n = nd[J[k]] /\ types[hp[n].encMapKey + 1] = <<"key", J[k]>>
         /\ \A n \in boxes : \E k \in 1..c : n = nd[J[k]] /\ types[hp[n].encScratch + 1] = <<"value", J[k]>>
    BY <1>4, <1>5
  <1>. QED
    BY ONLY <1>14, <1>15, <1>16, <1>17, <1>18 DEF keys, boxes, s, SlotsFit

-----------------------------------------------------------------------------
(***************************************************************************)
(* The state.                                                              *)
(***************************************************************************)

\* Types and their parts are what CompilerAssumption says of the graph.
LEMMA GraphIs ==
    ASSUME CompilerAssumption, CompilerTypeOK, NEW t \in Types
    PROVE  /\ graph[t].kind \in Kinds /\ graph[t].parts \in Seq(Types)
           /\ graph[t].inline \in BOOLEAN /\ graph[t].hook \in BOOLEAN
           /\ graph[t].kind # "struct" => Len(graph[t].parts) <= 1 /\ ~graph[t].inline
           /\ Settled(graph, mode, t) = Op(t) /\ Op(t) \in Ops
           /\ Decodes(mode) = compilesDecode
  <1>1. graph \in [Types -> [kind : Kinds, parts : Seq(Types), inline : BOOLEAN, hook : BOOLEAN]]
    BY DEF CompilerAssumption, CompilerTypeOK
  <1>2. graph[t].kind # "struct" => Len(graph[t].parts) <= 1 /\ ~graph[t].inline
    BY DEF CompilerAssumption, CompilerTypeOK
  <1>3. graph[t].kind \in Kinds
    BY <1>1
  <1>4. Settled(graph, mode, t) = Op(t) /\ Op(t) \in Ops /\ Decodes(mode) = compilesDecode
    BY <1>3 DEF Settled, Op, Replaces, Ops, Decodes, compilesDecode
  <1>. QED
    BY <1>1, <1>2, <1>4

\* The innermost call, its type and the node it works on.
LEMMA FrameIs ==
    ASSUME CompilerAssumption, CompilerTypeOK, StackOk, stack # <<>>
    PROVE  /\ Len(stack) \in Nat \ {0} /\ Frame = stack[Len(stack)] /\ Frame \in FrameRecords
           /\ Frame.node \in 1..Len(heap) /\ heap[Frame.node] \in NodeRecords
           /\ Type = TypeAt(Len(stack)) /\ Type = heap[Frame.node].type /\ Type \in Types
           /\ FrameOk(Len(stack))
           /\ Frame.created \in Nat /\ Frame.next \in Nat /\ Frame.scratch \in Nat /\ Frame.backing \in Nat
           /\ Frame.hadMap \in BOOLEAN
  <1>1. Len(stack) \in Nat \ {0} /\ stack \in Seq(FrameRecords) /\ heap \in Seq(NodeRecords)
    BY EmptySeq DEF CompilerTypeOK
  <1>2. Frame = stack[Len(stack)] /\ Frame \in FrameRecords
    BY <1>1, ElementOfSeq DEF Frame, Last
  <1>3. FrameOk(Len(stack))
    BY <1>1 DEF StackOk
  <1>4. Frame.node \in 1..Len(heap)
    BY <1>2, <1>3 DEF FrameOk
  <1>5. heap[Frame.node] \in NodeRecords
    BY <1>1, <1>4, ElementOfSeq
  <1>6. Type = heap[Frame.node].type /\ Type = TypeAt(Len(stack))
    BY <1>2 DEF Type, TypeAt
  <1>7. Type \in Types
    BY <1>5, <1>6 DEF NodeRecords
  <1>8. /\ Frame.created \in Nat /\ Frame.next \in Nat /\ Frame.scratch \in Nat /\ Frame.backing \in Nat
        /\ Frame.hadMap \in BOOLEAN
    BY <1>2 DEF FrameRecords
  <1>. QED
    BY <1>1, <1>2, <1>3, <1>4, <1>5, <1>6, <1>7, <1>8

\* Cuts are numbers, and rise from level to level up to the present.
LEMMA CutsAre ==
    ASSUME CompilerAssumption, CompilerTypeOK, StackOk, NEW i \in 1..(Len(stack) + 1)
    PROVE  /\ Cut(i) \in 0..createdCount /\ ScratchCut(i) \in 0..Len(encScratchTypes) /\ BackingCut(i) \in Nat
           /\ MapCut(i) \in BOOLEAN
           /\ \A j \in 1..(i - 1) : stack[j].created \in Nat /\ stack[j].created < Cut(i)
           /\ Open(i) \subseteq 1..Cut(i)
  <1>1. /\ stack \in Seq(FrameRecords) /\ Len(stack) \in Nat /\ createdCount \in Nat
        /\ encScratchTypes \in Seq(ScratchTypes) /\ Len(encScratchTypes) \in Nat /\ encBackingSlots \in Nat
        /\ encHasMap \in BOOLEAN
    BY LenProperties DEF CompilerTypeOK, JournalOk
  <1>2. \A j \in 1..Len(stack) :
           /\ stack[j].created \in Nat /\ stack[j].scratch \in Nat /\ stack[j].backing \in Nat /\ stack[j].hadMap \in BOOLEAN
           /\ stack[j].created < createdCount /\ stack[j].scratch <= Len(encScratchTypes)
    <2> SUFFICES ASSUME NEW j \in 1..Len(stack)
                 PROVE  /\ stack[j].created \in Nat /\ stack[j].scratch \in Nat /\ stack[j].backing \in Nat
                        /\ stack[j].hadMap \in BOOLEAN
                        /\ stack[j].created < createdCount /\ stack[j].scratch <= Len(encScratchTypes)
      OBVIOUS
    <2>1. stack[j] \in FrameRecords
      BY <1>1, ElementOfSeq
    <2>2. FrameOk(j)
      BY DEF StackOk
    <2>. QED
      BY <2>1, <2>2 DEF FrameRecords, FrameOk
  <1>3. /\ Cut(i) \in 0..createdCount /\ ScratchCut(i) \in 0..Len(encScratchTypes) /\ BackingCut(i) \in Nat
        /\ MapCut(i) \in BOOLEAN
    BY <1>1, <1>2 DEF Cut, ScratchCut, BackingCut, MapCut
  <1>4. \A j \in 1..(i - 1) : stack[j].created \in Nat /\ stack[j].created < Cut(i)
    <2> SUFFICES ASSUME NEW j \in 1..(i - 1) PROVE stack[j].created \in Nat /\ stack[j].created < Cut(i)
      OBVIOUS
    <2>1. j \in 1..Len(stack) /\ j < i
      BY <1>1
    <2>2. i \in 1..Len(stack) => stack[j].created < stack[i].created
      BY <2>1 DEF StackOk
    <2>. QED
      BY <1>1, <1>2, <2>1, <2>2 DEF Cut
  <1>5. Open(i) \subseteq 1..Cut(i)
    <2> SUFFICES ASSUME NEW j \in 1..(i - 1) PROVE stack[j].created + 1 \in 1..Cut(i)
      BY DEF Open
    <2>. QED
      BY <1>3, <1>4, SMTT(30)
  <1>. QED
    BY <1>3, <1>4, <1>5

\* Below the cut of a level nothing has changed, so the level stays.
LEMMA LevelStays ==
    ASSUME CompilerAssumption, CompilerTypeOK, CompilerTypeOK', StackOk, graph' = graph, mode' = mode,
           NEW i \in 1..(Len(stack) + 1), Level(i),
           Cut(i)' = Cut(i), ScratchCut(i)' = ScratchCut(i), BackingCut(i)' = BackingCut(i), MapCut(i)' = MapCut(i),
           Open(i)' = Open(i), Wait(i) \subseteq Wait(i)',
           Len(heap) <= Len(heap'), ScratchCut(i) <= Len(encScratchTypes'),
           \A k \in 1..Cut(i) : /\ Journal'[k] = Journal[k] /\ nodes'[Journal[k]] = nodes[Journal[k]]
                                /\ heap'[nodes[Journal[k]]] = heap[nodes[Journal[k]]],
           \A m \in 1..ScratchCut(i) : encScratchTypes'[m] = encScratchTypes[m],
           decodeNeedsFinalize => decodeNeedsFinalize'
    PROVE  Level(i)'
  <1>1. /\ Cut(i) \in Nat /\ ScratchCut(i) \in Nat /\ BackingCut(i) \in Nat /\ MapCut(i) \in BOOLEAN
        /\ Open(i) \subseteq 1..Cut(i)
    BY CutsAre
  <1>2. /\ Len(heap) \in Nat /\ Len(heap') \in Nat /\ Len(encScratchTypes') \in Nat /\ heap \in Seq(NodeRecords)
    BY LenProperties DEF CompilerTypeOK
  <1>3. Whole(graph, mode, Journal', nodes', heap', Open(i), Cut(i), decodeNeedsFinalize')
    <2>1. Whole(graph, mode, Journal, nodes, heap, Open(i), Cut(i), decodeNeedsFinalize)
      BY DEF Level
    <2>2. PICK O, c : O = Open(i) /\ c = Cut(i)
      OBVIOUS
    <2>3. /\ Whole(graph, mode, Journal, nodes, heap, O, c, decodeNeedsFinalize) /\ c \in Nat /\ O \subseteq 1..c
          /\ Len(heap) \in Nat /\ Len(heap') \in Nat /\ Len(heap) <= Len(heap')
          /\ decodeNeedsFinalize => decodeNeedsFinalize'
      BY <1>1, <1>2, <2>1, <2>2
    <2>4. \A k \in 1..c : Journal'[k] = Journal[k] /\ nodes'[Journal[k]] = nodes[Journal[k]]
                          /\ heap'[nodes[Journal[k]]] = heap[nodes[Journal[k]]]
      BY <2>2
    <2>5. SameTypes(Journal, Journal', nodes, nodes', heap, heap', c)
      BY <2>3, <2>4 DEF SameTypes
    <2>6. FinKept(mode, decodeNeedsFinalize, decodeNeedsFinalize')
      BY <2>3 DEF FinKept
    <2>7. Whole(graph, mode, Journal', nodes', heap', O, c, decodeNeedsFinalize')
      BY ONLY <2>3, <2>5, <2>6, WholeKept
    <2>. QED
      BY <2>2, <2>7
  <1>4. Reached(Journal', nodes', heap', Wait(i)', Cut(i))
    <2>1. Reached(Journal, nodes, heap, Wait(i), Cut(i))
      BY DEF Level
    <2>2. Wait(i) \cap (2..Cut(i)) \subseteq Wait(i)'
      OBVIOUS
    <2>. QED
      BY <1>1, <2>1, <2>2, ReachedKept
  <1>6. /\ \A k \in 1..Cut(i) : /\ Journal'[k] = Journal[k] /\ nodes'[Journal[k]] = nodes[Journal[k]]
                                /\ heap'[nodes[Journal[k]]] = heap[nodes[Journal[k]]]
        /\ ScratchCut(i) <= Len(encScratchTypes') /\ \A m \in 1..ScratchCut(i) : encScratchTypes'[m] = encScratchTypes[m]
    OBVIOUS
  <1>5. ASSUME mode = "encode"
        PROVE  Owned(Journal', nodes', heap', encScratchTypes', Cut(i), ScratchCut(i), BackingCut(i), MapCut(i))
    <2>1. Owned(Journal, nodes, heap, encScratchTypes, Cut(i), ScratchCut(i), BackingCut(i), MapCut(i))
      BY <1>5 DEF Level
    <2>2. \A k \in 1..Cut(i) : nodes[Journal[k]] \in 1..Len(heap)
      BY DEF Level, Whole
    <2>3. Alike(Journal, Journal', nodes, nodes', heap, heap', encScratchTypes, encScratchTypes', Cut(i), ScratchCut(i))
      BY <1>6 DEF Alike
    <2>. QED
      BY ONLY <1>1, <1>2, <1>6, <2>1, <2>2, <2>3, OwnedKept
  <1>. QED
    BY <1>3, <1>4, <1>5 DEF Level

\* A call further out is as it was.
LEMMA FrameStays ==
    ASSUME CompilerAssumption, CompilerTypeOK, StackOk, graph' = graph,
           NEW i \in 1..Len(stack), FrameOk(i), stack'[i] = stack[i],
           Len(heap) \in Nat, Len(heap') \in Nat, Len(heap) <= Len(heap'), heap'[stack[i].node] = heap[stack[i].node],
           stack[i].created < createdCount', Journal'[stack[i].created + 1] = Journal[stack[i].created + 1],
           i < Len(stack') \/ step' # "err" => nodes'[TypeAt(i)] = stack[i].node,
           stack[i].scratch <= Len(encScratchTypes'),
           i < Len(stack') => stack[i].next <= Len(graph[TypeAt(i)].parts) /\ graph[TypeAt(i)].parts[stack[i].next] = TypeAt(i + 1)',
           \A k \in 1..Cut(i + 1) : k \in 1..Cut(i + 1)' /\ Journal'[k] = Journal[k]
    PROVE  FrameOk(i)' /\ TypeAt(i)' = TypeAt(i)
  <1> DEFINE f == stack[i]
             t == TypeAt(i)
             parts == graph[t].parts
  <1>1. TypeAt(i)' = TypeAt(i)
    BY DEF TypeAt
  <1>2. /\ f.created < createdCount /\ Journal[f.created + 1] = t
        /\ f.node \in 1..Len(heap)
        /\ \A q \in 1..(f.next - 1) : q <= Len(parts) /\ \E k \in 1..Cut(i + 1) : Journal[k] = parts[q]
        /\ f.next >= 1 /\ (f.next <= Len(parts) => heap[f.node].elem = 0 /\ (graph[t].inline => heap[f.node].encMapKey = -1))
    BY DEF FrameOk
  <1>3. f.node \in 1..Len(heap')
    BY <1>2
  <1>4. ASSUME NEW q \in 1..(f.next - 1)
        PROVE  q <= Len(parts) /\ \E k \in 1..Cut(i + 1)' : Journal'[k] = parts[q]
    BY <1>2
  <1>5. /\ heap'[f.node] = heap[f.node] /\ f.created < createdCount' /\ Journal'[f.created + 1] = t
        /\ (i < Len(stack') \/ step' # "err" => nodes'[t] = f.node) /\ f.scratch <= Len(encScratchTypes')
        /\ (i < Len(stack') => f.next <= Len(parts) /\ parts[f.next] = TypeAt(i + 1)')
    BY <1>2
  <1>6. f = stack'[i] /\ t = TypeAt(i)' /\ parts = graph'[TypeAt(i)'].parts /\ graph'[TypeAt(i)'].inline = graph[t].inline
    BY <1>1
  <1>7. \A q \in 1..(f.next - 1) : q <= Len(parts) /\ \E k \in 1..Cut(i + 1)' : Journal'[k] = parts[q]
    BY <1>4
  <1>8. f.next >= 1 /\ (f.next <= Len(parts) => heap'[f.node].elem = 0 /\ (graph[t].inline => heap'[f.node].encMapKey = -1))
    BY <1>2, <1>5
  <1> HIDE DEF f, t, parts
  <1>9. FrameOk(i)'
    BY <1>3, <1>5, <1>6, <1>7, <1>8 DEF FrameOk
  <1>. QED
    BY <1>1, <1>9

\* Positions, types and nodes of a level are none of the innermost call's.
LEMMA BelowFrame ==
    ASSUME CompilerAssumption, CompilerTypeOK, TableOk, StackOk, LevelsOk, stack # <<>>,
           NEW i \in 1..Len(stack), NEW k \in 1..Cut(i)
    PROVE  /\ k \in 1..createdCount /\ k <= Frame.created /\ Journal[k] \in Types /\ Journal[k] # Type
           /\ nodes[Journal[k]] \in 1..Len(heap) /\ nodes[Journal[k]] # Frame.node
           /\ heap[nodes[Journal[k]]].type = Journal[k]
  <1>1. /\ Len(stack) \in Nat \ {0} /\ Frame = stack[Len(stack)] /\ FrameOk(Len(stack)) /\ Type = TypeAt(Len(stack))
        /\ Type = heap[Frame.node].type /\ Frame.created \in Nat
    BY FrameIs
  <1>2. Frame.created < createdCount /\ Journal[Frame.created + 1] = Type
    BY <1>1 DEF FrameOk
  <1>3. createdCount \in Nat /\ JournalOk
    BY DEF CompilerTypeOK, JournalOk
  <1>4. Cut(i) <= Frame.created /\ Cut(i) \in Nat
    <2>1. Cut(i) \in 0..createdCount /\ Cut(i) = stack[i].created
      <3>1. i \in 1..(Len(stack) + 1)
        BY <1>1
      <3>. QED
        BY <1>1, <3>1, CutsAre DEF Cut
    <2>2. i # Len(stack) => stack[i].created < stack[Len(stack)].created
      BY <1>1 DEF StackOk
    <2>. QED
      BY <1>1, <2>1, <2>2
  <1>5. k \in 1..createdCount /\ k <= Frame.created /\ Frame.created + 1 \in 1..createdCount /\ k # Frame.created + 1
    BY <1>1, <1>2, <1>3, <1>4
  <1>6. Journal[k] \in Types
    BY <1>3, <1>5, JournalIs
  <1>7. Journal[k] # Type
    BY <1>2, <1>5 DEF TableOk
  <1>8. nodes[Journal[k]] \in 1..Len(heap) /\ heap[nodes[Journal[k]]].type = Journal[k]
    BY DEF LevelsOk, Level, Whole, RecordOk
  <1>9. nodes[Journal[k]] # Frame.node
    BY <1>1, <1>7, <1>8
  <1>. QED
    BY <1>5, <1>6, <1>7, <1>8, <1>9

\* Likewise the node of a call further out.
LEMMA OuterFrame ==
    ASSUME CompilerAssumption, CompilerTypeOK, TableOk, StackOk, stack # <<>>, NEW i \in 1..(Len(stack) - 1)
    PROVE  /\ stack[i].created \in Nat /\ stack[i].created < Frame.created /\ stack[i].node # Frame.node
           /\ TypeAt(i) # Type /\ TypeAt(i) \in Types /\ stack[i].node \in 1..Len(heap) /\ nodes[TypeAt(i)] = stack[i].node
           /\ FrameOk(i) /\ stack[i].scratch \in Nat /\ stack[i].scratch <= Frame.scratch
           /\ Journal[stack[i].created + 1] = TypeAt(i)
  <1>1. /\ Len(stack) \in Nat \ {0} /\ Frame = stack[Len(stack)] /\ FrameOk(Len(stack)) /\ Type = TypeAt(Len(stack))
        /\ Type = heap[Frame.node].type /\ Frame.created \in Nat
    BY FrameIs
  <1>2. Frame.created < createdCount /\ Journal[Frame.created + 1] = Type
    BY <1>1 DEF FrameOk
  <1>3. createdCount \in Nat /\ stack \in Seq(FrameRecords) /\ heap \in Seq(NodeRecords)
    BY DEF CompilerTypeOK, JournalOk
  <1>4. i \in 1..Len(stack) /\ i < Len(stack)
    BY <1>1
  <1>5. stack[i] \in FrameRecords /\ FrameOk(i) /\ stack[i].created < Frame.created /\ stack[i].scratch <= Frame.scratch
    BY <1>1, <1>3, <1>4, ElementOfSeq DEF StackOk
  <1>6. stack[i].created \in Nat /\ stack[i].scratch \in Nat
    BY <1>5 DEF FrameRecords
  <1>7. stack[i].node \in 1..Len(heap) /\ Journal[stack[i].created + 1] = TypeAt(i) /\ nodes[TypeAt(i)] = stack[i].node
    BY <1>4, <1>5 DEF FrameOk
  <1>8. stack[i].created + 1 \in 1..createdCount /\ Frame.created + 1 \in 1..createdCount /\ stack[i].created + 1 # Frame.created + 1
    <2>1. /\ stack[i].created \in Nat /\ Frame.created \in Nat /\ createdCount \in Nat
          /\ stack[i].created < Frame.created /\ Frame.created < createdCount
      BY ONLY <1>1, <1>2, <1>3, <1>5, <1>6
    <2>2. \A x, y, z \in Nat : x < y /\ y < z => x + 1 \in 1..z /\ y + 1 \in 1..z /\ x + 1 # y + 1
      OBVIOUS
    <2>. QED
      BY ONLY <2>1, <2>2
  <1>9. TypeAt(i) # Type
    BY <1>2, <1>7, <1>8 DEF TableOk
  <1>10. stack[i].node # Frame.node
    BY <1>1, <1>9 DEF TypeAt
  <1>11. TypeAt(i) \in Types
    <2>1. heap[stack[i].node] \in NodeRecords
      BY <1>3, <1>7, ElementOfSeq
    <2>. QED
      BY <2>1 DEF NodeRecords, TypeAt
  <1>. QED
    BY <1>5, <1>6, <1>7, <1>9, <1>10, <1>11

\* No outcome is claimed before one is reached.
LEMMA NotYet ==
    ASSUME step' \notin {"published", "failed"}
    PROVE  VerdictRight' /\ PlanSound'
  BY DEF VerdictRight, PlanSound, PlanWhole, SlotsOwned

-----------------------------------------------------------------------------
(***************************************************************************)
(* What every step leaves alone, and the one record it writes.             *)
(***************************************************************************)

\* Nothing below the innermost call is written, and no other node than its own.
OuterKept ==
    /\ graph' = graph /\ mode' = mode
    /\ Len(heap) <= Len(heap') /\ \A x \in 1..Len(heap) : x # Frame.node => heap'[x] = heap[x]
    /\ Frame.created <= createdCount' /\ Frame.scratch <= Len(encScratchTypes')
    /\ \A k \in 1..Frame.created : Journal'[k] = Journal[k] /\ nodes'[Journal[k]] = nodes[Journal[k]]
    /\ \A m \in 1..Frame.scratch : encScratchTypes'[m] = encScratchTypes[m]
    /\ decodeNeedsFinalize => decodeNeedsFinalize'

\* So the levels stay of the calls that go on.
LEMMA LevelsStay ==
    ASSUME CompilerAssumption, CompilerTypeOK, CompilerTypeOK', TableOk, StackOk, LevelsOk, stack # <<>>, OuterKept,
           NEW n \in 0..Len(stack), n <= Len(stack'),
           \A i \in 1..n : /\ stack'[i].created = stack[i].created /\ stack'[i].scratch = stack[i].scratch
                           /\ stack'[i].backing = stack[i].backing /\ stack'[i].hadMap = stack[i].hadMap
    PROVE  \A i \in 1..n : Level(i)'
  <1> SUFFICES ASSUME NEW i \in 1..n PROVE Level(i)'
    OBVIOUS
  <1>1. /\ Len(stack) \in Nat /\ Len(stack') \in Nat /\ i \in 1..Len(stack) /\ i \in 1..(Len(stack) + 1)
        /\ i <= Len(stack')
    BY LenProperties DEF CompilerTypeOK
  <1>2. /\ Cut(i) = stack[i].created /\ ScratchCut(i) = stack[i].scratch
        /\ BackingCut(i) = stack[i].backing /\ MapCut(i) = stack[i].hadMap /\ Wait(i) = Open(i)
    BY <1>1 DEF Cut, ScratchCut, BackingCut, MapCut, Wait
  <1>3. /\ Cut(i)' = stack[i].created /\ ScratchCut(i)' = stack[i].scratch
        /\ BackingCut(i)' = stack[i].backing /\ MapCut(i)' = stack[i].hadMap /\ Wait(i)' = Open(i)'
    BY <1>1 DEF Cut, ScratchCut, BackingCut, MapCut, Wait
  <1>4. Open(i)' = Open(i)
    <2>1. \A j \in 1..(i - 1) : stack'[j].created = stack[j].created
      BY <1>1
    <2>. QED
      BY <2>1 DEF Open
  <1>5. Frame = stack[Len(stack)] /\ Frame.created \in Nat /\ Frame.scratch \in Nat /\ FrameOk(Len(stack))
    BY FrameIs
  <1>6. stack[i].scratch \in Nat /\ stack[i].scratch <= Frame.scratch
    <2>1. i # Len(stack) => stack[i].scratch <= Frame.scratch
      BY <1>1, <1>5 DEF StackOk
    <2>2. ScratchCut(i) \in Nat
      BY <1>1, CutsAre
    <2>. QED
      BY <1>2, <1>5, <2>1, <2>2
  <1>7. Level(i)
    BY <1>1 DEF LevelsOk
  <1>8. \A k \in 1..Cut(i) : /\ Journal'[k] = Journal[k] /\ nodes'[Journal[k]] = nodes[Journal[k]]
                             /\ heap'[nodes[Journal[k]]] = heap[nodes[Journal[k]]]
    <2> SUFFICES ASSUME NEW k \in 1..Cut(i)
                 PROVE  /\ Journal'[k] = Journal[k] /\ nodes'[Journal[k]] = nodes[Journal[k]]
                        /\ heap'[nodes[Journal[k]]] = heap[nodes[Journal[k]]]
      OBVIOUS
    <2>1. /\ k \in 1..createdCount /\ k <= Frame.created
          /\ nodes[Journal[k]] \in 1..Len(heap) /\ nodes[Journal[k]] # Frame.node
      BY <1>1, BelowFrame
    <2>2. k \in 1..Frame.created
      BY <1>5, <2>1
    <2>. QED
      BY <2>1, <2>2 DEF OuterKept
  <1>9. \A m \in 1..ScratchCut(i) : encScratchTypes'[m] = encScratchTypes[m]
    <2>1. \A m \in 1..ScratchCut(i) : m \in 1..Frame.scratch
      BY <1>2, <1>5, <1>6
    <2>. QED
      BY <2>1 DEF OuterKept
  <1>10. ScratchCut(i) <= Len(encScratchTypes')
    <2>1. Frame.scratch <= Len(encScratchTypes') /\ Len(encScratchTypes') \in Nat
      BY LenProperties DEF OuterKept, CompilerTypeOK
    <2>. QED
      BY <1>2, <1>5, <1>6, <2>1
  <1>11. /\ Cut(i)' = Cut(i) /\ ScratchCut(i)' = ScratchCut(i) /\ BackingCut(i)' = BackingCut(i) /\ MapCut(i)' = MapCut(i)
         /\ Wait(i) \subseteq Wait(i)'
    BY <1>2, <1>3, <1>4
  <1>12. graph' = graph /\ mode' = mode /\ Len(heap) <= Len(heap') /\ (decodeNeedsFinalize => decodeNeedsFinalize')
    BY DEF OuterKept
  <1>. QED
    BY <1>1, <1>4, <1>7, <1>8, <1>9, <1>10, <1>11, <1>12, LevelStays

\* And so do the calls around the innermost one.
LEMMA OuterStays ==
    ASSUME CompilerAssumption, CompilerTypeOK, CompilerTypeOK', TableOk, StackOk, stack # <<>>, OuterKept,
           Len(stack) - 1 <= Len(stack'), \A i \in 1..(Len(stack) - 1) : stack'[i] = stack[i],
           Len(stack) <= Len(stack') => /\ stack'[Len(stack)].node = Frame.node /\ stack'[Len(stack)].created = Frame.created
                                        /\ heap'[Frame.node].type = Type
    PROVE  \A i \in 1..(Len(stack) - 1) : FrameOk(i)' /\ TypeAt(i)' = TypeAt(i)
  <1> SUFFICES ASSUME NEW i \in 1..(Len(stack) - 1) PROVE FrameOk(i)' /\ TypeAt(i)' = TypeAt(i)
    OBVIOUS
  <1>1. /\ Len(stack) \in Nat \ {0} /\ Frame = stack[Len(stack)] /\ Type = TypeAt(Len(stack)) /\ Frame.created \in Nat
        /\ Frame.scratch \in Nat /\ Frame.node \in 1..Len(heap)
    BY FrameIs
  <1>2. /\ i \in 1..Len(stack) /\ i < Len(stack) /\ Len(stack') \in Nat /\ Len(heap) \in Nat /\ Len(heap') \in Nat
        /\ createdCount' \in Nat /\ Len(encScratchTypes') \in Nat
    <2>1. stack' \in Seq(FrameRecords) /\ heap \in Seq(NodeRecords) /\ heap' \in Seq(NodeRecords)
          /\ encScratchTypes' \in Seq(ScratchTypes) /\ createdCount' \in Nat
      BY DEF CompilerTypeOK, JournalOk
    <2>. QED
      BY <1>1, <2>1, LenProperties
  <1>3. \A j \in 1..(Len(stack) - 1) :
           /\ stack[j].created \in Nat /\ stack[j].created < Frame.created /\ stack[j].node # Frame.node
           /\ TypeAt(j) # Type /\ TypeAt(j) \in Types /\ stack[j].node \in 1..Len(heap) /\ nodes[TypeAt(j)] = stack[j].node
           /\ FrameOk(j) /\ stack[j].scratch \in Nat /\ stack[j].scratch <= Frame.scratch
           /\ Journal[stack[j].created + 1] = TypeAt(j)
    BY OuterFrame
  <1>4. \A j \in 1..(Len(stack) - 1) : stack'[j] = stack[j] /\ heap'[stack[j].node] = heap[stack[j].node] /\ TypeAt(j)' = TypeAt(j)
    <2>1. \A j \in 1..(Len(stack) - 1) : stack'[j] = stack[j] /\ heap'[stack[j].node] = heap[stack[j].node]
      BY <1>3 DEF OuterKept
    <2>. QED
      BY <2>1 DEF TypeAt
  <1>5. stack[i].created < createdCount' /\ stack[i].created + 1 \in 1..Frame.created /\ stack[i].scratch <= Len(encScratchTypes')
    <2>1. Frame.created <= createdCount' /\ Frame.scratch <= Len(encScratchTypes')
      BY DEF OuterKept
    <2>2. stack[i].created \in Nat /\ stack[i].created < Frame.created /\ stack[i].scratch \in Nat /\ stack[i].scratch <= Frame.scratch
      BY <1>3
    <2>3. \A x, y, z \in Nat : x < y /\ y <= z => x < z /\ x + 1 \in 1..y
      OBVIOUS
    <2>4. \A x, y, z \in Nat : x <= y /\ y <= z => x <= z
      OBVIOUS
    <2>5. stack[i].created < createdCount' /\ stack[i].created + 1 \in 1..Frame.created
      BY ONLY <1>1, <1>2, <2>1, <2>2, <2>3
    <2>6. stack[i].scratch <= Len(encScratchTypes')
      BY ONLY <1>1, <1>2, <2>1, <2>2, <2>4
    <2>. QED
      BY <2>5, <2>6
  <1>6. Journal'[stack[i].created + 1] = Journal[stack[i].created + 1] /\ nodes'[TypeAt(i)] = stack[i].node
    <2>1. Journal'[stack[i].created + 1] = Journal[stack[i].created + 1]
          /\ nodes'[Journal[stack[i].created + 1]] = nodes[Journal[stack[i].created + 1]]
      BY <1>5 DEF OuterKept
    <2>. QED
      BY <1>3, <2>1
  <1>7. i < Len(stack') => stack[i].next <= Len(graph[TypeAt(i)].parts) /\ graph[TypeAt(i)].parts[stack[i].next] = TypeAt(i + 1)'
    <2> SUFFICES ASSUME i < Len(stack')
                 PROVE  stack[i].next <= Len(graph[TypeAt(i)].parts) /\ graph[TypeAt(i)].parts[stack[i].next] = TypeAt(i + 1)'
      OBVIOUS
    <2>1. stack[i].next <= Len(graph[TypeAt(i)].parts) /\ graph[TypeAt(i)].parts[stack[i].next] = TypeAt(i + 1)
      BY <1>2, <1>3 DEF FrameOk
    <2>2. TypeAt(i + 1)' = TypeAt(i + 1)
      <3>1. CASE i + 1 = Len(stack)
        <4>1. Len(stack) <= Len(stack')
          BY <1>2, <3>1
        <4>2. heap'[stack'[i + 1].node].type = Type /\ TypeAt(i + 1) = Type
          BY <1>1, <3>1, <4>1
        <4>. QED
          BY <4>2 DEF TypeAt
      <3>2. CASE i + 1 # Len(stack)
        <4>1. i + 1 \in 1..(Len(stack) - 1)
          BY <1>1, <1>2, <3>2
        <4>. QED
          BY <1>4, <4>1
      <3>. QED
        BY <3>1, <3>2
    <2>. QED
      BY <2>1, <2>2
  <1>8. \A k \in 1..Cut(i + 1) : k \in 1..Cut(i + 1)' /\ Journal'[k] = Journal[k]
    <2>1. Cut(i + 1) = stack[i + 1].created
      BY <1>1, <1>2 DEF Cut
    <2>2. CASE i + 1 = Len(stack)
      <3>1. Cut(i + 1) = Frame.created
        BY <1>1, <2>1, <2>2
      <3>2. Cut(i + 1)' \in Nat /\ Frame.created <= Cut(i + 1)'
        <4>1. CASE i + 1 <= Len(stack')
          BY <1>1, <2>2, <4>1 DEF Cut
        <4>2. CASE ~(i + 1 <= Len(stack'))
          BY <1>2, <4>2 DEF Cut, OuterKept
        <4>. QED
          BY <4>1, <4>2
      <3>3. \A k \in 1..Frame.created : k \in 1..Cut(i + 1)'
        BY ONLY <1>1, <3>2
      <3>. QED
        BY <3>1, <3>3 DEF OuterKept
    <2>3. CASE i + 1 # Len(stack)
      <3>1. i + 1 \in 1..(Len(stack) - 1) /\ i + 1 <= Len(stack')
        BY <1>1, <1>2, <2>3
      <3>2. Cut(i + 1)' = Cut(i + 1)
        BY <1>4, <2>1, <3>1 DEF Cut
      <3>3. Cut(i + 1) \in Nat /\ Cut(i + 1) <= Frame.created
        BY <1>1, <1>3, <2>1, <3>1, SMTT(20)
      <3>4. \A k \in 1..Cut(i + 1) : k \in 1..Frame.created
        BY ONLY <1>1, <3>3
      <3>. QED
        BY <3>2, <3>4 DEF OuterKept
    <2>. QED
      BY <2>2, <2>3
  <1>9. graph' = graph /\ Len(heap) <= Len(heap')
    BY DEF OuterKept
  <1>10. FrameOk(i) /\ stack'[i] = stack[i] /\ heap'[stack[i].node] = heap[stack[i].node]
    BY <1>3, <1>4
  <1>. QED
    BY <1>2, <1>5, <1>6, <1>7, <1>8, <1>9, <1>10, FrameStays

\* The present level, when one record of an earlier level is new or is replaced.
LEMMA LevelPut ==
    ASSUME CompilerAssumption, CompilerTypeOK, CompilerTypeOK', TableOk', graph' = graph, mode' = mode,
           NEW i \in Nat, NEW i2 \in Nat, NEW p \in 1..createdCount', NEW r \in NodeRecords, i2 = Len(stack') + 1,
           Level(i), Cut(i) \in Nat, ScratchCut(i) \in Nat, BackingCut(i) \in Nat, MapCut(i) \in BOOLEAN,
           Open(i) \subseteq 1..Cut(i), Len(heap) <= Len(heap'), decodeNeedsFinalize => decodeNeedsFinalize',
           Adds(Journal, Journal', nodes, nodes', heap, heap', Cut(i), createdCount', p),
           Forms(Open(i), Open(i2)', Cut(i), createdCount', p),
           nodes'[Journal'[p]] \in 1..Len(heap'), heap'[nodes'[Journal'[p]]] = r,
           RecordOk(graph, mode, Journal', nodes', heap', Open(i2)', createdCount', decodeNeedsFinalize', p, r),
           Reached(Journal', nodes', heap', Wait(i2)', createdCount'),
           mode = "encode" =>
             Takes(p, Cut(i), heap[nodes[Journal[p]]], r, Journal'[p], encScratchTypes, encScratchTypes',
                   ScratchCut(i), Len(encScratchTypes'), BackingCut(i), encBackingSlots', MapCut(i), encHasMap')
    PROVE  Level(i2)'
  <1>1. /\ Cut(i2)' = createdCount' /\ ScratchCut(i2)' = Len(encScratchTypes') /\ BackingCut(i2)' = encBackingSlots'
        /\ MapCut(i2)' = encHasMap'
    <2>1. stack' \in Seq(FrameRecords) /\ Len(stack') \in Nat
      BY LenProperties DEF CompilerTypeOK
    <2>2. ~(i2 <= Len(stack'))
      BY <2>1
    <2>. QED
      BY <2>2 DEF Cut, ScratchCut, BackingCut, MapCut
  <1>2. /\ createdCount' \in Nat /\ heap \in Seq(NodeRecords) /\ heap' \in Seq(NodeRecords) /\ Len(heap) \in Nat
        /\ Len(heap') \in Nat /\ Len(encScratchTypes') \in Nat /\ encBackingSlots' \in Nat /\ encHasMap' \in BOOLEAN
    BY LenProperties DEF CompilerTypeOK, JournalOk
  <1>3. Whole(graph, mode, Journal', nodes', heap', Open(i2)', createdCount', decodeNeedsFinalize')
    <2>1. Whole(graph, mode, Journal, nodes, heap, Open(i), Cut(i), decodeNeedsFinalize)
      BY DEF Level
    <2>2. \A k, l \in 1..createdCount' : Journal'[k] = Journal'[l] => k = l
      BY DEF TableOk
    <2>3. RecordOk(graph, mode, Journal', nodes', heap', Open(i2)', createdCount', decodeNeedsFinalize', p, heap'[nodes'[Journal'[p]]])
      OBVIOUS
    <2>. QED
      BY <1>2, <2>1, <2>2, <2>3, WholePut, SMTT(20)
  <1>4. ASSUME mode = "encode"
        PROVE  Owned(Journal', nodes', heap', encScratchTypes', createdCount', Len(encScratchTypes'), encBackingSlots', encHasMap')
    <2>1. Owned(Journal, nodes, heap, encScratchTypes, Cut(i), ScratchCut(i), BackingCut(i), MapCut(i))
      BY <1>4 DEF Level
    <2>2. \A k \in 1..Cut(i) : nodes[Journal[k]] \in 1..Len(heap)
      BY DEF Level, Whole
    <2>3. Takes(p, Cut(i), heap[nodes[Journal[p]]], r, Journal'[p], encScratchTypes, encScratchTypes',
                ScratchCut(i), Len(encScratchTypes'), BackingCut(i), encBackingSlots', MapCut(i), encHasMap')
      BY <1>4
    <2>4. Len(encScratchTypes') <= Len(encScratchTypes')
      BY <1>2
    <2>5. /\ Cut(i) \in Nat /\ ScratchCut(i) \in Nat /\ BackingCut(i) \in Nat /\ MapCut(i) \in BOOLEAN
          /\ p \in 1..createdCount' /\ r \in NodeRecords
      OBVIOUS
    <2>6. Puts(Journal, Journal', nodes, nodes', heap, heap', encScratchTypes, encScratchTypes', Cut(i), createdCount',
               ScratchCut(i), Len(encScratchTypes'), BackingCut(i), encBackingSlots', MapCut(i), encHasMap', p, r)
      BY <2>3 DEF Puts
    <2>. QED
      BY ONLY <1>2, <2>1, <2>2, <2>4, <2>5, <2>6, OwnedPut
  <1>. QED
    BY <1>1, <1>3, <1>4 DEF Level

-----------------------------------------------------------------------------
(***************************************************************************)
(* The actions.                                                            *)
(***************************************************************************)

\* The record of a type that is entered.
Entered(t) == IF IsMap(t) /\ ~compilesDecode THEN Reserved(Opening(t)) ELSE Opening(t)

\* A node that is entered refers to no other, and is not complete.
LEMMA EnteredIs ==
    ASSUME CompilerAssumption, CompilerTypeOK, NEW t \in Types
    PROVE  /\ Entered(t) \in NodeRecords /\ Entered(t).type = t /\ Refs(Entered(t)) = {} /\ Range(Entered(t).fields) = {}
           /\ Entered(t).baseKind = "invalid" /\ Entered(t).structuralFast = FALSE /\ Entered(t).encScratch = -1
           /\ Entered(t).elem = 0 /\ (Decodes(mode) \/ Entered(t).op = "invalid")
           /\ (graph[t].inline => Entered(t).encMapKey = -1)
           /\ mode = "encode" /\ IsMap(t) => Entered(t).encMapKey = Len(encScratchTypes) /\ Entered(t).encBacking = encBackingSlots
           /\ mode = "encode" /\ ~IsMap(t) => Entered(t).encMapKey = -1
  <1> DEFINE op == IF compilesDecode THEN graph[t].kind ELSE "invalid"
             key == IF IsMap(t) /\ ~compilesDecode /\ mode # "dynamic" THEN Len(encScratchTypes) ELSE -1
             back == IF IsMap(t) /\ ~compilesDecode /\ mode # "dynamic" THEN encBackingSlots ELSE -1
  <1>1. Entered(t) = [type |-> t, baseKind |-> "invalid", op |-> op, elem |-> 0, fields |-> <<>>,
                      structuralFast |-> FALSE, encMapKey |-> key, encBacking |-> back, encScratch |-> -1]
    BY DEF Entered, Reserved, Opening, Node
  <1>2. /\ graph[t].kind \in Kinds /\ (graph[t].kind # "struct" => ~graph[t].inline) /\ Decodes(mode) = compilesDecode
    BY GraphIs
  <1>3. op \in Ops /\ (Decodes(mode) \/ op = "invalid")
    BY <1>2 DEF Ops
  <1>4. Len(encScratchTypes) \in Nat /\ encBackingSlots \in Nat
    BY LenProperties DEF CompilerTypeOK
  <1>5. key \in Slots /\ back \in Slots /\ -1 \in Slots
    BY <1>4 DEF Slots
  <1>6. graph[t].inline => key = -1
    BY <1>2 DEF IsMap
  <1>7. /\ mode = "encode" /\ IsMap(t) => key = Len(encScratchTypes) /\ back = encBackingSlots
        /\ mode = "encode" /\ ~IsMap(t) => key = -1
    BY DEF compilesDecode
  <1>8. <<>> \in Seq(Copies) /\ Range(<<>>) = {}
    BY EmptySeq DEF Range
  <1> HIDE DEF op, key, back
  <1>9. Entered(t) \in NodeRecords
    BY <1>1, <1>3, <1>5, <1>8 DEF NodeRecords
  <1>10. Range(Entered(t).fields) = {} /\ Refs(Entered(t)) = {}
    BY <1>1, <1>8 DEF Refs
  <1>11. /\ Entered(t).type = t /\ Entered(t).baseKind = "invalid" /\ Entered(t).structuralFast = FALSE
         /\ Entered(t).encScratch = -1 /\ Entered(t).elem = 0 /\ Entered(t).op = op
         /\ Entered(t).encMapKey = key /\ Entered(t).encBacking = back
    BY ONLY <1>1
  <1>. QED
    BY ONLY <1>3, <1>6, <1>7, <1>9, <1>10, <1>11

\* compileAt, of the root or of the next part of the innermost call.
LEMMA CompileAtKeeps ==
    ASSUME CompilerAssumption, Inv, NEW t \in Types, compileAt(t),
           \/ step = "start" /\ t = Root
           \/ step = "run" /\ Frame.next <= Len(graph[Type].parts) /\ t = Part
    PROVE  /\ CompilerTypeOK' /\ TableOk' /\ StepOk'
           /\ Len(stack) \in Nat /\ Len(stack') = Len(stack) + 1 /\ Len(heap) \in Nat /\ Len(heap') = Len(heap) + 1
           /\ \A k \in 1..createdCount : /\ Journal'[k] = Journal[k] /\ nodes'[Journal[k]] = nodes[Journal[k]]
                                         /\ nodes[Journal[k]] \in 1..Len(heap)
           /\ Journal'[createdCount + 1] = t /\ createdCount' = createdCount + 1
           /\ \A x \in 1..Len(heap) : heap'[x] = heap[x]
           /\ nodes' = [nodes EXCEPT ![t] = Len(heap) + 1] /\ heap'[Len(heap) + 1] = Entered(t)
           /\ \A i \in 1..Len(stack) : stack'[i] = stack[i]
           /\ stack'[Len(stack) + 1] = [node |-> Len(heap) + 1, next |-> 1, created |-> createdCount,
                               scratch |-> Len(encScratchTypes), backing |-> encBackingSlots, hadMap |-> encHasMap]
           /\ Len(encScratchTypes) \in Nat /\ Len(encScratchTypes) <= Len(encScratchTypes')
           /\ \A m \in 1..Len(encScratchTypes) : encScratchTypes'[m] = encScratchTypes[m]
           /\ Level(Len(stack) + 1) /\ Returned = {} /\ Returned' = {}
  <1> DEFINE f == [node |-> Len(heap) + 1, next |-> 1, created |-> createdCount,
                   scratch |-> Len(encScratchTypes), backing |-> encBackingSlots, hadMap |-> encHasMap]
  <1>1. /\ CompilerTypeOK /\ TableOk /\ StackOk /\ LevelsOk /\ StepOk /\ step \in {"start", "run"}
        /\ Level(Len(stack) + 1)
    BY DEF Inv, LevelsOk
  <1>2. /\ heap \in Seq(NodeRecords) /\ stack \in Seq(FrameRecords) /\ encScratchTypes \in Seq(ScratchTypes)
        /\ nodes \in [Types -> Nat] /\ JournalOk /\ createdCount \in Nat /\ encBackingSlots \in Nat /\ encHasMap \in BOOLEAN
        /\ Len(heap) \in Nat /\ Len(stack) \in Nat /\ Len(encScratchTypes) \in Nat
    BY <1>1, LenProperties DEF CompilerTypeOK, JournalOk
  <1>3. /\ nodes[t] = 0 /\ nodes' = [nodes EXCEPT ![t] = Len(heap) + 1] /\ heap' = Append(heap, Entered(t))
        /\ recordCreated(t) /\ stack' = Append(stack, f) /\ step' = "run"
        /\ UNCHANGED <<graph, mode, decodeNeedsFinalize, ret>>
        /\ IF IsMap(t) /\ ~compilesDecode THEN reserveTypedEncodeMap(t) ELSE UNCHANGED resources
    BY DEF compileAt, Entered
  <1>4. /\ JournalOk' /\ createdCount' = createdCount + 1 /\ Journal'[createdCount + 1] = t
        /\ \A k \in 1..createdCount : Journal'[k] = Journal[k]
    BY <1>2, <1>3, JournalGrows
  <1>5. Entered(t) \in NodeRecords /\ Entered(t).type = t
    BY <1>1, EnteredIs
  <1>6. /\ heap' \in Seq(NodeRecords) /\ Len(heap') = Len(heap) + 1 /\ heap'[Len(heap) + 1] = Entered(t)
        /\ \A x \in 1..Len(heap) : heap'[x] = heap[x]
    BY <1>2, <1>3, <1>5, AppendProperties
  <1>7. f \in FrameRecords
    BY <1>2 DEF FrameRecords
  <1>8. /\ stack' \in Seq(FrameRecords) /\ Len(stack') = Len(stack) + 1 /\ stack'[Len(stack) + 1] = f
        /\ \A i \in 1..Len(stack) : stack'[i] = stack[i]
    BY <1>2, <1>3, <1>7, AppendProperties
  <1>9. <<"key", t>> \in ScratchTypes
    BY DEF ScratchTypes
  <1>10. /\ encScratchTypes' \in Seq(ScratchTypes) /\ encBackingSlots' \in Nat /\ encHasMap' \in BOOLEAN
         /\ Len(encScratchTypes) <= Len(encScratchTypes')
         /\ \A m \in 1..Len(encScratchTypes) : encScratchTypes'[m] = encScratchTypes[m]
    <2>1. CASE encScratchTypes' = encScratchTypes /\ encBackingSlots' = encBackingSlots /\ encHasMap' \in BOOLEAN
      BY <1>2, <2>1
    <2>2. CASE encScratchTypes' = Append(encScratchTypes, <<"key", t>>) /\ encBackingSlots' = encBackingSlots + 1 /\ encHasMap' \in BOOLEAN
      <3>1. /\ Append(encScratchTypes, <<"key", t>>) \in Seq(ScratchTypes)
            /\ Len(Append(encScratchTypes, <<"key", t>>)) = Len(encScratchTypes) + 1
            /\ \A m \in 1..Len(encScratchTypes) : Append(encScratchTypes, <<"key", t>>)[m] = encScratchTypes[m]
        BY <1>2, <1>9, AppendProperties
      <3>. QED
        BY <1>2, <2>2, <3>1
    <2>. QED
      BY <1>2, <1>3, <2>1, <2>2 DEF reserveTypedEncodeMap, resources
  <1>11. CompilerTypeOK'
    <2>1. nodes' \in [Types -> Nat]
      BY <1>2, <1>3
    <2>2. step' \in Running
      BY <1>3 DEF Running
    <2>. QED
      BY <1>1, <1>3, <1>4, <1>6, <1>8, <1>10, <2>1, <2>2 DEF CompilerTypeOK
  <1>12. \A k \in 1..createdCount : Journal[k] \in Types /\ nodes[Journal[k]] \in 1..Len(heap) /\ Journal[k] # t
    <2>1. Cut(Len(stack) + 1) = createdCount
      BY <1>2 DEF Cut
    <2>2. \A k \in 1..createdCount : nodes[Journal[k]] \in 1..Len(heap)
      BY <1>1, <2>1 DEF Level, Whole
    <2>3. \A k \in 1..createdCount : Journal[k] \in Types
      BY <1>2, JournalIs
    <2>. QED
      BY <1>2, <1>3, <2>2, <2>3
  <1>13. \A k \in 1..createdCount : nodes'[Journal[k]] = nodes[Journal[k]]
    BY <1>2, <1>3, <1>12
  <1>14. TableOk'
    <2>1. ASSUME NEW k \in 1..(createdCount + 1), NEW l \in 1..(createdCount + 1), Journal'[k] = Journal'[l]
          PROVE  k = l
      <3>1. CASE k = createdCount + 1 \/ l = createdCount + 1
        <4>1. \A m \in 1..(createdCount + 1) : m # createdCount + 1 => m \in 1..createdCount
          BY <1>2
        <4>2. \A m \in 1..createdCount : Journal'[m] # t
          BY <1>4, <1>12
        <4>3. Journal'[createdCount + 1] = t
          BY <1>4
        <4>. QED
          BY ONLY <4>1, <4>2, <4>3, <2>1, <3>1
      <3>2. CASE k \in 1..createdCount /\ l \in 1..createdCount
        BY <1>1, <1>4, <2>1, <3>2 DEF TableOk
      <3>. QED
        BY <1>2, <3>1, <3>2
    <2>2. ASSUME NEW x \in Types, nodes'[x] # 0
          PROVE  \E k \in 1..(createdCount + 1) : Journal'[k] = x
      <3>1. CASE x = t
        BY <1>2, <1>4, <3>1
      <3>2. CASE x # t
        <4>1. nodes[x] # 0
          BY <1>2, <1>3, <2>2, <3>2
        <4>2. PICK k \in 1..createdCount : Journal[k] = x
          BY <1>1, <4>1 DEF TableOk
        <4>3. k \in 1..(createdCount + 1) /\ Journal'[k] = x
          BY <1>2, <1>4, <4>2
        <4>. QED
          BY <4>3
      <3>. QED
        BY <3>1, <3>2
    <2>. QED
      BY <1>4, <2>1, <2>2 DEF TableOk
  <1>15. StepOk'
    <2>1. stack' # <<>>
      BY <1>2, <1>8
    <2>. QED
      BY <1>3, <2>1, NotYet DEF StepOk, Running
  <1>16. Returned = {} /\ Returned' = {}
    BY <1>1, <1>3 DEF Returned
  <1>. QED
    BY <1>1, <1>2, <1>3, <1>4, <1>6, <1>8, <1>10, <1>11, <1>12, <1>13, <1>14, <1>15, <1>16

\* The new call's starting level is the level before it entered its type.
LEMMA CompileAtOk ==
    ASSUME CompilerAssumption, Inv, NEW t \in Types, compileAt(t),
           \/ step = "start" /\ t = Root
           \/ step = "run" /\ Frame.next <= Len(graph[Type].parts) /\ t = Part
    PROVE  Inv'
  <1>0. /\ CompilerTypeOK' /\ TableOk' /\ StepOk'
        /\ Len(stack) \in Nat /\ Len(stack') = Len(stack) + 1 /\ Len(heap) \in Nat /\ Len(heap') = Len(heap) + 1
        /\ \A k \in 1..createdCount : /\ Journal'[k] = Journal[k] /\ nodes'[Journal[k]] = nodes[Journal[k]]
                                      /\ nodes[Journal[k]] \in 1..Len(heap)
        /\ Journal'[createdCount + 1] = t /\ createdCount' = createdCount + 1
        /\ \A x \in 1..Len(heap) : heap'[x] = heap[x]
        /\ nodes' = [nodes EXCEPT ![t] = Len(heap) + 1] /\ heap'[Len(heap) + 1] = Entered(t)
        /\ \A i \in 1..Len(stack) : stack'[i] = stack[i]
        /\ stack'[Len(stack) + 1] = [node |-> Len(heap) + 1, next |-> 1, created |-> createdCount,
                   scratch |-> Len(encScratchTypes), backing |-> encBackingSlots, hadMap |-> encHasMap]
        /\ Len(encScratchTypes) \in Nat /\ Len(encScratchTypes) <= Len(encScratchTypes')
        /\ \A m \in 1..Len(encScratchTypes) : encScratchTypes'[m] = encScratchTypes[m]
        /\ Level(Len(stack) + 1) /\ Returned = {} /\ Returned' = {}
    BY CompileAtKeeps
  <1> DEFINE n == Len(stack)
             f == [node |-> Len(heap) + 1, next |-> 1, created |-> createdCount,
                   scratch |-> Len(encScratchTypes), backing |-> encBackingSlots, hadMap |-> encHasMap]
  <1>1. /\ CompilerTypeOK' /\ TableOk' /\ StepOk'
        /\ n \in Nat /\ Len(stack') = n + 1 /\ Len(heap) \in Nat /\ Len(heap') = Len(heap) + 1
        /\ \A k \in 1..createdCount : /\ Journal'[k] = Journal[k] /\ nodes'[Journal[k]] = nodes[Journal[k]]
                                      /\ nodes[Journal[k]] \in 1..Len(heap)
        /\ Journal'[createdCount + 1] = t /\ createdCount' = createdCount + 1
        /\ \A x \in 1..Len(heap) : heap'[x] = heap[x]
        /\ nodes' = [nodes EXCEPT ![t] = Len(heap) + 1] /\ heap'[Len(heap) + 1] = Entered(t)
        /\ \A i \in 1..n : stack'[i] = stack[i]
        /\ stack'[n + 1] = f
        /\ Len(encScratchTypes) \in Nat /\ Len(encScratchTypes) <= Len(encScratchTypes')
        /\ \A m \in 1..Len(encScratchTypes) : encScratchTypes'[m] = encScratchTypes[m]
        /\ Level(n + 1) /\ Returned = {} /\ Returned' = {}
    BY <1>0
  <1> HIDE DEF n
  <1>2. /\ CompilerTypeOK /\ TableOk /\ StackOk /\ LevelsOk /\ StepOk
    BY DEF Inv
  <1>3. /\ step' = "run" /\ nodes[t] = 0 /\ graph' = graph /\ mode' = mode /\ decodeNeedsFinalize' = decodeNeedsFinalize
        /\ IF IsMap(t) /\ ~compilesDecode THEN reserveTypedEncodeMap(t) ELSE UNCHANGED resources
    BY DEF compileAt
  <1>4. createdCount \in Nat /\ nodes \in [Types -> Nat] /\ encBackingSlots \in Nat /\ encHasMap \in BOOLEAN
    BY <1>2 DEF CompilerTypeOK, JournalOk
  <1>5. /\ f.node = Len(heap) + 1 /\ f.next = 1 /\ f.created = createdCount /\ f.scratch = Len(encScratchTypes)
        /\ f.backing = encBackingSlots /\ f.hadMap = encHasMap
    OBVIOUS
  <1> HIDE DEF f
  <1>6. /\ \A i \in 1..(n + 1) : /\ Cut(i)' = Cut(i) /\ ScratchCut(i)' = ScratchCut(i)
                                 /\ BackingCut(i)' = BackingCut(i) /\ MapCut(i)' = MapCut(i)
        /\ Cut(n + 1) = createdCount /\ ScratchCut(n + 1) = Len(encScratchTypes)
        /\ BackingCut(n + 1) = encBackingSlots /\ MapCut(n + 1) = encHasMap
    <2>1. \A i \in 1..n : /\ Cut(i)' = Cut(i) /\ ScratchCut(i)' = ScratchCut(i)
                          /\ BackingCut(i)' = BackingCut(i) /\ MapCut(i)' = MapCut(i)
      BY <1>1 DEF Cut, ScratchCut, BackingCut, MapCut, n
    <2>2. /\ Cut(n + 1) = createdCount /\ ScratchCut(n + 1) = Len(encScratchTypes)
          /\ BackingCut(n + 1) = encBackingSlots /\ MapCut(n + 1) = encHasMap
      BY <1>1 DEF Cut, ScratchCut, BackingCut, MapCut, n
    <2>3. ASSUME NEW j, j = n + 1
          PROVE  /\ Cut(j)' = createdCount /\ ScratchCut(j)' = Len(encScratchTypes)
                 /\ BackingCut(j)' = encBackingSlots /\ MapCut(j)' = encHasMap
      BY <1>1, <1>5, <2>3 DEF Cut, ScratchCut, BackingCut, MapCut
    <2>4. \A i \in 1..(n + 1) : i \in 1..n \/ i = n + 1
      BY <1>1
    <2>. QED
      BY <2>1, <2>2, <2>3, <2>4
  <1>7. \A i \in 1..(n + 1) : Open(i)' = Open(i) /\ Wait(i) = Open(i) /\ Wait(i)' = Open(i)
    <2> SUFFICES ASSUME NEW i \in 1..(n + 1) PROVE Open(i)' = Open(i) /\ Wait(i) = Open(i) /\ Wait(i)' = Open(i)
      OBVIOUS
    <2>1. \A j \in 1..(i - 1) : stack'[j].created = stack[j].created
      BY <1>1
    <2>2. Open(i)' = Open(i)
      BY <2>1 DEF Open
    <2>. QED
      BY <1>1, <2>2 DEF Wait
  <1>8. \A i \in 1..(n + 1) : Level(i)'
    <2> SUFFICES ASSUME NEW i \in 1..(n + 1) PROVE Level(i)'
      OBVIOUS
    <2>1. Level(i) /\ i \in 1..(Len(stack) + 1)
      BY <1>1, <1>2 DEF LevelsOk, n
    <2>2. /\ Cut(i) \in 0..createdCount /\ ScratchCut(i) \in 0..Len(encScratchTypes)
      BY <1>2, <2>1, CutsAre
    <2>3. \A k \in 1..Cut(i) : k \in 1..createdCount
      BY <1>4, <2>2
    <2>4. \A m \in 1..ScratchCut(i) : m \in 1..Len(encScratchTypes)
      BY <1>1, <2>2
    <2>5. ScratchCut(i) <= Len(encScratchTypes')
      <3>1. Len(encScratchTypes') \in Nat
        BY <1>1, LenProperties DEF CompilerTypeOK
      <3>. QED
        BY ONLY <1>1, <2>2, <3>1
    <2>6. \A k \in 1..Cut(i) : /\ Journal'[k] = Journal[k] /\ nodes'[Journal[k]] = nodes[Journal[k]]
                               /\ heap'[nodes[Journal[k]]] = heap[nodes[Journal[k]]]
      BY <1>1, <2>3
    <2>7. Len(heap) <= Len(heap')
      BY <1>1
    <2>8. /\ Cut(i)' = Cut(i) /\ ScratchCut(i)' = ScratchCut(i) /\ BackingCut(i)' = BackingCut(i) /\ MapCut(i)' = MapCut(i)
          /\ Open(i)' = Open(i) /\ Wait(i) \subseteq Wait(i)'
      BY <1>6, <1>7
    <2>9. \A m \in 1..ScratchCut(i) : encScratchTypes'[m] = encScratchTypes[m]
      BY <1>1, <2>4
    <2>. QED
      BY <1>1, <1>2, <1>3, <2>1, <2>5, <2>6, <2>7, <2>8, <2>9, LevelStays
  <1>9. ASSUME NEW i2, i2 = n + 2
        PROVE  Level(i2)'
    <2> DEFINE i == n + 1
               p == createdCount + 1
               r == Entered(t)
    <2>1. i \in Nat /\ i2 \in Nat /\ i2 = Len(stack') + 1 /\ p \in 1..createdCount'
      BY <1>1, <1>4, <1>9
    <2>2. Open(i2)' = Open(i) \cup {p}
      <3>1. Open(i) = { stack[j].created + 1 : j \in 1..n }
        BY <1>1 DEF Open
      <3>2. Open(i2)' = { stack'[j].created + 1 : j \in 1..(n + 1) }
        BY <1>1, <1>9 DEF Open
      <3>3. \A j : j \in 1..(n + 1) <=> j \in 1..n \/ j = n + 1
        BY <1>1
      <3>4. stack'[n + 1].created + 1 = p /\ \A j \in 1..n : stack'[j].created + 1 = stack[j].created + 1
        BY <1>1, <1>5
      <3>. QED
        BY ONLY <3>1, <3>2, <3>3, <3>4
    <2>3. Wait(i2)' = Open(i2)' /\ Wait(i) = Open(i)
      BY <1>1 DEF Wait
    <2>4. r \in NodeRecords /\ r.type = t /\ Refs(r) = {} /\ Range(r.fields) = {}
          /\ r.baseKind = "invalid" /\ r.structuralFast = FALSE /\ r.encScratch = -1 /\ (Decodes(mode) \/ r.op = "invalid")
          /\ (mode = "encode" /\ IsMap(t) => r.encMapKey = Len(encScratchTypes) /\ r.encBacking = encBackingSlots)
          /\ (mode = "encode" /\ ~IsMap(t) => r.encMapKey = -1)
      BY <1>2, EnteredIs
    <2>5. nodes'[t] = Len(heap) + 1 /\ Journal'[p] = t /\ heap'[nodes'[Journal'[p]]] = r /\ nodes'[Journal'[p]] \in 1..Len(heap')
      <3>1. nodes'[t] = Len(heap) + 1
        BY <1>1, <1>4
      <3>2. Len(heap) + 1 \in 1..Len(heap')
        BY <1>1
      <3>. QED
        BY <1>1, <3>1, <3>2
    <2>6. Open(i) \subseteq 1..createdCount
      <3>1. i \in 1..(Len(stack) + 1)
        BY <1>1 DEF n
      <3>. QED
        BY <1>2, <1>6, <3>1, CutsAre
    <2> HIDE DEF r, p, i
    <2>7. RecordOk(graph, mode, Journal', nodes', heap', Open(i2)', createdCount', decodeNeedsFinalize', p, r)
      BY <2>2, <2>4, <2>5 DEF RecordOk
    <2>8. Reached(Journal', nodes', heap', Wait(i2)', createdCount')
      <3>1. Reached(Journal, nodes, heap, Open(i), createdCount)
        BY <1>1, <1>6, <2>3 DEF Level, i
      <3>2. \A k \in 1..createdCount :
               Journal'[k] = Journal[k] /\ nodes'[Journal[k]] = nodes[Journal[k]] /\ Refs(heap[nodes[Journal[k]]]) \subseteq Refs(heap'[nodes[Journal[k]]])
        BY <1>1
      <3>3. Open(i) \cap (2..createdCount) \subseteq Wait(i2)'
        BY <2>2, <2>3
      <3>4. Reached(Journal', nodes', heap', Wait(i2)', createdCount)
        BY <1>4, <3>1, <3>2, <3>3, ReachedKept
      <3>5. createdCount + 1 \in Wait(i2)'
        BY <2>2, <2>3 DEF p
      <3>. QED
        BY <1>1, <1>4, <3>4, <3>5, ReachedGrows
    <2>9. Adds(Journal, Journal', nodes, nodes', heap, heap', Cut(i), createdCount', p)
      BY <1>1, <1>6 DEF Adds, p, i
    <2>10. Forms(Open(i), Open(i2)', Cut(i), createdCount', p)
      <3>1. Cut(i) = createdCount /\ createdCount' = createdCount + 1 /\ p = createdCount + 1
        BY <1>1, <1>6 DEF i, p
      <3>2. createdCount' # createdCount /\ 1..createdCount \subseteq 1..createdCount' /\ p \in 1..createdCount'
        BY ONLY <1>4, <3>1
      <3>. QED
        BY ONLY <2>2, <2>6, <3>1, <3>2 DEF Forms
    <2>11. ASSUME mode = "encode"
           PROVE  Takes(p, Cut(i), heap[nodes[Journal[p]]], r, Journal'[p], encScratchTypes, encScratchTypes',
                        ScratchCut(i), Len(encScratchTypes'), BackingCut(i), encBackingSlots', MapCut(i), encHasMap')
      <3>1. /\ Cut(i) = createdCount /\ ScratchCut(i) = Len(encScratchTypes) /\ BackingCut(i) = encBackingSlots /\ MapCut(i) = encHasMap
            /\ ~(p <= Cut(i)) /\ Journal'[p] = t /\ ~(r.encScratch >= 0)
        BY <1>4, <1>6, <2>4, <2>5 DEF i, p
      <3>2. CASE IsMap(t)
        <4>1. /\ encHasMap' = TRUE /\ encScratchTypes' = Append(encScratchTypes, <<"key", t>>) /\ encBackingSlots' = encBackingSlots + 1
          BY <1>3, <2>11, <3>2 DEF reserveTypedEncodeMap, compilesDecode
        <4>2. Len(encScratchTypes') = Len(encScratchTypes) + 1 /\ encScratchTypes'[Len(encScratchTypes) + 1] = <<"key", t>>
          <5>1. encScratchTypes \in Seq(ScratchTypes) /\ <<"key", t>> \in ScratchTypes
            BY <1>2 DEF CompilerTypeOK, ScratchTypes
          <5>. QED
            BY <4>1, <5>1, AppendProperties
        <4>3. r.encMapKey = Len(encScratchTypes) /\ r.encBacking = encBackingSlots /\ Keyed(r)
          BY <1>1, <2>4, <2>11, <3>2 DEF Keyed
        <4>. QED
          BY ONLY <1>1, <1>4, <3>1, <4>1, <4>2, <4>3 DEF Takes
      <3>3. CASE ~IsMap(t)
        <4>1. encHasMap' = encHasMap /\ encScratchTypes' = encScratchTypes /\ encBackingSlots' = encBackingSlots
          BY <1>3, <3>3 DEF resources
        <4>2. ~Keyed(r)
          BY <2>4, <2>11, <3>3 DEF Keyed
        <4>3. \A m \in 1..Len(encScratchTypes) : encScratchTypes'[m] = encScratchTypes[m]
          BY ONLY <4>1
        <4>4. encHasMap' <=> MapCut(i) \/ Keyed(r)
          BY ONLY <3>1, <4>1, <4>2, Zenon
        <4>5. Len(encScratchTypes') = ScratchCut(i) /\ encBackingSlots' = BackingCut(i)
          BY ONLY <3>1, <4>1
        <4>6. \A m \in 1..ScratchCut(i) : encScratchTypes'[m] = encScratchTypes[m]
          BY ONLY <3>1, <4>3
        <4>7. ~(p <= Cut(i)) /\ ~(r.encScratch >= 0)
          BY ONLY <3>1
        <4>. QED
          BY ONLY <4>2, <4>4, <4>5, <4>6, <4>7, Zenon DEF Takes
      <3>. QED
        BY <3>2, <3>3
    <2>12. /\ Cut(i) \in Nat /\ ScratchCut(i) \in Nat /\ BackingCut(i) \in Nat /\ MapCut(i) \in BOOLEAN /\ Level(i)
           /\ Open(i) \subseteq 1..Cut(i) /\ Len(heap) <= Len(heap')
      BY <1>1, <1>4, <1>6, <2>6 DEF i
    <2>. QED
      BY <1>1, <1>2, <1>3, <2>1, <2>4, <2>5, <2>7, <2>8, <2>9, <2>10, <2>11, <2>12, LevelPut
  <1>10. LevelsOk'
    <2>1. ASSUME NEW i2, i2 = Len(stack') + 1 PROVE Level(i2)'
      BY <1>1, <1>9, <2>1
    <2>. QED
      BY <1>1, <1>8, <2>1 DEF LevelsOk
  <1>11. \A i \in 1..(n - 1) : FrameOk(i)' /\ TypeAt(i)' = TypeAt(i)
    <2>1. CASE stack = <<>>
      BY <1>1, <2>1 DEF n
    <2>2. CASE stack # <<>>
      <3>1. /\ Frame = stack[n] /\ Frame.created \in Nat /\ Frame.scratch \in Nat /\ FrameOk(n) /\ Frame.node \in 1..Len(heap)
            /\ n \in Nat \ {0} /\ Type = heap[Frame.node].type
        BY <1>2, <2>2, FrameIs DEF n
      <3>2. Frame.created < createdCount /\ Frame.scratch <= Len(encScratchTypes)
        BY <3>1 DEF FrameOk
      <3>3. OuterKept
        <4>1. Frame.created <= createdCount' /\ \A k \in 1..Frame.created : k \in 1..createdCount
          <5>1. createdCount \in Nat /\ createdCount <= createdCount'
            BY ONLY <1>1, <1>4
          <5>2. PICK b \in Nat : b = Frame.created
            BY ONLY <3>1
          <5>3. b < createdCount
            BY ONLY <3>2, <5>2
          <5>4. b <= createdCount' /\ \A k \in 1..b : k \in 1..createdCount
            BY ONLY <1>1, <1>4, <5>1, <5>3
          <5>. QED
            BY ONLY <5>2, <5>4
        <4>2. \A m \in 1..Frame.scratch : m \in 1..Len(encScratchTypes)
          BY ONLY <1>1, <3>1, <3>2
        <4>3. Frame.scratch <= Len(encScratchTypes')
          <5>1. Len(encScratchTypes') \in Nat
            BY <1>1, LenProperties DEF CompilerTypeOK
          <5>. QED
            BY ONLY <1>1, <3>1, <3>2, <5>1
        <4>4. Len(heap) <= Len(heap')
          BY <1>1
        <4>. QED
          BY <1>1, <1>3, <4>1, <4>2, <4>3, <4>4 DEF OuterKept
      <3>4. stack'[n].node = Frame.node /\ stack'[n].created = Frame.created /\ heap'[Frame.node].type = Type
        BY <1>1, <3>1, SMTT(60)
      <3>5. n - 1 <= Len(stack') /\ \A i \in 1..(n - 1) : stack'[i] = stack[i]
        BY <1>1, <3>1
      <3>. QED
        BY <1>1, <1>2, <2>2, <3>3, <3>4, <3>5, OuterStays DEF n
    <2>. QED
      BY <2>1, <2>2
  <1>12. ASSUME NEW i, i = n, n # 0
         PROVE  FrameOk(i)' /\ TypeAt(i)' = TypeAt(i)
    <2>0. stack # <<>> /\ step = "run" /\ Frame.next <= Len(graph[Type].parts) /\ t = Part
      <3>1. stack # <<>>
        BY <1>12 DEF n
      <3>. QED
        BY <1>2, <3>1 DEF StepOk, Running
    <2>1. /\ Frame = stack[i] /\ Frame.created \in Nat /\ FrameOk(i) /\ Frame.node \in 1..Len(heap)
          /\ i \in Nat \ {0} /\ Type = TypeAt(i) /\ Type \in Types /\ Frame.scratch \in Nat
      BY <1>2, <1>12, <2>0, FrameIs DEF n
    <2>2. Frame.created < createdCount /\ Frame.scratch <= Len(encScratchTypes) /\ nodes[Type] = Frame.node
      BY <2>0, <2>1 DEF FrameOk
    <2>3. t # Type /\ nodes'[Type] = Frame.node
      <3>1. Type # t
        BY <1>1, <1>3, <2>1, <2>2
      <3>. QED
        BY <1>1, <1>4, <2>1, <2>2, <3>1
    <2>4. stack[i].created < createdCount' /\ stack[i].created + 1 \in 1..createdCount
      <3>1. \A x, y \in Nat : x < y => x < y + 1 /\ x + 1 \in 1..y
        OBVIOUS
      <3>. QED
        BY ONLY <1>1, <1>4, <2>1, <2>2, <3>1
    <2>5. stack[i].scratch <= Len(encScratchTypes')
      <3>1. Len(encScratchTypes') \in Nat
        BY <1>1, LenProperties DEF CompilerTypeOK
      <3>. QED
        BY ONLY <1>1, <2>1, <2>2, <3>1
    <2>6. TypeAt(i + 1)' = t
      <3>1. TypeAt(i + 1)' = heap'[stack'[i + 1].node].type
        BY DEF TypeAt
      <3>2. Entered(t).type = t
        BY <1>2, EnteredIs
      <3>. QED
        BY <1>1, <1>5, <1>12, <3>1, <3>2
    <2>7. stack[i].next <= Len(graph[TypeAt(i)].parts) /\ graph[TypeAt(i)].parts[stack[i].next] = TypeAt(i + 1)'
      BY <2>0, <2>1, <2>6 DEF Part
    <2>8. \A k \in 1..Cut(i + 1) : k \in 1..Cut(i + 1)' /\ Journal'[k] = Journal[k]
      <3>1. Cut(i + 1)' = createdCount /\ Cut(i + 1) = createdCount
        <4>1. i + 1 \in 1..(n + 1) /\ i + 1 = n + 1
          BY <1>1, <1>12
        <4>. QED
          BY <1>6, <4>1
      <3>. QED
        BY <1>1, <3>1
    <2>9. stack'[i] = stack[i] /\ heap'[stack[i].node] = heap[stack[i].node] /\ i \in 1..Len(stack) /\ Len(heap') \in Nat
          /\ Len(heap) <= Len(heap') /\ Journal'[stack[i].created + 1] = Journal[stack[i].created + 1]
          /\ nodes'[TypeAt(i)] = stack[i].node
      <3>1. stack'[i] = stack[i] /\ i \in 1..Len(stack)
        <4>1. i \in 1..n
          BY ONLY <1>12, <2>1
        <4>. QED
          BY <1>1, <4>1 DEF n
      <3>2. heap'[stack[i].node] = heap[stack[i].node]
        BY ONLY <1>1, <2>1
      <3>3. Len(heap') \in Nat /\ Len(heap) <= Len(heap')
        BY ONLY <1>1
      <3>4. Journal'[stack[i].created + 1] = Journal[stack[i].created + 1]
        BY ONLY <1>1, <2>4
      <3>5. nodes'[TypeAt(i)] = stack[i].node
        BY ONLY <2>1, <2>3
      <3>. QED
        BY ONLY <3>1, <3>2, <3>3, <3>4, <3>5
    <2>. QED
      BY <1>1, <1>2, <1>3, <2>1, <2>4, <2>5, <2>7, <2>8, <2>9, FrameStays
  <1>13. ASSUME NEW j, j = n + 1
         PROVE  FrameOk(j)' /\ TypeAt(j)' = t
    <2>1. /\ Entered(t).type = t /\ Entered(t).elem = 0 /\ (graph[t].inline => Entered(t).encMapKey = -1)
      BY <1>2, EnteredIs
    <2>2. TypeAt(j)' = t
      BY <1>1, <1>5, <1>13, <2>1 DEF TypeAt
    <2>3. /\ stack'[j] = f /\ heap'[f.node] = Entered(t) /\ Len(heap) + 1 \in 1..Len(heap') /\ nodes'[t] = f.node
          /\ f.created < createdCount' /\ ~(j < Len(stack')) /\ 1..(f.next - 1) = {} /\ Journal'[f.created + 1] = t
      BY <1>1, <1>4, <1>5, <1>13
    <2>4. f.scratch <= Len(encScratchTypes') /\ f.node \in 1..Len(heap') /\ f.next >= 1
      BY <1>1, <1>5, <2>3
    <2>. QED
      BY <1>3, <2>1, <2>2, <2>3, <2>4 DEF FrameOk
  <1>14. \A i \in 1..(n + 1) : FrameOk(i)'
    <2>1. \A i \in 1..(n + 1) : i \in 1..(n - 1) \/ (i = n /\ n # 0) \/ i = n + 1
      BY <1>1
    <2>. QED
      BY <1>11, <1>12, <1>13, <2>1
  <1>15. ASSUME NEW i \in 1..(n + 1), NEW j \in 1..(n + 1), i < j
         PROVE  stack'[i].created < stack'[j].created /\ stack'[i].scratch <= stack'[j].scratch
    <2>1. i \in 1..n /\ stack'[i] = stack[i]
      BY <1>1, <1>15
    <2>2. CASE j \in 1..n
      BY <1>1, <1>2, <1>15, <2>1, <2>2 DEF StackOk, n
    <2>3. CASE j = n + 1
      <3>1. FrameOk(i)
        BY <1>2, <2>1 DEF StackOk, n
      <3>. QED
        BY <1>1, <1>5, <2>1, <2>3, <3>1 DEF FrameOk
    <2>. QED
      BY <1>1, <2>2, <2>3
  <1>16. stack'[1].created = 0 /\ stack'[1].scratch = 0 /\ stack'[1].backing = 0 /\ TypeAt(1)' = Root
    <2>1. CASE n = 0
      <3>1. stack = <<>>
        BY <1>2, <2>1, EmptySeq DEF n, CompilerTypeOK
      <3>2. step = "start" /\ t = Root
        BY <1>2, <3>1 DEF StepOk, Running
      <3>3. createdCount = 0 /\ Len(encScratchTypes) = 0 /\ encBackingSlots = 0
        BY <1>2, <3>2, EmptySeq DEF StepOk
      <3>4. stack'[1] = f /\ TypeAt(1)' = t
        BY <1>1, <1>13, <2>1
      <3>. QED
        BY <1>5, <3>2, <3>3, <3>4
    <2>2. CASE n # 0
      <3>1. stack # <<>> /\ 1 \in 1..n
        BY <1>1, <2>2 DEF n
      <3>2. stack'[1] = stack[1] /\ TypeAt(1)' = TypeAt(1)
        <4>1. 1 \in 1..(n - 1) \/ n = 1
          BY <1>1, <2>2
        <4>. QED
          BY <1>1, <1>11, <1>12, <3>1, <4>1
      <3>. QED
        BY <1>2, <3>1, <3>2 DEF StackOk
    <2>. QED
      BY <2>1, <2>2
  <1>17. StackOk'
    BY <1>1, <1>14, <1>15, <1>16 DEF StackOk
  <1>. QED
    BY <1>1, <1>10, <1>17 DEF Inv

\* The calls stay, the innermost one perhaps with its next part.
LEMMA StackKept ==
    ASSUME CompilerAssumption, Inv, CompilerTypeOK', stack # <<>>, OuterKept, NEW n, n = Len(stack), Len(stack') = n,
           \A i \in 1..(n - 1) : stack'[i] = stack[i],
           stack'[n].node = Frame.node, stack'[n].created = Frame.created, stack'[n].scratch = Frame.scratch,
           stack'[n].backing = Frame.backing, stack'[n].hadMap = Frame.hadMap, heap'[Frame.node].type = Type,
           FrameOk(n)'
    PROVE  StackOk' /\ \A i \in 1..n : Level(i)'
  <1>1. /\ CompilerTypeOK /\ TableOk /\ StackOk /\ LevelsOk
    BY DEF Inv
  <1>2. /\ n \in Nat \ {0} /\ Frame = stack[n] /\ Type = TypeAt(n)
    BY <1>1, FrameIs
  <1>3. \A i \in 1..n : /\ stack'[i].created = stack[i].created /\ stack'[i].scratch = stack[i].scratch
                        /\ stack'[i].backing = stack[i].backing /\ stack'[i].hadMap = stack[i].hadMap
    <2>1. \A i \in 1..n : i \in 1..(n - 1) \/ i = n
      BY <1>2
    <2>. QED
      BY <1>2, <2>1
  <1>4. \A i \in 1..n : Level(i)'
    <2>1. n \in 0..Len(stack) /\ n <= Len(stack')
      BY <1>2
    <2>. QED
      BY <1>1, <1>3, <2>1, LevelsStay
  <1>5. \A i \in 1..(n - 1) : FrameOk(i)' /\ TypeAt(i)' = TypeAt(i)
    <2>1. Len(stack) - 1 <= Len(stack')
      BY <1>2
    <2>. QED
      BY <1>1, <2>1, OuterStays
  <1>6. \A i \in 1..n : FrameOk(i)'
    <2>1. \A i \in 1..n : i \in 1..(n - 1) \/ i = n
      BY <1>2
    <2>. QED
      BY <1>5, <2>1
  <1>7. \A i, j \in 1..n : i < j => stack'[i].created < stack'[j].created /\ stack'[i].scratch <= stack'[j].scratch
    BY <1>1, <1>3 DEF StackOk
  <1>8. stack'[1].created = 0 /\ stack'[1].scratch = 0 /\ stack'[1].backing = 0 /\ TypeAt(1)' = Root
    <2>1. stack[1].created = 0 /\ stack[1].scratch = 0 /\ stack[1].backing = 0 /\ TypeAt(1) = Root /\ 1 \in 1..n
      BY <1>1, <1>2 DEF StackOk
    <2>2. CASE n = 1
      <3>1. TypeAt(1)' = Type
        BY <2>2 DEF TypeAt
      <3>. QED
        BY <1>2, <1>3, <2>1, <2>2, <3>1
    <2>3. CASE n # 1
      <3>1. 1 \in 1..(n - 1)
        BY <1>2, <2>3
      <3>. QED
        BY <1>3, <1>5, <2>1, <3>1
    <2>. QED
      BY <2>2, <2>3
  <1>9. StackOk'
    BY <1>6, <1>7, <1>8 DEF StackOk
  <1>. QED
    BY <1>4, <1>9

\* The calls without the innermost one are as they were.
LEMMA FrontIs ==
    ASSUME CompilerAssumption, CompilerTypeOK, stack # <<>>
    PROVE  /\ Front(stack) \in Seq(FrameRecords) /\ Len(Front(stack)) = Len(stack) - 1
           /\ \A i \in 1..(Len(stack) - 1) : Front(stack)[i] = stack[i]
  <1>1. Len(stack) \in Nat \ {0} /\ stack \in Seq(FrameRecords)
    BY EmptySeq DEF CompilerTypeOK
  <1>2. 1 \in Int /\ Len(stack) - 1 \in Int /\ \A i \in 1..(Len(stack) - 1) : stack[i] \in FrameRecords
    BY <1>1, ElementOfSeq
  <1>3. /\ SubSeq(stack, 1, Len(stack) - 1) \in Seq(FrameRecords)
        /\ Len(SubSeq(stack, 1, Len(stack) - 1)) = IF 1 <= Len(stack) - 1 THEN Len(stack) - 1 - 1 + 1 ELSE 0
        /\ \A i \in 1..(Len(stack) - 1 - 1 + 1) : SubSeq(stack, 1, Len(stack) - 1)[i] = stack[1 + i - 1]
    BY <1>2, SubSeqProperties
  <1>4. Len(SubSeq(stack, 1, Len(stack) - 1)) = Len(stack) - 1
    <2>1. \A m \in Nat : (IF 1 <= m THEN m - 1 + 1 ELSE 0) = m
      OBVIOUS
    <2>2. Len(stack) - 1 \in Nat
      BY <1>1
    <2>. QED
      BY ONLY <1>3, <2>1, <2>2
  <1>5. ASSUME NEW i \in 1..(Len(stack) - 1)
        PROVE  SubSeq(stack, 1, Len(stack) - 1)[i] = stack[i]
    <2>1. i \in 1..(Len(stack) - 1 - 1 + 1) /\ 1 + i - 1 = i
      BY ONLY <1>1, i \in 1..(Len(stack) - 1)
    <2>2. SubSeq(stack, 1, Len(stack) - 1)[i] = stack[1 + i - 1]
      BY <1>3, <2>1
    <2>. QED
      BY <2>1, <2>2
  <1>. QED
    BY <1>3, <1>4, <1>5 DEF Front

\* The innermost call returned, the others go on.
LEMMA StackPopped ==
    ASSUME CompilerAssumption, Inv, CompilerTypeOK', stack # <<>>, OuterKept, stack' = Front(stack)
    PROVE  StackOk' /\ \A i \in 1..(Len(stack) - 1) : Level(i)' /\ FrameOk(i)' /\ TypeAt(i)' = TypeAt(i)
  <1> DEFINE n == Len(stack)
  <1>1. /\ CompilerTypeOK /\ TableOk /\ StackOk /\ LevelsOk
    BY DEF Inv
  <1>2. n \in Nat \ {0} /\ Len(stack') = n - 1 /\ \A i \in 1..(n - 1) : stack'[i] = stack[i]
    BY <1>1, FrameIs, FrontIs
  <1>3. \A i \in 1..(n - 1) : Level(i)'
    <2>1. n - 1 \in 0..Len(stack) /\ n - 1 <= Len(stack')
      BY <1>2
    <2>. QED
      BY <1>1, <1>2, <2>1, LevelsStay
  <1>4. \A i \in 1..(n - 1) : FrameOk(i)' /\ TypeAt(i)' = TypeAt(i)
    <2>1. Len(stack) - 1 <= Len(stack') /\ ~(Len(stack) <= Len(stack'))
      BY <1>2
    <2>. QED
      BY <1>1, <1>2, <2>1, OuterStays
  <1> HIDE DEF n
  <1>5. \A i, j \in 1..(n - 1) : i < j => stack'[i].created < stack'[j].created /\ stack'[i].scratch <= stack'[j].scratch
    <2>1. \A i \in 1..(n - 1) : i \in 1..Len(stack)
      BY <1>2 DEF n
    <2>. QED
      BY <1>1, <1>2, <2>1 DEF StackOk
  <1>6. ASSUME stack' # <<>>
        PROVE  stack'[1].created = 0 /\ stack'[1].scratch = 0 /\ stack'[1].backing = 0 /\ TypeAt(1)' = Root
    <2>1. 1 \in 1..(n - 1)
      <3>1. stack' \in Seq(FrameRecords)
        BY DEF CompilerTypeOK
      <3>2. Len(stack') # 0
        BY <1>6, <3>1, EmptySeq
      <3>. QED
        BY <1>2, <3>2
    <2>. QED
      BY <1>1, <1>2, <1>4, <2>1 DEF StackOk
  <1>7. StackOk'
    BY <1>2, <1>4, <1>5, <1>6 DEF StackOk
  <1>. QED
    BY <1>3, <1>4, <1>7 DEF n

\* A type that has no JSON form fails its call.
LEMMA UnsupportedOk ==
    ASSUME CompilerAssumption, Inv, unsupported
    PROVE  Inv'
  <1>1. /\ CompilerTypeOK /\ TableOk /\ StackOk /\ LevelsOk /\ StepOk /\ step = "run" /\ step' = "err" /\ graph[Type].kind = "chan"
        /\ nodes' = [nodes EXCEPT ![Type] = 0]
        /\ UNCHANGED <<graph, mode, heap, journal, resources, decodeNeedsFinalize, stack, ret>>
    BY DEF Inv, unsupported
  <1>2. stack # <<>>
    BY <1>1 DEF StepOk, Running
  <1>3. PICK n : n = Len(stack)
    OBVIOUS
  <1>4. /\ n \in Nat \ {0} /\ Frame = stack[n] /\ Type = TypeAt(n) /\ Type \in Types /\ FrameOk(n)
        /\ Frame.created \in Nat /\ Frame.scratch \in Nat /\ Type = heap[Frame.node].type
    BY <1>1, <1>2, <1>3, FrameIs
  <1>5. Frame' = Frame /\ Type' = Type /\ Journal' = Journal
    <2>1. Frame' = Frame
      BY <1>1 DEF Frame
    <2>. QED
      BY <1>1, <2>1 DEF Type, Journal, JournalAt, journal
  <1>6. nodes \in [Types -> Nat] /\ createdCount \in Nat /\ Len(encScratchTypes) \in Nat /\ Len(heap) \in Nat
    BY <1>1, LenProperties DEF CompilerTypeOK, JournalOk
  <1>7. CompilerTypeOK'
    <2>1. nodes' \in [Types -> Nat]
      BY <1>1, <1>4, <1>6
    <2>. QED
      BY <1>1, <2>1 DEF CompilerTypeOK, JournalOk, journal, resources, Running
  <1>8. TableOk'
    <2>1. createdCount' = createdCount
      BY <1>1 DEF journal
    <2>2. \A t \in Types : nodes'[t] # 0 => nodes[t] # 0
      BY <1>1, <1>6
    <2>. QED
      BY <1>1, <1>5, <2>1, <2>2 DEF TableOk
  <1>9. OuterKept
    <2>1. Frame.created < createdCount /\ Frame.scratch <= Len(encScratchTypes)
      BY <1>4 DEF FrameOk
    <2>2. ASSUME NEW k \in 1..Frame.created
          PROVE  nodes'[Journal[k]] = nodes[Journal[k]]
      <3>1. n \in 1..Len(stack) /\ Cut(n) = Frame.created
        BY <1>3, <1>4 DEF Cut
      <3>2. Journal[k] # Type /\ Journal[k] \in Types
        BY <1>1, <1>2, <3>1, BelowFrame
      <3>. QED
        BY <1>1, <1>6, <3>2
    <2>3. Frame.created <= createdCount' /\ Frame.scratch <= Len(encScratchTypes') /\ Len(heap) <= Len(heap')
      BY <1>1, <1>4, <1>6, <2>1 DEF journal, resources
    <2>. QED
      BY <1>1, <1>5, <2>2, <2>3 DEF OuterKept, resources
  <1>10. FrameOk(n)'
    <2>1. n \in 1..Len(stack) /\ stack'[n] = stack[n] /\ Len(heap) <= Len(heap') /\ heap'[stack[n].node] = heap[stack[n].node]
          /\ Len(heap') \in Nat /\ ~(n < Len(stack'))
      BY <1>1, <1>3, <1>4, <1>6
    <2>2. stack[n].created < createdCount' /\ Journal'[stack[n].created + 1] = Journal[stack[n].created + 1]
          /\ stack[n].scratch <= Len(encScratchTypes')
      BY <1>1, <1>4, <1>5 DEF FrameOk, journal, resources
    <2>3. \A k \in 1..Cut(n + 1) : k \in 1..Cut(n + 1)' /\ Journal'[k] = Journal[k]
      BY <1>1, <1>5 DEF Cut, journal
    <2>. QED
      BY <1>1, <1>4, <1>6, <2>1, <2>2, <2>3, FrameStays
  <1>11. StackOk' /\ \A i \in 1..n : Level(i)'
    BY <1>1, <1>2, <1>3, <1>4, <1>7, <1>9, <1>10, StackKept
  <1>12. LevelsOk'
    BY <1>1, <1>3, <1>11 DEF LevelsOk
  <1>13. StepOk'
    <2>1. Hopeless'
      BY <1>1, <1>5 DEF Hopeless
    <2>. QED
      BY <1>1, <1>2, <2>1, NotYet DEF StepOk, Running
  <1>. QED
    BY <1>7, <1>8, <1>11, <1>12, <1>13 DEF Inv

\* The record of the innermost call's type, with the part.
With(part) ==
    LET n == heap[Frame.node]
    IN  IF graph[Type].kind = "struct" /\ ~InlinePart
        THEN [n EXCEPT !.fields = Append(@, [node |-> part, op |-> heap[part].op])]
        ELSE [n EXCEPT !.elem = part]
Attached(part) == IF InlinePart /\ ~compilesDecode THEN Reserved(With(part)) ELSE With(part)

\* What a part changes of its owner's record, and the scratch that it reserves.
LEMMA AttachedIs ==
    ASSUME CompilerAssumption, CompilerTypeOK, StackOk, stack # <<>>, Frame.next <= Len(graph[Type].parts),
           NEW part \in 1..Len(heap)
    PROVE  LET q == heap[Frame.node]
               r == Attached(part)
               added == graph[Type].kind = "struct" /\ ~InlinePart
           IN  /\ r \in NodeRecords /\ r.type = q.type /\ r.baseKind = q.baseKind /\ r.op = q.op
               /\ r.structuralFast = q.structuralFast /\ r.encScratch = q.encScratch
               /\ Refs(r) = Refs(q) \cup {part}
               /\ \A f \in Range(r.fields) : f \in Range(q.fields) \/ (added /\ f.node = part /\ f.op = heap[part].op)
               /\ added => With(part).fields # q.fields /\ r.elem = q.elem /\ r.encMapKey = q.encMapKey
               /\ ~added => With(part).fields = q.fields
               /\ mode = "encode" /\ InlinePart =>
                    r.encMapKey = Len(encScratchTypes) /\ r.encBacking = encBackingSlots /\ q.encMapKey = -1
               /\ ~(mode = "encode" /\ InlinePart) => r.encMapKey = q.encMapKey /\ r.encBacking = q.encBacking
               /\ q.elem = 0
  <1> DEFINE q == heap[Frame.node]
             added == graph[Type].kind = "struct" /\ ~InlinePart
             field == [node |-> part, op |-> heap[part].op]
             fields == IF added THEN Append(q.fields, field) ELSE q.fields
             elem == IF added THEN q.elem ELSE part
             keyed == InlinePart /\ ~compilesDecode /\ mode # "dynamic"
             key == IF keyed THEN Len(encScratchTypes) ELSE q.encMapKey
             back == IF keyed THEN encBackingSlots ELSE q.encBacking
  <1>1. /\ q \in NodeRecords /\ FrameOk(Len(stack)) /\ Frame = stack[Len(stack)] /\ Type = TypeAt(Len(stack)) /\ Type \in Types
    BY FrameIs
  <1>2. q.elem = 0 /\ (graph[Type].inline => q.encMapKey = -1)
    BY <1>1 DEF FrameOk
  <1>3. q.fields \in Seq(Copies) /\ q.elem \in Nat /\ q.encMapKey \in Slots /\ q.encBacking \in Slots
    BY <1>1 DEF NodeRecords
  <1>4. field \in Copies /\ part \in Nat /\ part # 0
    <2>1. heap[part] \in NodeRecords
      BY ElementOfSeq DEF CompilerTypeOK
    <2>2. part \in Nat /\ part # 0
      BY LenProperties DEF CompilerTypeOK
    <2>. QED
      BY <2>1, <2>2 DEF NodeRecords, Copies
  <1> HIDE DEF field
  <1>5. /\ Append(q.fields, field) \in Seq(Copies) /\ Len(Append(q.fields, field)) = Len(q.fields) + 1
        /\ \A i \in 1..Len(q.fields) : Append(q.fields, field)[i] = q.fields[i]
        /\ Append(q.fields, field)[Len(q.fields) + 1] = field
    <2>1. PICK s : s = q.fields
      OBVIOUS
    <2>2. s \in Seq(Copies) /\ field \in Copies
      BY <1>3, <1>4, <2>1
    <2>3. /\ Append(s, field) \in Seq(Copies) /\ Len(Append(s, field)) = Len(s) + 1
          /\ \A i \in 1..Len(s) : Append(s, field)[i] = s[i]
          /\ Append(s, field)[Len(s) + 1] = field
      BY ONLY <2>2, AppendProperties
    <2>. QED
      BY ONLY <2>1, <2>3
  <1>6. Range(Append(q.fields, field)) = Range(q.fields) \cup {field} /\ Append(q.fields, field) # q.fields
    <2> DEFINE a == Append(q.fields, field)
               l == Len(q.fields)
    <2>1. Range(a) = { a[i] : i \in 1..(l + 1) } /\ Range(q.fields) = { q.fields[i] : i \in 1..l } /\ l \in Nat
      BY <1>3, <1>5, RangeEquality, LenProperties
    <2>2. a # q.fields
      <3>1. Len(a) # Len(q.fields)
        BY <1>5, <2>1
      <3>. QED
        BY <3>1
    <2>3. (\A i \in 1..l : a[i] = q.fields[i]) /\ a[l + 1] = field
      BY <1>5
    <2> HIDE DEF a, l
    <2>4. \A i : i \in 1..(l + 1) <=> i \in 1..l \/ i = l + 1
      BY <2>1
    <2>5. Range(a) = Range(q.fields) \cup {field}
      BY ONLY <2>1, <2>3, <2>4
    <2>. QED
      BY <2>2, <2>5 DEF a
  <1>7. /\ fields \in Seq(Copies) /\ elem \in Nat /\ Range(fields) = Range(q.fields) \cup (IF added THEN {field} ELSE {})
        /\ (added => fields # q.fields)
    BY <1>3, <1>4, <1>5, <1>6
  <1>8. key \in Slots /\ back \in Slots
    BY <1>3, LenProperties DEF Slots, CompilerTypeOK
  <1>9. With(part) = [q EXCEPT !.fields = fields, !.elem = elem]
    BY <1>1 DEF With, field, NodeRecords
  <1>10. Attached(part) = [q EXCEPT !.fields = fields, !.elem = elem, !.encMapKey = key, !.encBacking = back]
    BY <1>1, <1>9 DEF Attached, Reserved, NodeRecords
  <1> HIDE DEF q, fields, elem, key, back, added, keyed
  <1>11. LET r == Attached(part)
         IN  /\ r \in NodeRecords /\ r.type = q.type /\ r.baseKind = q.baseKind /\ r.op = q.op
             /\ r.structuralFast = q.structuralFast /\ r.encScratch = q.encScratch /\ r.fields = fields /\ r.elem = elem
             /\ r.encMapKey = key /\ r.encBacking = back
    BY <1>1, <1>7, <1>8, <1>10 DEF NodeRecords
  <1>12. With(part).fields = fields
    BY <1>1, <1>9 DEF NodeRecords
  <1>13. Refs(Attached(part)) = Refs(q) \cup {part}
    <2>1. field.node = part
      BY DEF field
    <2>2. Refs(Attached(part)) = { f.node : f \in Range(fields) } \cup ({elem} \ {0})
      BY <1>11 DEF Refs
    <2>3. Refs(q) = { f.node : f \in Range(q.fields) }
      BY <1>2 DEF Refs, q
    <2>4. CASE added
      BY <1>2, <1>7, <2>1, <2>2, <2>3, <2>4 DEF elem, q
    <2>5. CASE ~added
      BY <1>4, <1>7, <2>2, <2>3, <2>5 DEF elem
    <2>. QED
      BY <2>4, <2>5
  <1>14. \A f \in Range(Attached(part).fields) : f \in Range(q.fields) \/ (added /\ f.node = part /\ f.op = heap[part].op)
    <2>1. field.node = part /\ field.op = heap[part].op
      BY DEF field
    <2>. QED
      BY <1>7, <1>11, <2>1
  <1>15. /\ mode = "encode" /\ InlinePart => key = Len(encScratchTypes) /\ back = encBackingSlots /\ q.encMapKey = -1
         /\ ~(mode = "encode" /\ InlinePart) => key = q.encMapKey /\ back = q.encBacking
         /\ added => elem = q.elem /\ key = q.encMapKey
         /\ ~added => fields = q.fields
    <2>1. InlinePart => graph[Type].inline
      BY DEF InlinePart
    <2>2. mode \in {"decode", "replace", "encode", "dynamic"}
      BY DEF CompilerAssumption, CompilerTypeOK
    <2>3. added => ~InlinePart
      BY DEF added
    <2>4. keyed = (mode = "encode" /\ InlinePart)
      BY <2>2 DEF keyed, compilesDecode
    <2>. QED
      BY <1>2, <2>1, <2>3, <2>4 DEF key, back, elem, fields, q
  <1>. QED
    BY <1>2, <1>7, <1>11, <1>12, <1>13, <1>14, <1>15 DEF added, q

\* A part is attached that has a node, the one that was returned if one was.
LEMMA AttachKeeps ==
    ASSUME CompilerAssumption, Inv, stack # <<>>, NEW part, Attach(part), step \in {"run", "ok"},
           Frame.next <= Len(graph[Type].parts), nodes[Part] = part, part # 0, step = "ok" => part = ret
    PROVE  /\ CompilerTypeOK' /\ part \in 1..Len(heap) /\ \E l \in 1..createdCount : Journal[l] = Part /\ nodes[Journal[l]] = part
           /\ Len(heap') = Len(heap) /\ heap'[Frame.node] = Attached(part)
           /\ \A x \in 1..Len(heap) : x # Frame.node => heap'[x] = heap[x]
           /\ Len(stack') = Len(stack) /\ \A i \in 1..(Len(stack) - 1) : stack'[i] = stack[i]
           /\ stack'[Len(stack)] = [Frame EXCEPT !.next = @ + 1]
           /\ Len(encScratchTypes) <= Len(encScratchTypes')
           /\ \A m \in 1..Len(encScratchTypes) : encScratchTypes'[m] = encScratchTypes[m]
           /\ Journal' = Journal /\ Part \in Types
  <1>1. /\ CompilerTypeOK /\ TableOk /\ StackOk /\ LevelsOk /\ StepOk
    BY DEF Inv
  <1>2. /\ Len(stack) \in Nat \ {0} /\ Frame = stack[Len(stack)] /\ Frame \in FrameRecords /\ Frame.node \in 1..Len(heap)
        /\ heap[Frame.node] \in NodeRecords /\ Type \in Types /\ FrameOk(Len(stack)) /\ Frame.next \in Nat
    BY <1>1, FrameIs
  <1>3. /\ heap' = [heap EXCEPT ![Frame.node] = Attached(part)]
        /\ decodeNeedsFinalize' =
             (decodeNeedsFinalize \/ (compilesDecode /\ With(part).fields # heap[Frame.node].fields /\ heap[part].baseKind = "invalid"))
        /\ IF InlinePart /\ ~compilesDecode THEN reserveTypedEncodeMap(Type) ELSE UNCHANGED resources
        /\ stack' = [stack EXCEPT ![Len(stack)].next = @ + 1] /\ step' = "run"
        /\ UNCHANGED <<graph, mode, nodes, journal, ret>>
    BY DEF Attach, Attached, With
  <1>4. /\ heap \in Seq(NodeRecords) /\ stack \in Seq(FrameRecords) /\ encScratchTypes \in Seq(ScratchTypes)
        /\ nodes \in [Types -> Nat] /\ JournalOk /\ createdCount \in Nat /\ encBackingSlots \in Nat /\ encHasMap \in BOOLEAN
        /\ Len(heap) \in Nat /\ Len(encScratchTypes) \in Nat /\ decodeNeedsFinalize \in BOOLEAN
    BY <1>1, LenProperties DEF CompilerTypeOK, JournalOk
  <1>5. Journal' = Journal
    BY <1>3 DEF Journal, JournalAt, journal
  <1>6. Part \in Types
    <2>1. graph[Type].parts \in Seq(Types)
      BY <1>1, <1>2, GraphIs
    <2>2. Frame.next \in 1..Len(graph[Type].parts)
      <3>1. Frame.next >= 1
        BY <1>2 DEF FrameOk
      <3>2. Len(graph[Type].parts) \in Nat
        BY <2>1, LenProperties
      <3>. QED
        BY <1>2, <3>1, <3>2
    <2>. QED
      BY <2>1, <2>2, ElementOfSeq DEF Part
  <1>7. PICK l \in 1..createdCount : Journal[l] = Part
    BY <1>1, <1>6 DEF TableOk
  <1>8. part \in 1..Len(heap)
    <2>1. Level(Len(stack) + 1) /\ Cut(Len(stack) + 1) = createdCount
      BY <1>1, <1>2 DEF LevelsOk, Cut
    <2>. QED
      BY <1>7, <2>1 DEF Level, Whole
  <1>9. Attached(part) \in NodeRecords
    BY <1>1, <1>8, AttachedIs
  <1>10. /\ heap' \in Seq(NodeRecords) /\ Len(heap') = Len(heap) /\ heap'[Frame.node] = Attached(part)
         /\ \A x \in 1..Len(heap) : x # Frame.node => heap'[x] = heap[x]
    BY <1>2, <1>3, <1>4, <1>9, ExceptSeq
  <1>11. /\ stack' \in Seq(FrameRecords) /\ Len(stack') = Len(stack) /\ stack'[Len(stack)] = [Frame EXCEPT !.next = @ + 1]
         /\ \A i \in 1..(Len(stack) - 1) : stack'[i] = stack[i]
    <2> DEFINE f == [Frame EXCEPT !.next = @ + 1]
    <2>1. f \in FrameRecords
      <3>1. \A x \in FrameRecords : [x EXCEPT !.next = @ + 1] \in FrameRecords
        BY DEF FrameRecords
      <3>. QED
        BY <1>2, <3>1
    <2>2. stack' = [stack EXCEPT ![Len(stack)] = f]
      BY <1>2, <1>3
    <2> HIDE DEF f
    <2>3. Len(stack) \in 1..Len(stack) /\ \A i \in 1..(Len(stack) - 1) : i \in 1..Len(stack) /\ i # Len(stack)
      BY <1>2
    <2>4. /\ stack' \in Seq(FrameRecords) /\ Len(stack') = Len(stack)
          /\ \A j \in 1..Len(stack) : stack'[j] = IF j = Len(stack) THEN f ELSE stack[j]
      BY <1>4, <2>1, <2>2, <2>3, ExceptSeq, SMTT(60)
    <2>5. stack'[Len(stack)] = f /\ \A i \in 1..(Len(stack) - 1) : stack'[i] = stack[i]
      BY <2>3, <2>4
    <2>. QED
      BY <2>4, <2>5 DEF f
  <1>12. <<"key", Type>> \in ScratchTypes
    BY <1>2 DEF ScratchTypes
  <1>13. /\ encScratchTypes' \in Seq(ScratchTypes) /\ encBackingSlots' \in Nat /\ encHasMap' \in BOOLEAN
         /\ Len(encScratchTypes) <= Len(encScratchTypes')
         /\ \A m \in 1..Len(encScratchTypes) : encScratchTypes'[m] = encScratchTypes[m]
    <2>1. CASE encScratchTypes' = encScratchTypes /\ encBackingSlots' = encBackingSlots /\ encHasMap' \in BOOLEAN
      BY <1>4, <2>1
    <2>2. CASE encScratchTypes' = Append(encScratchTypes, <<"key", Type>>) /\ encBackingSlots' = encBackingSlots + 1 /\ encHasMap' \in BOOLEAN
      <3>1. /\ Append(encScratchTypes, <<"key", Type>>) \in Seq(ScratchTypes)
            /\ Len(Append(encScratchTypes, <<"key", Type>>)) = Len(encScratchTypes) + 1
            /\ \A m \in 1..Len(encScratchTypes) : Append(encScratchTypes, <<"key", Type>>)[m] = encScratchTypes[m]
        BY <1>4, <1>12, AppendProperties
      <3>. QED
        BY <1>4, <2>2, <3>1
    <2>. QED
      BY <1>3, <1>4, <2>1, <2>2 DEF reserveTypedEncodeMap, resources
  <1>14. CompilerTypeOK'
    BY <1>1, <1>3, <1>10, <1>11, <1>13 DEF CompilerTypeOK, JournalOk, journal, Running
  <1>. QED
    BY <1>5, <1>6, <1>7, <1>8, <1>10, <1>11, <1>13, <1>14

\* The part becomes the owner's; every level further out is below the write.
LEMMA AttachOk ==
    ASSUME CompilerAssumption, Inv, stack # <<>>, NEW part, Attach(part), step \in {"run", "ok"},
           Frame.next <= Len(graph[Type].parts), nodes[Part] = part, part # 0, step = "ok" => part = ret
    PROVE  Inv'
  <1> DEFINE q == heap[Frame.node]
             r == Attached(part)
             p == Frame.created + 1
             c == createdCount
             added == graph[Type].kind = "struct" /\ ~InlinePart
  <1>1. /\ CompilerTypeOK /\ TableOk /\ StackOk /\ LevelsOk /\ StepOk
    BY DEF Inv
  <1>2. /\ CompilerTypeOK' /\ part \in 1..Len(heap) /\ Len(heap') = Len(heap) /\ heap'[Frame.node] = r
        /\ \A x \in 1..Len(heap) : x # Frame.node => heap'[x] = heap[x]
        /\ Len(stack') = Len(stack) /\ \A i \in 1..(Len(stack) - 1) : stack'[i] = stack[i]
    BY AttachKeeps
  <1>3. /\ stack'[Len(stack)] = [Frame EXCEPT !.next = @ + 1] /\ Len(encScratchTypes) <= Len(encScratchTypes')
        /\ \A m \in 1..Len(encScratchTypes) : encScratchTypes'[m] = encScratchTypes[m]
        /\ Journal' = Journal /\ Part \in Types
    BY AttachKeeps
  <1>4. PICK l \in 1..c : Journal[l] = Part /\ nodes[Journal[l]] = part
    BY AttachKeeps
  <1>5. PICK n : n = Len(stack)
    OBVIOUS
  <1>6. /\ n \in Nat \ {0} /\ Frame = stack[n] /\ Frame \in FrameRecords /\ Frame.node \in 1..Len(heap)
        /\ q \in NodeRecords /\ Type \in Types /\ FrameOk(n) /\ Frame.next \in Nat /\ Type = TypeAt(n) /\ Type = q.type
        /\ Frame.created \in Nat /\ Frame.scratch \in Nat
    BY <1>1, <1>5, FrameIs
  <1>7. /\ decodeNeedsFinalize' =
             (decodeNeedsFinalize \/ (compilesDecode /\ With(part).fields # q.fields /\ heap[part].baseKind = "invalid"))
        /\ (IF InlinePart /\ ~compilesDecode THEN reserveTypedEncodeMap(Type) ELSE UNCHANGED resources)
        /\ step' = "run" /\ graph' = graph /\ mode' = mode /\ nodes' = nodes /\ createdCount' = c /\ ret' = ret
    BY DEF Attach, With, journal
  <1>8. /\ c \in Nat /\ Len(encScratchTypes) \in Nat /\ Len(heap) \in Nat /\ Len(encScratchTypes') \in Nat
        /\ encBackingSlots \in Nat /\ encHasMap \in BOOLEAN /\ decodeNeedsFinalize \in BOOLEAN
    BY <1>1, <1>2, LenProperties DEF CompilerTypeOK, JournalOk
  <1>9. /\ Frame.created < c /\ Journal[p] = Type /\ nodes[Type] = Frame.node /\ Frame.scratch <= Len(encScratchTypes)
        /\ p \in 1..c
    <2>1. Frame.created < c /\ Journal[p] = Type /\ nodes[Type] = Frame.node /\ Frame.scratch <= Len(encScratchTypes)
      BY <1>6 DEF FrameOk
    <2>. QED
      BY <1>6, <1>8, <2>1, SMTT(20)
  <1>10. /\ r \in NodeRecords /\ r.type = q.type /\ r.baseKind = q.baseKind /\ r.op = q.op
         /\ r.structuralFast = q.structuralFast /\ r.encScratch = q.encScratch
         /\ Refs(r) = Refs(q) \cup {part}
         /\ \A f \in Range(r.fields) : f \in Range(q.fields) \/ (added /\ f.node = part /\ f.op = heap[part].op)
         /\ (added => With(part).fields # q.fields /\ r.elem = q.elem /\ r.encMapKey = q.encMapKey)
         /\ (mode = "encode" /\ InlinePart =>
              r.encMapKey = Len(encScratchTypes) /\ r.encBacking = encBackingSlots /\ q.encMapKey = -1)
         /\ (~(mode = "encode" /\ InlinePart) => r.encMapKey = q.encMapKey /\ r.encBacking = q.encBacking)
         /\ q.elem = 0
    BY <1>1, <1>2, AttachedIs
  <1> HIDE DEF q, r, p, c, added
  <1>11. /\ Level(n + 1) /\ Cut(n + 1) = c /\ ScratchCut(n + 1) = Len(encScratchTypes)
         /\ BackingCut(n + 1) = encBackingSlots /\ MapCut(n + 1) = encHasMap
    BY <1>1, <1>5, <1>6 DEF LevelsOk, Cut, ScratchCut, BackingCut, MapCut, c
  <1>12. p \in Open(n + 1) /\ Open(n + 1) \subseteq 1..c
    <2>1. Open(n + 1) = { stack[j].created + 1 : j \in 1..n }
      BY <1>6 DEF Open
    <2>2. n \in 1..n /\ p = stack[n].created + 1 /\ n + 1 \in 1..(Len(stack) + 1)
      BY <1>5, <1>6 DEF p
    <2>3. Open(n + 1) \subseteq 1..Cut(n + 1)
      BY <1>1, <2>2, CutsAre
    <2>. QED
      BY <1>11, <2>1, <2>2, <2>3
  <1>13. Open(n + 1)' = Open(n + 1) /\ Wait(n + 1)' = Open(n + 1) /\ Wait(n + 1) = Open(n + 1) \cup Returned
    <2>1. \A j \in 1..n : stack'[j].created = stack[j].created
      <3>1. stack'[n].created = Frame.created
        BY <1>3, <1>5, <1>6 DEF FrameRecords
      <3>2. \A j \in 1..n : j \in 1..(n - 1) \/ j = n
        BY <1>6
      <3>. QED
        BY <1>2, <1>5, <1>6, <3>1, <3>2
    <2>2. Open(n + 1)' = Open(n + 1)
      <3>1. Open(n + 1) = { stack[j].created + 1 : j \in 1..n } /\ Open(n + 1)' = { stack'[j].created + 1 : j \in 1..n }
        BY <1>6 DEF Open
      <3>. QED
        BY <2>1, <3>1
    <2>3. Returned' = {}
      BY <1>7 DEF Returned
    <2>4. ~(n + 1 <= Len(stack)) /\ ~(n + 1 <= Len(stack'))
      BY <1>2, <1>5, <1>6
    <2>. QED
      BY <2>2, <2>3, <2>4 DEF Wait
  <1>14. \A k \in 1..c : /\ nodes[Journal[k]] \in 1..Len(heap)
                         /\ RecordOk(graph, mode, Journal, nodes, heap, Open(n + 1), c, decodeNeedsFinalize, k, heap[nodes[Journal[k]]])
    BY <1>11 DEF Level, Whole
  <1>15. nodes[Journal[p]] = Frame.node /\ heap[nodes[Journal[p]]] = q
    BY <1>9 DEF q
  <1>16. \A k \in 1..c : k # p => nodes[Journal[k]] # Frame.node
    <2> SUFFICES ASSUME NEW k \in 1..c, k # p, nodes[Journal[k]] = Frame.node PROVE FALSE
      OBVIOUS
    <2>1. heap[nodes[Journal[k]]].type = Journal[k]
      BY <1>14 DEF RecordOk
    <2>2. Journal[k] = Journal[p]
      BY <1>6, <1>9, <2>1 DEF q
    <2>. QED
      BY <1>1, <1>9, <2>2 DEF TableOk, c
  <1>17. RecordOk(graph, mode, Journal, nodes, heap, Open(n + 1), c, decodeNeedsFinalize, p, q)
    BY <1>9, <1>14, <1>15
  <1>18. decodeNeedsFinalize => decodeNeedsFinalize'
    BY <1>7, <1>8
  <1>19. ASSUME NEW f \in Range(r.fields)
         PROVE  CopyOk(mode, Journal, nodes, heap', Open(n + 1), decodeNeedsFinalize', f)
    <2>1. CASE f \in Range(q.fields)
      <3>1. CopyOk(mode, Journal, nodes, heap, Open(n + 1), decodeNeedsFinalize, f) /\ f.node \in Refs(q)
        BY <1>17, <2>1 DEF RecordOk, Refs
      <3>2. f.node \in 1..Len(heap)
        BY <1>14, <1>17, <3>1 DEF RecordOk
      <3>3. CASE f.op = heap[f.node].op /\ \A o \in Open(n + 1) : nodes[Journal[o]] # f.node
        <4>1. f.node # Frame.node
          BY <1>12, <1>15, <3>3
        <4>2. heap'[f.node] = heap[f.node]
          BY <1>2, <3>2, <4>1
        <4>. QED
          BY <3>3, <4>2 DEF CopyOk
      <3>4. CASE IF Decodes(mode) THEN decodeNeedsFinalize ELSE f.op = "invalid"
        BY <1>18, <3>4 DEF CopyOk
      <3>. QED
        BY <3>1, <3>3, <3>4 DEF CopyOk
    <2>2. CASE added /\ f.node = part /\ f.op = heap[part].op
      <3>1. CASE \E o \in Open(n + 1) : nodes[Journal[o]] = part
        <4>1. PICK o \in Open(n + 1) : nodes[Journal[o]] = part
          BY <3>1
        <4>2. heap[part].baseKind = "invalid" /\ (Decodes(mode) \/ heap[part].op = "invalid")
          BY <1>12, <1>14, <4>1 DEF RecordOk
        <4>3. Decodes(mode) => decodeNeedsFinalize'
          BY <1>7, <1>10, <2>2, <4>2 DEF Decodes, compilesDecode
        <4>. QED
          BY <2>2, <4>2, <4>3 DEF CopyOk
      <3>2. CASE \A o \in Open(n + 1) : nodes[Journal[o]] # part
        <4>1. part # Frame.node
          BY <1>12, <1>15, <3>2
        <4>2. heap'[part] = heap[part]
          BY <1>2, <4>1
        <4>. QED
          BY <2>2, <3>2, <4>2 DEF CopyOk
      <3>. QED
        BY <3>1, <3>2
    <2>. QED
      BY <1>10, <2>1, <2>2
  <1>20. RecordOk(graph, mode, Journal', nodes', heap', Open(n + 1)', createdCount', decodeNeedsFinalize', p, r)
    <2>1. \A m \in Refs(r) : \E k \in 1..c : nodes[Journal[k]] = m
      BY <1>4, <1>10, <1>17 DEF RecordOk
    <2>2. q.baseKind = "invalid" /\ q.structuralFast = FALSE /\ q.encScratch = -1 /\ (Decodes(mode) \/ q.op = "invalid") /\ q.type = Journal[p]
      BY <1>12, <1>17 DEF RecordOk
    <2>3. RecordOk(graph, mode, Journal, nodes, heap', Open(n + 1), c, decodeNeedsFinalize', p, r)
      BY <1>10, <1>12, <1>19, <2>1, <2>2 DEF RecordOk
    <2>. QED
      BY <1>3, <1>7, <1>13, <2>3
  <1>21. \A k \in 1..c : Refs(heap[nodes[Journal[k]]]) \subseteq Refs(heap'[nodes[Journal[k]]])
    <2> SUFFICES ASSUME NEW k \in 1..c PROVE Refs(heap[nodes[Journal[k]]]) \subseteq Refs(heap'[nodes[Journal[k]]])
      OBVIOUS
    <2>1. CASE k = p
      BY <1>2, <1>10, <1>15, <2>1
    <2>2. CASE k # p
      BY <1>2, <1>14, <1>16, <2>2
    <2>. QED
      BY <2>1, <2>2
  <1>22. Reached(Journal', nodes', heap', Wait(n + 1)', createdCount')
    <2>1. SUFFICES ASSUME NEW k \in 2..c, k \notin Open(n + 1)
                   PROVE  \E m \in 1..(k - 1) : nodes[Journal[k]] \in Refs(heap'[nodes[Journal[m]]])
      BY <1>3, <1>7, <1>13 DEF Reached
    <2>2. Reached(Journal, nodes, heap, Open(n + 1) \cup Returned, c)
      BY <1>11, <1>13 DEF Level
    <2>3. CASE k \in Returned
      <3>1. step = "ok" /\ nodes[Journal[k]] = part
        BY <2>3 DEF Returned
      <3>2. PICK m \in (Frame.created + 2)..c : Journal[m] = Part
        BY <1>1, <3>1 DEF StepOk, c
      <3>3. k \in 1..c /\ m \in 1..c /\ p \in 1..(m - 1)
        <4>1. \A x, z \in Nat : \A y \in (x + 2)..z : y \in 1..z /\ x + 1 \in 1..(y - 1)
          OBVIOUS
        <4>2. m \in 1..c /\ Frame.created + 1 \in 1..(m - 1)
          BY <1>6, <1>8, <4>1
        <4>3. k \in 1..c
          BY <1>8
        <4>. QED
          BY <4>2, <4>3 DEF p
      <3>4. heap[part].type = Journal[k] /\ heap[part].type = Journal[m]
        BY <1>14, <3>1, <3>2, <3>3 DEF RecordOk
      <3>5. k = m
        BY <1>1, <3>3, <3>4 DEF TableOk, c
      <3>6. nodes[Journal[k]] \in Refs(heap'[nodes[Journal[p]]])
        BY <1>2, <1>10, <1>15, <3>1
      <3>. QED
        BY <3>3, <3>5, <3>6
    <2>4. CASE k \notin Returned
      <3>1. PICK m \in 1..(k - 1) : nodes[Journal[k]] \in Refs(heap[nodes[Journal[m]]])
        BY <2>1, <2>2, <2>4 DEF Reached
      <3>2. m \in 1..c
        BY <1>8, <3>1
      <3>. QED
        BY <1>21, <3>1, <3>2
    <2>. QED
      BY <2>3, <2>4
  <1>23. ASSUME mode = "encode"
         PROVE  Takes(p, Cut(n + 1), heap[nodes[Journal[p]]], r, Journal'[p], encScratchTypes, encScratchTypes',
                      ScratchCut(n + 1), Len(encScratchTypes'), BackingCut(n + 1), encBackingSlots', MapCut(n + 1), encHasMap')
    <2>1. heap[nodes[Journal[p]]] = q /\ Journal'[p] = Type /\ r.encScratch = q.encScratch /\ q.encScratch = -1
      BY <1>3, <1>9, <1>10, <1>12, <1>15, <1>17 DEF RecordOk
    <2>2. CASE InlinePart
      <3>1. /\ encHasMap' = TRUE /\ encScratchTypes' = Append(encScratchTypes, <<"key", Type>>) /\ encBackingSlots' = encBackingSlots + 1
        BY <1>7, <1>23, <2>2 DEF reserveTypedEncodeMap, compilesDecode
      <3>2. Len(encScratchTypes') = Len(encScratchTypes) + 1 /\ encScratchTypes'[Len(encScratchTypes) + 1] = <<"key", Type>>
        <4>1. encScratchTypes \in Seq(ScratchTypes) /\ <<"key", Type>> \in ScratchTypes
          BY <1>1, <1>6 DEF CompilerTypeOK, ScratchTypes
        <4>. QED
          BY <3>1, <4>1, AppendProperties
      <3>3. r.encMapKey = Len(encScratchTypes) /\ r.encBacking = encBackingSlots /\ Keyed(r) /\ ~Keyed(q)
        BY <1>8, <1>10, <1>23, <2>2 DEF Keyed
      <3>4. \A m \in 1..Len(encScratchTypes) : encScratchTypes'[m] = encScratchTypes[m]
        BY <1>3
      <3>. QED
        BY ONLY <1>8, <1>11, <2>1, <3>1, <3>2, <3>3, <3>4 DEF Takes
    <2>3. CASE ~InlinePart
      <3>1. encHasMap' = encHasMap /\ encScratchTypes' = encScratchTypes /\ encBackingSlots' = encBackingSlots
        BY <1>7, <2>3 DEF resources
      <3>2. r.encMapKey = q.encMapKey /\ r.encBacking = q.encBacking /\ (Keyed(r) <=> Keyed(q))
        BY <1>10, <2>3 DEF Keyed
      <3>3. Keyed(q) => encHasMap
        <4>1. Owned(Journal, nodes, heap, encScratchTypes, c, Len(encScratchTypes), encBackingSlots, encHasMap)
          BY <1>11, <1>23 DEF Level
        <4>. QED
          BY <1>9, <1>15, <4>1 DEF Owned
      <3>4. encHasMap' <=> (MapCut(n + 1) \/ Keyed(r))
        BY ONLY <1>8, <1>11, <3>1, <3>2, <3>3
      <3>5. \A m \in 1..ScratchCut(n + 1) : encScratchTypes'[m] = encScratchTypes[m]
        BY <3>1
      <3>6. p <= Cut(n + 1) /\ Len(encScratchTypes') = ScratchCut(n + 1) /\ encBackingSlots' = BackingCut(n + 1)
        BY <1>9, <1>11, <3>1
      <3>. QED
        BY ONLY <2>1, <3>2, <3>4, <3>5, <3>6 DEF Takes
    <2>. QED
      BY <2>2, <2>3
  <1>24. TableOk'
    BY <1>1, <1>3, <1>7 DEF TableOk, c
  <1>25. Level(n + 1)'
    <2>1. PICK i : i = n + 1
      OBVIOUS
    <2>2. i \in Nat /\ i = Len(stack') + 1 /\ p \in 1..createdCount'
      BY <1>2, <1>5, <1>6, <1>7, <1>9, <2>1
    <2>3. Adds(Journal, Journal', nodes, nodes', heap, heap', Cut(i), createdCount', p)
      <3>1. \A k \in 1..c : k # p => heap'[nodes[Journal[k]]] = heap[nodes[Journal[k]]]
        BY <1>2, <1>14, <1>16
      <3>. QED
        BY <1>3, <1>7, <1>11, <2>1, <3>1 DEF Adds
    <2>4. Forms(Open(i), Open(i)', Cut(i), createdCount', p)
      BY <1>7, <1>11, <1>12, <1>13, <2>1 DEF Forms
    <2>5. nodes'[Journal'[p]] \in 1..Len(heap') /\ heap'[nodes'[Journal'[p]]] = r
      BY <1>2, <1>3, <1>6, <1>7, <1>15
    <2>6. /\ Level(i) /\ Cut(i) \in Nat /\ ScratchCut(i) \in Nat /\ BackingCut(i) \in Nat /\ MapCut(i) \in BOOLEAN
          /\ Open(i) \subseteq 1..Cut(i) /\ Len(heap) <= Len(heap')
      BY <1>2, <1>8, <1>11, <1>12, <2>1
    <2>7. /\ RecordOk(graph, mode, Journal', nodes', heap', Open(i)', createdCount', decodeNeedsFinalize', p, r)
          /\ Reached(Journal', nodes', heap', Wait(i)', createdCount')
          /\ mode = "encode" =>
               Takes(p, Cut(i), heap[nodes[Journal[p]]], r, Journal'[p], encScratchTypes, encScratchTypes',
                     ScratchCut(i), Len(encScratchTypes'), BackingCut(i), encBackingSlots', MapCut(i), encHasMap')
      BY <1>20, <1>22, <1>23, <2>1
    <2>8. Level(i)'
      BY <1>1, <1>2, <1>7, <1>10, <1>18, <1>24, <2>2, <2>3, <2>4, <2>5, <2>6, <2>7, LevelPut
    <2>. QED
      BY <2>1, <2>8
  <1>26. OuterKept
    <2>1. ASSUME NEW m \in 1..Frame.scratch
          PROVE  encScratchTypes'[m] = encScratchTypes[m]
      <3>1. m \in 1..Len(encScratchTypes)
        BY <1>6, <1>8, <1>9
      <3>. QED
        BY <1>3, <3>1
    <2>2. Frame.created <= c
      BY <1>6, <1>8, <1>9
    <2>3. Frame.scratch <= Len(encScratchTypes')
      BY <1>3, <1>6, <1>8, <1>9
    <2>4. Len(heap) <= Len(heap')
      BY <1>2, <1>8
    <2>. QED
      BY <1>2, <1>3, <1>7, <1>18, <2>1, <2>2, <2>3, <2>4 DEF OuterKept
  <1>27. /\ stack'[n].node = Frame.node /\ stack'[n].created = Frame.created /\ stack'[n].scratch = Frame.scratch
         /\ stack'[n].backing = Frame.backing /\ stack'[n].hadMap = Frame.hadMap /\ stack'[n].next = Frame.next + 1
    BY <1>3, <1>5, <1>6 DEF FrameRecords
  <1>28. heap'[Frame.node].type = Type
    BY <1>2, <1>6, <1>10
  <1>29. FrameOk(n)'
    <2> DEFINE parts == graph[Type].parts
    <2>1. /\ \A x \in 1..(Frame.next - 1) : x <= Len(parts) /\ \E k \in 1..Cut(n + 1) : Journal[k] = parts[x]
          /\ Frame.next >= 1
      BY <1>6 DEF FrameOk
    <2>2. Len(parts) \in Nat /\ (graph[Type].kind # "struct" => Len(parts) <= 1 /\ ~graph[Type].inline)
      <3>1. parts \in Seq(Types) /\ (graph[Type].kind # "struct" => Len(parts) <= 1 /\ ~graph[Type].inline)
        BY <1>1, <1>6, GraphIs
      <3>. QED
        BY <3>1, LenProperties
    <2>3. Cut(n + 1)' = c /\ Cut(n + 1) = c /\ TypeAt(n)' = Type /\ ~(n < Len(stack'))
      <3>1. Cut(n + 1)' = c
        BY <1>2, <1>5, <1>6, <1>7 DEF Cut
      <3>2. TypeAt(n)' = Type
        BY <1>27, <1>28 DEF TypeAt
      <3>. QED
        BY <1>2, <1>5, <1>6, <1>11, <3>1, <3>2
    <2>4. ASSUME NEW x \in 1..Frame.next
          PROVE  x <= Len(parts) /\ \E k \in 1..c : Journal[k] = parts[x]
      <3>1. CASE x = Frame.next
        BY <1>4, <3>1 DEF Part
      <3>2. CASE x # Frame.next
        <4>1. x \in 1..(Frame.next - 1)
          BY <1>6, <3>2
        <4>. QED
          BY <2>1, <2>3, <4>1
      <3>. QED
        BY <3>1, <3>2
    <2>5. ASSUME Frame.next + 1 <= Len(parts)
          PROVE  r.elem = 0 /\ (graph[Type].inline => r.encMapKey = -1)
      <3>1. ~InlinePart
        BY <1>6, <2>2, <2>5 DEF InlinePart
      <3>2. ~(Len(parts) <= 1)
        <4>1. \A x, y \in Nat : x >= 1 /\ x + 1 <= y => ~(y <= 1)
          OBVIOUS
        <4>. QED
          BY <1>6, <2>1, <2>2, <2>5, <4>1
      <3>3. added
        BY <2>2, <3>1, <3>2 DEF added
      <3>4. graph[Type].inline => q.encMapKey = -1
        BY <1>5, <1>6 DEF FrameOk, q
      <3>. QED
        BY <1>10, <3>3, <3>4
    <2>6. stack'[n].next - 1 = Frame.next /\ stack'[n].next >= 1
      <3>1. \A x \in Nat : x >= 1 => x + 1 - 1 = x /\ x + 1 >= 1
        OBVIOUS
      <3>2. Frame.next \in Nat /\ Frame.next >= 1
        BY <1>6, <2>1
      <3>3. stack'[n].next = Frame.next + 1
        BY <1>27
      <3>. QED
        BY ONLY <3>1, <3>2, <3>3
    <2> HIDE DEF parts
    <2>7. /\ stack'[n].created < createdCount' /\ Journal'[stack'[n].created + 1] = Type
          /\ stack'[n].node \in 1..Len(heap') /\ nodes'[Type] = stack'[n].node
          /\ stack'[n].scratch <= Len(encScratchTypes')
      <3>1. Frame.scratch <= Len(encScratchTypes')
        BY <1>26 DEF OuterKept
      <3>. QED
        BY <1>2, <1>3, <1>6, <1>7, <1>9, <1>27, <3>1 DEF p
    <2>8. \A x \in 1..(stack'[n].next - 1) : x <= Len(parts) /\ \E k \in 1..Cut(n + 1)' : Journal'[k] = parts[x]
      BY <1>3, <2>3, <2>4, <2>6
    <2>9. stack'[n].next <= Len(parts) => heap'[stack'[n].node].elem = 0 /\ (graph[Type].inline => heap'[stack'[n].node].encMapKey = -1)
      BY <1>2, <1>27, <2>5
    <2>. QED
      BY <1>7, <2>3, <2>6, <2>7, <2>8, <2>9 DEF FrameOk, parts
  <1>30. StackOk' /\ \A i \in 1..n : Level(i)'
    <2>1. Len(stack') = n /\ \A i \in 1..(n - 1) : stack'[i] = stack[i]
      BY <1>2, <1>5
    <2>. QED
      BY <1>2, <1>5, <1>26, <1>27, <1>28, <1>29, <2>1, StackKept
  <1>31. LevelsOk'
    <2>1. ASSUME NEW i, i = Len(stack') + 1 PROVE Level(i)'
      <3>1. i = n + 1
        BY <1>2, <1>5, <2>1
      <3>. QED
        BY <1>25, <3>1
    <2>. QED
      BY <1>2, <1>5, <1>30, <2>1 DEF LevelsOk
  <1>32. StepOk'
    <2>1. stack' # <<>>
      <3>1. Len(stack') # 0
        BY <1>2, <1>5, <1>6
      <3>. QED
        BY <3>1
    <2>. QED
      BY <1>7, <2>1, NotYet DEF StepOk, Running
  <1>. QED
    BY <1>2, <1>24, <1>30, <1>31, <1>32 DEF Inv

\* The node that is returned waits for the call around, or is the plan's first.
LEMMA ReturnWaits ==
    ASSUME CompilerAssumption, CompilerTypeOK, StackOk, CompilerTypeOK', stack # <<>>, ReturnNode(Frame.node),
           nodes'[Type] = Frame.node, Frame.created < createdCount', Journal'[Frame.created + 1] = Type,
           NEW n, n = Len(stack)
    PROVE  /\ Open(n)' = Open(n) /\ Open(n) \subseteq Wait(n)' /\ n = Len(stack') + 1
           /\ Frame.created = 0 \/ Frame.created + 1 \in Wait(n)'
  <1>1. /\ n \in Nat \ {0} /\ Frame = stack[n] /\ Frame.created \in Nat
    BY FrameIs
  <1>2. Len(stack') = n - 1 /\ \A i \in 1..(n - 1) : stack'[i] = stack[i]
    BY FrontIs DEF ReturnNode
  <1>3. Open(n)' = Open(n)
    BY <1>2 DEF Open
  <1>4. Wait(n)' = Open(n)' \cup Returned'
    BY <1>1, <1>2 DEF Wait
  <1>5. Frame.created = 0 \/ Frame.created + 1 \in Returned'
    <2>1. CASE n = 1
      BY <1>1, <2>1 DEF StackOk
    <2>2. CASE n # 1
      <3>1. step' = "ok" /\ ret' = Frame.node
        BY <2>2 DEF ReturnNode
      <3>2. Frame.created + 1 \in 1..createdCount'
        <4>1. createdCount' \in Nat
          BY DEF CompilerTypeOK, JournalOk
        <4>2. \A x, y \in Nat : x < y => x + 1 \in 1..y
          OBVIOUS
        <4>. QED
          BY <1>1, <4>1, <4>2
      <3>3. nodes'[Journal'[Frame.created + 1]] = ret'
        BY <3>1
      <3>. QED
        BY <3>1, <3>2, <3>3 DEF Returned
    <2>. QED
      BY <2>1, <2>2
  <1>. QED
    BY <1>1, <1>2, <1>3, <1>4, <1>5

\* What the return of a node keeps, when it leaves the level it began with intact.
LEMMA Returns ==
    ASSUME CompilerAssumption, Inv, CompilerTypeOK', TableOk', stack # <<>>, OuterKept, ReturnNode(Frame.node),
           nodes'[Type] = Frame.node, Frame.created < createdCount', Journal'[Frame.created + 1] = Type,
           NEW n, n = Len(stack), Level(n)'
    PROVE  Inv'
  <1>1. /\ CompilerTypeOK /\ TableOk /\ StackOk /\ LevelsOk /\ StepOk
    BY DEF Inv
  <1>2. /\ n \in Nat \ {0} /\ Frame = stack[n] /\ Frame.created \in Nat /\ Type = TypeAt(n)
    BY <1>1, FrameIs
  <1>3. Len(stack') = n - 1 /\ (\A i \in 1..(n - 1) : stack'[i] = stack[i]) /\ ret' = Frame.node
        /\ stack' \in Seq(FrameRecords) /\ createdCount' \in Nat /\ graph' = graph
    BY <1>1, FrontIs DEF ReturnNode, CompilerTypeOK, JournalOk, OuterKept
  <1>4. StackOk' /\ \A i \in 1..(n - 1) : Level(i)' /\ FrameOk(i)' /\ TypeAt(i)' = TypeAt(i)
    BY <1>1, StackPopped DEF ReturnNode
  <1>5. LevelsOk'
    <2>1. ASSUME NEW i, i = Len(stack') + 1 PROVE Level(i)'
      <3>1. i = n
        BY <1>2, <1>3, <2>1
      <3>. QED
        BY <3>1
    <2>. QED
      BY <1>3, <1>4, <2>1 DEF LevelsOk
  <1>6. StepOk'
    <2>1. CASE n = 1
      <3>1. step' = "done" /\ stack' = <<>>
        BY <1>3, <2>1, EmptySeq DEF ReturnNode
      <3>2. Type = Root /\ Frame.created = 0
        BY <1>1, <1>2, <2>1 DEF StackOk
      <3>3. createdCount' > 0 /\ Journal'[1] = Root /\ nodes'[Root] = ret'
        BY <1>2, <1>3, <3>2
      <3>. QED
        BY <3>1, <3>3, NotYet DEF StepOk, Running
    <2>2. CASE n # 1
      <3>1. step' = "ok" /\ stack' # <<>> /\ n - 1 \in 1..(n - 1) /\ n - 1 \in 1..(Len(stack) - 1)
        <4>1. Len(stack') # 0
          BY <1>2, <1>3, <2>2
        <4>. QED
          BY <1>2, <2>2, <4>1 DEF ReturnNode
      <3>2. Frame' = stack[n - 1]
        BY <1>2, <1>3, <3>1 DEF Frame, Last
      <3>3. PICK i : i = n - 1
        OBVIOUS
      <3>4. /\ stack[i].created \in Nat /\ stack[i].created < Frame.created /\ FrameOk(i)
        BY <1>1, <3>1, <3>3, OuterFrame
      <3>5. stack[i].next <= Len(graph[TypeAt(i)].parts) /\ graph[TypeAt(i)].parts[stack[i].next] = Type
        <4>1. i < Len(stack) /\ i + 1 = n
          BY <1>2, <3>3
        <4>. QED
          BY <1>2, <3>4, <4>1 DEF FrameOk
      <3>6. Type' = TypeAt(i)
        <4>1. TypeAt(i)' = TypeAt(i) /\ TypeAt(i)' = heap'[stack'[i].node].type
          BY <1>4, <3>1, <3>3 DEF TypeAt
        <4>. QED
          BY <1>3, <3>1, <3>2, <3>3, <4>1 DEF Type
      <3>7. Frame'.next <= Len(graph'[Type'].parts) /\ Part' = Type
        BY <1>3, <3>2, <3>3, <3>5, <3>6 DEF Part
      <3>8. \E k \in (Frame'.created + 2)..createdCount' : Journal'[k] = Part'
        <4>1. \A x, y, z \in Nat : x < y /\ y < z => y + 1 \in (x + 2)..z
          OBVIOUS
        <4>2. Frame.created + 1 \in (Frame'.created + 2)..createdCount'
          BY <1>2, <1>3, <3>2, <3>3, <3>4, <4>1
        <4>. QED
          BY <3>7, <4>2
      <3>9. nodes'[Part'] = ret'
        BY <1>3, <3>7
      <3>. QED
        BY <3>1, <3>7, <3>8, <3>9, NotYet DEF StepOk, Running
    <2>. QED
      BY <2>1, <2>2
  <1>. QED
    BY <1>4, <1>5, <1>6 DEF Inv

\* The record of a complete node.
Completed ==
    LET n == heap[Frame.node]
    IN  [n EXCEPT !.baseKind = graph[Type].kind, !.op = Op(Type),
                  !.structuralFast = /\ compilesDecode /\ graph[Type].kind = "struct" /\ ~graph[Type].inline
                                     /\ \A f \in Range(n.fields) : f.op \in FastOps,
                  !.encScratch = IF graph[Type].hook /\ mode = "encode" THEN Len(encScratchTypes) ELSE -1]

\* A finished node keeps its parts, and its scratch is its own.
LEMMA CompletedIs ==
    ASSUME CompilerAssumption, CompilerTypeOK, StackOk, stack # <<>>
    PROVE  LET q == heap[Frame.node]
               r == Completed
           IN  /\ r \in NodeRecords /\ r.type = q.type /\ r.op = Op(Type) /\ r.fields = q.fields /\ r.elem = q.elem
               /\ r.encMapKey = q.encMapKey /\ r.encBacking = q.encBacking
               /\ r.structuralFast => compilesDecode /\ \A f \in Range(q.fields) : f.op \in FastOps
               /\ r.encScratch = IF graph[Type].hook /\ mode = "encode" THEN Len(encScratchTypes) ELSE -1
  <1> DEFINE q == heap[Frame.node]
             fast == /\ compilesDecode /\ graph[Type].kind = "struct" /\ ~graph[Type].inline
                     /\ \A f \in Range(q.fields) : f.op \in FastOps
             box == IF graph[Type].hook /\ mode = "encode" THEN Len(encScratchTypes) ELSE -1
             kind == graph[Type].kind
             op == Op(Type)
  <1>1. q \in NodeRecords /\ Type \in Types
    BY FrameIs
  <1>2. kind \in Kinds /\ op \in Ops
    BY <1>1, GraphIs
  <1>3. fast \in BOOLEAN /\ box \in Slots
    BY LenProperties DEF CompilerTypeOK, Slots
  <1>4. fast => compilesDecode /\ \A f \in Range(q.fields) : f.op \in FastOps
    OBVIOUS
  <1>5. Completed = [q EXCEPT !.baseKind = kind, !.op = op, !.structuralFast = fast, !.encScratch = box]
    BY DEF Completed
  <1> HIDE DEF q, fast, box, kind, op
  <1>6. LET r == Completed
        IN  /\ r \in NodeRecords /\ r.type = q.type /\ r.op = op /\ r.fields = q.fields /\ r.elem = q.elem
            /\ r.encMapKey = q.encMapKey /\ r.encBacking = q.encBacking /\ r.structuralFast = fast /\ r.encScratch = box
    BY <1>1, <1>2, <1>3, <1>5 DEF NodeRecords
  <1>. QED
    BY <1>4, <1>6 DEF q, box, op

\* A call that has visited all parts closes its node and returns it.
LEMMA CompleteOk ==
    ASSUME CompilerAssumption, Inv, Complete
    PROVE  Inv'
  <1> DEFINE q == heap[Frame.node]
             r == Completed
             p == Frame.created + 1
             c == createdCount
             boxes == graph[Type].hook /\ mode = "encode"
  <1>1. /\ CompilerTypeOK /\ TableOk /\ StackOk /\ LevelsOk /\ StepOk /\ step = "run"
    BY DEF Inv, Complete
  <1>2. stack # <<>>
    BY <1>1 DEF StepOk, Running
  <1>3. /\ graph[Type].kind # "chan" /\ Frame.next > Len(graph[Type].parts)
        /\ heap' = [heap EXCEPT ![Frame.node] = r]
        /\ encScratchTypes' = (IF boxes THEN Append(encScratchTypes, <<"value", Type>>) ELSE encScratchTypes)
        /\ ReturnNode(Frame.node)
        /\ UNCHANGED <<graph, mode, nodes, journal, encBackingSlots, encHasMap, decodeNeedsFinalize>>
    BY DEF Complete, Completed
  <1>4. PICK n : n = Len(stack)
    OBVIOUS
  <1>5. /\ n \in Nat \ {0} /\ Frame = stack[n] /\ Frame.node \in 1..Len(heap)
        /\ q \in NodeRecords /\ Type \in Types /\ FrameOk(n) /\ Type = TypeAt(n) /\ Type = q.type
        /\ Frame.created \in Nat /\ Frame.scratch \in Nat /\ Frame.next \in Nat
    BY <1>1, <1>2, <1>4, FrameIs
  <1>6. /\ heap \in Seq(NodeRecords) /\ encScratchTypes \in Seq(ScratchTypes) /\ nodes \in [Types -> Nat]
        /\ c \in Nat /\ Len(encScratchTypes) \in Nat /\ Len(heap) \in Nat
        /\ encBackingSlots \in Nat /\ encHasMap \in BOOLEAN
    BY <1>1, LenProperties DEF CompilerTypeOK, JournalOk
  <1>7. /\ r \in NodeRecords /\ r.type = q.type /\ r.op = Op(Type) /\ r.fields = q.fields /\ r.elem = q.elem
        /\ r.encMapKey = q.encMapKey /\ r.encBacking = q.encBacking
        /\ (r.structuralFast => compilesDecode /\ \A f \in Range(q.fields) : f.op \in FastOps)
        /\ r.encScratch = IF boxes THEN Len(encScratchTypes) ELSE -1
    BY <1>1, <1>2, CompletedIs
  <1> HIDE DEF q, r, p, c, boxes
  <1>8. /\ heap' \in Seq(NodeRecords) /\ Len(heap') = Len(heap) /\ heap'[Frame.node] = r
        /\ \A x \in 1..Len(heap) : x # Frame.node => heap'[x] = heap[x]
    BY <1>3, <1>5, <1>6, <1>7, ExceptSeq
  <1>9. /\ encScratchTypes' \in Seq(ScratchTypes) /\ Len(encScratchTypes') \in Nat
        /\ Len(encScratchTypes) <= Len(encScratchTypes')
        /\ \A m \in 1..Len(encScratchTypes) : encScratchTypes'[m] = encScratchTypes[m]
        /\ boxes => Len(encScratchTypes') = Len(encScratchTypes) + 1 /\ encScratchTypes'[Len(encScratchTypes) + 1] = <<"value", Type>>
    <2>1. CASE boxes
      <3>1. <<"value", Type>> \in ScratchTypes
        BY <1>5 DEF ScratchTypes
      <3>. QED
        BY <1>3, <1>6, <2>1, <3>1, AppendProperties
    <2>2. CASE ~boxes
      BY <1>3, <1>6, <2>2
    <2>. QED
      BY <2>1, <2>2
  <1>10. Journal' = Journal /\ createdCount' = c /\ nodes' = nodes /\ graph' = graph /\ mode' = mode
    BY <1>3 DEF Journal, JournalAt, journal, c
  <1>11. CompilerTypeOK'
    <2>1. stack' \in Seq(FrameRecords) /\ ret' \in Nat /\ step' \in Running \cup {"start", "done", "published", "failed"}
      BY <1>1, <1>2, <1>3, <1>5, <1>6, FrontIs DEF ReturnNode, Running
    <2>. QED
      BY <1>1, <1>3, <1>8, <1>9, <2>1 DEF CompilerTypeOK, JournalOk, journal
  <1>12. TableOk'
    BY <1>1, <1>10 DEF TableOk, c
  <1>13. /\ Frame.created < c /\ Journal[p] = Type /\ nodes[Type] = Frame.node /\ Frame.scratch <= Len(encScratchTypes)
         /\ p \in 1..c
    <2>1. Frame.created < c /\ Journal[p] = Type /\ nodes[Type] = Frame.node /\ Frame.scratch <= Len(encScratchTypes)
      BY <1>1, <1>5 DEF FrameOk, c, p
    <2>. QED
      BY <1>5, <1>6, <2>1 DEF p
  <1>14. OuterKept
    <2>1. ASSUME NEW m \in 1..Frame.scratch
          PROVE  encScratchTypes'[m] = encScratchTypes[m]
      <3>1. m \in 1..Len(encScratchTypes)
        BY <1>5, <1>6, <1>13
      <3>. QED
        BY <1>9, <3>1
    <2>2. Frame.created <= createdCount' /\ Frame.scratch <= Len(encScratchTypes') /\ Len(heap) <= Len(heap')
      BY <1>5, <1>6, <1>8, <1>9, <1>10, <1>13
    <2>. QED
      BY <1>3, <1>8, <1>10, <2>1, <2>2 DEF OuterKept
  <1>15. /\ Open(n)' = Open(n) /\ Open(n) \subseteq Wait(n)' /\ n = Len(stack') + 1
         /\ Frame.created = 0 \/ Frame.created + 1 \in Wait(n)'
    <2>1. nodes'[Type] = Frame.node /\ Frame.created < createdCount' /\ Journal'[Frame.created + 1] = Type
      BY <1>10, <1>13 DEF p
    <2>. QED
      BY <1>1, <1>2, <1>3, <1>4, <1>11, <2>1, ReturnWaits
  <1>16. /\ Level(n + 1) /\ Cut(n + 1) = c /\ ScratchCut(n + 1) = Len(encScratchTypes)
         /\ BackingCut(n + 1) = encBackingSlots /\ MapCut(n + 1) = encHasMap /\ Wait(n + 1) = Open(n + 1)
    <2>1. Returned = {}
      BY <1>1 DEF Returned
    <2>. QED
      BY <1>1, <1>4, <1>5, <2>1 DEF LevelsOk, Cut, ScratchCut, BackingCut, MapCut, c, Wait
  <1>17. Open(n + 1) = Open(n) \cup {p} /\ p \notin Open(n) /\ Open(n + 1) \subseteq 1..c
    <2>1. Open(n + 1) = { stack[j].created + 1 : j \in 1..n } /\ Open(n) = { stack[j].created + 1 : j \in 1..(n - 1) }
      BY <1>5 DEF Open
    <2>2. \A j : j \in 1..n <=> j \in 1..(n - 1) \/ j = n
      BY <1>5
    <2>3. n + 1 \in 1..(Len(stack) + 1) /\ n \in 1..(Len(stack) + 1)
      BY <1>4, <1>5
    <2>4. Open(n + 1) \subseteq 1..c
      BY <1>1, <1>16, <2>3, CutsAre
    <2>5. Open(n) \subseteq 1..Frame.created
      <3>1. Cut(n) = Frame.created
        BY <1>4, <1>5 DEF Cut
      <3>. QED
        BY <1>1, <2>3, <3>1, CutsAre
    <2>6. p \notin 1..Frame.created /\ stack[n].created + 1 = p
      BY <1>5 DEF p
    <2>. QED
      BY ONLY <2>1, <2>2, <2>4, <2>5, <2>6
  <1>18. \A k \in 1..c : /\ nodes[Journal[k]] \in 1..Len(heap)
                         /\ RecordOk(graph, mode, Journal, nodes, heap, Open(n + 1), c, decodeNeedsFinalize, k, heap[nodes[Journal[k]]])
    BY <1>16 DEF Level, Whole
  <1>19. nodes[Journal[p]] = Frame.node /\ heap[nodes[Journal[p]]] = q
    BY <1>13 DEF q
  <1>20. RecordOk(graph, mode, Journal, nodes, heap, Open(n + 1), c, decodeNeedsFinalize, p, q)
    BY <1>13, <1>18, <1>19
  <1>21. \A k \in 1..c : k # p => nodes[Journal[k]] # Frame.node
    <2> SUFFICES ASSUME NEW k \in 1..c, k # p, nodes[Journal[k]] = Frame.node PROVE FALSE
      OBVIOUS
    <2>1. heap[nodes[Journal[k]]].type = Journal[k]
      BY <1>18 DEF RecordOk
    <2>2. Journal[k] = Journal[p]
      BY <1>5, <1>13, <2>1 DEF q
    <2>. QED
      BY <1>1, <1>13, <2>2 DEF TableOk, c
  <1>22. Refs(r) = Refs(q)
    BY <1>7 DEF Refs
  <1>23. ASSUME NEW f \in Range(q.fields)
         PROVE  CopyOk(mode, Journal, nodes, heap', Open(n), decodeNeedsFinalize, f)
    <2>1. CopyOk(mode, Journal, nodes, heap, Open(n + 1), decodeNeedsFinalize, f) /\ f.node \in Refs(q)
      BY <1>20 DEF RecordOk, Refs
    <2>2. f.node \in 1..Len(heap)
      BY <1>18, <1>20, <2>1 DEF RecordOk
    <2>3. CASE f.op = heap[f.node].op /\ \A o \in Open(n + 1) : nodes[Journal[o]] # f.node
      <3>1. f.node # Frame.node
        BY <1>17, <1>19, <2>3
      <3>2. heap'[f.node] = heap[f.node] /\ \A o \in Open(n) : nodes[Journal[o]] # f.node
        BY <1>8, <1>17, <2>2, <2>3, <3>1
      <3>. QED
        BY <2>3, <3>2 DEF CopyOk
    <2>4. CASE IF Decodes(mode) THEN decodeNeedsFinalize ELSE f.op = "invalid"
      BY <2>4 DEF CopyOk
    <2>. QED
      BY <2>1, <2>3, <2>4 DEF CopyOk
  <1>24. Provided(graph, Journal, c, Type)
    <2>1. graph[Type].parts \in Seq(Types)
      BY <1>1, <1>5, GraphIs
    <2>2. /\ \A x \in 1..(Frame.next - 1) : x <= Len(graph[Type].parts) /\ \E k \in 1..Cut(n + 1) : Journal[k] = graph[Type].parts[x]
      BY <1>5 DEF FrameOk
    <2>3. ASSUME NEW t \in Range(graph[Type].parts)
          PROVE  \E l \in 1..c : Journal[l] = t
      <3>1. PICK x \in 1..Len(graph[Type].parts) : graph[Type].parts[x] = t
        BY <2>1, RangeEquality
      <3>2. x \in 1..(Frame.next - 1)
        <4>1. Len(graph[Type].parts) \in Nat
          BY <2>1, LenProperties
        <4>. QED
          BY <1>3, <1>5, <4>1, SMTT(30)
      <3>. QED
        BY <1>16, <2>2, <3>1, <3>2
    <2>. QED
      BY <1>3, <2>3 DEF Provided
  <1>25. RecordOk(graph, mode, Journal', nodes', heap', Open(n)', createdCount', decodeNeedsFinalize', p, r)
    <2>1. \A m \in Refs(r) : \E k \in 1..c : nodes[Journal[k]] = m
      BY <1>20, <1>22 DEF RecordOk
    <2>2. r.type = Journal[p] /\ r.op = Settled(graph, mode, Journal[p]) /\ Decodes(mode) = compilesDecode
      BY <1>1, <1>5, <1>7, <1>13, GraphIs
    <2>3. Provided(graph, Journal, c, Journal[p])
      BY <1>13, <1>24
    <2>4. r.structuralFast => Decodes(mode) /\ \A f \in Range(r.fields) : f.op \in FastOps
      BY <1>7, <2>2
    <2>5. RecordOk(graph, mode, Journal, nodes, heap', Open(n), c, decodeNeedsFinalize, p, r)
      BY <1>7, <1>17, <1>23, <2>1, <2>2, <2>3, <2>4 DEF RecordOk
    <2>. QED
      BY <1>3, <1>10, <1>15, <2>5
  <1>26. Reached(Journal', nodes', heap', Wait(n)', createdCount')
    <2>1. Reached(Journal, nodes, heap, Open(n + 1), c)
      BY <1>16 DEF Level
    <2>2. \A k \in 1..c : Journal'[k] = Journal[k] /\ nodes'[Journal[k]] = nodes[Journal[k]]
                          /\ Refs(heap[nodes[Journal[k]]]) \subseteq Refs(heap'[nodes[Journal[k]]])
      <3> SUFFICES ASSUME NEW k \in 1..c PROVE Refs(heap[nodes[Journal[k]]]) \subseteq Refs(heap'[nodes[Journal[k]]])
        BY <1>10
      <3>1. CASE k = p
        BY <1>8, <1>19, <1>22, <3>1
      <3>2. CASE k # p
        BY <1>8, <1>18, <1>21, <3>2
      <3>. QED
        BY <3>1, <3>2
    <2>3. Open(n + 1) \cap (2..c) \subseteq Wait(n)'
      <3>1. Frame.created = 0 => p \notin 2..c
        BY <1>6 DEF p
      <3>2. Frame.created = 0 \/ p \in Wait(n)'
        BY <1>15 DEF p
      <3>. QED
        BY <1>15, <1>17, <3>1, <3>2
    <2>4. Reached(Journal', nodes', heap', Wait(n)', c)
      <3>1. PICK W : W = Wait(n)'
        OBVIOUS
      <3>2. PICK O : O = Open(n + 1)
        OBVIOUS
      <3>3. Reached(Journal, nodes, heap, O, c) /\ O \cap (2..c) \subseteq W /\ c \in Nat
        BY <1>6, <2>1, <2>3, <3>1, <3>2
      <3>4. Reached(Journal', nodes', heap', W, c)
        BY ONLY <2>2, <3>3, ReachedKept
      <3>. QED
        BY <3>1, <3>4
    <2>. QED
      BY <1>10, <2>4
  <1>27. ASSUME mode = "encode"
         PROVE  Takes(p, Cut(n + 1), heap[nodes[Journal[p]]], r, Journal'[p], encScratchTypes, encScratchTypes',
                      ScratchCut(n + 1), Len(encScratchTypes'), BackingCut(n + 1), encBackingSlots', MapCut(n + 1), encHasMap')
    <2>1. /\ heap[nodes[Journal[p]]] = q /\ Journal'[p] = Type /\ q.encScratch = -1 /\ ~(q.encScratch >= 0)
          /\ encHasMap' = encHasMap /\ encBackingSlots' = encBackingSlots /\ p <= c
      <3>1. q.encScratch = -1
        BY <1>13, <1>17, <1>20 DEF RecordOk
      <3>. QED
        BY <1>3, <1>6, <1>10, <1>13, <1>19, <3>1
    <2>2. r.encMapKey = q.encMapKey /\ r.encBacking = q.encBacking /\ (Keyed(r) <=> Keyed(q))
      BY <1>7 DEF Keyed
    <2>3. Keyed(q) => encHasMap
      <3>1. Owned(Journal, nodes, heap, encScratchTypes, c, Len(encScratchTypes), encBackingSlots, encHasMap)
        BY <1>16, <1>27 DEF Level
      <3>. QED
        BY <1>13, <1>19, <3>1 DEF Owned
    <2>4. encHasMap' <=> (MapCut(n + 1) \/ Keyed(r))
      BY ONLY <1>6, <1>16, <2>1, <2>2, <2>3
    <2>5. \A m \in 1..ScratchCut(n + 1) : encScratchTypes'[m] = encScratchTypes[m]
      BY <1>9, <1>16
    <2>6. p <= Cut(n + 1) /\ encBackingSlots' = BackingCut(n + 1) /\ ScratchCut(n + 1) = Len(encScratchTypes)
      BY <1>16, <2>1
    <2>7. CASE boxes
      <3>1. r.encScratch = Len(encScratchTypes)
        BY <1>7, <2>7
      <3>2. Len(encScratchTypes') = Len(encScratchTypes) + 1 /\ encScratchTypes'[Len(encScratchTypes) + 1] = <<"value", Type>>
        BY <1>9, <2>7
      <3>. QED
        BY ONLY <2>1, <2>2, <2>4, <2>5, <2>6, <3>1, <3>2 DEF Takes
    <2>8. CASE ~boxes
      <3>1. ~(r.encScratch >= 0)
        BY <1>7, <2>8
      <3>2. Len(encScratchTypes') = Len(encScratchTypes)
        BY <1>3, <2>8
      <3>. QED
        BY ONLY <2>1, <2>2, <2>4, <2>5, <2>6, <3>1, <3>2 DEF Takes
    <2>. QED
      BY <2>7, <2>8
  <1>28. Level(n)'
    <2>1. PICK i : i = n + 1
      OBVIOUS
    <2>2. i \in Nat /\ n \in Nat /\ n = Len(stack') + 1 /\ p \in 1..createdCount'
      BY <1>5, <1>10, <1>13, <1>15, <2>1
    <2>3. Adds(Journal, Journal', nodes, nodes', heap, heap', Cut(i), createdCount', p)
      <3>1. \A k \in 1..c : k # p => heap'[nodes[Journal[k]]] = heap[nodes[Journal[k]]]
        BY <1>8, <1>18, <1>21
      <3>. QED
        BY <1>10, <1>16, <2>1, <3>1 DEF Adds
    <2>4. Forms(Open(i), Open(n)', Cut(i), createdCount', p)
      BY <1>10, <1>15, <1>16, <1>17, <2>1 DEF Forms
    <2>5. nodes'[Journal'[p]] \in 1..Len(heap') /\ heap'[nodes'[Journal'[p]]] = r
      BY <1>5, <1>8, <1>10, <1>19
    <2>6. /\ Level(i) /\ Cut(i) \in Nat /\ ScratchCut(i) \in Nat /\ BackingCut(i) \in Nat /\ MapCut(i) \in BOOLEAN
          /\ Open(i) \subseteq 1..Cut(i) /\ Len(heap) <= Len(heap')
      BY <1>6, <1>8, <1>16, <1>17, <2>1
    <2>7. mode = "encode" =>
            Takes(p, Cut(i), heap[nodes[Journal[p]]], r, Journal'[p], encScratchTypes, encScratchTypes',
                  ScratchCut(i), Len(encScratchTypes'), BackingCut(i), encBackingSlots', MapCut(i), encHasMap')
      BY <1>27, <2>1
    <2>8. decodeNeedsFinalize => decodeNeedsFinalize'
      BY <1>3
    <2>. QED
      BY <1>1, <1>7, <1>10, <1>11, <1>12, <1>25, <1>26, <2>2, <2>3, <2>4, <2>5, <2>6, <2>7, <2>8, LevelPut
  <1>29. nodes'[Type] = Frame.node /\ Frame.created < createdCount' /\ Journal'[Frame.created + 1] = Type
    BY <1>10, <1>13 DEF p
  <1>. QED
    BY <1>2, <1>3, <1>4, <1>11, <1>12, <1>14, <1>28, <1>29, Returns

-----------------------------------------------------------------------------
(***************************************************************************)
(* An attempt is taken back.                                               *)
(***************************************************************************)

\* The types that have a plan are the largest set of its kind, and one itself.
LEMMA CompilableIs ==
    /\ Compilable \subseteq Types
    /\ \A t \in Compilable : graph[t].hook \/ (graph[t].kind # "chan" /\ Range(graph[t].parts) \subseteq Compilable)
    /\ \A S \in SUBSET Types :
          (\A t \in S : graph[t].hook \/ (graph[t].kind # "chan" /\ Range(graph[t].parts) \subseteq S)) => S \subseteq Compilable
  BY DEF Compilable

\* What the attempt of the innermost call found, and what is left of it.
LEMMA TakenBack ==
    ASSUME CompilerAssumption, Inv, step = "err", stack # <<>>, NEW n, n = Len(stack)
    PROVE  LET c == Frame.created
               nd == rollbackCreated(c)
               back == ScratchBack(Frame)
           IN  /\ c < createdCount /\ c \in 0..createdCount /\ Journal[c + 1] = Type
               /\ Level(n) /\ Cut(n) = c /\ ScratchCut(n) = Frame.scratch /\ BackingCut(n) = Frame.backing
               /\ MapCut(n) = Frame.hadMap /\ Open(n) \subseteq 1..c /\ Wait(n) = Open(n)
               /\ nd \in [Types -> Nat] /\ \A t \in Types : nd[t] # 0 => \E k \in 1..c : Journal[k] = t
               /\ \A k \in 1..c : /\ nd[Journal[k]] = nodes[Journal[k]] /\ Journal[k] \in Types /\ Journal[k] # Type
                                  /\ nodes[Journal[k]] \in 1..Len(heap) /\ nodes[Journal[k]] # Frame.node
               /\ back \in Seq(ScratchTypes) /\ Len(back) = Frame.scratch
               /\ \A m \in 1..Frame.scratch : back[m] = encScratchTypes[m]
  <1> DEFINE c == Frame.created
             nd == rollbackCreated(c)
             back == ScratchBack(Frame)
             s == Frame.scratch
  <1>1. CompilerTypeOK /\ TableOk /\ StackOk /\ LevelsOk
    BY DEF Inv
  <1>2. /\ n \in Nat \ {0} /\ Frame = stack[n] /\ FrameOk(n) /\ Type = TypeAt(n) /\ c \in Nat /\ s \in Nat
    BY <1>1, FrameIs
  <1>3. createdCount \in Nat /\ encScratchTypes \in Seq(ScratchTypes) /\ Len(encScratchTypes) \in Nat
    BY <1>1, LenProperties DEF CompilerTypeOK, JournalOk
  <1>4. c < createdCount /\ Journal[c + 1] = Type /\ s <= Len(encScratchTypes)
    BY <1>2 DEF FrameOk
  <1>5. n \in 1..Len(stack) /\ n \in 1..(Len(stack) + 1)
    BY <1>2
  <1>6. /\ Level(n) /\ Cut(n) = c /\ ScratchCut(n) = s /\ BackingCut(n) = Frame.backing
        /\ MapCut(n) = Frame.hadMap /\ Wait(n) = Open(n)
    BY <1>1, <1>2, <1>5 DEF LevelsOk, Cut, ScratchCut, BackingCut, MapCut, Wait
  <1>7. Open(n) \subseteq 1..c
    BY <1>1, <1>5, <1>6, CutsAre
  <1>8. c \in 0..createdCount
    BY <1>2, <1>3, <1>4
  <1>9. /\ nd \in [Types -> Nat] /\ \A k \in 1..c : nd[Journal[k]] = nodes[Journal[k]]
        /\ \A t \in Types : nd[t] # 0 => \E k \in 1..c : Journal[k] = t
    BY <1>1, <1>8, RolledBack
  <1>10. \A k \in 1..c : /\ Journal[k] \in Types /\ Journal[k] # Type
                         /\ nodes[Journal[k]] \in 1..Len(heap) /\ nodes[Journal[k]] # Frame.node
    BY <1>1, <1>5, <1>6, BelowFrame
  <1>11. back \in Seq(ScratchTypes) /\ Len(back) = s /\ \A m \in 1..s : back[m] = encScratchTypes[m]
    <2> HIDE DEF s
    <2>1. \A m \in 1..s : encScratchTypes[m] \in ScratchTypes
      BY <1>2, <1>3, <1>4, ElementOfSeq
    <2>2. 1 \in Int /\ s \in Int
      BY <1>2
    <2>3. /\ SubSeq(encScratchTypes, 1, s) \in Seq(ScratchTypes)
          /\ Len(SubSeq(encScratchTypes, 1, s)) = IF 1 <= s THEN s - 1 + 1 ELSE 0
          /\ \A i \in 1..(s - 1 + 1) : SubSeq(encScratchTypes, 1, s)[i] = encScratchTypes[1 + i - 1]
      BY <2>1, <2>2, SubSeqProperties
    <2>4. back = SubSeq(encScratchTypes, 1, s)
      BY DEF ScratchBack, s
    <2>5. \A i \in 1..s : i \in 1..(s - 1 + 1) /\ 1 + i - 1 = i
      BY <1>2
    <2>6. \A i \in 1..s : SubSeq(encScratchTypes, 1, s)[i] = encScratchTypes[i]
      BY ONLY <2>3, <2>5
    <2>7. (IF 1 <= s THEN s - 1 + 1 ELSE 0) = s
      BY <1>2
    <2>. QED
      BY <2>3, <2>4, <2>6, <2>7
  <1> HIDE DEF c, nd, back, s
  <1>12. /\ c < createdCount /\ c \in 0..createdCount /\ Journal[c + 1] = Type
         /\ Level(n) /\ Cut(n) = c /\ ScratchCut(n) = s /\ BackingCut(n) = Frame.backing
         /\ MapCut(n) = Frame.hadMap /\ Open(n) \subseteq 1..c /\ Wait(n) = Open(n)
         /\ nd \in [Types -> Nat] /\ (\A t \in Types : nd[t] # 0 => \E k \in 1..c : Journal[k] = t)
         /\ (\A k \in 1..c : /\ nd[Journal[k]] = nodes[Journal[k]] /\ Journal[k] \in Types /\ Journal[k] # Type
                             /\ nodes[Journal[k]] \in 1..Len(heap) /\ nodes[Journal[k]] # Frame.node)
         /\ back \in Seq(ScratchTypes) /\ Len(back) = s
         /\ \A m \in 1..s : back[m] = encScratchTypes[m]
    BY <1>4, <1>6, <1>7, <1>8, <1>9, <1>10, <1>11
  <1>. QED
    BY ONLY <1>12 DEF c, nd, back, s

\* The plain hook a type with methods is left with.
Hook(t, n) == [Node(t) EXCEPT !.op = "hook", !.encScratch = n]

\* A type with methods outlives its layout: the attempt goes back to the level
\* it began with, and one node is entered that refers to nothing.
LEMMA AbandonToHookOk ==
    ASSUME CompilerAssumption, Inv, Abandon, graph[Type].hook
    PROVE  Inv'
  <1> DEFINE c == Frame.created
             nd == rollbackCreated(c)
             back == ScratchBack(Frame)
             s == Frame.scratch
             r == Hook(Type, IF mode = "encode" THEN Len(back) ELSE -1)
             p == c + 1
  <1>1. /\ CompilerTypeOK /\ TableOk /\ StackOk /\ LevelsOk /\ StepOk /\ step = "err"
    BY DEF Inv, Abandon
  <1>2. stack # <<>>
    BY <1>1 DEF StepOk, Running
  <1>3. /\ heap' = [heap EXCEPT ![Frame.node] = r]
        /\ encScratchTypes' = (IF mode = "encode" THEN Append(back, <<"value", Type>>) ELSE back)
        /\ encBackingSlots' = Frame.backing /\ encHasMap' = Frame.hadMap
        /\ nodes' = [nd EXCEPT ![Type] = Frame.node]
        /\ createdCount' = c + 1
        /\ created' = (IF c < InlineSize THEN [Inlined(c) EXCEPT ![c + 1] = Type] ELSE Inlined(c))
        /\ createdOverflow' = (IF c < InlineSize THEN Spilled(c) ELSE Append(Spilled(c), Type))
        /\ ReturnNode(Frame.node)
        /\ UNCHANGED <<graph, mode, decodeNeedsFinalize>>
    BY DEF Abandon, Hook, Inlined, Spilled
  <1>4. PICK n : n = Len(stack)
    OBVIOUS
  <1>5. /\ n \in Nat \ {0} /\ Frame = stack[n] /\ Frame.node \in 1..Len(heap) /\ Type \in Types
        /\ c \in Nat /\ s \in Nat /\ Frame.backing \in Nat /\ Frame.hadMap \in BOOLEAN
    BY <1>1, <1>2, <1>4, FrameIs
  <1>6. /\ heap \in Seq(NodeRecords) /\ Len(heap) \in Nat /\ createdCount \in Nat /\ Len(encScratchTypes) \in Nat
        /\ JournalOk
    BY <1>1, LenProperties DEF CompilerTypeOK, JournalOk
  <1>7. /\ c < createdCount /\ c \in 0..createdCount /\ Journal[c + 1] = Type
        /\ Level(n) /\ Cut(n) = c /\ ScratchCut(n) = s /\ BackingCut(n) = Frame.backing
        /\ MapCut(n) = Frame.hadMap /\ Open(n) \subseteq 1..c /\ Wait(n) = Open(n)
        /\ nd \in [Types -> Nat] /\ \A t \in Types : nd[t] # 0 => \E k \in 1..c : Journal[k] = t
    BY <1>1, <1>2, <1>4, TakenBack
  <1>8. \A k \in 1..c : /\ nd[Journal[k]] = nodes[Journal[k]] /\ Journal[k] \in Types /\ Journal[k] # Type
                        /\ nodes[Journal[k]] \in 1..Len(heap) /\ nodes[Journal[k]] # Frame.node
    BY <1>1, <1>2, <1>4, TakenBack
  <1>9. back \in Seq(ScratchTypes) /\ Len(back) = s /\ \A m \in 1..s : back[m] = encScratchTypes[m]
    BY <1>1, <1>2, <1>4, TakenBack
  <1>10. JournalOk' /\ Journal'[p] = Type /\ \A k \in 1..c : Journal'[k] = Journal[k]
    <2> HIDE DEF c
    <2>. QED
      BY <1>3, <1>5, <1>6, <1>7, JournalReplaced DEF p
  <1>11. /\ r \in NodeRecords /\ r.type = Type /\ r.op = "hook" /\ Refs(r) = {} /\ Range(r.fields) = {}
         /\ r.structuralFast = FALSE /\ r.encMapKey = -1 /\ r.encScratch = (IF mode = "encode" THEN s ELSE -1)
    <2>1. PICK x : x = IF mode = "encode" THEN Len(back) ELSE -1
      OBVIOUS
    <2>2. x \in Slots /\ x = IF mode = "encode" THEN s ELSE -1
      BY <1>5, <1>9, <2>1 DEF Slots
    <2>3. PICK q : q = Node(Type)
      OBVIOUS
    <2>4. <<>> \in Seq(Copies) /\ Range(<<>>) = {}
      BY EmptySeq DEF Range
    <2>5. /\ q \in NodeRecords /\ q.type = Type /\ q.fields = <<>> /\ q.elem = 0 /\ q.structuralFast = FALSE
          /\ q.encMapKey = -1
      BY <1>5, <2>3, <2>4 DEF Node, NodeRecords, Ops, Slots, Kinds
    <2>6. r = [q EXCEPT !.op = "hook", !.encScratch = x]
      BY <2>1, <2>3 DEF Hook
    <2> HIDE DEF r
    <2>7. /\ r \in NodeRecords /\ r.type = q.type /\ r.op = "hook" /\ r.fields = q.fields /\ r.elem = q.elem
          /\ r.structuralFast = q.structuralFast /\ r.encMapKey = q.encMapKey /\ r.encScratch = x
      BY <2>2, <2>5, <2>6 DEF NodeRecords, Ops
    <2>. QED
      BY <2>2, <2>4, <2>5, <2>7 DEF Refs
  <1> HIDE DEF c, nd, back, s, r, p
  <1>12. /\ heap' \in Seq(NodeRecords) /\ Len(heap') = Len(heap) /\ heap'[Frame.node] = r
         /\ \A x \in 1..Len(heap) : x # Frame.node => heap'[x] = heap[x]
    BY <1>3, <1>5, <1>6, <1>11, ExceptSeq
  <1>13. /\ nodes' \in [Types -> Nat] /\ nodes'[Type] = Frame.node
         /\ \A k \in 1..c : nodes'[Journal[k]] = nodes[Journal[k]]
         /\ \A t \in Types : t # Type => nodes'[t] = nd[t]
    <2>1. Frame.node \in Nat
      BY <1>5
    <2>. QED
      BY <1>3, <1>5, <1>7, <1>8, <2>1
  <1>14. /\ encScratchTypes' \in Seq(ScratchTypes) /\ Len(encScratchTypes') \in Nat /\ s <= Len(encScratchTypes')
         /\ \A m \in 1..s : encScratchTypes'[m] = encScratchTypes[m]
         /\ mode = "encode" => Len(encScratchTypes') = s + 1 /\ encScratchTypes'[s + 1] = <<"value", Type>>
    <2>1. CASE mode = "encode"
      <3>1. <<"value", Type>> \in ScratchTypes
        BY <1>5 DEF ScratchTypes
      <3>2. /\ Append(back, <<"value", Type>>) \in Seq(ScratchTypes) /\ Len(Append(back, <<"value", Type>>)) = s + 1
            /\ \A m \in 1..s : Append(back, <<"value", Type>>)[m] = back[m]
            /\ Append(back, <<"value", Type>>)[s + 1] = <<"value", Type>>
        BY <1>9, <3>1, AppendProperties
      <3>. QED
        BY <1>3, <1>5, <1>9, <2>1, <3>2
    <2>2. CASE mode # "encode"
      BY <1>3, <1>5, <1>9, <2>2
    <2>. QED
      BY <2>1, <2>2
  <1>15. CompilerTypeOK'
    <2>1. stack' \in Seq(FrameRecords) /\ ret' \in Nat /\ step' \in Running \cup {"start", "done", "published", "failed"}
      BY <1>1, <1>2, <1>3, <1>5, <1>6, FrontIs DEF ReturnNode, Running
    <2>. QED
      BY <1>1, <1>3, <1>5, <1>10, <1>12, <1>13, <1>14, <2>1 DEF CompilerTypeOK
  <1>16. p \in Nat /\ createdCount' = p /\ p \in 1..p /\ \A k \in 1..p : k \in 1..c \/ k = p
    BY <1>3, <1>5 DEF p
  <1>17. TableOk'
    <2>1. \A k \in 1..p : k \in 1..createdCount /\ Journal'[k] = Journal[k]
      <3>1. \A k \in 1..p : k \in 1..createdCount
        BY <1>5, <1>6, <1>7 DEF p
      <3>. QED
        BY <1>7, <1>10, <1>16, <3>1 DEF p
    <2>2. \A k, l \in 1..p : Journal'[k] = Journal'[l] => k = l
      BY <1>1, <2>1 DEF TableOk
    <2>3. ASSUME NEW t \in Types, nodes'[t] # 0
          PROVE  \E k \in 1..p : Journal'[k] = t
      <3>1. CASE t = Type
        BY <1>10, <1>16, <3>1
      <3>2. CASE t # Type
        <4>1. PICK k \in 1..c : Journal[k] = t
          BY <1>7, <1>13, <2>3, <3>2
        <4>2. k \in 1..p
          BY <1>5 DEF p
        <4>. QED
          BY <2>1, <4>1, <4>2
      <3>. QED
        BY <3>1, <3>2
    <2>. QED
      BY <1>16, <2>2, <2>3 DEF TableOk
  <1>18. OuterKept
    <2>1. c <= createdCount' /\ Len(heap) <= Len(heap')
      BY <1>5, <1>6, <1>12, <1>16 DEF p
    <2>. QED
      BY <1>3, <1>10, <1>12, <1>13, <1>14, <2>1 DEF OuterKept, c, s
  <1>19. nodes'[Type] = Frame.node /\ Frame.created < createdCount' /\ Journal'[Frame.created + 1] = Type
    BY <1>5, <1>10, <1>13, <1>16 DEF p, c
  <1>20. /\ Open(n)' = Open(n) /\ Open(n) \subseteq Wait(n)' /\ n = Len(stack') + 1
         /\ c = 0 \/ p \in Wait(n)'
    BY <1>1, <1>2, <1>3, <1>4, <1>15, <1>19, ReturnWaits DEF c, p
  <1>21. p \notin Open(n)
    <2>1. p \notin 1..c
      BY <1>5 DEF p
    <2>. QED
      BY <1>7, <2>1
  <1>22. \A k \in 1..c : nodes'[Journal'[k]] = nodes[Journal[k]] /\ heap'[nodes[Journal[k]]] = heap[nodes[Journal[k]]]
    BY <1>8, <1>10, <1>12, <1>13
  <1>23. nodes'[Journal'[p]] = Frame.node /\ heap'[nodes'[Journal'[p]]] = r
    BY <1>10, <1>12, <1>13
  <1>24. RecordOk(graph, mode, Journal', nodes', heap', Open(n)', createdCount', decodeNeedsFinalize', p, r)
    <2>1. Settled(graph, mode, Type) = "hook"
      BY DEF Settled
    <2>2. Provided(graph, Journal', createdCount', Type)
      BY DEF Provided
    <2>. QED
      BY <1>10, <1>11, <1>20, <1>21, <2>1, <2>2 DEF RecordOk
  <1>25. Reached(Journal', nodes', heap', Wait(n)', createdCount')
    <2>1. PICK W : W = Wait(n)'
      OBVIOUS
    <2>2. PICK O : O = Open(n)
      OBVIOUS
    <2>3. Reached(Journal, nodes, heap, O, c) /\ O \cap (2..c) \subseteq W /\ c \in Nat
      BY <1>5, <1>7, <1>20, <2>1, <2>2 DEF Level
    <2>4. \A k \in 1..c : Journal'[k] = Journal[k] /\ nodes'[Journal[k]] = nodes[Journal[k]]
                          /\ Refs(heap[nodes[Journal[k]]]) \subseteq Refs(heap'[nodes[Journal[k]]])
      BY <1>10, <1>13, <1>22
    <2>5. Reached(Journal', nodes', heap', W, c)
      BY ONLY <2>3, <2>4, ReachedKept
    <2>6. CASE c = 0
      <3>1. \A x \in Nat : x = 0 => 2..(x + 1) = {}
        OBVIOUS
      <3>2. 2..createdCount' = {}
        BY <1>5, <1>16, <2>6, <3>1 DEF p
      <3>. QED
        BY <3>2 DEF Reached
    <2>7. CASE c + 1 \in W
      <3>1. Reached(Journal', nodes', heap', W, c + 1)
        BY ONLY <2>3, <2>5, <2>7, ReachedGrows
      <3>. QED
        BY <1>16, <2>1, <3>1 DEF p
    <2>. QED
      BY <1>20, <2>1, <2>6, <2>7 DEF p
  <1>26. ASSUME mode = "encode"
         PROVE  Takes(p, Cut(n), heap[nodes[Journal[p]]], r, Journal'[p], encScratchTypes, encScratchTypes',
                      ScratchCut(n), Len(encScratchTypes'), BackingCut(n), encBackingSlots', MapCut(n), encHasMap')
    <2>1. ~(p <= c) /\ ~Keyed(r) /\ r.encScratch = s
      BY <1>5, <1>11, <1>26 DEF p, Keyed
    <2>2. encBackingSlots' = BackingCut(n) /\ encHasMap' = MapCut(n) /\ ScratchCut(n) = s /\ Cut(n) = c /\ Journal'[p] = Type
      BY <1>3, <1>7, <1>10
    <2>3. /\ Len(encScratchTypes') = s + 1 /\ encScratchTypes'[s + 1] = <<"value", Type>>
          /\ \A m \in 1..s : encScratchTypes'[m] = encScratchTypes[m]
      BY <1>14, <1>26
    <2>. QED
      BY ONLY <2>1, <2>2, <2>3 DEF Takes
  <1>27. Level(n)'
    <2>1. n \in Nat /\ n = Len(stack') + 1 /\ p \in 1..createdCount'
      BY <1>5, <1>16, <1>20
    <2>2. Adds(Journal, Journal', nodes, nodes', heap, heap', Cut(n), createdCount', p)
      BY <1>7, <1>10, <1>13, <1>16, <1>22 DEF Adds, p
    <2>3. Forms(Open(n), Open(n)', Cut(n), createdCount', p)
      <3>1. createdCount' # c /\ 1..c \subseteq 1..createdCount'
        BY <1>5, <1>16 DEF p
      <3>. QED
        BY <1>7, <1>20, <3>1 DEF Forms
    <2>4. nodes'[Journal'[p]] \in 1..Len(heap') /\ heap'[nodes'[Journal'[p]]] = r
      BY <1>5, <1>12, <1>23
    <2>5. /\ Level(n) /\ Cut(n) \in Nat /\ ScratchCut(n) \in Nat /\ BackingCut(n) \in Nat /\ MapCut(n) \in BOOLEAN
          /\ Open(n) \subseteq 1..Cut(n) /\ Len(heap) <= Len(heap')
      BY <1>5, <1>6, <1>7, <1>12
    <2>6. decodeNeedsFinalize => decodeNeedsFinalize'
      BY <1>3
    <2>. QED
      BY <1>3, <1>11, <1>15, <1>17, <1>1, <1>24, <1>25, <1>26, <2>1, <2>2, <2>3, <2>4, <2>5, <2>6, LevelPut
  <1>. QED
    BY <1>2, <1>3, <1>4, <1>15, <1>17, <1>18, <1>19, <1>27, Returns

\* A call that fails is one of the types without a plan.
LEMMA HopelessIs ==
    ASSUME CompilerAssumption, CompilerTypeOK, Hopeless, Type \in Types, ~graph[Type].hook
    PROVE  Type \notin Compilable
  BY CompilableIs DEF Hopeless

\* A type without methods fails the call around it, at the level it began with.
LEMMA AbandonToFailureOk ==
    ASSUME CompilerAssumption, Inv, Abandon, ~graph[Type].hook
    PROVE  Inv'
  <1> DEFINE c == Frame.created
             nd == rollbackCreated(c)
             back == ScratchBack(Frame)
             s == Frame.scratch
             r == Node(Type)
  <1>1. /\ CompilerTypeOK /\ TableOk /\ StackOk /\ LevelsOk /\ StepOk /\ step = "err"
    BY DEF Inv, Abandon
  <1>2. stack # <<>>
    BY <1>1 DEF StepOk, Running
  <1>3. /\ heap' = [heap EXCEPT ![Frame.node] = r]
        /\ encScratchTypes' = back /\ encBackingSlots' = Frame.backing /\ encHasMap' = Frame.hadMap
        /\ nodes' = nd /\ createdCount' = c /\ created' = Inlined(c) /\ createdOverflow' = Spilled(c)
        /\ stack' = Front(stack) /\ ret' = 0
        /\ step' = (IF Len(stack) = 1 THEN "failed" ELSE "err")
        /\ UNCHANGED <<graph, mode, decodeNeedsFinalize>>
    BY DEF Abandon, Inlined, Spilled
  <1>4. PICK n : n = Len(stack)
    OBVIOUS
  <1>5. /\ n \in Nat \ {0} /\ Frame = stack[n] /\ Frame.node \in 1..Len(heap) /\ Type \in Types /\ Type = TypeAt(n)
        /\ c \in Nat /\ s \in Nat /\ Frame.backing \in Nat /\ Frame.hadMap \in BOOLEAN
    BY <1>1, <1>2, <1>4, FrameIs
  <1>6. /\ heap \in Seq(NodeRecords) /\ Len(heap) \in Nat /\ createdCount \in Nat /\ Len(encScratchTypes) \in Nat
        /\ JournalOk
    BY <1>1, LenProperties DEF CompilerTypeOK, JournalOk
  <1>7. /\ c < createdCount /\ c \in 0..createdCount
        /\ nd \in [Types -> Nat] /\ \A t \in Types : nd[t] # 0 => \E k \in 1..c : Journal[k] = t
    BY <1>1, <1>2, <1>4, TakenBack
  <1>8. \A k \in 1..c : nd[Journal[k]] = nodes[Journal[k]]
    BY <1>1, <1>2, <1>4, TakenBack
  <1>9. back \in Seq(ScratchTypes) /\ Len(back) = s /\ \A m \in 1..s : back[m] = encScratchTypes[m]
    BY <1>1, <1>2, <1>4, TakenBack
  <1>10. JournalOk' /\ \A k \in 1..c : Journal'[k] = Journal[k]
    <2> HIDE DEF c
    <2>. QED
      BY <1>3, <1>6, <1>7, JournalShrinks
  <1>11. r \in NodeRecords
    <2>1. <<>> \in Seq(Copies)
      BY EmptySeq
    <2>. QED
      BY <1>5, <2>1 DEF Node, NodeRecords, Ops, Slots
  <1>12. Type \notin Compilable
    BY <1>1, <1>5, HopelessIs DEF StepOk
  <1> HIDE DEF c, nd, back, s, r
  <1>13. /\ heap' \in Seq(NodeRecords) /\ Len(heap') = Len(heap)
         /\ \A x \in 1..Len(heap) : x # Frame.node => heap'[x] = heap[x]
    BY <1>3, <1>5, <1>6, <1>11, ExceptSeq
  <1>14. CompilerTypeOK'
    <2>1. stack' \in Seq(FrameRecords) /\ ret' \in Nat /\ step' \in Running \cup {"start", "done", "published", "failed"}
      BY <1>1, <1>2, <1>3, FrontIs DEF Running
    <2>. QED
      BY <1>1, <1>3, <1>5, <1>7, <1>9, <1>10, <1>13, <2>1 DEF CompilerTypeOK
  <1>15. TableOk'
    <2>1. \A k \in 1..c : k \in 1..createdCount /\ Journal'[k] = Journal[k]
      <3>1. \A k \in 1..c : k \in 1..createdCount
        BY <1>5, <1>6, <1>7
      <3>. QED
        BY <1>10, <3>1
    <2>2. \A k, l \in 1..c : Journal'[k] = Journal'[l] => k = l
      BY <1>1, <2>1 DEF TableOk
    <2>. QED
      BY <1>3, <1>7, <2>1, <2>2 DEF TableOk
  <1>16. OuterKept
    <2>1. c <= createdCount' /\ Len(heap) <= Len(heap') /\ s <= Len(encScratchTypes')
      BY <1>3, <1>5, <1>6, <1>9, <1>13
    <2>. QED
      BY <1>3, <1>8, <1>9, <1>10, <1>13, <2>1 DEF OuterKept, c, s
  <1>17. StackOk' /\ \A i \in 1..(n - 1) : Level(i)' /\ FrameOk(i)' /\ TypeAt(i)' = TypeAt(i)
    BY <1>2, <1>3, <1>4, <1>14, <1>16, StackPopped
  <1>18. Len(stack') = n - 1 /\ \A i \in 1..(n - 1) : stack'[i] = stack[i]
    BY <1>1, <1>2, <1>3, <1>4, FrontIs
  <1>19. LevelsOk'
    BY <1>3, <1>17, <1>18 DEF LevelsOk
  <1>20. StepOk'
    <2>1. CASE n = 1
      <3>1. step' = "failed" /\ stack' = <<>>
        <4>1. Len(stack') = 0 /\ stack' \in Seq(FrameRecords)
          BY <1>14, <1>18, <2>1 DEF CompilerTypeOK
        <4>. QED
          BY <1>3, <1>4, <2>1, <4>1, EmptySeq
      <3>2. Type = Root /\ c = 0 /\ s = 0 /\ Frame.backing = 0
        BY <1>1, <1>2, <1>5, <2>1 DEF StackOk, c, s
      <3>3. nodes' = [t \in Types |-> 0]
        <4>1. \A t \in Types : nd[t] = 0
          BY <1>7, <3>2
        <4>. QED
          BY <1>3, <1>7, <4>1
      <3>4. encScratchTypes' = <<>> /\ encBackingSlots' = 0
        BY <1>3, <1>9, <3>2, EmptySeq
      <3>5. Compilable' = Compilable
        BY <1>3 DEF Compilable
      <3>6. VerdictRight' /\ PlanSound'
        BY <1>12, <3>1, <3>2, <3>3, <3>4, <3>5 DEF VerdictRight, PlanSound, PlanWhole, SlotsOwned
      <3>. QED
        BY <3>1, <3>6 DEF StepOk, Running
    <2>2. CASE n # 1
      <3>1. PICK i : i = n - 1
        OBVIOUS
      <3>2. /\ i \in 1..(n - 1) /\ i \in 1..(Len(stack) - 1) /\ i + 1 = n /\ i < Len(stack) /\ step' = "err"
            /\ Len(stack') # 0 /\ Len(stack') = i
        BY <1>3, <1>4, <1>5, <1>18, <2>2, <3>1
      <3>3. stack' # <<>>
        BY <3>2
      <3>4. Frame' = stack[i] /\ Type' = TypeAt(i)
        <4>1. Frame' = stack[i] /\ stack'[i] = stack[i]
          BY <1>18, <3>2 DEF Frame, Last
        <4>2. TypeAt(i)' = heap'[stack'[i].node].type
          BY DEF TypeAt
        <4>. QED
          BY <1>17, <3>2, <4>1, <4>2 DEF Type
      <3>5. /\ FrameOk(i) /\ TypeAt(i) \in Types
        BY <1>1, <1>2, <3>2, OuterFrame
      <3>6. stack[i].next <= Len(graph[TypeAt(i)].parts) /\ graph[TypeAt(i)].parts[stack[i].next] = Type /\ stack[i].next >= 1
        BY <1>5, <3>2, <3>5 DEF FrameOk
      <3>7. Type \in Range(graph[TypeAt(i)].parts)
        <4>1. graph[TypeAt(i)].parts \in Seq(Types)
          BY <1>1, <3>5, GraphIs
        <4>2. stack[i].next \in 1..Len(graph[TypeAt(i)].parts)
          <5>1. stack \in Seq(FrameRecords) /\ Len(graph[TypeAt(i)].parts) \in Nat /\ i \in 1..Len(stack)
            BY <1>1, <1>4, <1>5, <3>2, <4>1, LenProperties DEF CompilerTypeOK
          <5>2. stack[i].next \in Nat
            <6>1. stack[i] \in FrameRecords
              BY <5>1, ElementOfSeq
            <6>. QED
              BY <6>1 DEF FrameRecords
          <5>. QED
            BY <3>6, <5>1, <5>2
        <4>. QED
          BY <3>6, <4>1, <4>2, RangeEquality
      <3>8. Hopeless'
        <4>1. Compilable' = Compilable
          BY <1>3 DEF Compilable
        <4>. QED
          BY <1>3, <1>12, <3>4, <3>7, <4>1 DEF Hopeless
      <3>. QED
        BY <3>2, <3>3, <3>8, NotYet DEF StepOk, Running
    <2>. QED
      BY <2>1, <2>2
  <1>. QED
    BY <1>14, <1>15, <1>17, <1>19, <1>20 DEF Inv

\* A failed part ends the call in one way or in the other.
LEMMA AbandonOk ==
    ASSUME CompilerAssumption, Inv, Abandon
    PROVE  Inv'
  BY AbandonToHookOk, AbandonToFailureOk

-----------------------------------------------------------------------------
(***************************************************************************)
(* A plan is published.                                                    *)
(***************************************************************************)

\* Only the copies of a finalized node differ, and perhaps its shortcut.
LEMMA FinalizedIs ==
    ASSUME NEW n \in NodeRecords, \A f \in Range(n.fields) : heap[f.node].op \in Ops
    PROVE  LET r == finalizeDecodeFields(n)
           IN  /\ r \in NodeRecords /\ r.type = n.type /\ r.op = n.op /\ Refs(r) = Refs(n)
               /\ \A f \in Range(r.fields) : f.op = heap[f.node].op
               /\ r.structuralFast => n.structuralFast /\ r.fields = n.fields
  <1> DEFINE fresh == [k \in DOMAIN n.fields |-> [n.fields[k] EXCEPT !.op = heap[n.fields[k].node].op]]
             r == finalizeDecodeFields(n)
  <1>1. n.fields \in Seq(Copies) /\ n.structuralFast \in BOOLEAN
    BY DEF NodeRecords
  <1>2. DOMAIN n.fields = 1..Len(n.fields) /\ Len(n.fields) \in Nat
    BY <1>1, LenProperties
  <1>3. \A k \in 1..Len(n.fields) : n.fields[k] \in Copies /\ heap[n.fields[k].node].op \in Ops
    BY <1>1, <1>2, ElementOfSeq DEF Range
  <1>4. ASSUME NEW k \in 1..Len(n.fields)
        PROVE  /\ fresh[k] \in Copies /\ fresh[k].node = n.fields[k].node /\ fresh[k].op = heap[n.fields[k].node].op
    <2>1. \A f \in Copies, o \in Ops : /\ [f EXCEPT !.op = o] \in Copies /\ [f EXCEPT !.op = o].node = f.node
                                       /\ [f EXCEPT !.op = o].op = o
      BY DEF Copies
    <2>2. fresh[k] = [n.fields[k] EXCEPT !.op = heap[n.fields[k].node].op]
      BY <1>2
    <2> HIDE DEF fresh
    <2>. QED
      BY <1>3, <2>1, <2>2
  <1>5. DOMAIN fresh = 1..Len(n.fields)
    BY <1>2
  <1>6. PICK fast \in BOOLEAN : fast <=> (n.structuralFast /\ fresh = n.fields)
    <2>1. (n.structuralFast /\ fresh = n.fields) \in BOOLEAN
      OBVIOUS
    <2>. QED
      BY <2>1
  <1>7. r = [n EXCEPT !.fields = fresh, !.structuralFast = fast]
    <2>1. (n.structuralFast /\ fresh = n.fields) = fast
      BY <1>6
    <2>2. r = [n EXCEPT !.fields = fresh, !.structuralFast = n.structuralFast /\ fresh = n.fields]
      BY DEF finalizeDecodeFields
    <2> HIDE DEF fresh, r
    <2>. QED
      BY <2>1, <2>2
  <1> HIDE DEF fresh, r
  <1>8. fresh \in Seq(Copies) /\ Len(fresh) = Len(n.fields)
    <2>1. fresh = [k \in 1..Len(n.fields) |-> fresh[k]]
      <3>1. fresh = [k \in DOMAIN n.fields |-> [n.fields[k] EXCEPT !.op = heap[n.fields[k].node].op]]
        BY DEF fresh
      <3>. QED
        BY <1>5, <3>1
    <2>2. fresh \in [1..Len(n.fields) -> Copies]
      BY <1>4, <2>1
    <2>. QED
      BY <1>2, <1>5, <2>2, LenProperties
  <1>9. /\ r \in NodeRecords /\ r.type = n.type /\ r.op = n.op /\ r.elem = n.elem /\ r.fields = fresh
        /\ r.structuralFast = fast
    BY <1>6, <1>7, <1>8 DEF NodeRecords
  <1>10. \A f \in Range(fresh) : f.op = heap[f.node].op
    BY <1>4, <1>5 DEF Range
  <1>11. { f.node : f \in Range(fresh) } = { f.node : f \in Range(n.fields) }
    <2>1. Range(fresh) = { fresh[k] : k \in 1..Len(n.fields) } /\ Range(n.fields) = { n.fields[k] : k \in 1..Len(n.fields) }
      BY <1>2, <1>5 DEF Range
    <2>2. \A k \in 1..Len(n.fields) : fresh[k].node = n.fields[k].node
      BY <1>4
    <2>. QED
      BY ONLY <2>1, <2>2
  <1>12. Refs(r) = Refs(n)
    BY <1>9, <1>11 DEF Refs
  <1>13. r.structuralFast => n.structuralFast /\ r.fields = n.fields
    BY <1>6, <1>9
  <1>. QED
    BY <1>9, <1>10, <1>12, <1>13 DEF r

\* The finished table: a whole plan that waits for nothing.
LEMMA DoneIs ==
    ASSUME CompilerAssumption, Inv, step = "done"
    PROVE  /\ stack = <<>> /\ createdCount \in Nat \ {0} /\ Journal[1] = Root /\ nodes[Root] = ret
           /\ \A k \in 1..createdCount :
                /\ nodes[Journal[k]] \in 1..Len(heap) /\ heap[nodes[Journal[k]]] \in NodeRecords /\ Journal[k] \in Types
                /\ RecordOk(graph, mode, Journal, nodes, heap, {}, createdCount, decodeNeedsFinalize, k, heap[nodes[Journal[k]]])
           /\ Reached(Journal, nodes, heap, {}, createdCount)
           /\ mode = "encode" =>
                Owned(Journal, nodes, heap, encScratchTypes, createdCount, Len(encScratchTypes), encBackingSlots, encHasMap)
           /\ { nodes[Journal[k]] : k \in 1..createdCount } = Range(nodes) \ {0}
  <1>1. CompilerTypeOK /\ TableOk /\ LevelsOk /\ StepOk
    BY DEF Inv
  <1>2. stack = <<>> /\ createdCount > 0 /\ Journal[1] = Root /\ nodes[Root] = ret
    BY <1>1 DEF StepOk, Running
  <1>3. createdCount \in Nat /\ JournalOk /\ heap \in Seq(NodeRecords) /\ Len(heap) \in Nat /\ nodes \in [Types -> Nat]
    BY <1>1, LenProperties DEF CompilerTypeOK, JournalOk
  <1>4. Len(stack) = 0
    BY <1>2
  <1>5. PICK i : i = Len(stack) + 1
    OBVIOUS
  <1>6. i = 1 /\ Level(i) /\ ~(i <= Len(stack))
    BY <1>1, <1>4, <1>5 DEF LevelsOk
  <1>7. Cut(i) = createdCount /\ ScratchCut(i) = Len(encScratchTypes) /\ BackingCut(i) = encBackingSlots /\ MapCut(i) = encHasMap
    BY <1>6 DEF Cut, ScratchCut, BackingCut, MapCut
  <1>8. Open(i) = {} /\ Wait(i) = {}
    <2>1. 1..(i - 1) = {}
      BY <1>6
    <2>2. Open(i) = {}
      BY <2>1 DEF Open
    <2>. QED
      BY <1>6, <2>2 DEF Wait, Returned
  <1>9. Whole(graph, mode, Journal, nodes, heap, {}, createdCount, decodeNeedsFinalize)
    BY <1>6, <1>7, <1>8 DEF Level
  <1>10. Reached(Journal, nodes, heap, {}, createdCount)
    BY <1>6, <1>7, <1>8 DEF Level
  <1>11. mode = "encode" =>
           Owned(Journal, nodes, heap, encScratchTypes, createdCount, Len(encScratchTypes), encBackingSlots, encHasMap)
    BY <1>6, <1>7 DEF Level
  <1>12. ASSUME NEW k \in 1..createdCount
         PROVE  /\ nodes[Journal[k]] \in 1..Len(heap) /\ heap[nodes[Journal[k]]] \in NodeRecords /\ Journal[k] \in Types
                /\ RecordOk(graph, mode, Journal, nodes, heap, {}, createdCount, decodeNeedsFinalize, k, heap[nodes[Journal[k]]])
    <2>1. nodes[Journal[k]] \in 1..Len(heap)
      BY <1>9 DEF Whole
    <2>2. Journal[k] \in Types
      BY <1>3, JournalIs
    <2>3. heap[nodes[Journal[k]]] \in NodeRecords
      BY <1>3, <2>1, ElementOfSeq
    <2>4. RecordOk(graph, mode, Journal, nodes, heap, {}, createdCount, decodeNeedsFinalize, k, heap[nodes[Journal[k]]])
      BY <1>9 DEF Whole
    <2>. QED
      BY <2>1, <2>2, <2>3, <2>4
  <1>13. { nodes[Journal[k]] : k \in 1..createdCount } = Range(nodes) \ {0}
    <2>1. ASSUME NEW k \in 1..createdCount PROVE nodes[Journal[k]] \in Range(nodes) \ {0}
      <3>1. nodes[Journal[k]] # 0
        BY <1>12
      <3>. QED
        BY <1>3, <1>12, <3>1 DEF Range
    <2>2. ASSUME NEW x \in Range(nodes) \ {0} PROVE \E k \in 1..createdCount : x = nodes[Journal[k]]
      <3>1. PICK t \in Types : nodes[t] = x
        BY <1>3 DEF Range
      <3>. QED
        BY <1>1, <3>1 DEF TableOk
    <2>. QED
      BY <2>1, <2>2
  <1>. QED
    BY <1>2, <1>3, <1>10, <1>11, <1>12, <1>13

\* The records of the plan that is published: the same nodes, in the same relation.
LEMMA PublishedIs ==
    ASSUME CompilerAssumption, Inv, Publish
    PROVE  /\ heap' \in Seq(NodeRecords) /\ Len(heap') = Len(heap) /\ (mode = "encode" => heap' = heap)
           /\ \A k \in 1..createdCount :
                LET r == heap'[nodes[Journal[k]]]
                IN  /\ r.type = Journal[k] /\ r.op = Op(Journal[k]) /\ Refs(r) = Refs(heap[nodes[Journal[k]]])
                    /\ \A f \in Range(r.fields) : /\ f.op = heap'[f.node].op \/ (~compilesDecode /\ f.op = "invalid")
                                                  /\ r.structuralFast => f.op \in FastOps
  <1>1. step = "done" /\ CompilerTypeOK
    BY DEF Publish, Inv
  <1>2. \A k \in 1..createdCount :
           /\ nodes[Journal[k]] \in 1..Len(heap) /\ heap[nodes[Journal[k]]] \in NodeRecords /\ Journal[k] \in Types
           /\ RecordOk(graph, mode, Journal, nodes, heap, {}, createdCount, decodeNeedsFinalize, k, heap[nodes[Journal[k]]])
    BY <1>1, DoneIs
  <1>3. { nodes[Journal[k]] : k \in 1..createdCount } = Range(nodes) \ {0}
    BY <1>1, DoneIs
  <1>4. heap \in Seq(NodeRecords) /\ Len(heap) \in Nat /\ DOMAIN heap = 1..Len(heap)
    BY <1>1, LenProperties DEF CompilerTypeOK
  <1>5. ASSUME NEW k \in 1..createdCount, NEW f \in Range(heap[nodes[Journal[k]]].fields)
        PROVE  \E l \in 1..createdCount : nodes[Journal[l]] = f.node
    <2>1. f.node \in Refs(heap[nodes[Journal[k]]])
      BY DEF Refs
    <2>. QED
      BY <1>2, <2>1 DEF RecordOk
  <1>6. ASSUME NEW k \in 1..createdCount
        PROVE  /\ heap[nodes[Journal[k]]].type = Journal[k] /\ heap[nodes[Journal[k]]].op = Op(Journal[k])
               /\ Decodes(mode) = compilesDecode
    BY <1>1, <1>2, GraphIs DEF RecordOk
  <1>7. CASE compilesDecode /\ decodeNeedsFinalize
    <2>1. heap' = [k \in DOMAIN heap |-> IF k \in Range(nodes) THEN finalizeDecodeFields(heap[k]) ELSE heap[k]]
      BY <1>7 DEF Publish
    <2>2. mode # "encode"
      BY <1>7 DEF compilesDecode
    <2>3. ASSUME NEW k \in 1..createdCount, NEW n, n = heap[nodes[Journal[k]]]
          PROVE  LET r == finalizeDecodeFields(n)
                 IN  /\ heap'[nodes[Journal[k]]] = r /\ r \in NodeRecords
                     /\ r.type = n.type /\ r.op = n.op /\ Refs(r) = Refs(n)
                     /\ \A f \in Range(r.fields) : f.op = heap[f.node].op
                     /\ r.structuralFast => n.structuralFast /\ r.fields = n.fields
      <3>1. n \in NodeRecords /\ nodes[Journal[k]] \in 1..Len(heap)
        BY <1>2, <2>3
      <3>2. \A f \in Range(n.fields) : heap[f.node].op \in Ops
        <4> SUFFICES ASSUME NEW f \in Range(n.fields) PROVE heap[f.node].op \in Ops
          OBVIOUS
        <4>1. PICK l \in 1..createdCount : nodes[Journal[l]] = f.node
          BY <1>5, <2>3
        <4>2. heap[f.node] \in NodeRecords
          BY <1>2, <4>1
        <4>. QED
          BY <4>2 DEF NodeRecords
      <3>3. heap'[nodes[Journal[k]]] = finalizeDecodeFields(n)
        <4>1. nodes[Journal[k]] \in Range(nodes)
          BY <1>3
        <4>. QED
          BY <1>4, <2>1, <2>3, <3>1, <4>1
      <3>. QED
        BY <3>1, <3>2, <3>3, FinalizedIs
    <2>4. heap' \in Seq(NodeRecords) /\ Len(heap') = Len(heap)
      <3>1. ASSUME NEW x \in 1..Len(heap) PROVE heap'[x] \in NodeRecords
        <4>1. CASE x \in Range(nodes)
          <5>1. x \in Range(nodes) \ {0}
            BY <4>1
          <5>2. PICK k \in 1..createdCount : x = nodes[Journal[k]]
            BY <1>3, <5>1
          <5>. QED
            BY <2>3, <5>2
        <4>2. CASE x \notin Range(nodes)
          BY <1>4, <2>1, <4>2, ElementOfSeq
        <4>. QED
          BY <4>1, <4>2
      <3>2. DOMAIN heap' = 1..Len(heap) /\ heap' = [x \in 1..Len(heap) |-> heap'[x]]
        <4>1. \E g : heap' = [x \in 1..Len(heap) |-> g[x]]
          <5>1. PICK g : g = [k \in DOMAIN heap |-> IF k \in Range(nodes) THEN finalizeDecodeFields(heap[k]) ELSE heap[k]]
            OBVIOUS
          <5>2. g = [x \in 1..Len(heap) |-> g[x]]
            BY <1>4, <5>1
          <5>. QED
            BY <2>1, <5>1, <5>2
        <4>. QED
          BY <4>1
      <3>3. heap' \in [1..Len(heap) -> NodeRecords]
        BY <3>1, <3>2
      <3>. QED
        BY <1>4, <3>2, <3>3, LenProperties
    <2>5. ASSUME NEW k \in 1..createdCount, NEW r, r = heap'[nodes[Journal[k]]]
          PROVE  /\ r.type = Journal[k] /\ r.op = Op(Journal[k]) /\ Refs(r) = Refs(heap[nodes[Journal[k]]])
                 /\ \A f \in Range(r.fields) : f.op = heap'[f.node].op /\ (r.structuralFast => f.op \in FastOps)
      <3>1. /\ r.type = Journal[k] /\ r.op = Op(Journal[k]) /\ Refs(r) = Refs(heap[nodes[Journal[k]]])
            /\ \A f \in Range(r.fields) : f.op = heap[f.node].op
            /\ r.structuralFast => heap[nodes[Journal[k]]].structuralFast /\ r.fields = heap[nodes[Journal[k]]].fields
        BY <1>6, <2>3, <2>5
      <3>2. ASSUME NEW f \in Range(r.fields)
            PROVE  f.op = heap'[f.node].op /\ (r.structuralFast => f.op \in FastOps)
        <4>1. f.node \in Refs(heap[nodes[Journal[k]]])
          <5>1. f.node \in Refs(r)
            BY DEF Refs
          <5>. QED
            BY <3>1, <5>1
        <4>2. PICK l \in 1..createdCount : nodes[Journal[l]] = f.node
          BY <1>2, <4>1 DEF RecordOk
        <4>3. heap'[f.node].op = heap[f.node].op
          BY <2>3, <4>2
        <4>4. r.structuralFast => f.op \in FastOps
          BY <1>2, <3>1 DEF RecordOk
        <4>. QED
          BY <3>1, <4>3, <4>4
      <3>. QED
        BY <3>1, <3>2
    <2>. QED
      BY <2>2, <2>4, <2>5
  <1>8. CASE ~(compilesDecode /\ decodeNeedsFinalize)
    <2>1. heap' = heap
      BY <1>8 DEF Publish
    <2>2. ASSUME NEW k \in 1..createdCount, NEW f \in Range(heap[nodes[Journal[k]]].fields)
          PROVE  /\ f.op = heap[f.node].op \/ (~compilesDecode /\ f.op = "invalid")
                 /\ heap[nodes[Journal[k]]].structuralFast => f.op \in FastOps
      <3>1. CopyOk(mode, Journal, nodes, heap, {}, decodeNeedsFinalize, f)
        BY <1>2 DEF RecordOk
      <3>2. heap[nodes[Journal[k]]].structuralFast => f.op \in FastOps
        BY <1>2 DEF RecordOk
      <3>3. Decodes(mode) = compilesDecode
        BY DEF Decodes, compilesDecode
      <3>. QED
        BY <1>8, <3>1, <3>2, <3>3 DEF CopyOk
    <2>. QED
      BY <1>4, <1>6, <2>1, <2>2
  <1>. QED
    BY <1>7, <1>8

\* What is compiled has a plan.
LEMMA DoneIsCompilable ==
    ASSUME CompilerAssumption, Inv, step = "done"
    PROVE  Root \in Compilable
  <1> DEFINE S == { Journal[k] : k \in 1..createdCount }
  <1>1. createdCount \in Nat \ {0} /\ Journal[1] = Root
    BY DoneIs
  <1>2. ASSUME NEW k \in 1..createdCount
        PROVE  Journal[k] \in Types /\ Provided(graph, Journal, createdCount, Journal[k])
    BY DoneIs DEF RecordOk
  <1>3. S \in SUBSET Types
    BY <1>2
  <1>4. ASSUME NEW t \in S
        PROVE  graph[t].hook \/ (graph[t].kind # "chan" /\ Range(graph[t].parts) \subseteq S)
    <2>1. Provided(graph, Journal, createdCount, t)
      BY <1>2
    <2>. QED
      BY <2>1 DEF Provided
  <1>5. Root \in S
    BY <1>1
  <1> HIDE DEF S
  <1>. QED
    BY <1>3, <1>4, <1>5, CompilableIs

\* Finalization copies every node of a table that waits for nothing.
LEMMA PublishOk ==
    ASSUME CompilerAssumption, Inv, Publish
    PROVE  Inv'
  <1> DEFINE J == Journal
             c == createdCount
  <1>1. /\ step = "done" /\ step' = "published" /\ CompilerTypeOK /\ TableOk
        /\ UNCHANGED <<graph, mode, nodes, journal, resources, stack, ret>>
        /\ decodeNeedsFinalize' = IF compilesDecode THEN FALSE ELSE decodeNeedsFinalize
    BY DEF Publish, Inv
  <1>2. /\ stack = <<>> /\ c \in Nat \ {0} /\ J[1] = Root /\ nodes[Root] = ret
        /\ Reached(J, nodes, heap, {}, c)
        /\ { nodes[J[k]] : k \in 1..c } = Range(nodes) \ {0}
    BY <1>1, DoneIs
  <1>3. \A k \in 1..c : /\ nodes[J[k]] \in 1..Len(heap) /\ J[k] \in Types
                        /\ \A m \in Refs(heap[nodes[J[k]]]) : \E l \in 1..c : nodes[J[l]] = m
    BY <1>1, DoneIs DEF RecordOk
  <1>4. heap' \in Seq(NodeRecords) /\ Len(heap') = Len(heap) /\ (mode = "encode" => heap' = heap)
    BY PublishedIs
  <1>5. \A k \in 1..c :
           LET r == heap'[nodes[J[k]]]
           IN  /\ r.type = J[k] /\ r.op = Op(J[k]) /\ Refs(r) = Refs(heap[nodes[J[k]]])
               /\ \A f \in Range(r.fields) : /\ f.op = heap'[f.node].op \/ (~compilesDecode /\ f.op = "invalid")
                                             /\ r.structuralFast => f.op \in FastOps
    BY PublishedIs
  <1>6. Journal' = J /\ createdCount' = c
    BY <1>1 DEF Journal, JournalAt, journal
  <1>7. CompilerTypeOK'
    BY <1>1, <1>4 DEF CompilerTypeOK, JournalOk, journal, resources
  <1>8. TableOk'
    BY <1>1, <1>6 DEF TableOk
  <1>9. StackOk' /\ LevelsOk'
    <2>1. stack' = <<>> /\ Len(stack') = 0
      BY <1>1, <1>2
    <2>. QED
      BY <1>1, <2>1 DEF StackOk, LevelsOk
  <1> HIDE DEF J, c
  <1>10. PlanOf(heap', ret) = { nodes[J[k]] : k \in 1..c }
    <2>1. Reached(J, nodes, heap', {}, c)
      BY <1>2, <1>5 DEF Reached
    <2>2. Spanned(J, nodes, heap', c)
      BY <1>3, <1>4, <1>5 DEF Spanned
    <2>3. c \in Nat /\ c > 0 /\ nodes[J[1]] = ret
      BY <1>2
    <2>4. PlanOf(heap', nodes[J[1]]) = Entries(J, nodes, c)
      BY ONLY <2>1, <2>2, <2>3, PlanIs
    <2>. QED
      BY <2>3, <2>4 DEF Entries
  <1>11. Plan(ret)' = { nodes[J[k]] : k \in 1..c }
    <2>1. Plan(ret)' = PlanOf(heap', ret')
      BY DEF Plan, PlanOf, Closed, PartsOf, Refs
    <2>. QED
      BY <1>1, <1>10, <2>1
  <1>13. compilesDecode' = compilesDecode
    BY <1>1 DEF compilesDecode
  <1>14. PlanWhole'
    <2>1. Plan(ret)' = Range(nodes') \ {0}
      BY <1>1, <1>2, <1>11
    <2>2. ASSUME NEW n \in Plan(ret)'
          PROVE  /\ (nodes[heap[n].type] = n /\ heap[n].op = Op(heap[n].type))'
                 /\ \A f \in Range(heap'[n].fields) :
                      /\ f.op = heap'[f.node].op \/ (~compilesDecode' /\ f.op = "invalid")
                      /\ heap'[n].structuralFast => f.op \in FastOps
      <3>1. PICK k \in 1..c : n = nodes[J[k]]
        BY <1>11
      <3>2. PICK t : t = J[k]
        OBVIOUS
      <3>3. heap'[n].type = t /\ heap'[n].op = Op(t) /\ t \in Types
        BY <1>3, <1>5, <3>1, <3>2
      <3>4. (heap[n].op = Op(heap[n].type))'
        BY <1>1, <3>3 DEF Op, Replaces
      <3>5. nodes'[heap'[n].type] = n
        BY <1>1, <3>1, <3>2, <3>3
      <3>. QED
        BY <1>5, <1>13, <3>1, <3>4, <3>5
    <2>. QED
      BY <1>1, <2>1, <2>2 DEF PlanWhole
  <1>15. SlotsOwned'
    <2> SUFFICES ASSUME mode = "encode" PROVE SlotsOwned'
      BY <1>1 DEF SlotsOwned
    <2>0. PICK plan : plan = Entries(J, nodes, c)
      OBVIOUS
    <2> DEFINE keys == { n \in plan : heap[n].encMapKey >= 0 }
               boxes == { n \in plan : heap[n].encScratch >= 0 }
    <2>1. heap' = heap /\ encScratchTypes' = encScratchTypes /\ encBackingSlots' = encBackingSlots /\ encHasMap' = encHasMap
      BY <1>1, <1>4 DEF resources
    <2>2. Owned(J, nodes, heap, encScratchTypes, c, Len(encScratchTypes), encBackingSlots, encHasMap)
      BY <1>1, DoneIs DEF J, c
    <2>3. /\ heap \in Seq(NodeRecords) /\ Len(encScratchTypes) \in Nat /\ encBackingSlots \in Nat /\ encHasMap \in BOOLEAN
          /\ c \in Nat /\ \A k \in 1..c : nodes[J[k]] \in 1..Len(heap)
      BY <1>1, <1>2, <1>3, LenProperties DEF CompilerTypeOK
    <2>a. SlotsFit(J, nodes, heap, encScratchTypes, c, encBackingSlots, encHasMap, plan)
      BY ONLY <2>0, <2>2, <2>3, SlotsAre
    <2>4. /\ \A n \in keys : \E k \in 1..c : n = nodes[J[k]] /\ encScratchTypes[heap[n].encMapKey + 1] = <<"key", J[k]>>
          /\ \A n \in boxes : \E k \in 1..c : n = nodes[J[k]] /\ encScratchTypes[heap[n].encScratch + 1] = <<"value", J[k]>>
          /\ Cardinality(keys) + Cardinality(boxes) = Len(encScratchTypes)
          /\ { heap[n].encBacking : n \in keys } = 0..(encBackingSlots - 1)
          /\ Cardinality(keys) = encBackingSlots /\ encHasMap = (keys # {})
      BY <2>a DEF SlotsFit
    <2>5. \A k \in 1..c : heap[nodes[J[k]]].type = J[k]
      BY <1>5, <2>1
    <2> HIDE DEF keys, boxes
    <2>6. /\ \A n \in keys : encScratchTypes[heap[n].encMapKey + 1] = <<"key", heap[n].type>>
          /\ \A n \in boxes : encScratchTypes[heap[n].encScratch + 1] = <<"value", heap[n].type>>
      <3>1. ASSUME NEW n \in keys
            PROVE  encScratchTypes[heap[n].encMapKey + 1] = <<"key", heap[n].type>>
        <4>1. PICK k \in 1..c : n = nodes[J[k]] /\ encScratchTypes[heap[n].encMapKey + 1] = <<"key", J[k]>>
          BY <2>4
        <4>. QED
          BY <2>5, <4>1
      <3>2. ASSUME NEW n \in boxes
            PROVE  encScratchTypes[heap[n].encScratch + 1] = <<"value", heap[n].type>>
        <4>1. PICK k \in 1..c : n = nodes[J[k]] /\ encScratchTypes[heap[n].encScratch + 1] = <<"value", J[k]>>
          BY <2>4
        <4>. QED
          BY <2>5, <4>1
      <3>. QED
        BY <3>1, <3>2
    <2>7. keys = { n \in Plan(ret)' : heap'[n].encMapKey >= 0 } /\ boxes = { n \in Plan(ret)' : heap'[n].encScratch >= 0 }
      BY <1>11, <2>0, <2>1 DEF keys, boxes, Entries
    <2>8. step' # "failed"
      BY <1>1
    <2>9. /\ \A n \in keys : encScratchTypes'[heap'[n].encMapKey + 1] = <<"key", heap'[n].type>>
          /\ \A n \in boxes : encScratchTypes'[heap'[n].encScratch + 1] = <<"value", heap'[n].type>>
          /\ Cardinality(keys) + Cardinality(boxes) = Len(encScratchTypes')
          /\ { heap'[n].encBacking : n \in keys } = 0..(encBackingSlots' - 1)
          /\ Cardinality(keys) = encBackingSlots' /\ encHasMap' = (keys # {})
      BY ONLY <2>1, <2>4, <2>6, Zenon
    <2>. QED
      BY ONLY <2>7, <2>8, <2>9 DEF SlotsOwned
  <1>16. VerdictRight'
    <2>1. Compilable' = Compilable
      BY <1>1 DEF Compilable
    <2>. QED
      BY <1>1, <2>1, DoneIsCompilable DEF VerdictRight
  <1>17. StepOk'
    BY <1>1, <1>2, <1>14, <1>15, <1>16 DEF StepOk, PlanSound, Running
  <1>. QED
    BY <1>7, <1>8, <1>9, <1>17 DEF Inv

-----------------------------------------------------------------------------
(***************************************************************************)
(* The theorems.                                                           *)
(***************************************************************************)

\* Nothing is created before the first call.
LEMMA InitOk ==
    ASSUME CompilerAssumption, CompilerInit
    PROVE  Inv
  <1> USE DEF CompilerInit
  <1>1. /\ stack = <<>> /\ Len(stack) = 0 /\ step = "start" /\ createdCount = 0 /\ encScratchTypes = <<>>
        /\ encBackingSlots = 0 /\ encHasMap = FALSE /\ heap = <<>> /\ nodes = [t \in Types |-> 0]
    OBVIOUS
  <1>2. CompilerTypeOK
    <2>1. <<>> \in Seq(Types) /\ <<>> \in Seq(NodeRecords) /\ <<>> \in Seq(ScratchTypes) /\ <<>> \in Seq(FrameRecords)
      BY EmptySeq
    <2>2. InlineSize \in Nat
      BY DEF CompilerAssumption
    <2>3. JournalOk
      BY <2>1, <2>2 DEF JournalOk
    <2>. QED
      BY <2>1, <2>3 DEF CompilerTypeOK
  <1>3. TableOk /\ StackOk
    BY <1>1 DEF TableOk, StackOk
  <1>4. LevelsOk
    <2>1. PICK i : i = Len(stack) + 1
      OBVIOUS
    <2>2. i = 1 /\ ~(i <= Len(stack))
      BY <1>1, <2>1
    <2>3. Cut(i) = 0 /\ ScratchCut(i) = 0 /\ BackingCut(i) = 0 /\ MapCut(i) = FALSE
      BY <1>1, <2>2 DEF Cut, ScratchCut, BackingCut, MapCut
    <2>4. Whole(graph, mode, Journal, nodes, heap, Open(i), 0, decodeNeedsFinalize)
      BY DEF Whole
    <2>5. Reached(Journal, nodes, heap, Wait(i), 0)
      BY DEF Reached
    <2>6. Owned(Journal, nodes, heap, encScratchTypes, 0, 0, 0, FALSE)
      BY <1>1 DEF Owned
    <2>7. Level(i)
      BY <2>3, <2>4, <2>5, <2>6 DEF Level
    <2>. QED
      BY <1>1, <2>1, <2>7 DEF LevelsOk
  <1>5. StepOk
    BY <1>1 DEF StepOk, Running, VerdictRight, PlanSound, PlanWhole, SlotsOwned
  <1>. QED
    BY <1>2, <1>3, <1>4, <1>5 DEF Inv

\* A part that has its node already is attached.
LEMMA ReuseOk ==
    ASSUME CompilerAssumption, Inv, Reuse
    PROVE  Inv'
  <1>1. PICK part : part = nodes[Part]
    OBVIOUS
  <1>2. step = "run" /\ Frame.next <= Len(graph[Type].parts) /\ part # 0 /\ Attach(part)
    BY <1>1 DEF Reuse
  <1>3. stack # <<>>
    BY <1>2 DEF Inv, StepOk, Running
  <1>. QED
    BY <1>1, <1>2, <1>3, AttachOk

\* So is the node of the call that just returned.
LEMMA ResumeOk ==
    ASSUME CompilerAssumption, Inv, Resume
    PROVE  Inv'
  <1>1. PICK part : part = ret
    OBVIOUS
  <1>2. step = "ok" /\ Attach(part)
    BY <1>1 DEF Resume
  <1>3. stack # <<>> /\ CompilerTypeOK /\ StackOk /\ LevelsOk
    BY <1>2 DEF Inv, StepOk, Running
  <1>4. Frame.next <= Len(graph[Type].parts) /\ nodes[Part] = part
    BY <1>1, <1>2 DEF Inv, StepOk
  <1>5. PICK k \in (Frame.created + 2)..createdCount : Journal[k] = Part
    BY <1>2 DEF Inv, StepOk
  <1>6. part # 0
    <2>1. Frame.created \in Nat /\ createdCount \in Nat /\ Len(stack) \in Nat /\ Len(heap) \in Nat
      BY <1>3, FrameIs, LenProperties DEF CompilerTypeOK, JournalOk
    <2>2. k \in 1..createdCount
      BY <1>5, <2>1
    <2>3. PICK i : i = Len(stack) + 1
      OBVIOUS
    <2>4. Level(i) /\ Cut(i) = createdCount
      BY <1>2, <1>3, <2>1, <2>3 DEF LevelsOk, Cut
    <2>5. nodes[Journal[k]] \in 1..Len(heap)
      BY <2>2, <2>4 DEF Level, Whole
    <2>. QED
      BY <1>4, <1>5, <2>1, <2>5
  <1>. QED
    BY <1>1, <1>2, <1>3, <1>4, <1>6, AttachOk

\* The next part is entered.
LEMMA DescendOk ==
    ASSUME CompilerAssumption, Inv, Descend
    PROVE  Inv'
  <1>1. PICK t : t = Part
    OBVIOUS
  <1>2. step = "run" /\ Frame.next <= Len(graph[Type].parts) /\ compileAt(t)
    BY <1>1 DEF Descend
  <1>3. stack # <<>> /\ CompilerTypeOK /\ StackOk
    BY <1>2 DEF Inv, StepOk, Running
  <1>4. t \in Types
    <2>1. Type \in Types /\ FrameOk(Len(stack)) /\ Frame = stack[Len(stack)] /\ Frame.next \in Nat
      BY <1>3, FrameIs
    <2>2. graph[Type].parts \in Seq(Types) /\ Len(graph[Type].parts) \in Nat
      BY <1>3, <2>1, GraphIs, LenProperties
    <2>3. Frame.next >= 1
      BY <2>1 DEF FrameOk
    <2>4. Frame.next \in 1..Len(graph[Type].parts)
      BY <1>2, <2>1, <2>2, <2>3
    <2>. QED
      BY <1>1, <2>2, <2>4, ElementOfSeq DEF Part
  <1>. QED
    BY <1>1, <1>2, <1>4, CompileAtOk

\* compile enters the root in an empty table.
LEMMA CompileOk ==
    ASSUME CompilerAssumption, Inv, compile
    PROVE  Inv'
  <1>1. step = "start" /\ compileAt(Root) /\ Root \in Types
    BY DEF compile, CompilerAssumption
  <1>. QED
    BY <1>1, CompileAtOk

\* A step that leaves the compiler alone leaves the invariant alone.
LEMMA InvStays ==
    ASSUME CompilerAssumption, Inv, UNCHANGED compilerVars
    PROVE  Inv'
  <1>1. /\ UNCHANGED <<graph, mode, nodes, heap, decodeNeedsFinalize, stack, step, ret>>
        /\ UNCHANGED <<created, createdOverflow, createdCount, encScratchTypes, encBackingSlots, encHasMap>>
    BY DEF compilerVars, journal, resources
  <1>2. Journal' = Journal /\ Frame' = Frame
    BY <1>1 DEF Journal, JournalAt, Frame
  <1>3. Type' = Type /\ Part' = Part
    BY <1>1, <1>2 DEF Type, Part
  <1>4. Returned' = Returned /\ Compilable' = Compilable
    BY <1>1, <1>2 DEF Returned, Compilable
  <1>5. \A i : /\ Cut(i)' = Cut(i) /\ ScratchCut(i)' = ScratchCut(i) /\ BackingCut(i)' = BackingCut(i)
               /\ MapCut(i)' = MapCut(i) /\ Open(i)' = Open(i) /\ TypeAt(i)' = TypeAt(i)
    BY <1>1 DEF Cut, ScratchCut, BackingCut, MapCut, Open, TypeAt
  <1>6. \A i : Wait(i)' = Wait(i)
    BY <1>1, <1>4, <1>5 DEF Wait
  <1>7. \A i : Level(i)' = Level(i)
    BY <1>1, <1>2, <1>5, <1>6 DEF Level
  <1>8. LevelsOk' /\ CompilerTypeOK' /\ TableOk'
    BY <1>1, <1>2, <1>7 DEF Inv, LevelsOk, CompilerTypeOK, JournalOk, TableOk
  <1>9. \A i \in 1..Len(stack) : FrameOk(i) => FrameOk(i)'
    BY <1>1, <1>2, <1>5 DEF FrameOk
  <1>10. StackOk'
    BY <1>1, <1>5, <1>9 DEF Inv, StackOk
  <1>11. VerdictRight' /\ PlanSound'
    <2>1. VerdictRight'
      BY <1>1, <1>4 DEF Inv, StepOk, VerdictRight
    <2>2. PlanSound'
      <3>1. Plan(ret)' = Plan(ret)
        BY <1>1 DEF Plan, PartsOf
      <3>2. \A n : (heap[n].op = Op(heap[n].type))' <=> heap[n].op = Op(heap[n].type)
        BY <1>1 DEF Op, Replaces
      <3>3. compilesDecode' = compilesDecode
        BY <1>1 DEF compilesDecode
      <3>4. PlanWhole /\ SlotsOwned
        BY DEF Inv, StepOk, PlanSound
      <3>5. PlanWhole'
        BY <1>1, <3>1, <3>2, <3>3, <3>4 DEF PlanWhole
      <3>6. SlotsOwned'
        BY <1>1, <3>1, <3>4 DEF SlotsOwned
      <3>. QED
        BY <3>5, <3>6 DEF PlanSound
    <2>. QED
      BY <2>1, <2>2
  <1>12. Hopeless' = Hopeless
    BY <1>1, <1>3, <1>4 DEF Hopeless
  <1>13. StepOk'
    BY <1>1, <1>2, <1>3, <1>11, <1>12 DEF Inv, StepOk
  <1>. QED
    BY <1>8, <1>10, <1>13 DEF Inv

\* The invariant holds throughout: of every step of the compiler, in any graph.
THEOREM Invariance ==
    ASSUME CompilerAssumption
    PROVE  CompilerSpec => []Inv
  <1>1. CompilerInit => Inv
    BY InitOk
  <1>2. Inv /\ [CompilerNext]_compilerVars => Inv'
    <2> SUFFICES ASSUME Inv, [CompilerNext]_compilerVars PROVE Inv'
      OBVIOUS
    <2>1. CASE compile
      BY <2>1, CompileOk
    <2>2. CASE Descend
      BY <2>2, DescendOk
    <2>3. CASE Reuse
      BY <2>3, ReuseOk
    <2>4. CASE Resume
      BY <2>4, ResumeOk
    <2>5. CASE unsupported
      BY <2>5, UnsupportedOk
    <2>6. CASE Complete
      BY <2>6, CompleteOk
    <2>7. CASE Abandon
      BY <2>7, AbandonOk
    <2>8. CASE Publish
      BY <2>8, PublishOk
    <2>9. CASE UNCHANGED compilerVars
      BY <2>9, InvStays
    <2>. QED
      BY <2>1, <2>2, <2>3, <2>4, <2>5, <2>6, <2>7, <2>8, <2>9 DEF CompilerNext
  <1>. QED
    BY <1>1, <1>2, PTL DEF CompilerSpec

\* A plan that is published consists of the nodes of the table, all complete,
\* with copies that are theirs, and the scratch of an encoder is theirs, each
\* slot of one node: whatever was abandoned on the way left nothing behind.
THEOREM PlanIsSound ==
    ASSUME CompilerAssumption
    PROVE  CompilerSpec => []PlanSound
  <1>1. Inv => PlanSound
    BY DEF Inv, StepOk
  <1>. QED
    BY <1>1, Invariance, PTL

\* compile succeeds exactly for the types that have a plan, and a failure
\* leaves the table empty.
THEOREM VerdictIsRight ==
    ASSUME CompilerAssumption
    PROVE  CompilerSpec => []VerdictRight
  <1>1. Inv => VerdictRight
    BY DEF Inv, StepOk
  <1>. QED
    BY <1>1, Invariance, PTL

\* The table, the nodes, the journal, the scratch and the calls in progress
\* stay within their types; the journal is long enough for its count.
THEOREM TypeCorrect ==
    ASSUME CompilerAssumption
    PROVE  CompilerSpec => []CompilerTypeOK
  <1>1. Inv => CompilerTypeOK
    BY DEF Inv
  <1>. QED
    BY <1>1, Invariance, PTL

-----------------------------------------------------------------------------
(***************************************************************************)
(* Marshal's cache.                                                        *)
(***************************************************************************)
CacheInv == TypeOK /\ EntryShared /\ HasOutput /\ HintEarned /\ BudgetEarned

\* The assumptions, without the product they contain.
LEMMA Thresholds ==
    /\ \A s \in Sizes : s \in Nat
    /\ HintMin \in Nat /\ HintMax \in Nat /\ HintMin <= HintMax
    /\ Nil \notin Procs
  BY MarshalAssumption

\* A reported size stays reported.
LEMMA ReportGrows ==
    ASSUME NEW o \in Sizes, reported \in [Sizes -> 0..2], Report(o)
    PROVE  /\ reported' \in [Sizes -> 0..2]
           /\ \A s \in Sizes : reported'[s] >= reported[s]
           /\ reported'[o] >= 1
           /\ reported[o] >= 1 => reported'[o] = 2
  BY DEF Report

\* Sizes reported once or twice still are after another report.
LEMMA EarnedStays ==
    ASSUME NEW o \in Sizes, reported \in [Sizes -> 0..2], Report(o), NEW s \in Sizes
    PROVE  /\ reported[s] >= 1 => reported'[s] >= 1
           /\ reported[s] = 2 => reported'[s] = 2
  <1>1. PICK r : r = reported'[s]
    OBVIOUS
  <1>2. r >= reported[s] /\ r \in 0..2 /\ reported[s] \in 0..2
    BY <1>1, ReportGrows
  <1>. QED
    BY <1>1, <1>2

\* The local variables of a call that returns.
LEMMA ReturnTypes ==
    ASSUME TypeOK, NEW p \in Procs, Return(p)
    PROVE  /\ pc' \in [Procs -> {"idle", "compile", "found", "encode", "update", "swap"}]
           /\ entry' \in [Procs -> Procs \cup {Nil}] /\ alloc' \in [Procs -> Nat]
           /\ observed' \in [Procs -> Sizes \cup {0}] /\ stored' \in [Procs -> Estimates]
           /\ pc'[p] = "idle" /\ alloc'[p] = 0
           /\ \A q \in Procs \ {p} :
                 /\ pc'[q] = pc[q] /\ entry'[q] = entry[q] /\ alloc'[q] = alloc[q]
                 /\ observed'[q] = observed[q] /\ stored'[q] = stored[q]
  BY DEF TypeOK, Return, Estimates, Estimate

\* A capacity above HintMax is a confirmed estimate.
LEMMA LargeCapacity ==
    ASSUME NEW h \in Estimates
    PROVE  /\ loadMarshalSizeHint(h) \in Nat
           /\ loadMarshalSizeHint(h) > HintMax => ~h.unconfirmed /\ loadMarshalSizeHint(h) = h.size
  <1>1. HintMin * HintGrowth \in Nat /\ HintMin * HintGrowth <= HintMax
    BY MarshalAssumption
  <1>2. h.size \in Sizes \cup {0}
    BY DEF Estimates
  <1>3. h.size \in Nat
    <2>1. PICK z : z = h.size
      OBVIOUS
    <2>2. z \in Sizes \/ z = 0
      BY <1>2, <2>1
    <2>3. z \in Nat
      BY <2>2, Thresholds
    <2>. QED
      BY <2>1, <2>3
  <1>. QED
    BY <1>1, <1>3, Thresholds DEF loadMarshalSizeHint

\* What NextHint returns for an output o.
LEMMA NextHintEarned ==
    ASSUME NEW h \in Estimates, NEW o \in Sizes
    PROVE  /\ NextHint(h, o) \in Estimates
           /\ NextHint(h, o).size = o
           /\ ~NextHint(h, o).unconfirmed /\ o > HintMax => h.unconfirmed /\ h.size = o
  BY Thresholds DEF NextHint, Estimate, Estimates

LEMMA CacheInitInv == Init => CacheInv
  BY Thresholds DEF Init, CacheInv, TypeOK, EntryShared, HasOutput, HintEarned, BudgetEarned, Estimates, Estimate

\* The steps that touch neither estimates nor reports.
LEMMA LocalStep ==
    ASSUME CacheInv, NEW p \in Procs,
           Load(p) \/ LoadOrStore(p) \/ CompileError(p) \/ Allocate(p) \/ AppendJSON(p)
    PROVE  CacheInv'
  <1>1. CASE Load(p)
    BY <1>1 DEF CacheInv, TypeOK, EntryShared, HasOutput, HintEarned, BudgetEarned, Load
  <1>2. CASE LoadOrStore(p)
    BY <1>2, Thresholds DEF CacheInv, TypeOK, EntryShared, HasOutput, HintEarned, BudgetEarned, LoadOrStore
  <1>3. CASE CompileError(p)
    BY <1>3, ReturnTypes, Thresholds DEF CacheInv, TypeOK, EntryShared, HasOutput, HintEarned, BudgetEarned, CompileError
  <1>4. CASE Allocate(p)
    <2>1. entry[p] \in Procs /\ Hint(p) \in Estimates
      BY <1>4 DEF CacheInv, TypeOK, EntryShared, Allocate, Hint
    <2>2. alloc'[p] = loadMarshalSizeHint(Hint(p))
      BY <1>4 DEF CacheInv, TypeOK, Allocate
    <2>3. TypeOK' /\ EntryShared' /\ HasOutput' /\ HintEarned'
      BY <1>4, <2>1, LargeCapacity
      DEF CacheInv, TypeOK, EntryShared, HasOutput, HintEarned, Allocate
    <2>4. BudgetEarned'
      BY <1>4, <2>1, <2>2, LargeCapacity DEF CacheInv, TypeOK, HintEarned, BudgetEarned, Allocate, Hint
    <2>. QED
      BY <2>3, <2>4 DEF CacheInv
  <1>5. CASE AppendJSON(p)
    <2>1. CASE Return(p)
      BY <1>5, <2>1, ReturnTypes, Thresholds
      DEF CacheInv, TypeOK, EntryShared, HasOutput, HintEarned, BudgetEarned, AppendJSON
    <2>2. CASE ~Return(p)
      BY <1>5, <2>2
      DEF CacheInv, TypeOK, EntryShared, HasOutput, HintEarned, BudgetEarned, AppendJSON
    <2>. QED
      BY <2>1, <2>2
  <1>. QED
    BY <1>1, <1>2, <1>3, <1>4, <1>5

\* A call that returns after its report, with estimates that are still earned.
LEMMA ReportStep ==
    ASSUME CacheInv, NEW p \in Procs, pc[p] \in {"update", "swap"},
           Return(p), Report(observed[p]), UNCHANGED <<compiles, cached>>,
           hints' \in [Procs -> Estimates], HintEarned'
    PROVE  CacheInv'
  <1>1. observed[p] \in Sizes
    BY DEF CacheInv, HasOutput
  <1>2. reported' \in [Sizes -> 0..2] /\ \A s \in Sizes : reported'[s] >= reported[s]
    BY <1>1, ReportGrows DEF CacheInv, TypeOK
  <1>3. TypeOK
    BY DEF CacheInv
  <1>4. TypeOK' /\ EntryShared' /\ HasOutput'
    BY <1>2, <1>3, ReturnTypes DEF CacheInv, TypeOK, EntryShared, HasOutput
  <1>5. BudgetEarned'
    <2>. SUFFICES ASSUME NEW q \in Procs, alloc'[q] > HintMax
                  PROVE  alloc'[q] \in Sizes /\ reported'[alloc'[q]] = 2
      BY DEF BudgetEarned
    <2>1. q # p /\ alloc'[q] = alloc[q]
      BY <1>3, ReturnTypes, Thresholds
    <2>2. alloc[q] \in Sizes /\ reported[alloc[q]] = 2
      BY <2>1 DEF CacheInv, BudgetEarned
    <2>3. reported'[alloc[q]] >= reported[alloc[q]] /\ reported'[alloc[q]] \in 0..2
      BY <1>2, <2>2
    <2>. QED
      BY <2>1, <2>2, <2>3
  <1>. QED
    BY <1>4, <1>5 DEF CacheInv

LEMMA UpdateStep ==
    ASSUME CacheInv, NEW p \in Procs, UpdateLoad(p) \/ CompareAndSwap(p)
    PROVE  CacheInv'
  <1>1. /\ entry[p] \in Procs /\ Hint(p) \in Estimates /\ stored[p] \in Estimates
        /\ observed[p] \in Sizes /\ hints \in [Procs -> Estimates]
        /\ reported \in [Sizes -> 0..2] /\ pc[p] \in {"update", "swap"}
    BY DEF CacheInv, TypeOK, EntryShared, HasOutput, UpdateLoad, CompareAndSwap, Hint
  <1>2. ASSUME Report(observed[p]), hints' = hints
        PROVE  HintEarned'
    BY <1>1, <1>2, EarnedStays DEF CacheInv, HintEarned
  <1>3. CASE UpdateLoad(p)
    <2>1. CASE Hint(p) = Estimate(observed[p], FALSE)
      BY <1>1, <1>2, <1>3, <2>1, ReportStep DEF UpdateLoad
    <2>2. CASE Hint(p) # Estimate(observed[p], FALSE)
      BY <1>1, <1>3, <2>2
      DEF CacheInv, TypeOK, EntryShared, HasOutput, HintEarned, BudgetEarned, UpdateLoad
    <2>. QED
      BY <2>1, <2>2
  <1>4. CASE CompareAndSwap(p)
    <2>1. CASE Hint(p) = stored[p]
      <3> DEFINE next == NextHint(stored[p], observed[p])
      <3>1. hints' = [hints EXCEPT ![entry[p]] = next] /\ Return(p) /\ Report(observed[p])
        BY <1>4, <2>1 DEF CompareAndSwap
      <3>2. /\ next \in Estimates /\ next.size = observed[p]
            /\ ~next.unconfirmed /\ observed[p] > HintMax =>
                  hints[entry[p]].unconfirmed /\ hints[entry[p]].size = observed[p]
        BY <1>1, <2>1, NextHintEarned DEF Hint
      <3>3. /\ \A s \in Sizes : reported'[s] >= reported[s] /\ reported'[s] \in 0..2
            /\ reported'[observed[p]] >= 1
            /\ reported[observed[p]] >= 1 => reported'[observed[p]] = 2
        BY <1>1, <3>1, ReportGrows
      <3> HIDE DEF next
      <3>4. HintEarned'
        <4>. SUFFICES ASSUME NEW e \in Procs
             PROVE  /\ hints'[e].unconfirmed => hints'[e].size \in Sizes /\ reported'[hints'[e].size] >= 1
                    /\ ~hints'[e].unconfirmed /\ hints'[e].size > HintMax =>
                          hints'[e].size \in Sizes /\ reported'[hints'[e].size] = 2
          BY DEF HintEarned
        <4>1. CASE e = entry[p]
          <5>1. hints'[e] = next
            BY <1>1, <3>1, <4>1
          <5>2. hints[e].unconfirmed => reported[hints[e].size] >= 1
            BY DEF CacheInv, HintEarned
          <5>. QED
            BY <1>1, <3>2, <3>3, <4>1, <5>1, <5>2
        <4>2. CASE e # entry[p]
          <5>1. hints'[e] = hints[e] /\ hints[e] \in Estimates
            BY <1>1, <3>1, <4>2
          <5>2. /\ hints[e].unconfirmed => hints[e].size \in Sizes /\ reported[hints[e].size] >= 1
                /\ ~hints[e].unconfirmed /\ hints[e].size > HintMax =>
                      hints[e].size \in Sizes /\ reported[hints[e].size] = 2
            BY DEF CacheInv, HintEarned
          <5>. QED
            BY <1>1, <3>1, <5>1, <5>2, EarnedStays
        <4>. QED
          BY <4>1, <4>2
      <3>5. hints' \in [Procs -> Estimates]
        BY <1>1, <3>1, <3>2
      <3>. QED
        BY <1>1, <1>4, <3>1, <3>4, <3>5, ReportStep DEF CompareAndSwap
    <2>2. CASE Hint(p) # stored[p]
      BY <1>1, <1>4, <2>2
      DEF CacheInv, TypeOK, EntryShared, HasOutput, HintEarned, BudgetEarned, CompareAndSwap, locals
    <2>. QED
      BY <2>1, <2>2
  <1>. QED
    BY <1>3, <1>4

LEMMA CacheNextInv == CacheInv /\ [Next]_vars => CacheInv'
  <1>. SUFFICES ASSUME CacheInv, [Next]_vars PROVE CacheInv'
    OBVIOUS
  <1>1. CASE Next
    BY <1>1, LocalStep, UpdateStep DEF Next
  <1>2. CASE UNCHANGED vars
    BY <1>2 DEF CacheInv, TypeOK, EntryShared, HasOutput, HintEarned, BudgetEarned, vars
  <1>. QED
    BY <1>1, <1>2

\* The inductive invariant holds in every reachable state.
THEOREM MarshalInvariance == Spec => []CacheInv
  BY CacheInitInv, CacheNextInv, PTL DEF Spec

\* Every goroutine that marshals a type uses the one entry the cache keeps,
\* however many compiled an encoder at once (newCachedEncoder).
THEOREM MarshalEntryShared == Spec => []EntryShared
  BY MarshalInvariance, PTL DEF CacheInv

\* A buffer larger than the hint's maximum has a size that two calls had
\* reported (loadMarshalSizeHint, updateMarshalSizeHint).
THEOREM MarshalBudgetEarned == Spec => []BudgetEarned
  BY MarshalInvariance, PTL DEF CacheInv

-----------------------------------------------------------------------------
(***************************************************************************)
(* The refinement of SizeHint.                                             *)
(***************************************************************************)

\* The mapped variables.
Reg     == IF cached = Nil THEN Estimate(0, FALSE) ELSE hints[cached]
Pending == [p \in Procs |-> IF pc[p] \in {"update", "swap"} THEN observed[p] ELSE 0]

\* On an estimate that was not returned for early, NextHint is Updated.
LEMMA NextHintIsUpdated ==
    ASSUME NEW h \in Estimates, NEW o \in Sizes, h # Estimate(o, FALSE)
    PROVE  NextHint(h, o) = Register!Updated(h, o)
  <1>1. h = Estimate(h.size, h.unconfirmed) /\ h.unconfirmed \in BOOLEAN
    BY DEF Estimates, Estimate
  <1>2. h.size = o => h.unconfirmed
    BY <1>1
  <1>. QED
    BY <1>2 DEF NextHint, Register!Updated, Estimate, Register!Estimate

\* Until an entry is stored no call has reached an estimate, and a call that
\* swaps has loaded something else than the confirmed size.
Fresh == cached = Nil => \A p \in Procs : hints[p] = Estimate(0, FALSE)
SwapNeeded == \A p \in Procs : pc[p] = "swap" => stored[p] # Estimate(observed[p], FALSE)

RInv == CacheInv /\ Fresh /\ SwapNeeded

LEMMA RInvInit == Init => RInv
  BY CacheInitInv DEF RInv, Init, Fresh, SwapNeeded

LEMMA RInvNext == RInv /\ [Next]_vars => RInv'
  <1>. SUFFICES ASSUME RInv, [Next]_vars PROVE Fresh' /\ SwapNeeded'
    BY CacheNextInv DEF RInv
  <1>1. TypeOK /\ EntryShared /\ Fresh /\ SwapNeeded
    BY DEF RInv, CacheInv
  <1>2. CASE UNCHANGED vars
    BY <1>1, <1>2 DEF vars, Fresh, SwapNeeded
  <1>3. ASSUME NEW p \in Procs, Load(p) \/ LoadOrStore(p) \/ Allocate(p)
        PROVE  Fresh' /\ SwapNeeded'
    BY <1>1, <1>3, Thresholds DEF TypeOK, Fresh, SwapNeeded, Load, LoadOrStore, Allocate
  <1>4. ASSUME NEW p \in Procs, CompileError(p) \/ AppendJSON(p)
        PROVE  Fresh' /\ SwapNeeded'
    <2>1. CASE Return(p)
      BY <1>1, <1>4, <2>1, ReturnTypes DEF TypeOK, Fresh, SwapNeeded, CompileError, AppendJSON
    <2>2. CASE ~Return(p)
      BY <1>1, <1>4, <2>2 DEF TypeOK, Fresh, SwapNeeded, CompileError, AppendJSON
    <2>. QED
      BY <2>1, <2>2
  <1>5. ASSUME NEW p \in Procs, UpdateLoad(p) \/ CompareAndSwap(p)
        PROVE  Fresh' /\ SwapNeeded'
    <2>1. cached # Nil /\ cached' = cached
      BY <1>1, <1>5 DEF EntryShared, UpdateLoad, CompareAndSwap
    <2>2. CASE Return(p)
      BY <1>1, <1>5, <2>1, <2>2, ReturnTypes DEF Fresh, SwapNeeded
    <2>3. CASE ~Return(p)
      BY <1>1, <1>5, <2>1, <2>3
      DEF TypeOK, Fresh, SwapNeeded, UpdateLoad, CompareAndSwap, locals
    <2>. QED
      BY <2>2, <2>3
  <1>. QED
    BY <1>2, <1>3, <1>4, <1>5 DEF Next

\* A call that returns from updateMarshalSizeHint has nothing pending.
LEMMA PendingDone ==
    ASSUME TypeOK, NEW p \in Procs, Return(p)
    PROVE  Pending' = [Pending EXCEPT ![p] = 0]
  BY ReturnTypes DEF Pending

\* Every step is an atomic update of the register, an observation or neither.
LEMMA RegisterStep ==
    ASSUME RInv, [Next]_vars
    PROVE  [Register!Next]_<<Reg, Pending>>
  <1>1. TypeOK /\ EntryShared /\ HasOutput /\ Fresh /\ SwapNeeded
    BY DEF RInv, CacheInv
  <1>2. CASE UNCHANGED vars
    BY <1>2 DEF vars, Reg, Pending
  <1>3. ASSUME NEW p \in Procs, Load(p) \/ LoadOrStore(p) \/ CompileError(p) \/ Allocate(p)
        PROVE  UNCHANGED <<Reg, Pending>>
    <2>1. Reg' = Reg
      BY <1>1, <1>3, Thresholds
      DEF TypeOK, Fresh, Reg, Load, LoadOrStore, CompileError, Allocate
    <2>2. CASE CompileError(p)
      <3>1. Pending' = [Pending EXCEPT ![p] = 0] /\ Pending[p] = 0
        BY <1>1, <2>2, PendingDone DEF CompileError, Pending
      <3>. QED
        BY <2>1, <3>1 DEF Pending
    <2>3. CASE ~CompileError(p)
      <3>1. Pending' = Pending
        BY <1>1, <1>3, <2>3 DEF TypeOK, Pending, Load, LoadOrStore, Allocate
      <3>. QED
        BY <2>1, <3>1
    <2>. QED
      BY <2>2, <2>3
  <1>4. ASSUME NEW p \in Procs, AppendJSON(p)
        PROVE  [Register!Next]_<<Reg, Pending>>
    <2>1. Reg' = Reg /\ Pending[p] = 0
      BY <1>1, <1>4 DEF TypeOK, Reg, Pending, AppendJSON
    <2>2. CASE Return(p)
      <3>1. Pending' = Pending
        BY <1>1, <2>1, <2>2, PendingDone DEF Pending
      <3>. QED
        BY <2>1, <3>1
    <2>3. CASE ~Return(p)
      <3>1. PICK o \in Sizes : /\ observed' = [observed EXCEPT ![p] = o]
                               /\ pc' = [pc EXCEPT ![p] = "update"]
        BY <1>4, <2>3 DEF AppendJSON
      <3>2. Pending' = [Pending EXCEPT ![p] = o]
        BY <1>1, <3>1 DEF TypeOK, Pending
      <3>3. Pending'[p] = o /\ o \in Nat
        BY <3>2, Thresholds DEF Pending
      <3>4. Register!Observe(p)
        BY <2>1, <3>2, <3>3 DEF Register!Observe, Reg, Pending
      <3>. QED
        BY <3>4 DEF Register!Next
    <2>. QED
      BY <2>2, <2>3
  <1>5. ASSUME NEW p \in Procs, UpdateLoad(p) \/ CompareAndSwap(p)
        PROVE  [Register!Next]_<<Reg, Pending>>
    <2>1. /\ entry[p] = cached /\ cached \in Procs /\ cached # Nil /\ cached' = cached
          /\ Reg = Hint(p) /\ Hint(p) \in Estimates
          /\ observed[p] \in Sizes /\ Pending[p] = observed[p] /\ observed[p] # 0
      BY <1>1, <1>5, MarshalAssumption
      DEF TypeOK, EntryShared, HasOutput, UpdateLoad, CompareAndSwap, Reg, Pending, Hint
    <2>2. ASSUME Return(p), Reg' = Register!Updated(Reg, observed[p])
          PROVE  Register!Update(p)
      <3>1. Pending' = [Pending EXCEPT ![p] = 0]
        BY <1>1, <2>2, PendingDone
      <3>. QED
        BY <2>1, <2>2, <3>1 DEF Register!Update, Reg, Pending
    <2>3. CASE UpdateLoad(p) /\ Hint(p) = Estimate(observed[p], FALSE)
      <3>1. Reg' = Reg /\ Return(p)
        BY <2>1, <2>3 DEF UpdateLoad, Reg
      <3>2. Register!Updated(Reg, observed[p]) = Reg
        BY <2>1, <2>3 DEF Register!Updated, Register!Estimate, Estimate
      <3>. QED
        BY <2>2, <3>1, <3>2 DEF Register!Next
    <2>4. CASE CompareAndSwap(p) /\ Hint(p) = stored[p]
      <3>1. hints' = [hints EXCEPT ![cached] = NextHint(Hint(p), observed[p])] /\ Return(p)
        BY <2>1, <2>4 DEF CompareAndSwap
      <3>2. Reg' = NextHint(Hint(p), observed[p])
        BY <1>1, <2>1, <3>1 DEF TypeOK, Reg
      <3>3. Hint(p) # Estimate(observed[p], FALSE)
        BY <1>1, <2>4 DEF SwapNeeded, CompareAndSwap
      <3>4. Reg' = Register!Updated(Reg, observed[p])
        BY <2>1, <3>2, <3>3, NextHintIsUpdated
      <3>. QED
        BY <2>2, <3>1, <3>4 DEF Register!Next
    <2>5. CASE \/ UpdateLoad(p) /\ Hint(p) # Estimate(observed[p], FALSE)
               \/ CompareAndSwap(p) /\ Hint(p) # stored[p]
      <3>1. Reg' = Reg
        BY <2>1, <2>5 DEF UpdateLoad, CompareAndSwap, Reg
      <3>2. Pending' = Pending
        BY <1>1, <2>5 DEF TypeOK, Pending, UpdateLoad, CompareAndSwap, locals
      <3>. QED
        BY <3>1, <3>2
    <2>. QED
      BY <1>5, <2>3, <2>4, <2>5
  <1>. QED
    BY <1>2, <1>3, <1>4, <1>5 DEF Next

\* The compare-and-swap loop of updateMarshalSizeHint, with the entry that
\* LoadOrStore settles, implements an atomic register: every call updates the
\* estimate exactly once, from the value it replaces.
THEOREM MarshalRefinement == Spec => ImplementsSizeHint
  <1>1. Init => Register!Init
    BY DEF Init, Register!Init, Register!Estimate, Estimate
  <1>2. RInv /\ [Next]_vars => [Register!Next]_<<Reg, Pending>>
    BY RegisterStep
  <1>. QED
    BY <1>1, <1>2, RInvInit, RInvNext, PTL DEF Spec, ImplementsSizeHint, Register!Spec, Reg, Pending
=============================================================================
