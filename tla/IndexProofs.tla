----------------------------- MODULE IndexProofs ----------------------------
(***************************************************************************)
(* Proofs about the index.                                                 *)
(*                                                                         *)
(* The builders, for every document, storage, depth and count limit: the   *)
(* unchecked reads and fixed arrays of the fast walk are safe, each        *)
(* builder's scopes are exactly the open containers, subtrees nest, and    *)
(* complete entries are final.                                             *)
(*                                                                         *)
(* The probe of one object, for any names, hashes, objects and storage:    *)
(* at every point of a build a lookup answers as a scan of the members     *)
(* added so far would, its loop ends, and the storage asked for is enough. *)
(***************************************************************************)
EXTENDS TapeBuilder, ObjectProbe, FiniteSetTheorems, SequenceTheorems, WellFoundedInduction, TLAPS

-----------------------------------------------------------------------------
(***************************************************************************)
(* The builders.                                                           *)
(***************************************************************************)

(***************************************************************************)
(* The inductive invariant.  The scopes are needed for the nesting: an     *)
(* entry may be completed because no open one lies behind it.  Limits      *)
(* carries the tests of buildIndexOptions, on which 32-bit words rely.     *)
(***************************************************************************)
NamesString(e) == "key" \in e.flags => doc[e.start + 1] \in Strings

Limits ==
    /\ pc \in {"parseFast"} \cup Walking \cup Parsing => Len(doc) <= MaxOffset /\ cap <= MaxOffset
    /\ pc \in {"build", "parseFast"} => i = 0 /\ entries = <<>> /\ stack = <<>>
    /\ pc = "opened" => Open # {}
    /\ pc \in Walking => \A n \in 1..Len(stack) : stack[n].count <= i
    /\ \A k \in 1..Len(entries) : NamesString(entries[k])

Inv == TypeOK /\ MemorySafe /\ ScopesAreOpen /\ SubtreesNest /\ Limits

-----------------------------------------------------------------------------
(***************************************************************************)
(* What the three ways of changing a tape do to its open containers and to *)
(* its nesting.                                                            *)
(***************************************************************************)

LEMMA Numbers ==
    /\ MaxOffset \in Nat /\ MaxDepth \in Nat /\ FastDepth \in Nat /\ MaxCount \in Nat
    /\ TypeOK => Len(doc) \in Nat /\ cap \in Nat /\ Len(entries) \in Nat /\ Len(stack) \in Nat
  <1>1. /\ MaxOffset \in Nat /\ MaxDepth \in Nat /\ FastDepth \in Nat /\ MaxCount \in Nat
        /\ Caps \subseteq Nat
    BY TapeAssumption
  <1>2. ASSUME TypeOK PROVE Len(doc) \in Nat /\ cap \in Nat /\ Len(entries) \in Nat /\ Len(stack) \in Nat
    <2>1. doc \in Seq(Token) /\ cap \in Caps /\ entries \in Seq(EntryType)
      BY <1>2 DEF TypeOK
    <2>2. stack \in Seq(ScopeType)
      BY <1>2 DEF TypeOK
    <2>3. \A S : \A s \in Seq(S) : Len(s) \in Nat
      OBVIOUS
    <2>. QED
      BY <1>1, <2>1, <2>2, <2>3
  <1>. QED
    BY <1>1, <1>2

\* One element of a sequence is replaced; the last one is dropped.
LEMMA Replace ==
    ASSUME NEW S, NEW q \in Seq(S), NEW n \in 1..Len(q), NEW x \in S, NEW r,
           r = [q EXCEPT ![n] = x]
    PROVE  /\ r \in Seq(S) /\ Len(r) = Len(q) /\ r[n] = x
           /\ \A m \in 1..Len(q) : m # n => r[m] = q[m]
  BY ExceptSeq

LEMMA DropLast ==
    ASSUME NEW S, NEW q \in Seq(S), q # <<>>, NEW r, r = SubSeq(q, 1, Len(q) - 1)
    PROVE  /\ r \in Seq(S) /\ Len(r) = Len(q) - 1
           /\ \A n \in 1..Len(r) : r[n] = q[n] /\ n \in 1..Len(q) /\ n < Len(q)
  <1>1. Len(q) \in Nat /\ Len(q) # 0
    OBVIOUS
  <1>2. \A n \in 1..(Len(q) - 1) : q[n] \in S
    BY <1>1
  <1>3. /\ r \in Seq(S) /\ Len(r) = IF 1 <= Len(q) - 1 THEN Len(q) - 1 - 1 + 1 ELSE 0
        /\ \A n \in 1..(Len(q) - 1 - 1 + 1) : r[n] = q[1 + n - 1]
    <2>1. 1 \in Int /\ Len(q) - 1 \in Int
      BY <1>1
    <2>. QED
      BY <1>2, <2>1, SubSeqProperties
  <1>4. Len(r) = Len(q) - 1
    <2>1. \A l \in Nat : l # 0 => (IF 1 <= l - 1 THEN l - 1 - 1 + 1 ELSE 0) = l - 1
      OBVIOUS
    <2>. QED
      BY <1>1, <1>3, <2>1
  <1>5. \A n \in 1..Len(r) : /\ n \in 1..(Len(q) - 1 - 1 + 1) /\ 1 + n - 1 = n
                             /\ n \in 1..Len(q) /\ n < Len(q)
    BY <1>1, <1>4
  <1>6. \A n \in 1..Len(r) : r[n] = q[n]
    BY <1>3, <1>5
  <1>. QED
    BY <1>3, <1>4, <1>5, <1>6

\* The words of an entry.
LEMMA EntryWords ==
    ASSUME NEW e \in EntryType
    PROVE  e.end \in Nat /\ e.next \in Nat /\ e.count \in 0..MaxCount
  <1>1. e.end \in 0..MaxOffset /\ e.next \in Nat /\ e.count \in 0..MaxCount
    BY DEF EntryType
  <1>. QED
    BY <1>1, TapeAssumption

LEMMA EmptyTape ==
    OpenIn(<<>>) = {} /\ NestIn(<<>>, FALSE)
  BY DEF OpenIn, NestIn

\* A scalar, or an empty container, is complete when it is added.
LEMMA AppendComplete ==
    ASSUME NEW es \in Seq(EntryType), NEW e \in EntryType, e.end # 0, e.next = 1,
           NestIn(es, FALSE)
    PROVE  /\ Append(es, e) \in Seq(EntryType) /\ Len(Append(es, e)) = Len(es) + 1
           /\ OpenIn(Append(es, e)) = OpenIn(es)
           /\ NestIn(Append(es, e), FALSE)
           /\ \A k \in 1..Len(es) : Append(es, e)[k] = es[k]
  <1> DEFINE fs == Append(es, e)
  <1>1. /\ fs \in Seq(EntryType) /\ Len(fs) = Len(es) + 1 /\ fs[Len(es) + 1] = e
        /\ \A k \in 1..Len(es) : fs[k] = es[k]
    OBVIOUS
  <1>2. Len(es) \in Nat
    OBVIOUS
  <1>3. \A k \in 1..Len(es) : es[k].next \in Nat
    BY EntryWords
  <1> HIDE DEF fs
  <1>4. OpenIn(fs) = OpenIn(es)
    BY <1>1, <1>2 DEF OpenIn
  <1>5. NestIn(fs, FALSE)
    <2> SUFFICES ASSUME NEW k \in 1..Len(fs), fs[k].end # 0
                 PROVE  /\ fs[k].next >= 1 /\ k + fs[k].next <= Len(fs) + 1
                        /\ \A m \in (k + 1)..(k + fs[k].next - 1) :
                             fs[m].end # 0 /\ m + fs[m].next <= k + fs[k].next
      BY DEF NestIn
    <2>1. CASE k = Len(es) + 1
      BY <1>1, <1>2, <2>1
    <2>2. CASE k \in 1..Len(es)
      <3>1. /\ es[k].next >= 1 /\ k + es[k].next <= Len(es) + 1
            /\ \A m \in (k + 1)..(k + es[k].next - 1) :
                 es[m].end # 0 /\ m + es[m].next <= k + es[k].next
        BY <1>1, <2>2 DEF NestIn
      <3>2. \A m \in (k + 1)..(k + es[k].next - 1) : m \in 1..Len(es)
        BY <1>2, <1>3, <2>2, <3>1
      <3>. QED
        BY <1>1, <1>2, <1>3, <2>2, <3>1, <3>2, SMTT(60)
    <2>. QED
      BY <1>1, <1>2, <2>1, <2>2
  <1>. QED
    BY <1>1, <1>4, <1>5 DEF fs

\* A container's header is added open.
LEMMA AppendOpen ==
    ASSUME NEW es \in Seq(EntryType), NEW e \in EntryType, e.end = 0,
           NestIn(es, FALSE)
    PROVE  /\ Append(es, e) \in Seq(EntryType) /\ Len(Append(es, e)) = Len(es) + 1
           /\ OpenIn(Append(es, e)) = OpenIn(es) \cup {Len(es) + 1}
           /\ NestIn(Append(es, e), FALSE)
           /\ \A k \in 1..Len(es) : Append(es, e)[k] = es[k]
           /\ Append(es, e)[Len(es) + 1] = e
  <1> DEFINE fs == Append(es, e)
  <1>1. /\ fs \in Seq(EntryType) /\ Len(fs) = Len(es) + 1 /\ fs[Len(es) + 1] = e
        /\ \A k \in 1..Len(es) : fs[k] = es[k]
    OBVIOUS
  <1>2. Len(es) \in Nat
    OBVIOUS
  <1>3. \A k \in 1..Len(es) : es[k].next \in Nat
    BY EntryWords
  <1> HIDE DEF fs
  <1>4. OpenIn(fs) = OpenIn(es) \cup {Len(es) + 1}
    BY <1>1, <1>2 DEF OpenIn
  <1>5. NestIn(fs, FALSE)
    <2> SUFFICES ASSUME NEW k \in 1..Len(fs), fs[k].end # 0
                 PROVE  /\ fs[k].next >= 1 /\ k + fs[k].next <= Len(fs) + 1
                        /\ \A m \in (k + 1)..(k + fs[k].next - 1) :
                             fs[m].end # 0 /\ m + fs[m].next <= k + fs[k].next
      BY DEF NestIn
    <2>1. k \in 1..Len(es)
      BY <1>1, <1>2
    <2>2. /\ es[k].next >= 1 /\ k + es[k].next <= Len(es) + 1
          /\ \A m \in (k + 1)..(k + es[k].next - 1) :
               es[m].end # 0 /\ m + es[m].next <= k + es[k].next
      BY <1>1, <2>1 DEF NestIn
    <2>3. \A m \in (k + 1)..(k + es[k].next - 1) : m \in 1..Len(es)
      BY <1>2, <1>3, <2>1, <2>2
    <2>. QED
      BY <1>1, <1>2, <1>3, <2>1, <2>2, <2>3
  <1>. QED
    BY <1>1, <1>4, <1>5 DEF fs

\* The last open container is completed: it owns everything behind it.
LEMMA CompleteLast ==
    ASSUME NEW es \in Seq(EntryType), NEW fs \in Seq(EntryType), NEW k \in OpenIn(es),
           \A m \in OpenIn(es) : m <= k,
           Len(fs) = Len(es), \A m \in 1..Len(es) : m # k => fs[m] = es[m],
           fs[k].end # 0, fs[k].next = Len(es) - k + 1,
           NestIn(es, FALSE)
    PROVE  OpenIn(fs) = OpenIn(es) \ {k} /\ NestIn(fs, FALSE)
  <1>1. k \in 1..Len(es) /\ Len(es) \in Nat /\ es[k].end = 0
    BY DEF OpenIn
  <1>2. \A m \in 1..Len(es) : es[m].next \in Nat
    BY EntryWords
  <1>3. OpenIn(fs) = OpenIn(es) \ {k}
    BY <1>1 DEF OpenIn
  <1>4. \A m \in 1..Len(es) : m > k => es[m].end # 0
    BY <1>1 DEF OpenIn
  <1>5. NestIn(fs, FALSE)
    <2> SUFFICES ASSUME NEW j \in 1..Len(fs), fs[j].end # 0
                 PROVE  /\ fs[j].next >= 1 /\ j + fs[j].next <= Len(fs) + 1
                        /\ \A m \in (j + 1)..(j + fs[j].next - 1) :
                             fs[m].end # 0 /\ m + fs[m].next <= j + fs[j].next
      BY DEF NestIn
    <2>1. CASE j = k
      <3>1. \A m \in (k + 1)..Len(es) : fs[m] = es[m] /\ es[m].end # 0 /\ m + es[m].next <= Len(es) + 1
        BY <1>1, <1>4 DEF NestIn
      <3>2. k + fs[k].next = Len(es) + 1 /\ fs[k].next >= 1
        <4>1. \A n, l, x \in Int : (x = l - n + 1 /\ n \in 1..l) => n + x = l + 1 /\ x >= 1
          OBVIOUS
        <4>2. fs[k].next = Len(es) - k + 1
          OBVIOUS
        <4>. QED
          BY <1>1, <4>1, <4>2
      <3>3. (k + 1)..(k + fs[k].next - 1) = (k + 1)..Len(es)
        BY <1>1, <3>2
      <3>4. \A m \in (k + 1)..Len(es) : fs[m].end # 0 /\ m + fs[m].next <= k + fs[k].next
        BY <3>1, <3>2
      <3>5. \A m \in (k + 1)..(k + fs[k].next - 1) :
               fs[m].end # 0 /\ m + fs[m].next <= k + fs[k].next
        BY <3>3, <3>4
      <3>6. fs[k].next >= 1 /\ k + fs[k].next <= Len(fs) + 1
        BY <1>1, <3>2
      <3>. QED
        BY <2>1, <3>5, <3>6
    <2>2. CASE j # k
      <3>1. /\ es[j].next >= 1 /\ j + es[j].next <= Len(es) + 1
            /\ \A m \in (j + 1)..(j + es[j].next - 1) :
                 es[m].end # 0 /\ m + es[m].next <= j + es[j].next
        BY <2>2 DEF NestIn
      <3>2. \A m \in (j + 1)..(j + es[j].next - 1) : m \in 1..Len(es) /\ m # k
        BY <1>1, <1>2, <3>1, SMTT(30)
      <3>. QED
        BY <1>1, <1>2, <2>2, <3>1, <3>2
    <2>. QED
      BY <2>1, <2>2
  <1>. QED
    BY <1>3, <1>5

\* Closing: the last open container gets its end, its count and its size.
Closed(es, k, x, c) ==
    [es EXCEPT ![k] = [@ EXCEPT !.end = x, !.count = c, !.next = Len(es) - k + 1]]

LEMMA CloseTape ==
    ASSUME NEW es \in Seq(EntryType), NestIn(es, FALSE),
           NEW k \in OpenIn(es), \A m \in OpenIn(es) : m <= k,
           NEW x \in 1..MaxOffset, NEW c \in 0..MaxCount
    PROVE  LET fs == Closed(es, k, x, c) IN
           /\ fs \in Seq(EntryType) /\ Len(fs) = Len(es)
           /\ \A m \in 1..Len(es) : /\ m # k => fs[m] = es[m]
                                    /\ fs[m].kind = es[m].kind
                                    /\ NamesString(es[m]) => NamesString(fs[m])
           /\ OpenIn(fs) = OpenIn(es) \ {k} /\ NestIn(fs, FALSE)
  <1> DEFINE e  == [es[k] EXCEPT !.end = x, !.count = c, !.next = Len(es) - k + 1]
             fs == [es EXCEPT ![k] = e]
  <1>1. k \in 1..Len(es) /\ Len(es) \in Nat
    BY DEF OpenIn
  <1>2. es[k] \in EntryType /\ x \in 0..MaxOffset /\ x # 0 /\ Len(es) - k + 1 \in Nat
    BY <1>1, Numbers
  <1>3. /\ e \in EntryType /\ e.end = x /\ e.next = Len(es) - k + 1
        /\ e.kind = es[k].kind /\ e.flags = es[k].flags /\ e.start = es[k].start
    BY <1>2 DEF EntryType
  <1>4. Closed(es, k, x, c) = fs
    BY <1>1 DEF Closed
  <1> HIDE DEF e
  <1>5. /\ fs \in Seq(EntryType) /\ Len(fs) = Len(es)
        /\ \A m \in 1..Len(es) : fs[m] = IF m = k THEN e ELSE es[m]
    BY <1>1, <1>3, ExceptSeq
  <1> HIDE DEF fs
  <1>6. OpenIn(fs) = OpenIn(es) \ {k} /\ NestIn(fs, FALSE)
    <2>1. fs[k].end # 0 /\ fs[k].next = Len(es) - k + 1
      BY <1>1, <1>2, <1>3, <1>5
    <2>2. \A m \in 1..Len(es) : m # k => fs[m] = es[m]
      BY <1>5
    <2>3. fs \in Seq(EntryType) /\ Len(fs) = Len(es)
      BY <1>5
    <2>. QED
      BY <2>1, <2>2, <2>3, CompleteLast
  <1>7. \A m \in 1..Len(es) : /\ m # k => fs[m] = es[m]
                              /\ fs[m].kind = es[m].kind
                              /\ NamesString(es[m]) => NamesString(fs[m])
    BY <1>3, <1>5 DEF NamesString
  <1>. QED
    BY <1>4, <1>5, <1>6, <1>7

\* A change of counts is none to scopes and nesting.
LEMMA CountsOnly ==
    ASSUME NEW es \in Seq(EntryType), NEW fs \in Seq(EntryType), Len(fs) = Len(es),
           \A m \in 1..Len(es) : fs[m].end = es[m].end /\ fs[m].next = es[m].next,
           NestIn(es, FALSE)
    PROVE  OpenIn(fs) = OpenIn(es) /\ NestIn(fs, FALSE)
  <1>1. OpenIn(fs) = OpenIn(es)
    BY DEF OpenIn
  <1>2. NestIn(fs, FALSE)
    <2> SUFFICES ASSUME NEW k \in 1..Len(fs), fs[k].end # 0
                 PROVE  /\ fs[k].next >= 1 /\ k + fs[k].next <= Len(fs) + 1
                        /\ \A m \in (k + 1)..(k + fs[k].next - 1) :
                             fs[m].end # 0 /\ m + fs[m].next <= k + fs[k].next
      BY DEF NestIn
    <2>1. /\ es[k].next >= 1 /\ k + es[k].next <= Len(es) + 1
          /\ \A m \in (k + 1)..(k + es[k].next - 1) :
               es[m].end # 0 /\ m + es[m].next <= k + es[k].next
      BY DEF NestIn
    <2>2. \A m \in (k + 1)..(k + es[k].next - 1) : m \in 1..Len(es)
      <3>1. es[k].next \in Nat /\ Len(es) \in Nat
        BY EntryWords
      <3>. QED
        BY <2>1, <3>1
    <2>. QED
      BY <2>1, <2>2
  <1>. QED
    BY <1>1, <1>2

\* The open containers are finitely many.
LEMMA OpenFinite ==
    ASSUME NEW es \in Seq(EntryType)
    PROVE  IsFiniteSet(OpenIn(es)) /\ OpenIn(es) \subseteq 1..Len(es)
  <1>1. OpenIn(es) \subseteq 1..Len(es)
    BY DEF OpenIn
  <1>2. IsFiniteSet(1..Len(es))
    BY FS_Interval
  <1>. QED
    BY <1>1, <1>2, FS_Subset

\* Enriching keeps every word but the Next words of names.
LEMMA EnrichKeeps ==
    ASSUME NEW es \in Seq(EntryType), \A k \in 1..Len(es) : NamesString(es[k]), NestIn(es, FALSE)
    PROVE  LET fs == EnrichKeyHashes(es) IN
           /\ fs \in Seq(EntryType) /\ Len(fs) = Len(es) /\ OpenIn(fs) = OpenIn(es)
           /\ \A k \in 1..Len(es) : fs[k].kind = es[k].kind /\ NamesString(fs[k])
           /\ NestIn(fs, TRUE)
  <1> DEFINE fs == EnrichKeyHashes(es)
  <1>1. DOMAIN fs = 1..Len(es) /\ Len(es) \in Nat
    BY DEF EnrichKeyHashes
  <1>2. ASSUME NEW k \in 1..Len(es)
        PROVE  /\ fs[k] \in EntryType /\ fs[k].end = es[k].end /\ fs[k].kind = es[k].kind
               /\ fs[k].start = es[k].start
               /\ "key" \in fs[k].flags <=> "key" \in es[k].flags
               /\ "key" \notin es[k].flags => fs[k].next = es[k].next
    <2>1. es[k] \in EntryType
      BY <1>2
    <2>2. CASE "key" \in es[k].flags
      <3>1. fs[k] = [es[k] EXCEPT !.next = Hash[doc[es[k].start + 1]]]
        BY <2>2 DEF EnrichKeyHashes
      <3>2. Hash[doc[es[k].start + 1]] \in Nat
        BY <2>2, TapeAssumption DEF NamesString
      <3>. QED
        BY <2>1, <2>2, <3>1, <3>2 DEF EntryType
    <2>3. CASE "key" \notin es[k].flags /\ es[k].kind = "{"
      <3> DEFINE fl == es[k].flags \cup {"escaped"}
      <3>1. fs[k] = [es[k] EXCEPT !.flags = fl]
        BY <2>3 DEF EnrichKeyHashes
      <3>2. fl \in SUBSET {"escaped", "key"} /\ "key" \notin fl
        BY <2>1, <2>3 DEF EntryType
      <3> HIDE DEF fl
      <3>3. fs[k] \in EntryType /\ fs[k].flags = fl
        BY <2>1, <3>1, <3>2 DEF EntryType
      <3>4. /\ fs[k].end = es[k].end /\ fs[k].kind = es[k].kind /\ fs[k].start = es[k].start
            /\ fs[k].next = es[k].next
        BY <2>1, <3>1 DEF EntryType
      <3>. QED
        BY <2>3, <3>2, <3>3, <3>4
    <2>4. CASE "key" \notin es[k].flags /\ es[k].kind # "{"
      BY <2>1, <2>4 DEF EnrichKeyHashes
    <2>. QED
      BY <2>2, <2>3, <2>4
  <1>3. fs \in Seq(EntryType) /\ Len(fs) = Len(es)
    <2>1. fs = [k \in 1..Len(es) |-> fs[k]]
      BY DEF EnrichKeyHashes
    <2> HIDE DEF fs
    <2>2. fs \in [1..Len(es) -> EntryType]
      BY <1>2, <2>1
    <2>. QED
      BY <1>1, <2>2
  <1> HIDE DEF fs
  <1>4. OpenIn(fs) = OpenIn(es)
    BY <1>2, <1>3 DEF OpenIn
  <1>5. \A k \in 1..Len(es) : NamesString(fs[k])
    BY <1>2 DEF NamesString
  <1>6. NestIn(fs, TRUE)
    <2> SUFFICES ASSUME NEW k \in 1..Len(fs), fs[k].end # 0, "key" \notin fs[k].flags
                 PROVE  /\ fs[k].next >= 1 /\ k + fs[k].next <= Len(fs) + 1
                        /\ \A m \in (k + 1)..(k + fs[k].next - 1) :
                             /\ fs[m].end # 0
                             /\ "key" \notin fs[m].flags => m + fs[m].next <= k + fs[k].next
      BY DEF NestIn
    <2>1. k \in 1..Len(es) /\ fs[k].next = es[k].next /\ es[k].end # 0
      BY <1>2, <1>3
    <2>2. /\ es[k].next >= 1 /\ k + es[k].next <= Len(es) + 1
          /\ \A m \in (k + 1)..(k + es[k].next - 1) :
               es[m].end # 0 /\ m + es[m].next <= k + es[k].next
      BY <2>1 DEF NestIn
    <2>3. \A m \in (k + 1)..(k + es[k].next - 1) : m \in 1..Len(es)
      <3>1. es[k].next \in Nat
        BY <2>1, EntryWords
      <3>. QED
        BY <1>1, <2>1, <2>2, <3>1
    <2>. QED
      BY <1>2, <1>3, <2>1, <2>2, <2>3
  <1>. QED
    BY <1>2, <1>3, <1>4, <1>5, <1>6 DEF fs

\* The names of an enriched tape are only exempted, so nesting weakens.
LEMMA NestWeakens ==
    ASSUME NEW es, NestIn(es, FALSE), NEW b \in BOOLEAN
    PROVE  NestIn(es, b)
  BY DEF NestIn

LEMMA NestNow ==
    ASSUME Inv, pc # "done"
    PROVE  NestIn(entries, FALSE)
  BY DEF Inv, SubtreesNest, NestIn

-----------------------------------------------------------------------------
(***************************************************************************)
(* The ways out of a builder.                                              *)
(***************************************************************************)

LEMMA InitInv == Init => Inv
  <1> SUFFICES ASSUME Init PROVE Inv
    OBVIOUS
  <1>1. \A S : <<>> \in Seq(S)
    OBVIOUS
  <1>2. TypeOK
    BY <1>1, TapeAssumption DEF Init, TypeOK, NoTapeParent, Walking, Parsing
  <1>3. MemorySafe
    BY TapeAssumption DEF Init, MemorySafe
  <1>4. Open = {}
    BY EmptyTape DEF Init, Open
  <1>5. ScopesAreOpen
    BY <1>4 DEF Init, ScopesAreOpen, Walking, Parsing
  <1>6. SubtreesNest
    BY EmptyTape, NestWeakens DEF Init, SubtreesNest, NestIn
  <1>7. Limits
    BY DEF Init, Limits, Walking, Parsing
  <1>. QED
    BY <1>2, <1>3, <1>5, <1>6, <1>7 DEF Inv

LEMMA ReturnKeeps ==
    ASSUME Inv, pc # "done", NEW r \in {"full", "syntax", "too large"}, Return(r)
    PROVE  Inv'
  <1>1. /\ doc' = doc /\ cap' = cap /\ hashKeys' = hashKeys /\ i' = i /\ entries' = entries
        /\ stack' = stack /\ parent' = parent /\ sp' = sp /\ pc' = "done" /\ result' = r
    BY DEF Return, call
  <1>2. TypeOK'
    BY <1>1 DEF Inv, TypeOK
  <1>3. MemorySafe'
    BY <1>1 DEF Inv, MemorySafe
  <1>4. ScopesAreOpen'
    BY <1>1 DEF Inv, ScopesAreOpen, Open, OpenIn, Walking, Parsing
  <1>5. SubtreesNest'
    BY <1>1, NestNow DEF SubtreesNest, NestIn
  <1>6. Limits'
    BY <1>1 DEF Inv, Limits, NamesString, Walking, Parsing
  <1>. QED
    BY <1>2, <1>3, <1>4, <1>5, <1>6 DEF Inv

LEMMA FallBackKeeps ==
    ASSUME Inv, pc \in {"parseFast"} \cup Walking, FallBack
    PROVE  Inv'
  <1>1. /\ doc' = doc /\ cap' = cap /\ hashKeys' = hashKeys /\ i' = 0 /\ entries' = <<>>
        /\ stack' = stack /\ parent' = NoTapeParent /\ sp' = 0 /\ pc' = "parse" /\ result' = result
    BY DEF FallBack, call
  <1>2. Len(doc) <= MaxOffset /\ cap <= MaxOffset
    BY DEF Inv, Limits
  <1>3. TypeOK'
    <2>1. <<>> \in Seq(EntryType)
      OBVIOUS
    <2>2. 0 \in 0..Len(doc) /\ MaxOffset \in 0..MaxOffset /\ 0 \in 0..MaxDepth
      BY Numbers DEF Inv
    <2>. QED
      BY <1>1, <2>1, <2>2 DEF Inv, TypeOK, NoTapeParent, Parsing
  <1>4. MemorySafe'
    BY <1>1, Numbers DEF Inv, MemorySafe
  <1>5. Open' = {}
    BY <1>1, EmptyTape DEF Open
  <1>6. ScopesAreOpen'
    <2>1. OpenIn(entries') = {}
      BY <1>5 DEF Open
    <2>2. Cardinality(Open') = 0
      BY <1>5, FS_EmptySet
    <2>3. ScopeHead(entries', Len(entries') + 1, parent')
      BY <1>1, <2>1 DEF ScopeHead
    <2>. QED
      BY <1>1, <1>5, <2>2, <2>3 DEF ScopesAreOpen, Walking
  <1>7. SubtreesNest'
    BY <1>1, EmptyTape DEF SubtreesNest, NestIn
  <1>8. Limits'
    BY <1>1, <1>2 DEF Limits, Walking
  <1>. QED
    BY <1>3, <1>4, <1>6, <1>7, <1>8 DEF Inv

LEMMA FinishKeeps ==
    ASSUME Inv, pc # "done", Finish
    PROVE  Inv'
  <1>1. /\ doc' = doc /\ cap' = cap /\ hashKeys' = hashKeys /\ i' = i
        /\ stack' = stack /\ parent' = parent /\ sp' = sp /\ pc' = "done" /\ result' = "ok"
    BY DEF Finish, call
  <1>2. entries \in Seq(EntryType) /\ NestIn(entries, FALSE)
    BY NestNow DEF Inv, TypeOK
  <1>3. \A k \in 1..Len(entries) : NamesString(entries[k])
    BY DEF Inv, Limits
  <1>4. /\ entries' \in Seq(EntryType) /\ Len(entries') = Len(entries)
        /\ OpenIn(entries') = OpenIn(entries)
        /\ \A k \in 1..Len(entries) : entries'[k].kind = entries[k].kind /\ NamesString(entries'[k])
        /\ NestIn(entries', hashKeys)
    <2>1. CASE hashKeys
      <3>1. entries' = EnrichKeyHashes(entries)
        BY <2>1 DEF Finish
      <3>2. NestIn(entries', TRUE)
        BY <1>2, <1>3, <3>1, EnrichKeeps
      <3>3. NestIn(entries', hashKeys)
        BY <2>1, <3>2 DEF NestIn
      <3>. QED
        BY <1>2, <1>3, <3>1, <3>3, EnrichKeeps
    <2>2. CASE ~hashKeys
      <3>1. entries' = entries
        BY <2>2 DEF Finish
      <3>2. NestIn(entries', hashKeys)
        BY <1>2, <2>2, <3>1 DEF NestIn
      <3>. QED
        BY <1>2, <1>3, <3>1, <3>2
    <2>. QED
      BY <2>1, <2>2
  <1>5. TypeOK'
    BY <1>1, <1>4 DEF Inv, TypeOK
  <1>6. MemorySafe'
    BY <1>1, <1>4 DEF Inv, MemorySafe
  <1>7. ScopesAreOpen'
    <2>1. \A k \in OpenIn(entries) : k \in 1..Len(entries) /\ entries[k].kind \in Opener
      BY DEF Inv, ScopesAreOpen, Open, OpenIn
    <2>. QED
      BY <1>1, <1>4, <2>1 DEF ScopesAreOpen, Open, Walking, Parsing
  <1>8. SubtreesNest'
    BY <1>1, <1>4 DEF SubtreesNest, NestIn
  <1>9. Limits'
    BY <1>1, <1>4 DEF Limits, NamesString, Walking, Parsing
  <1>. QED
    BY <1>5, <1>6, <1>7, <1>8, <1>9 DEF Inv

-----------------------------------------------------------------------------
(***************************************************************************)
(* The fast walk.                                                          *)
(***************************************************************************)

LEMMA Types ==
    ASSUME Inv
    PROVE  /\ entries \in Seq(EntryType) /\ stack \in Seq(ScopeType)
           /\ i \in 0..Len(doc) /\ Len(doc) \in Nat /\ cap \in Nat
           /\ Len(entries) \in Nat /\ Len(stack) \in Nat /\ Len(entries) <= cap
           /\ pc \in Walking \cup Parsing => Len(doc) <= MaxOffset /\ cap <= MaxOffset
           /\ Open \subseteq 1..Len(entries)
           /\ pc \notin {"done"} => result \in {"none", "ok", "full", "syntax", "too large"}
  <1>1. TypeOK /\ MemorySafe /\ Limits
    BY DEF Inv
  <1>2. Len(doc) \in Nat /\ cap \in Nat /\ Len(entries) \in Nat /\ Len(stack) \in Nat
    BY <1>1, Numbers
  <1>. QED
    BY <1>1, <1>2 DEF TypeOK, MemorySafe, Limits, Open, OpenIn

\* The words of a scope.
LEMMA ScopeWords ==
    ASSUME NEW s \in ScopeType
    PROVE  s.entry \in Nat /\ s.count \in 0..MaxOffset /\ s.count \in Nat /\ s.kind \in Opener
  <1>1. s.entry \in Nat /\ s.count \in 0..MaxOffset /\ s.kind \in Opener
    BY DEF ScopeType
  <1>. QED
    BY <1>1, TapeAssumption

\* What a step of the fast walk that goes on must show.
LEMMA WalkInv ==
    ASSUME Inv, pc \in Walking, UNCHANGED <<call, parent, sp, result>>,
           pc' \in Walking, i' \in 0..Len(doc), pc' = "value" => i' < Len(doc),
           entries' \in Seq(EntryType), Len(entries') <= cap, NestIn(entries', FALSE),
           \A k \in 1..Len(entries') : NamesString(entries'[k]),
           \A k \in OpenIn(entries') : entries'[k].kind \in Opener,
           stack' \in Seq(ScopeType), Len(stack') <= FastDepth,
           \A n \in 1..Len(stack') : stack'[n].count <= i',
           {stack'[n].entry + 1 : n \in 1..Len(stack')} = OpenIn(entries'),
           \A n \in 1..Len(stack') : stack'[n].kind = entries'[stack'[n].entry + 1].kind,
           \A m, n \in 1..Len(stack') : m < n => stack'[m].entry < stack'[n].entry
    PROVE  Inv'
  <1>1. doc' = doc /\ cap' = cap /\ hashKeys' = hashKeys
        /\ parent' = parent /\ sp' = sp /\ result' = result
    BY DEF call
  <1>2. pc' \notin Parsing /\ pc' \notin {"done", "build", "parseFast", "opened"}
    BY DEF Walking, Parsing
  <1>3. TypeOK'
    BY <1>1 DEF Inv, TypeOK
  <1>4. MemorySafe'
    BY <1>1 DEF MemorySafe
  <1>5. ScopesAreOpen'
    BY <1>2 DEF ScopesAreOpen, Open
  <1>6. SubtreesNest'
    BY <1>2 DEF SubtreesNest, NestIn
  <1>7. Limits'
    <2>1. Len(doc') <= MaxOffset /\ cap' <= MaxOffset
      BY <1>1, Types
    <2>2. \A k \in 1..Len(entries') : NamesString(entries[k])'
      BY <1>1 DEF NamesString
    <2>. QED
      BY <1>2, <2>1, <2>2 DEF Limits
  <1>. QED
    BY <1>3, <1>4, <1>5, <1>6, <1>7 DEF Inv

\* What the invariant says of the fast walk.
LEMMA WalkFacts ==
    ASSUME Inv, pc \in Walking
    PROVE  /\ NestIn(entries, FALSE)
           /\ \A k \in 1..Len(entries) : NamesString(entries[k])
           /\ \A k \in OpenIn(entries) : entries[k].kind \in Opener
           /\ Len(stack) <= FastDepth
           /\ \A n \in 1..Len(stack) : stack[n].count <= i /\ stack[n].count \in Nat
           /\ \A n \in 1..Len(stack) : stack[n].entry \in Nat
           /\ {stack[n].entry + 1 : n \in 1..Len(stack)} = OpenIn(entries)
           /\ \A n \in 1..Len(stack) : stack[n].kind = entries[stack[n].entry + 1].kind
           /\ \A m, n \in 1..Len(stack) : m < n => stack[m].entry < stack[n].entry
  <1>1. pc # "done"
    BY DEF Walking
  <1>2. NestIn(entries, FALSE)
    BY <1>1, NestNow
  <1>3. \A n \in 1..Len(stack) : stack[n] \in ScopeType
    <2>1. stack \in Seq(ScopeType)
      BY Types
    <2>. QED
      BY <2>1
  <1>4. \A n \in 1..Len(stack) : stack[n].count \in Nat /\ stack[n].entry \in Nat
    BY <1>3, ScopeWords
  <1>5. Limits /\ MemorySafe /\ ScopesAreOpen
    BY DEF Inv
  <1>. QED
    BY <1>2, <1>4, <1>5 DEF Limits, MemorySafe, ScopesAreOpen, Open

\* A complete entry is added; the scopes stay.
LEMMA WalkAdd ==
    ASSUME Inv, pc \in Walking, ~Full,
           NEW e \in EntryType, e.end # 0, e.next = 1, NamesString(e),
           entries' = Append(entries, e), UNCHANGED <<call, stack, parent, sp, result>>,
           i' \in i..Len(doc), pc' \in Walking, pc' = "value" => i' < Len(doc)
    PROVE  Inv'
  <1>0. /\ entries \in Seq(EntryType) /\ stack \in Seq(ScopeType)
        /\ i \in 0..Len(doc) /\ Len(doc) \in Nat /\ cap \in Nat
        /\ Len(entries) \in Nat /\ Len(stack) \in Nat /\ Len(entries) <= cap
        /\ OpenIn(entries) \subseteq 1..Len(entries)
    BY Types DEF Open
  <1>1. /\ NestIn(entries, FALSE)
        /\ \A k \in 1..Len(entries) : NamesString(entries[k])
        /\ \A k \in OpenIn(entries) : entries[k].kind \in Opener
        /\ Len(stack) <= FastDepth
        /\ \A n \in 1..Len(stack) : stack[n].count <= i /\ stack[n].count \in Nat
        /\ {stack[n].entry + 1 : n \in 1..Len(stack)} = OpenIn(entries)
        /\ \A n \in 1..Len(stack) : stack[n].kind = entries[stack[n].entry + 1].kind
        /\ \A m, n \in 1..Len(stack) : m < n => stack[m].entry < stack[n].entry
    BY WalkFacts
  <1>2. /\ entries' \in Seq(EntryType) /\ Len(entries') = Len(entries) + 1
        /\ OpenIn(entries') = OpenIn(entries) /\ NestIn(entries', FALSE)
        /\ \A k \in 1..Len(entries) : entries'[k] = entries[k]
    BY <1>0, <1>1, AppendComplete
  <1>3. entries'[Len(entries) + 1] = e /\ stack' = stack
    BY <1>0
  <1>4. i' \in 0..Len(doc) /\ Len(entries') <= cap
    BY <1>0, <1>2 DEF Full
  <1>5. \A k \in 1..Len(entries') : NamesString(entries'[k])
    BY <1>0, <1>1, <1>2, <1>3, SMTT(30)
  <1>6. \A n \in 1..Len(stack') : stack'[n].count <= i'
    BY <1>0, <1>1, <1>3
  <1>7. \A k \in OpenIn(entries) : entries'[k] = entries[k]
    BY <1>0, <1>2
  <1>8. \A n \in 1..Len(stack) : entries'[stack[n].entry + 1] = entries[stack[n].entry + 1]
    BY <1>1, <1>7
  <1>. QED
    BY <1>0, <1>1, <1>2, <1>3, <1>4, <1>5, <1>6, <1>7, <1>8, WalkInv, SMTT(30)

\* A token is inside the document.
LEMMA TokInside ==
    ASSUME NEW k \in Nat, Len(doc) \in Nat,
           Tok(k) \in Opener \cup Closer \cup Scalar \cup {",", ":"}
    PROVE  k < Len(doc) /\ Tok(k) = doc[k + 1]
  <1>1. "end" \notin Opener \cup Closer \cup {",", ":", "num"}
    BY DEF Opener, Closer
  <1>2. "end" \notin Strings
    BY TokenAssumption
  <1>3. Tok(k) # "end"
    BY <1>1, <1>2 DEF Scalar
  <1>. QED
    BY <1>3 DEF Tok

\* The entries the builders add are entries.
LEMMA NewOpen ==
    ASSUME NEW k \in Nat, k <= MaxOffset, NEW t \in Opener, NEW p \in Nat
    PROVE  LET e == Entry(k, 0, p, t, {}) IN
           e \in EntryType /\ e.end = 0 /\ e.next = p /\ e.kind = t /\ NamesString(e)
  <1>1. k \in 0..MaxOffset /\ 0 \in 0..MaxOffset /\ 0 \in 0..MaxCount
    BY Numbers
  <1>2. {} \in SUBSET {"escaped", "key"} /\ t \in {"{", "[", "string", "num"}
    BY DEF Opener
  <1>3. Entry(k, 0, p, t, {}) \in EntryType
    BY <1>1, <1>2 DEF Entry, EntryType
  <1>. QED
    BY <1>3 DEF Entry, NamesString

LEMMA NewEmpty ==
    ASSUME NEW k \in Nat, k + 2 <= MaxOffset, NEW t \in Opener
    PROVE  LET e == Entry(k, k + 2, 1, t, {}) IN
           e \in EntryType /\ e.end # 0 /\ e.next = 1 /\ NamesString(e)
  <1>1. /\ k \in 0..MaxOffset /\ k + 2 \in 0..MaxOffset /\ k + 2 # 0 /\ 0 \in 0..MaxCount
        /\ 1 \in Nat
    BY Numbers
  <1>2. {} \in SUBSET {"escaped", "key"} /\ t \in {"{", "[", "string", "num"}
    BY DEF Opener
  <1>3. Entry(k, k + 2, 1, t, {}) \in EntryType
    BY <1>1, <1>2 DEF Entry, EntryType
  <1>. QED
    BY <1>1, <1>3 DEF Entry, NamesString

LEMMA NewScalar ==
    ASSUME NEW k \in Nat, k + 1 <= MaxOffset, NEW t \in Scalar, NEW fl \in SUBSET {"key"},
           fl # {} => t \in Strings /\ t = doc[k + 1]
    PROVE  LET e == ScalarEntry(k, t, fl) IN
           e \in EntryType /\ e.end # 0 /\ e.next = 1 /\ NamesString(e)
  <1> DEFINE all == fl \cup IF t \in Escaped THEN {"escaped"} ELSE {}
  <1>1. all \in SUBSET {"escaped", "key"} /\ ("key" \in all => fl # {})
    OBVIOUS
  <1>2. KindOf(t) \in {"{", "[", "string", "num"}
    BY DEF KindOf, Opener, Scalar
  <1>3. ScalarEntry(k, t, fl) = Entry(k, k + 1, 1, KindOf(t), all)
    BY DEF ScalarEntry
  <1> HIDE DEF all
  <1>4. /\ k \in 0..MaxOffset /\ k + 1 \in 0..MaxOffset /\ k + 1 # 0 /\ 1 \in Nat
        /\ 0 \in 0..MaxCount
    BY TapeAssumption
  <1>5. Entry(k, k + 1, 1, KindOf(t), all) \in EntryType
    BY <1>1, <1>2, <1>4 DEF Entry, EntryType
  <1>6. NamesString(Entry(k, k + 1, 1, KindOf(t), all))
    BY <1>1 DEF Entry, NamesString
  <1>. QED
    BY <1>3, <1>4, <1>5, <1>6 DEF Entry

\* A container is opened: its header is the last entry and the last scope.
LEMMA WalkPush ==
    ASSUME Inv, pc \in Walking, ~Full, NEW t \in Opener, i < Len(doc), Len(stack) < FastDepth,
           entries' = Append(entries, OpenEntry(i, t)),
           stack' = Append(stack, [entry |-> Len(entries), count |-> 0, kind |-> t]),
           i' = i + 1, UNCHANGED <<call, parent, sp, result>>,
           pc' \in Walking, pc' = "value" => i' < Len(doc)
    PROVE  Inv'
  <1> DEFINE s == [entry |-> Len(entries), count |-> 0, kind |-> t]
             e == OpenEntry(i, t)
  <1>0. /\ entries \in Seq(EntryType) /\ stack \in Seq(ScopeType)
        /\ i \in 0..Len(doc) /\ Len(doc) \in Nat /\ cap \in Nat
        /\ Len(entries) \in Nat /\ Len(stack) \in Nat /\ Len(entries) <= cap
        /\ OpenIn(entries) \subseteq 1..Len(entries)
        /\ Len(doc) <= MaxOffset /\ MaxOffset \in Nat /\ FastDepth \in Nat
    BY Types, Numbers DEF Open
  <1>1. /\ NestIn(entries, FALSE)
        /\ \A k \in 1..Len(entries) : NamesString(entries[k])
        /\ \A k \in OpenIn(entries) : entries[k].kind \in Opener
        /\ Len(stack) <= FastDepth
        /\ \A n \in 1..Len(stack) : stack[n].count <= i /\ stack[n].count \in Nat
        /\ \A n \in 1..Len(stack) : stack[n].entry \in Nat
        /\ {stack[n].entry + 1 : n \in 1..Len(stack)} = OpenIn(entries)
        /\ \A n \in 1..Len(stack) : stack[n].kind = entries[stack[n].entry + 1].kind
        /\ \A m, n \in 1..Len(stack) : m < n => stack[m].entry < stack[n].entry
    BY WalkFacts
  <1>2. e \in EntryType /\ e.end = 0 /\ e.kind = t /\ NamesString(e)
    <2>1. i \in Nat /\ i <= MaxOffset /\ 0 \in Nat
      BY <1>0
    <2>. QED
      BY <2>1, NewOpen DEF OpenEntry
  <1>3. s \in ScopeType /\ s.entry = Len(entries) /\ s.count = 0 /\ s.kind = t
    <2>1. Len(entries) \in Nat /\ 0 \in 0..MaxOffset
      BY <1>0
    <2>. QED
      BY <2>1 DEF ScopeType
  <1> HIDE DEF s, e
  <1>4. /\ entries' \in Seq(EntryType) /\ Len(entries') = Len(entries) + 1
        /\ OpenIn(entries') = OpenIn(entries) \cup {Len(entries) + 1} /\ NestIn(entries', FALSE)
        /\ \A k \in 1..Len(entries) : entries'[k] = entries[k]
        /\ entries'[Len(entries) + 1] = e
    BY <1>0, <1>1, <1>2, AppendOpen DEF e
  <1>5. /\ stack' \in Seq(ScopeType) /\ Len(stack') = Len(stack) + 1
        /\ \A n \in 1..Len(stack) : stack'[n] = stack[n]
        /\ stack'[Len(stack) + 1] = s
    BY <1>0, <1>3 DEF s
  <1>6. i' \in 0..Len(doc) /\ Len(entries') <= cap /\ Len(stack') <= FastDepth
    BY <1>0, <1>4, <1>5 DEF Full
  <1>7. \A k \in 1..Len(entries') : NamesString(entries'[k])
    BY <1>0, <1>1, <1>2, <1>4
  <1>8. \A k \in OpenIn(entries') : entries'[k].kind \in Opener
    BY <1>0, <1>1, <1>2, <1>4
  <1>9. \A n \in 1..Len(stack') : n \in 1..Len(stack) \/ n = Len(stack) + 1
    BY <1>0, <1>5
  <1>10. \A n \in 1..Len(stack') : stack'[n].count <= i'
    BY <1>0, <1>1, <1>3, <1>5, <1>9, SMTT(60)
  <1>11. {stack'[n].entry + 1 : n \in 1..Len(stack')} = OpenIn(entries')
    <2>1. 1..Len(stack') = (1..Len(stack)) \cup {Len(stack) + 1}
      BY <1>0, <1>5
    <2>2. {stack'[n].entry + 1 : n \in 1..Len(stack')}
            = {stack[n].entry + 1 : n \in 1..Len(stack)} \cup {s.entry + 1}
      BY <1>5, <2>1
    <2>. QED
      BY <1>1, <1>3, <1>4, <2>2
  <1>12. \A n \in 1..Len(stack) : stack[n].entry + 1 \in 1..Len(entries)
    BY <1>0, <1>1
  <1>13. \A n \in 1..Len(stack') : stack'[n].kind = entries'[stack'[n].entry + 1].kind
    BY <1>1, <1>2, <1>3, <1>4, <1>5, <1>9, <1>12
  <1>14. \A m, n \in 1..Len(stack') : m < n => stack'[m].entry < stack'[n].entry
    <2>1. \A n \in 1..Len(stack) : stack[n].entry < Len(entries)
      BY <1>0, <1>1, <1>12, SMTT(30)
    <2>. QED
      BY <1>0, <1>1, <1>3, <1>5, <1>9, <2>1
  <1>. QED
    BY <1>4, <1>5, <1>6, <1>7, <1>8, <1>10, <1>11, <1>13, <1>14, WalkInv

\* A comma: the innermost scope counts one more.
LEMMA WalkComma ==
    ASSUME Inv, pc = "scopeEnd", stack # <<>>, i < Len(doc),
           stack' = [stack EXCEPT ![Len(stack)].count = @ + 1], i' = i + 1,
           UNCHANGED <<call, entries, parent, sp, result>>,
           pc' \in Walking, pc' = "value" => i' < Len(doc)
    PROVE  Inv'
  <1>0. /\ entries \in Seq(EntryType) /\ stack \in Seq(ScopeType)
        /\ i \in 0..Len(doc) /\ Len(doc) \in Nat /\ cap \in Nat
        /\ Len(entries) \in Nat /\ Len(stack) \in Nat /\ Len(entries) <= cap
        /\ OpenIn(entries) \subseteq 1..Len(entries)
        /\ Len(doc) <= MaxOffset /\ MaxOffset \in Nat
    BY Types, Numbers DEF Open, Walking
  <1>1. /\ NestIn(entries, FALSE)
        /\ \A k \in 1..Len(entries) : NamesString(entries[k])
        /\ \A k \in OpenIn(entries) : entries[k].kind \in Opener
        /\ Len(stack) <= FastDepth
        /\ \A n \in 1..Len(stack) : stack[n].count <= i /\ stack[n].count \in Nat
        /\ \A n \in 1..Len(stack) : stack[n].entry \in Nat
        /\ {stack[n].entry + 1 : n \in 1..Len(stack)} = OpenIn(entries)
        /\ \A n \in 1..Len(stack) : stack[n].kind = entries[stack[n].entry + 1].kind
        /\ \A m, n \in 1..Len(stack) : m < n => stack[m].entry < stack[n].entry
    BY WalkFacts DEF Walking
  <1>2. Len(stack) \in 1..Len(stack)
    BY <1>0
  <1> DEFINE s == [Top EXCEPT !.count = @ + 1]
  <1>3. Top \in ScopeType /\ Top.count + 1 \in 0..MaxOffset
    <2>1. Top \in ScopeType
      BY <1>0, <1>2 DEF Top
    <2>2. Top.count \in Nat /\ Top.count <= i
      BY <1>1, <1>2 DEF Top
    <2>. QED
      BY <1>0, <2>1, <2>2
  <1>4. s \in ScopeType /\ s.entry = Top.entry /\ s.kind = Top.kind /\ s.count = Top.count + 1
    BY <1>3 DEF ScopeType
  <1>5. stack' = [stack EXCEPT ![Len(stack)] = s]
    BY <1>0, <1>2 DEF Top
  <1> HIDE DEF s
  <1>6. /\ stack' \in Seq(ScopeType) /\ Len(stack') = Len(stack)
        /\ \A n \in 1..Len(stack) : n # Len(stack) => stack'[n] = stack[n]
        /\ stack'[Len(stack)] = s
    <2>1. stack \in Seq(ScopeType) /\ Len(stack) \in 1..Len(stack) /\ s \in ScopeType
      BY <1>0, <1>2, <1>4
    <2>. QED
      BY <1>5, <2>1, Replace, SMTT(60)
  <1>7. \A n \in 1..Len(stack) : stack'[n].entry = stack[n].entry /\ stack'[n].kind = stack[n].kind
    BY <1>4, <1>6 DEF Top
  <1>8. \A n \in 1..Len(stack') : stack'[n].count <= i'
    <2>1. \A n \in 1..Len(stack) : n # Len(stack) => stack'[n].count <= i /\ stack'[n].count \in Nat
      BY <1>1, <1>6
    <2>2. s.count <= i + 1
      BY <1>0, <1>1, <1>2, <1>4, SMTT(60) DEF Top
    <2>3. \A x \in Nat : x <= i => x <= i'
      BY <1>0
    <2>. QED
      BY <1>6, <2>1, <2>2, <2>3
  <1>9. {stack'[n].entry + 1 : n \in 1..Len(stack')} = {stack[n].entry + 1 : n \in 1..Len(stack)}
    BY <1>6, <1>7
  <1>10. i' \in 0..Len(doc) /\ entries' = entries /\ pc \in Walking
    BY <1>0 DEF Walking
  <1>. QED
    BY <1>0, <1>1, <1>6, <1>7, <1>8, <1>9, <1>10, WalkInv, SMTT(60)

\* The last scope is the last open container.
LEMMA TopIsLast ==
    ASSUME Inv, pc = "scopeEnd", stack # <<>>
    PROVE  /\ Top.entry \in Nat /\ Top.entry + 1 \in OpenIn(entries)
           /\ \A m \in OpenIn(entries) : m <= Top.entry + 1
  <1>0. /\ entries \in Seq(EntryType) /\ stack \in Seq(ScopeType)
        /\ i \in 0..Len(doc) /\ Len(doc) \in Nat /\ cap \in Nat
        /\ Len(entries) \in Nat /\ Len(stack) \in Nat /\ Len(entries) <= cap
        /\ OpenIn(entries) \subseteq 1..Len(entries)
        /\ Len(doc) <= MaxOffset /\ MaxOffset \in Nat
    BY Types, Numbers DEF Open, Walking
  <1>1. /\ NestIn(entries, FALSE)
        /\ \A k \in 1..Len(entries) : NamesString(entries[k])
        /\ \A k \in OpenIn(entries) : entries[k].kind \in Opener
        /\ Len(stack) <= FastDepth
        /\ \A n \in 1..Len(stack) : stack[n].count <= i /\ stack[n].count \in Nat
        /\ \A n \in 1..Len(stack) : stack[n].entry \in Nat
        /\ {stack[n].entry + 1 : n \in 1..Len(stack)} = OpenIn(entries)
        /\ \A n \in 1..Len(stack) : stack[n].kind = entries[stack[n].entry + 1].kind
        /\ \A m, n \in 1..Len(stack) : m < n => stack[m].entry < stack[n].entry
    BY WalkFacts DEF Walking
  <1>2. Len(stack) \in 1..Len(stack)
    BY <1>0
  <1>3. \A n \in 1..Len(stack) : stack[n].entry <= Top.entry
    <2>1. \A n \in 1..Len(stack) : n < Len(stack) \/ n = Len(stack)
      BY <1>0
    <2>2. \A n \in 1..Len(stack) : n < Len(stack) => stack[n].entry < stack[Len(stack)].entry
      BY ONLY <1>1, <1>2
    <2>3. \A n \in 1..Len(stack) : stack[n].entry \in Nat
      BY ONLY <1>1
    <2>. QED
      BY ONLY <1>2, <2>1, <2>2, <2>3 DEF Top
  <1>4. Top.entry \in Nat
    BY <1>1, <1>2 DEF Top
  <1>5. \A m \in OpenIn(entries) : \E n \in 1..Len(stack) : m = stack[n].entry + 1
    BY <1>1
  <1>6. Top.entry + 1 \in OpenIn(entries)
    BY <1>1, <1>2 DEF Top
  <1>7. ASSUME NEW m \in OpenIn(entries)
        PROVE  m <= Top.entry + 1
    <2>1. PICK n \in 1..Len(stack) : m = stack[n].entry + 1
      BY <1>5
    <2>2. stack[n].entry \in Nat /\ stack[n].entry <= Top.entry
      BY <1>1, <1>3
    <2>. QED
      BY <1>4, <2>1, <2>2
  <1>. QED
    BY <1>4, <1>6, <1>7

\* A closing bracket: the innermost container is completed and its scope
\* is dropped.
LEMMA WalkClose ==
    ASSUME Inv, pc = "scopeEnd", stack # <<>>, i < Len(doc), Top.count + 1 <= MaxCount,
           entries' = Closed(entries, Top.entry + 1, i + 1, Top.count + 1),
           stack' = SubSeq(stack, 1, Len(stack) - 1), i' = i + 1,
           UNCHANGED <<call, pc, parent, sp, result>>
    PROVE  Inv'
  <1>0. /\ entries \in Seq(EntryType) /\ stack \in Seq(ScopeType)
        /\ i \in 0..Len(doc) /\ Len(doc) \in Nat /\ cap \in Nat
        /\ Len(entries) \in Nat /\ Len(stack) \in Nat /\ Len(entries) <= cap
        /\ OpenIn(entries) \subseteq 1..Len(entries)
        /\ Len(doc) <= MaxOffset /\ MaxOffset \in Nat
    BY Types, Numbers DEF Open, Walking
  <1>1. /\ NestIn(entries, FALSE)
        /\ \A k \in 1..Len(entries) : NamesString(entries[k])
        /\ \A k \in OpenIn(entries) : entries[k].kind \in Opener
        /\ Len(stack) <= FastDepth
        /\ \A n \in 1..Len(stack) : stack[n].count <= i /\ stack[n].count \in Nat
        /\ \A n \in 1..Len(stack) : stack[n].entry \in Nat
        /\ {stack[n].entry + 1 : n \in 1..Len(stack)} = OpenIn(entries)
        /\ \A n \in 1..Len(stack) : stack[n].kind = entries[stack[n].entry + 1].kind
        /\ \A m, n \in 1..Len(stack) : m < n => stack[m].entry < stack[n].entry
    BY WalkFacts DEF Walking
  <1>2. Len(stack) \in 1..Len(stack)
    BY <1>0
  <1> DEFINE k == Top.entry + 1
             x == i + 1
             c == Top.count + 1
             fs == Closed(entries, k, x, c)
  <1>3. Top.entry \in Nat /\ k \in OpenIn(entries) /\ \A m \in OpenIn(entries) : m <= k
    BY TopIsLast
  <1>4. x \in 1..MaxOffset /\ c \in 0..MaxCount
    BY <1>0, <1>1, <1>2, Numbers, SMTT(30) DEF Top
  <1>5. entries' = fs
    OBVIOUS
  <1> HIDE DEF k, x, c
  <1>6. /\ entries' \in Seq(EntryType) /\ Len(entries') = Len(entries)
        /\ \A m \in 1..Len(entries) : /\ m # k => entries'[m] = entries[m]
                                      /\ entries'[m].kind = entries[m].kind
                                      /\ NamesString(entries[m]) => NamesString(entries'[m])
        /\ OpenIn(entries') = OpenIn(entries) \ {k} /\ NestIn(entries', FALSE)
    <2>1. entries \in Seq(EntryType) /\ NestIn(entries, FALSE)
      BY <1>0, <1>1
    <2>2. /\ fs \in Seq(EntryType) /\ Len(fs) = Len(entries)
          /\ \A m \in 1..Len(entries) : /\ m # k => fs[m] = entries[m]
                                        /\ fs[m].kind = entries[m].kind
                                        /\ NamesString(entries[m]) => NamesString(fs[m])
          /\ OpenIn(fs) = OpenIn(entries) \ {k} /\ NestIn(fs, FALSE)
      BY <1>3, <1>4, <2>1, CloseTape
    <2> HIDE DEF fs
    <2>. QED
      BY <1>5, <2>2
  <1>7. \A m \in 1..Len(entries') : NamesString(entries'[m])
    BY <1>1, <1>6
  <1>8. \A m \in OpenIn(entries') : entries'[m].kind \in Opener
    BY <1>0, <1>1, <1>6
  <1>9. /\ stack' \in Seq(ScopeType) /\ Len(stack') = Len(stack) - 1
         /\ \A n \in 1..Len(stack') : stack'[n] = stack[n] /\ n \in 1..Len(stack) /\ n < Len(stack)
    <2>1. stack \in Seq(ScopeType)
      BY <1>0
    <2>. QED
      BY <2>1, DropLast, ZenonT(30)
  <1>10. {stack'[n].entry + 1 : n \in 1..Len(stack')} = OpenIn(entries')
    <2>1. 1..Len(stack) = (1..Len(stack')) \cup {Len(stack)}
      BY <1>0, <1>2, <1>9
    <2>2. \A n \in 1..Len(stack') : stack'[n].entry = stack[n].entry
      BY <1>9
    <2>3. OpenIn(entries) = {stack'[n].entry + 1 : n \in 1..Len(stack')} \cup {k}
      <3>1. OpenIn(entries) = {stack[n].entry + 1 : n \in 1..Len(stack')} \cup {stack[Len(stack)].entry + 1}
        BY <1>1, <2>1
      <3>2. {stack[n].entry + 1 : n \in 1..Len(stack')} = {stack'[n].entry + 1 : n \in 1..Len(stack')}
        BY <2>2
      <3>. QED
        BY <3>1, <3>2 DEF k, Top
    <2>4. \A n \in 1..Len(stack') : stack'[n].entry + 1 # k
      <3>1. \A n \in 1..Len(stack') : stack[n].entry < Top.entry /\ stack[n].entry \in Nat
        BY <1>1, <1>2, <1>9 DEF Top
      <3>2. \A a, b \in Nat : a < b => a + 1 # b + 1
        OBVIOUS
      <3>3. Top.entry \in Nat /\ k = Top.entry + 1
        BY <1>3 DEF k
      <3>. QED
        BY <2>2, <3>1, <3>2, <3>3
    <2>. QED
      BY <1>6, <2>3, <2>4
  <1>11. \A n \in 1..Len(stack') : stack'[n].kind = entries'[stack'[n].entry + 1].kind
    <2>1. \A n \in 1..Len(stack') : stack'[n].entry + 1 \in OpenIn(entries')
      BY <1>10
    <2>2. \A m \in OpenIn(entries') : entries'[m] = entries[m]
      BY <1>0, <1>6
    <2>3. \A n \in 1..Len(stack') : entries'[stack'[n].entry + 1] = entries[stack'[n].entry + 1]
      BY <2>1, <2>2
    <2>4. \A n \in 1..Len(stack') : stack'[n].kind = entries[stack'[n].entry + 1].kind
      BY <1>1, <1>9
    <2>. QED
      BY <2>3, <2>4
  <1>12. \A m, n \in 1..Len(stack') : m < n => stack'[m].entry < stack'[n].entry
    BY <1>1, <1>9
  <1>13. \A n \in 1..Len(stack') : stack'[n].count <= i'
    BY <1>0, <1>1, <1>9
  <1>14. i' \in 0..Len(doc) /\ Len(entries') <= cap /\ Len(stack') <= FastDepth
    BY <1>0, <1>1, <1>6, <1>9, Numbers
  <1>15. pc \in Walking /\ pc' \in Walking /\ pc' # "value"
    BY DEF Walking
  <1>. QED
    BY <1>6, <1>7, <1>8, <1>9, <1>10, <1>11, <1>12, <1>13, <1>14, <1>15, WalkInv

\* The numbers a step reads.
LEMMA Reading ==
    ASSUME Inv
    PROVE  /\ i \in Nat /\ Len(doc) \in Nat /\ i <= Len(doc) /\ Len(entries) \in Nat
           /\ MaxOffset \in Nat /\ Len(stack) \in Nat /\ MaxDepth \in Nat /\ FastDepth \in Nat
           /\ pc \in Walking \cup Parsing => Len(doc) <= MaxOffset
  <1>1. /\ i \in 0..Len(doc) /\ Len(doc) \in Nat /\ Len(stack) \in Nat /\ Len(entries) \in Nat
        /\ pc \in Walking \cup Parsing => Len(doc) <= MaxOffset
    BY Types
  <1>2. MaxOffset \in Nat /\ MaxDepth \in Nat /\ FastDepth \in Nat
    BY Numbers
  <1>3. \A l \in Nat : \A x \in 0..l : x \in Nat /\ x <= l
    OBVIOUS
  <1>. QED
    BY <1>1, <1>2, <1>3

LEMMA valueOpenKeeps ==
    ASSUME Inv, valueOpen PROVE Inv'
  <1>0. /\ i \in Nat /\ Len(doc) \in Nat /\ Len(doc) <= MaxOffset
        /\ MaxOffset \in Nat /\ Len(stack) \in Nat /\ MaxDepth \in Nat /\ FastDepth \in Nat
    BY Reading DEF valueOpen, Walking
  <1>1. pc = "value" /\ pc \in Walking /\ pc # "done" /\ Tok(i) \in Opener
    BY DEF valueOpen, Walking
  <1>2. i < Len(doc)
    BY <1>0, <1>1, TokInside
  <1>3. Len(stack) < depthLimit => Len(stack) < FastDepth
    BY <1>0 DEF depthLimit
  <1>4. CASE FallBack
    BY <1>1, <1>4, FallBackKeeps
  <1>5. CASE Return("full")
    BY <1>1, <1>5, ReturnKeeps
  <1>6. CASE /\ ~Full /\ Tok(i + 1) = CloserOf(Tok(i))
             /\ entries' = Append(entries, Entry(i, i + 2, 1, Tok(i), {}))
             /\ i' = i + 2 /\ pc' = "scopeEnd"
             /\ UNCHANGED <<call, stack, parent, sp, result>>
    <2>1. i + 1 < Len(doc)
      <3>1. Tok(i + 1) \in Closer
        BY <1>1, <1>6 DEF CloserOf, Closer
      <3>2. i + 1 \in Nat
        BY <1>0
      <3>. QED
        BY <1>0, <3>1, <3>2, TokInside
    <2>2. i + 2 <= MaxOffset /\ i' \in i..Len(doc)
      BY <1>0, <1>6, <2>1
    <2> DEFINE e == Entry(i, i + 2, 1, Tok(i), {})
    <2>3. e \in EntryType /\ e.end # 0 /\ e.next = 1 /\ NamesString(e)
      BY <1>0, <1>1, <2>2, NewEmpty
    <2>4. entries' = Append(entries, e)
      BY <1>6
    <2> HIDE DEF e
    <2>5. pc' \in Walking /\ pc' # "value"
      BY <1>6 DEF Walking
    <2>. QED
      BY <1>1, <1>6, <2>2, <2>3, <2>4, <2>5, WalkAdd
  <1>7. CASE /\ Len(stack) < depthLimit /\ ~Full
             /\ Tok(i) = "[" => i + 1 < Len(doc)
             /\ entries' = Append(entries, OpenEntry(i, Tok(i)))
             /\ stack' = Append(stack, [entry |-> Len(entries), count |-> 0, kind |-> Tok(i)])
             /\ i' = i + 1 /\ pc' = IF Tok(i) = "{" THEN "objectKey" ELSE "value"
             /\ UNCHANGED <<call, parent, sp, result>>
    <2>1. pc' \in Walking /\ (pc' = "value" => i' < Len(doc))
      BY <1>1, <1>7 DEF Walking, Opener
    <2>. QED
      BY <1>1, <1>2, <1>3, <1>7, <2>1, WalkPush
  <1>. QED
    BY <1>4, <1>5, <1>6, <1>7 DEF valueOpen

LEMMA valueScalarKeeps ==
    ASSUME Inv, valueScalar PROVE Inv'
  <1>0. i \in Nat /\ Len(doc) \in Nat /\ Len(doc) <= MaxOffset /\ MaxOffset \in Nat
    BY Reading DEF valueScalar, Walking
  <1>1. pc \in Walking /\ pc # "done" /\ Tok(i) \in Scalar
    BY DEF valueScalar, Walking
  <1>2. i < Len(doc)
    BY <1>0, <1>1, TokInside
  <1>3. CASE Full
    BY <1>1, <1>3, ReturnKeeps DEF valueScalar
  <1>4. CASE ~Full
    <2> DEFINE e == ScalarEntry(i, Tok(i), {})
    <2>1. e \in EntryType /\ e.end # 0 /\ e.next = 1 /\ NamesString(e)
      <3>1. i + 1 <= MaxOffset
        BY <1>0, <1>2
      <3>. QED
        BY <1>0, <1>1, <3>1, NewScalar
    <2>2. /\ entries' = Append(entries, e) /\ UNCHANGED <<call, stack, parent, sp, result>>
          /\ pc' \in Walking /\ pc' # "value" /\ i' = i + 1
      BY <1>4 DEF valueScalar, Walking
    <2>3. i' \in i..Len(doc)
      BY <1>0, <1>2, <2>2
    <2> HIDE DEF e
    <2>. QED
      BY <1>1, <1>4, <2>1, <2>2, <2>3, WalkAdd
  <1>. QED
    BY <1>3, <1>4

LEMMA objectKeyKeeps ==
    ASSUME Inv, objectKey PROVE Inv'
  <1>0. i \in Nat /\ Len(doc) \in Nat /\ Len(doc) <= MaxOffset /\ MaxOffset \in Nat
    BY Reading DEF objectKey, Walking
  <1>1. pc \in Walking /\ pc # "done"
    BY DEF objectKey, Walking
  <1>2. CASE FallBack
    BY <1>1, <1>2, FallBackKeeps
  <1>3. CASE Return("full")
    BY <1>1, <1>3, ReturnKeeps
  <1>4. CASE /\ Tok(i) \in Strings /\ ~Full /\ i + 2 < Len(doc)
             /\ entries' = Append(entries, ScalarEntry(i, Tok(i), {"key"}))
             /\ i' = i + 2 /\ pc' = "value"
             /\ UNCHANGED <<call, stack, parent, sp, result>>
    <2> DEFINE e == ScalarEntry(i, Tok(i), {"key"})
    <2>1. Tok(i) \in Scalar /\ Tok(i) = doc[i + 1]
      BY <1>0, <1>4, TokInside DEF Scalar
    <2>2. i + 1 <= MaxOffset /\ i' \in i..Len(doc) /\ i' < Len(doc)
      BY <1>0, <1>4
    <2>3. e \in EntryType /\ e.end # 0 /\ e.next = 1 /\ NamesString(e)
      BY <1>0, <1>4, <2>1, <2>2, NewScalar
    <2>4. entries' = Append(entries, e) /\ pc' \in Walking
      BY <1>4 DEF Walking
    <2> HIDE DEF e
    <2>. QED
      BY <1>1, <1>4, <2>2, <2>3, <2>4, WalkAdd
  <1>. QED
    BY <1>2, <1>3, <1>4 DEF objectKey

LEMMA scopeEndKeeps ==
    ASSUME Inv, scopeEnd PROVE Inv'
  <1>0. i \in Nat /\ Len(doc) \in Nat /\ stack \in Seq(ScopeType) /\ Len(stack) \in Nat
    BY Types, Reading
  <1>1. pc = "scopeEnd" /\ pc \in Walking /\ stack # <<>>
    BY DEF scopeEnd, Walking
  <1>2. Top.kind \in Opener
    <2>1. Top \in ScopeType
      BY <1>0, <1>1 DEF Top
    <2>. QED
      BY <2>1, ScopeWords
  <1>3. CASE FallBack
    BY <1>1, <1>3, FallBackKeeps
  <1>4. CASE /\ Tok(i) = ","
             /\ Top.kind = "[" => i + 1 < Len(doc)
             /\ stack' = [stack EXCEPT ![Len(stack)].count = @ + 1]
             /\ i' = i + 1 /\ pc' = IF Top.kind = "{" THEN "objectKey" ELSE "value"
             /\ UNCHANGED <<call, entries, parent, sp, result>>
    <2>1. Tok(i) = "," => i < Len(doc)
      BY <1>0, TokInside
    <2>. QED
      BY <1>1, <1>2, <1>4, <2>1, WalkComma DEF Walking, Opener
  <1>5. CASE /\ Tok(i) = CloserOf(Top.kind) /\ Top.count + 1 <= MaxCount
             /\ entries' = [entries EXCEPT ![Top.entry + 1].end   = i + 1,
                                           ![Top.entry + 1].count = Top.count + 1,
                                           ![Top.entry + 1].next  = Len(entries) - Top.entry]
             /\ stack' = SubSeq(stack, 1, Len(stack) - 1)
             /\ i' = i + 1
             /\ UNCHANGED <<call, pc, parent, sp, result>>
    <2>1. i < Len(doc)
      <3>1. Tok(i) \in Closer
        BY <1>2, <1>5 DEF CloserOf, Closer
      <3>. QED
        BY <1>0, <3>1, TokInside
    <2>2. entries' = Closed(entries, Top.entry + 1, i + 1, Top.count + 1)
      <3>1. Top.entry \in Nat /\ Top.entry + 1 \in 1..Len(entries)
        BY <1>1, TopIsLast DEF OpenIn
      <3>2. Len(entries) - (Top.entry + 1) + 1 = Len(entries) - Top.entry
        BY <3>1, Reading, SMTT(30)
      <3>3. entries \in Seq(EntryType)
        BY Types
      <3>. QED
        BY <1>5, <3>1, <3>2, <3>3 DEF Closed
    <2>. QED
      BY <1>1, <1>5, <2>1, <2>2, WalkClose
  <1>. QED
    BY <1>3, <1>4, <1>5 DEF scopeEnd

-----------------------------------------------------------------------------
(***************************************************************************)
(* The diagnostic parser.                                                  *)
(***************************************************************************)

\* What a step of the diagnostic parser that goes on must show.
LEMMA ParseInv ==
    ASSUME Inv, pc \in Parsing, UNCHANGED <<call, stack, result>>,
           pc' \in Parsing, i' \in 0..Len(doc),
           entries' \in Seq(EntryType), Len(entries') <= cap, NestIn(entries', FALSE),
           \A k \in 1..Len(entries') : NamesString(entries'[k]),
           \A k \in OpenIn(entries') : entries'[k].kind \in Opener,
           parent' \in 0..MaxOffset, sp' \in 0..MaxDepth, sp' = Cardinality(OpenIn(entries')),
           ScopeHead(entries', Len(entries') + 1, parent'),
           \A k \in OpenIn(entries') : ScopeHead(entries', k, entries'[k].next),
           pc' = "opened" => OpenIn(entries') # {}
    PROVE  Inv'
  <1>1. doc' = doc /\ cap' = cap /\ hashKeys' = hashKeys /\ stack' = stack /\ result' = result
    BY DEF call
  <1>2. pc' \notin Walking /\ pc' \notin {"done", "build", "parseFast", "value"}
    BY DEF Walking, Parsing
  <1>3. TypeOK'
    BY <1>1 DEF Inv, TypeOK
  <1>4. MemorySafe'
    BY <1>1, <1>2 DEF Inv, MemorySafe
  <1>5. ScopesAreOpen'
    BY <1>2 DEF ScopesAreOpen, Open
  <1>6. SubtreesNest'
    BY <1>2 DEF SubtreesNest, NestIn
  <1>7. Limits'
    <2>1. Len(doc') <= MaxOffset /\ cap' <= MaxOffset
      BY <1>1, Types
    <2>2. \A k \in 1..Len(entries') : NamesString(entries[k])'
      BY <1>1 DEF NamesString
    <2>. QED
      BY <1>2, <2>1, <2>2 DEF Limits, Open
  <1>. QED
    BY <1>3, <1>4, <1>5, <1>6, <1>7 DEF Inv

\* What the invariant says of the diagnostic parser.
LEMMA ParseFacts ==
    ASSUME Inv, pc \in Parsing
    PROVE  /\ entries \in Seq(EntryType) /\ NestIn(entries, FALSE)
           /\ Len(entries) \in Nat /\ Len(entries) <= cap /\ cap <= MaxOffset /\ cap \in Nat
           /\ OpenIn(entries) \subseteq 1..Len(entries)
           /\ \A k \in 1..Len(entries) : NamesString(entries[k])
           /\ \A k \in OpenIn(entries) : entries[k].kind \in Opener
           /\ parent \in 0..MaxOffset /\ parent \in Nat /\ sp \in 0..MaxDepth /\ sp \in Nat
           /\ sp = Cardinality(OpenIn(entries)) /\ IsFiniteSet(OpenIn(entries))
           /\ ScopeHead(entries, Len(entries) + 1, parent)
           /\ \A k \in OpenIn(entries) : ScopeHead(entries, k, entries[k].next)
  <1>1. pc # "done"
    BY DEF Parsing
  <1>2. /\ entries \in Seq(EntryType) /\ NestIn(entries, FALSE)
        /\ Len(entries) \in Nat /\ Len(entries) <= cap /\ cap <= MaxOffset /\ cap \in Nat
    BY <1>1, NestNow, Types
  <1>3. parent \in 0..MaxOffset /\ sp \in 0..MaxDepth
    BY DEF Inv, TypeOK
  <1>4. parent \in Nat /\ sp \in Nat
    BY <1>3, Numbers
  <1>5. OpenIn(entries) \subseteq 1..Len(entries) /\ IsFiniteSet(OpenIn(entries))
    BY <1>2, OpenFinite
  <1>6. Limits /\ ScopesAreOpen
    BY DEF Inv
  <1>. QED
    BY <1>2, <1>3, <1>4, <1>5, <1>6 DEF Limits, ScopesAreOpen, Open

\* A scope head depends on nothing but the open containers.
LEMMA HeadSame ==
    ASSUME NEW es, NEW fs, OpenIn(fs) = OpenIn(es), NEW k, NEW p, ScopeHead(es, k, p)
    PROVE  ScopeHead(fs, k, p)
  BY DEF ScopeHead

\* A complete entry is added; the scopes stay.
LEMMA ParseAdd ==
    ASSUME Inv, pc \in Parsing, ~Full,
           NEW e \in EntryType, e.end # 0, e.next = 1, NamesString(e),
           entries' = Append(entries, e), UNCHANGED <<call, stack, parent, sp, result>>,
           i' \in 0..Len(doc), pc' \in Parsing, pc' # "opened"
    PROVE  Inv'
  <1>0. /\ entries \in Seq(EntryType) /\ NestIn(entries, FALSE)
        /\ Len(entries) \in Nat /\ Len(entries) <= cap /\ cap \in Nat
        /\ OpenIn(entries) \subseteq 1..Len(entries)
        /\ \A k \in 1..Len(entries) : NamesString(entries[k])
        /\ \A k \in OpenIn(entries) : entries[k].kind \in Opener
        /\ parent \in 0..MaxOffset /\ parent \in Nat /\ sp \in 0..MaxDepth
        /\ sp = Cardinality(OpenIn(entries))
        /\ ScopeHead(entries, Len(entries) + 1, parent)
        /\ \A k \in OpenIn(entries) : ScopeHead(entries, k, entries[k].next)
    BY ParseFacts
  <1>1. /\ entries' \in Seq(EntryType) /\ Len(entries') = Len(entries) + 1
        /\ OpenIn(entries') = OpenIn(entries) /\ NestIn(entries', FALSE)
        /\ \A k \in 1..Len(entries) : entries'[k] = entries[k]
    BY <1>0, AppendComplete
  <1>2. entries'[Len(entries) + 1] = e
    BY <1>0
  <1>3. Len(entries') <= cap
    BY <1>0, <1>1 DEF Full
  <1>4. \A k \in 1..Len(entries') : NamesString(entries'[k])
    BY <1>0, <1>1, <1>2
  <1>5. \A k \in OpenIn(entries) : entries'[k] = entries[k]
    BY <1>0, <1>1
  <1>6. \A k \in OpenIn(entries') : ScopeHead(entries', k, entries'[k].next)
    BY <1>0, <1>1, <1>5, HeadSame
  <1>7. ScopeHead(entries', Len(entries') + 1, parent)
    <2>1. \A m \in OpenIn(entries) : m \in Nat /\ m < Len(entries) + 1
      BY <1>0
    <2>. QED
      BY <1>0, <1>1, <2>1 DEF ScopeHead
  <1>. QED
    BY <1>0, <1>1, <1>3, <1>4, <1>5, <1>6, <1>7, ParseInv

\* A header is added and linked to the scope head, which it becomes.
LEMMA ParsePush ==
    ASSUME Inv, pc \in Parsing, ~Full, sp < MaxDepth,
           NEW e \in EntryType, e.end = 0, e.next = parent, e.kind \in Opener, NamesString(e),
           entries' = Append(entries, e), parent' = Len(entries), sp' = sp + 1,
           UNCHANGED <<call, stack, result>>, i' \in 0..Len(doc), pc' \in Parsing
    PROVE  Inv'
  <1>0. /\ entries \in Seq(EntryType) /\ NestIn(entries, FALSE)
        /\ Len(entries) \in Nat /\ Len(entries) <= cap /\ cap \in Nat /\ cap <= MaxOffset
        /\ OpenIn(entries) \subseteq 1..Len(entries)
        /\ \A k \in 1..Len(entries) : NamesString(entries[k])
        /\ \A k \in OpenIn(entries) : entries[k].kind \in Opener
        /\ parent \in 0..MaxOffset /\ parent \in Nat /\ sp \in Nat
        /\ sp = Cardinality(OpenIn(entries)) /\ IsFiniteSet(OpenIn(entries))
        /\ ScopeHead(entries, Len(entries) + 1, parent)
        /\ \A k \in OpenIn(entries) : ScopeHead(entries, k, entries[k].next)
    BY ParseFacts
  <1> DEFINE n == Len(entries) + 1
  <1>1. /\ entries' \in Seq(EntryType) /\ Len(entries') = Len(entries) + 1
        /\ OpenIn(entries') = OpenIn(entries) \cup {n} /\ NestIn(entries', FALSE)
        /\ \A k \in 1..Len(entries) : entries'[k] = entries[k]
        /\ entries'[n] = e
    BY <1>0, AppendOpen
  <1>2. Len(entries') <= cap /\ parent' \in 0..MaxOffset /\ sp' \in 0..MaxDepth
    BY <1>0, <1>1, Numbers DEF Full
  <1>3. \A k \in 1..Len(entries') : NamesString(entries'[k])
    BY <1>0, <1>1
  <1>4. n \in Nat /\ \A m \in OpenIn(entries) : m \in Nat /\ m < n
    BY <1>0
  <1>5. \A k \in OpenIn(entries') : entries'[k].kind \in Opener
    BY <1>0, <1>1
  <1> HIDE DEF n
  <1>6. sp' = Cardinality(OpenIn(entries'))
    <2>1. n \notin OpenIn(entries) /\ IsFiniteSet(OpenIn(entries))
      BY <1>0, <1>4
    <2>2. Cardinality(OpenIn(entries) \cup {n}) = Cardinality(OpenIn(entries)) + 1
      BY <2>1, FS_AddElement
    <2>. QED
      BY <1>0, <1>1, <2>2
  <1>7. ScopeHead(entries', n + 1, parent')
    <2>1. parent' + 1 = n
      BY DEF n
    <2>2. n \in OpenIn(entries') /\ n < n + 1 /\ \A m \in OpenIn(entries') : m <= n
      BY <1>1, <1>4
    <2>. QED
      BY <2>1, <2>2 DEF ScopeHead
  <1>8. \A k \in OpenIn(entries') : ScopeHead(entries', k, entries'[k].next)
    <2>1. ScopeHead(entries', n, parent)
      <3>1. ScopeHead(entries, n, parent)
        BY <1>0 DEF n
      <3>. QED
        BY <1>1, <1>4, <3>1 DEF ScopeHead
    <2>2. ASSUME NEW k \in OpenIn(entries) PROVE ScopeHead(entries', k, entries'[k].next)
      <3>1. ScopeHead(entries, k, entries[k].next)
        BY <1>0
      <3>2. entries'[k] = entries[k]
        BY <1>0, <1>1
      <3>3. k \in Nat /\ k < n
        BY <1>4
      <3>. QED
        BY <1>1, <1>4, <3>1, <3>2, <3>3 DEF ScopeHead
    <2>. QED
      BY <1>1, <2>1, <2>2
  <1>. QED
    BY <1>1, <1>2, <1>3, <1>5, <1>6, <1>7, <1>8, ParseInv DEF n

\* With a scope open, the head is the last open container.
LEMMA HeadIsLast ==
    ASSUME Inv, pc \in Parsing, OpenIn(entries) # {}
    PROVE  parent + 1 \in OpenIn(entries) /\ \A m \in OpenIn(entries) : m <= parent + 1
  <1>1. /\ OpenIn(entries) \subseteq 1..Len(entries) /\ Len(entries) \in Nat
        /\ ScopeHead(entries, Len(entries) + 1, parent)
    BY ParseFacts
  <1>2. \A m \in OpenIn(entries) : m \in Nat /\ m < Len(entries) + 1 /\ ~(m >= Len(entries) + 1)
    BY <1>1
  <1>. QED
    BY <1>1, <1>2 DEF ScopeHead

\* es is the tape, or the tape with the count of one container raised.
SameButCounts(es) ==
    /\ es \in Seq(EntryType) /\ Len(es) = Len(entries)
    /\ \A m \in 1..Len(entries) :
         /\ es[m].end = entries[m].end /\ es[m].next = entries[m].next
         /\ es[m].kind = entries[m].kind /\ NamesString(es[m])

\* finishContainer: the head is completed, and the one it was linked to
\* becomes the head.
LEMMA ParseClose ==
    ASSUME Inv, pc \in Parsing, OpenIn(entries) # {}, i < Len(doc),
           NEW es, SameButCounts(es), finishContainer(es)
    PROVE  Inv'
  <1>0. /\ entries \in Seq(EntryType) /\ NestIn(entries, FALSE)
        /\ Len(entries) \in Nat /\ Len(entries) <= cap /\ cap \in Nat /\ cap <= MaxOffset
        /\ OpenIn(entries) \subseteq 1..Len(entries)
        /\ \A k \in OpenIn(entries) : entries[k].kind \in Opener
        /\ parent \in Nat /\ sp \in 0..MaxDepth /\ sp \in Nat
        /\ sp = Cardinality(OpenIn(entries)) /\ IsFiniteSet(OpenIn(entries))
        /\ \A k \in OpenIn(entries) : ScopeHead(entries, k, entries[k].next)
    BY ParseFacts
  <1>1. /\ i \in Nat /\ Len(doc) \in Nat /\ MaxOffset \in Nat /\ Len(doc) <= MaxOffset
        /\ MaxDepth \in Nat
    BY Reading
  <1> DEFINE k == parent + 1
             p == entries[k].next
             x == i + 1
  <1>2. k \in OpenIn(entries) /\ \A m \in OpenIn(entries) : m <= k
    BY HeadIsLast
  <1>3. /\ es \in Seq(EntryType) /\ Len(es) = Len(entries)
        /\ \A m \in 1..Len(entries) :
             /\ es[m].end = entries[m].end /\ es[m].next = entries[m].next
             /\ es[m].kind = entries[m].kind /\ NamesString(es[m])
    BY DEF SameButCounts
  <1>4. OpenIn(es) = OpenIn(entries) /\ NestIn(es, FALSE)
    BY <1>0, <1>3, CountsOnly
  <1>5. /\ parent' = p /\ sp' = sp - 1 /\ pc' \in Parsing /\ pc' # "opened"
        /\ UNCHANGED <<call, stack, result>> /\ i' = x
    BY DEF finishContainer, frame, Parsing
  <1>6. i' \in 0..Len(doc) /\ x \in 1..MaxOffset
    BY <1>1, <1>5
  <1>7. entries' = Closed(es, k, x, es[k].count)
    <2>1. k \in 1..Len(es) /\ es[k] \in EntryType
      BY <1>0, <1>2, <1>3
    <2>2. Len(es) - k + 1 = Len(es) - parent
      BY <1>0, <1>3
    <2>3. entries' = [es EXCEPT ![k] = [@ EXCEPT !.end = x, !.next = Len(es) - parent]]
      BY <1>3, <2>1 DEF finishContainer
    <2>4. [es[k] EXCEPT !.end = x, !.count = es[k].count, !.next = Len(es) - parent]
            = [es[k] EXCEPT !.end = x, !.next = Len(es) - parent]
      BY <2>1 DEF EntryType
    <2>. QED
      BY <2>1, <2>2, <2>3, <2>4 DEF Closed
  <1> HIDE DEF k, x, p
  <1> DEFINE c == es[k].count
             fs == Closed(es, k, x, c)
  <1>8. c \in 0..MaxCount
    <2>1. es[k] \in EntryType
      BY <1>0, <1>2, <1>3
    <2>. QED
      BY <2>1, EntryWords
  <1>9. entries' = fs
    BY <1>7
  <1> HIDE DEF c
  <1>10. /\ fs \in Seq(EntryType) /\ Len(fs) = Len(es)
         /\ \A m \in 1..Len(es) : /\ m # k => fs[m] = es[m]
                                  /\ fs[m].kind = es[m].kind
                                  /\ NamesString(es[m]) => NamesString(fs[m])
         /\ OpenIn(fs) = OpenIn(es) \ {k} /\ NestIn(fs, FALSE)
    <2>1. es \in Seq(EntryType) /\ NestIn(es, FALSE)
      BY <1>3, <1>4
    <2>2. k \in OpenIn(es) /\ \A m \in OpenIn(es) : m <= k
      BY <1>2, <1>4
    <2>. QED
      BY <1>6, <1>8, <2>1, <2>2, CloseTape
  <1> HIDE DEF fs
  <1>11. \A m \in OpenIn(fs) : /\ m \in Nat /\ m < k /\ m \in OpenIn(entries)
                               /\ fs[m].next = entries[m].next /\ fs[m].kind = entries[m].kind
    <2>1. OpenIn(fs) = OpenIn(entries) \ {k}
      BY <1>4, <1>10
    <2>2. \A m \in OpenIn(fs) : m \in 1..Len(entries) /\ m # k /\ m \in OpenIn(entries)
      BY <1>0, <2>1
    <2>3. \A m \in OpenIn(fs) : m \in Nat /\ m < k
      BY <1>0, <1>2, <2>2
    <2>. QED
      BY <1>3, <1>10, <2>2, <2>3
  <1>12. sp' \in 0..MaxDepth /\ sp' = Cardinality(OpenIn(fs))
    <2>1. IsFiniteSet(OpenIn(entries)) /\ k \in OpenIn(entries)
      BY <1>0, <1>2
    <2>2. /\ IsFiniteSet(OpenIn(entries) \ {k})
          /\ Cardinality(OpenIn(entries) \ {k}) = Cardinality(OpenIn(entries)) - 1
      BY <2>1, FS_RemoveElement
    <2>3. Cardinality(OpenIn(entries) \ {k}) \in Nat
      BY <2>2, FS_CardinalityType
    <2>4. sp' = Cardinality(OpenIn(entries) \ {k})
      BY <1>0, <1>5, <2>2
    <2>5. sp' \in 0..MaxDepth
      BY <1>0, <1>1, <1>5, <2>3, <2>4
    <2>. QED
      BY <1>4, <1>10, <2>4, <2>5
  <1>13. p \in 0..MaxOffset /\ ScopeHead(fs, Len(fs) + 1, p)
    <2>1. ScopeHead(entries, k, p)
      BY <1>0, <1>2 DEF p
    <2>2. OpenIn(fs) = OpenIn(entries) \ {k}
      BY <1>4, <1>10
    <2>3. k \in 1..Len(entries) /\ Len(fs) = Len(entries)
      BY <1>0, <1>2, <1>3, <1>10
    <2>4. p \in Nat
      <3>1. entries[k] \in EntryType
        BY <1>0, <2>3
      <3>. QED
        BY <3>1, EntryWords DEF p
    <2>5. CASE p = NoTapeParent /\ \A m \in OpenIn(entries) : m >= k
      <3>1. OpenIn(fs) = {}
        <4>1. k \in Nat
          BY <1>0, <2>3
        <4>2. \A m \in OpenIn(fs) : m \in Nat /\ m < k /\ m >= k
          BY <1>11, <2>5
        <4>. QED
          BY <4>1, <4>2
      <3>. QED
        BY <1>1, <2>5, <3>1 DEF ScopeHead, NoTapeParent
    <2>6. CASE /\ p + 1 \in OpenIn(entries) /\ p + 1 < k
               /\ \A m \in OpenIn(entries) : m < k => m <= p + 1
      <3>1. p + 1 \in OpenIn(fs) /\ p + 1 < Len(fs) + 1
        BY <1>0, <2>2, <2>3, <2>4, <2>6
      <3>2. \A m \in OpenIn(fs) : m <= p + 1
        BY <1>11, <2>6
      <3>3. p \in 0..MaxOffset
        BY <1>0, <1>1, <2>3, <2>4, <2>6
      <3>. QED
        BY <3>1, <3>2, <3>3 DEF ScopeHead
    <2>. QED
      BY <2>1, <2>5, <2>6 DEF ScopeHead
  <1>14. \A m \in OpenIn(fs) : ScopeHead(fs, m, fs[m].next)
    <2> SUFFICES ASSUME NEW m \in OpenIn(fs) PROVE ScopeHead(fs, m, fs[m].next)
      OBVIOUS
    <2>1. ScopeHead(entries, m, fs[m].next) /\ m \in Nat /\ m < k
      BY <1>0, <1>11
    <2>2. \A q \in OpenIn(entries) : q < m => q # k
      BY <1>0, <1>2, <2>1
    <2>3. OpenIn(fs) = OpenIn(entries) \ {k}
      BY <1>4, <1>10
    <2>. QED
      BY <2>1, <2>2, <2>3 DEF ScopeHead
  <1>15. \A m \in OpenIn(fs) : fs[m].kind \in Opener
    BY <1>0, <1>11
  <1>16. \A m \in 1..Len(fs) : NamesString(fs[m])
    BY <1>3, <1>10
  <1>17. Len(fs) <= cap
    BY <1>0, <1>3, <1>10
  <1>. QED
    BY <1>5, <1>6, <1>9, <1>10, <1>12, <1>13, <1>14, <1>15, <1>16, <1>17, ParseInv

\* BumpCount changes nothing but a count.
LEMMA Bumped ==
    ASSUME Inv, pc \in Parsing, OpenIn(entries) # {}, frame.count # MaxCount
    PROVE  SameButCounts([entries EXCEPT ![parent + 1].count = @ + 1])
  <1> DEFINE k == parent + 1
             e == [entries[k] EXCEPT !.count = @ + 1]
             fs == [entries EXCEPT ![k] = e]
  <1>1. /\ entries \in Seq(EntryType) /\ OpenIn(entries) \subseteq 1..Len(entries)
        /\ \A m \in 1..Len(entries) : NamesString(entries[m])
    BY ParseFacts
  <1>2. k \in 1..Len(entries) /\ entries[k] \in EntryType
    BY <1>1, HeadIsLast
  <1>3. entries[k].count + 1 \in 0..MaxCount
    <2>1. entries[k].count \in 0..MaxCount /\ entries[k].count # MaxCount
      BY <1>2, EntryWords DEF frame
    <2>. QED
      BY <2>1, Numbers
  <1>4. /\ e \in EntryType /\ e.end = entries[k].end /\ e.next = entries[k].next
        /\ e.kind = entries[k].kind /\ e.flags = entries[k].flags /\ e.start = entries[k].start
    BY <1>2, <1>3 DEF EntryType
  <1>5. [entries EXCEPT ![parent + 1].count = @ + 1] = fs
    BY <1>1, <1>2
  <1> HIDE DEF e, k
  <1>6. /\ fs \in Seq(EntryType) /\ Len(fs) = Len(entries)
        /\ \A m \in 1..Len(entries) : fs[m] = IF m = k THEN e ELSE entries[m]
    <2>1. entries \in Seq(EntryType) /\ k \in 1..Len(entries) /\ e \in EntryType
      BY <1>1, <1>2, <1>4
    <2>. QED
      BY <2>1, ExceptSeq
  <1> HIDE DEF fs
  <1>7. \A m \in 1..Len(entries) :
          /\ fs[m].end = entries[m].end /\ fs[m].next = entries[m].next
          /\ fs[m].kind = entries[m].kind /\ NamesString(fs[m])
    BY <1>1, <1>4, <1>6 DEF NamesString
  <1>8. SameButCounts(fs)
    BY <1>6, <1>7 DEF SameButCounts
  <1>. QED
    BY <1>5, <1>8

\* A comma: the count of the head is raised.
LEMMA ParseComma ==
    ASSUME Inv, pc \in Parsing, OpenIn(entries) # {}, i < Len(doc),
           SameButCounts(entries'), i' = i + 1, UNCHANGED <<call, stack, parent, sp, result>>,
           pc' \in Parsing, pc' # "opened"
    PROVE  Inv'
  <1>0. /\ entries \in Seq(EntryType) /\ NestIn(entries, FALSE)
        /\ Len(entries) \in Nat /\ Len(entries) <= cap
        /\ OpenIn(entries) \subseteq 1..Len(entries)
        /\ \A k \in OpenIn(entries) : entries[k].kind \in Opener
        /\ parent \in 0..MaxOffset /\ sp \in 0..MaxDepth
        /\ sp = Cardinality(OpenIn(entries))
        /\ ScopeHead(entries, Len(entries) + 1, parent)
        /\ \A k \in OpenIn(entries) : ScopeHead(entries, k, entries[k].next)
    BY ParseFacts
  <1>1. i' \in 0..Len(doc)
    BY Reading
  <1>2. /\ entries' \in Seq(EntryType) /\ Len(entries') = Len(entries)
        /\ \A m \in 1..Len(entries) :
             /\ entries'[m].end = entries[m].end /\ entries'[m].next = entries[m].next
             /\ entries'[m].kind = entries[m].kind /\ NamesString(entries'[m])
    BY DEF SameButCounts
  <1>3. OpenIn(entries') = OpenIn(entries) /\ NestIn(entries', FALSE)
    BY <1>0, <1>2, CountsOnly
  <1>4. \A k \in OpenIn(entries') : /\ entries'[k].kind \in Opener
                                    /\ entries'[k].next = entries[k].next
    BY <1>0, <1>2, <1>3
  <1>5. \A k \in OpenIn(entries') : ScopeHead(entries', k, entries'[k].next)
    BY <1>0, <1>3, <1>4, HeadSame
  <1>6. ScopeHead(entries', Len(entries') + 1, parent)
    BY <1>0, <1>2, <1>3, HeadSame
  <1>. QED
    BY <1>0, <1>1, <1>2, <1>3, <1>4, <1>5, <1>6, ParseInv

\* The tape itself, unchanged.
LEMMA SameTape ==
    ASSUME Inv, pc \in Parsing PROVE SameButCounts(entries)
  BY ParseFacts DEF SameButCounts

LEMMA parseScalarKeeps ==
    ASSUME Inv, parseScalar PROVE Inv'
  <1>0. i \in Nat /\ Len(doc) \in Nat /\ Len(doc) <= MaxOffset /\ MaxOffset \in Nat
    BY Reading DEF parseScalar, Parsing
  <1>1. pc \in Parsing /\ pc # "done" /\ Tok(i) \in Scalar
    BY DEF parseScalar, Parsing
  <1>2. i < Len(doc)
    BY <1>0, <1>1, TokInside
  <1>3. CASE Full
    BY <1>1, <1>3, ReturnKeeps DEF parseScalar
  <1>4. CASE ~Full
    <2> DEFINE e == ScalarEntry(i, Tok(i), {})
    <2>1. e \in EntryType /\ e.end # 0 /\ e.next = 1 /\ NamesString(e)
      <3>1. i + 1 <= MaxOffset
        BY <1>0, <1>2
      <3>. QED
        BY <1>0, <1>1, <3>1, NewScalar
    <2>2. /\ entries' = Append(entries, e) /\ UNCHANGED <<call, stack, parent, sp, result>>
          /\ pc' \in Parsing /\ pc' # "opened" /\ i' = i + 1
      BY <1>4 DEF parseScalar, Parsing, add
    <2>3. i' \in 0..Len(doc)
      BY <1>0, <1>2, <2>2
    <2> HIDE DEF e
    <2>. QED
      BY <1>1, <1>4, <2>1, <2>2, <2>3, ParseAdd
  <1>. QED
    BY <1>3, <1>4

LEMMA parseOpenKeeps ==
    ASSUME Inv, parseOpen PROVE Inv'
  <1>0. i \in Nat /\ Len(doc) \in Nat /\ Len(doc) <= MaxOffset /\ MaxOffset \in Nat
    BY Reading DEF parseOpen, Parsing
  <1>1. pc \in Parsing /\ pc # "done" /\ Tok(i) \in Opener
    BY DEF parseOpen, Parsing
  <1>2. i < Len(doc)
    BY <1>0, <1>1, TokInside
  <1>3. CASE Return("full") \/ Return("syntax")
    BY <1>1, <1>3, ReturnKeeps
  <1>4. CASE /\ ~Full /\ sp < MaxDepth
             /\ add([OpenEntry(i, Tok(i)) EXCEPT !.next = parent])
             /\ parent' = Len(entries) /\ sp' = sp + 1
             /\ i' = i + 1 /\ pc' = "opened"
             /\ UNCHANGED <<call, stack, result>>
    <2> DEFINE e == Entry(i, 0, parent, Tok(i), {})
    <2>1. [OpenEntry(i, Tok(i)) EXCEPT !.next = parent] = e
      BY DEF OpenEntry, Entry
    <2>2. entries' = Append(entries, e)
      BY <1>4, <2>1 DEF add
    <2>3. parent \in Nat /\ i <= MaxOffset
      BY <1>0, <1>1, <1>2, ParseFacts
    <2>4. e \in EntryType /\ e.end = 0 /\ e.next = parent /\ e.kind \in Opener /\ NamesString(e)
      BY <1>0, <1>1, <2>3, NewOpen
    <2>5. i' \in 0..Len(doc) /\ pc' \in Parsing
      BY <1>0, <1>2, <1>4 DEF Parsing
    <2> HIDE DEF e
    <2>. QED
      BY <1>1, <1>4, <2>2, <2>4, <2>5, ParsePush
  <1>. QED
    BY <1>3, <1>4 DEF parseOpen

LEMMA parseOpenedKeeps ==
    ASSUME Inv, parseOpened PROVE Inv'
  <1>0. i \in Nat /\ Len(doc) \in Nat
    BY Reading
  <1>1. pc \in Parsing
    BY DEF parseOpened, Parsing
  <1>2. OpenIn(entries) # {}
    BY DEF parseOpened, Inv, Limits, Open
  <1>3. CASE Tok(i) = CloserOf(frame.kind)
    <2>1. finishContainer(entries) /\ SameButCounts(entries)
      BY <1>1, <1>3, SameTape DEF parseOpened
    <2>2. i < Len(doc)
      BY <1>0, <1>3, TokInside DEF CloserOf, Closer
    <2>. QED
      BY <1>1, <1>2, <2>1, <2>2, ParseClose
  <1>4. CASE Tok(i) # CloserOf(frame.kind)
    <2>1. /\ UNCHANGED <<call, i, entries, stack, parent, sp, result>>
          /\ pc' \in Parsing /\ pc' # "opened"
      BY <1>4 DEF parseOpened, Parsing
    <2>2. i' \in 0..Len(doc) /\ Len(entries') <= cap
      BY <2>1, Types
    <2>3. entries' = entries /\ parent' = parent /\ sp' = sp
      BY <2>1
    <2>. QED
      BY <1>1, <2>1, <2>2, <2>3, ParseFacts, ParseInv
  <1>. QED
    BY <1>3, <1>4

LEMMA parseObjectKeyKeeps ==
    ASSUME Inv, parseObjectKey PROVE Inv'
  <1>0. i \in Nat /\ Len(doc) \in Nat /\ Len(doc) <= MaxOffset /\ MaxOffset \in Nat
    BY Reading DEF parseObjectKey, Parsing
  <1>1. pc \in Parsing /\ pc # "done"
    BY DEF parseObjectKey, Parsing
  <1>2. CASE Return("full") \/ Return("syntax")
    BY <1>1, <1>2, ReturnKeeps
  <1>3. CASE /\ Tok(i) \in Strings /\ ~Full /\ Tok(i + 1) = ":"
             /\ add(ScalarEntry(i, Tok(i), {"key"}))
             /\ i' = i + 2 /\ pc' = "parse"
             /\ UNCHANGED <<call, stack, parent, sp, result>>
    <2> DEFINE e == ScalarEntry(i, Tok(i), {"key"})
    <2>1. Tok(i) \in Scalar /\ Tok(i) = doc[i + 1]
      BY <1>0, <1>3, TokInside DEF Scalar
    <2>2. i + 1 < Len(doc)
      <3>1. i + 1 \in Nat
        BY <1>0
      <3>. QED
        BY <1>0, <1>3, <3>1, TokInside
    <2>3. i + 1 <= MaxOffset /\ i' \in 0..Len(doc)
      BY <1>0, <1>3, <2>2
    <2>4. e \in EntryType /\ e.end # 0 /\ e.next = 1 /\ NamesString(e)
      BY <1>0, <1>3, <2>1, <2>3, NewScalar
    <2>5. entries' = Append(entries, e) /\ pc' \in Parsing /\ pc' # "opened"
      BY <1>3 DEF Parsing, add
    <2> HIDE DEF e
    <2>. QED
      BY <1>1, <1>3, <2>3, <2>4, <2>5, ParseAdd
  <1>. QED
    BY <1>2, <1>3 DEF parseObjectKey

LEMMA parseCompletedKeeps ==
    ASSUME Inv, parseCompleted PROVE Inv'
  <1> DEFINE bumped == [entries EXCEPT ![parent + 1].count = @ + 1]
  <1>0. i \in Nat /\ Len(doc) \in Nat
    BY Reading
  <1>1. pc \in Parsing /\ pc # "done"
    BY DEF parseCompleted, Parsing
  <1>2. OpenIn(entries) # {}
    <2>1. sp # 0 /\ sp = Cardinality(OpenIn(entries))
      BY <1>1, ParseFacts DEF parseCompleted
    <2>. QED
      BY <2>1, FS_EmptySet
  <1>3. CASE Return("too large") \/ Return("syntax")
    BY <1>1, <1>3, ReturnKeeps
  <1>4. CASE /\ frame.count # MaxCount /\ Tok(i) = ","
             /\ entries' = bumped /\ i' = i + 1
             /\ pc' = IF frame.kind = "{" THEN "key" ELSE "parse"
             /\ UNCHANGED <<call, stack, parent, sp, result>>
    <2>1. SameButCounts(entries')
      BY <1>1, <1>2, <1>4, Bumped
    <2>2. i < Len(doc)
      BY <1>0, <1>4, TokInside
    <2>3. pc' \in Parsing /\ pc' # "opened"
      BY <1>4 DEF Parsing
    <2>. QED
      BY <1>1, <1>2, <1>4, <2>1, <2>2, <2>3, ParseComma
  <1>5. CASE frame.count # MaxCount /\ Tok(i) = CloserOf(frame.kind) /\ finishContainer(bumped)
    <2>1. SameButCounts(bumped)
      BY <1>1, <1>2, <1>5, Bumped
    <2>2. i < Len(doc)
      BY <1>0, <1>5, TokInside DEF CloserOf, Closer
    <2> HIDE DEF bumped
    <2>. QED
      BY <1>1, <1>2, <1>5, <2>1, <2>2, ParseClose
  <1>. QED
    BY <1>3, <1>4, <1>5 DEF parseCompleted

-----------------------------------------------------------------------------
(***************************************************************************)
(* The whole builder.                                                      *)
(***************************************************************************)

LEMMA StartKeeps ==
    ASSUME Inv, buildIndexOptions \/ parseFast PROVE Inv'
  <1>1. CASE buildIndexOptions
    <2>1. CASE Return("too large")
      BY <1>1, <2>1, ReturnKeeps DEF buildIndexOptions
    <2>2. CASE ~(Len(doc) > MaxOffset \/ cap > MaxOffset)
      <3>1. /\ pc = "build" /\ pc' = "parseFast"
            /\ UNCHANGED <<call, i, entries, stack, parent, sp, result>>
        BY <1>1, <2>2 DEF buildIndexOptions
      <3>2. Len(doc) <= MaxOffset /\ cap <= MaxOffset
        <4>1. Len(doc) \in Nat /\ cap \in Nat /\ MaxOffset \in Nat
          BY Types, Numbers
        <4>. QED
          BY <2>2, <4>1
      <3>3. doc' = doc /\ cap' = cap /\ hashKeys' = hashKeys
        BY <3>1 DEF call
      <3>4. TypeOK'
        BY <3>1, <3>3 DEF Inv, TypeOK
      <3>5. MemorySafe'
        BY <3>1, <3>3 DEF Inv, MemorySafe
      <3>6. ScopesAreOpen'
        BY <3>1 DEF Inv, ScopesAreOpen, Open, OpenIn, Walking, Parsing
      <3>7. SubtreesNest'
        BY <3>1, NestNow DEF SubtreesNest, NestIn
      <3>8. Limits'
        BY <3>1, <3>2, <3>3 DEF Inv, Limits, NamesString, Walking, Parsing
      <3>. QED
        BY <3>4, <3>5, <3>6, <3>7, <3>8 DEF Inv
    <2>. QED
      BY <1>1, <2>1, <2>2 DEF buildIndexOptions
  <1>2. CASE parseFast
    <2>1. CASE FallBack
      BY <1>2, <2>1, FallBackKeeps DEF parseFast
    <2>2. CASE i < Len(doc)
      <3>1. /\ pc = "parseFast" /\ pc' = "value"
            /\ UNCHANGED <<call, i, entries, stack, parent, sp, result>>
        BY <1>2, <2>2, Reading DEF parseFast
      <3>2. entries = <<>> /\ stack = <<>> /\ Len(doc) <= MaxOffset /\ cap <= MaxOffset
        BY <3>1 DEF Inv, Limits
      <3>3. doc' = doc /\ cap' = cap /\ hashKeys' = hashKeys /\ i' = i
        BY <3>1 DEF call
      <3>4. TypeOK'
        BY <3>1, <3>3 DEF Inv, TypeOK, Walking
      <3>5. MemorySafe'
        BY <2>2, <3>1, <3>3 DEF Inv, MemorySafe
      <3>6. ScopesAreOpen'
        <4>1. OpenIn(entries') = {} /\ stack' = <<>> /\ Len(stack') = 0
          BY <3>1, <3>2, EmptyTape
        <4>2. pc' \notin Parsing
          BY <3>1 DEF Parsing
        <4>. QED
          BY <4>1, <4>2 DEF ScopesAreOpen, Open
      <3>7. SubtreesNest'
        BY <3>1, NestNow DEF SubtreesNest, NestIn
      <3>8. Limits'
        <4>1. stack' = <<>> /\ Len(stack') = 0 /\ entries' = <<>> /\ Len(entries') = 0
          BY <3>1, <3>2
        <4>. QED
          BY <3>1, <3>2, <3>3, <4>1 DEF Limits
      <3>. QED
        BY <3>4, <3>5, <3>6, <3>7, <3>8 DEF Inv
    <2>. QED
      BY <1>2, <2>1, <2>2, Reading DEF parseFast
  <1>. QED
    BY <1>1, <1>2

\* The ends of the document, and tokens that begin no value.
LEMMA EndKeeps ==
    ASSUME Inv, rootEnd \/ parseRootEnd \/ valueInvalid \/ parseInvalid PROVE Inv'
  <1>1. pc # "done" /\ pc \in Walking \cup Parsing
    BY DEF rootEnd, parseRootEnd, valueInvalid, parseInvalid, Walking, Parsing
  <1>2. CASE Finish
    BY <1>1, <1>2, FinishKeeps
  <1>3. CASE Return("syntax")
    BY <1>1, <1>3, ReturnKeeps
  <1>4. CASE pc \in Walking /\ FallBack
    BY <1>1, <1>4, FallBackKeeps
  <1>. QED
    BY <1>2, <1>3, <1>4 DEF rootEnd, parseRootEnd, valueInvalid, parseInvalid, Walking

LEMMA NextKeeps ==
    ASSUME Inv, [Next]_vars PROVE Inv'
  <1>1. CASE Next
    BY <1>1, StartKeeps, EndKeeps, valueOpenKeeps, valueScalarKeeps, objectKeyKeeps, scopeEndKeeps,
       parseScalarKeeps, parseOpenKeeps, parseOpenedKeeps, parseObjectKeyKeeps, parseCompletedKeeps
       DEF Next
  <1>2. CASE UNCHANGED vars
    <2>1. /\ doc' = doc /\ cap' = cap /\ hashKeys' = hashKeys /\ i' = i /\ entries' = entries
          /\ stack' = stack /\ parent' = parent /\ sp' = sp /\ pc' = pc /\ result' = result
      BY <1>2 DEF vars
    <2>2. TypeOK'
      BY <2>1 DEF Inv, TypeOK
    <2>3. MemorySafe'
      BY <2>1 DEF Inv, MemorySafe
    <2>4. ScopesAreOpen'
      BY <2>1 DEF Inv, ScopesAreOpen, Open, OpenIn, ScopeHead
    <2>5. SubtreesNest'
      BY <2>1 DEF Inv, SubtreesNest, NestIn
    <2>6. Limits'
      BY <2>1 DEF Inv, Limits, NamesString, Open, OpenIn
    <2>. QED
      BY <2>2, <2>3, <2>4, <2>5, <2>6 DEF Inv
  <1>. QED
    BY <1>1, <1>2

LEMMA Invariance == Spec => []Inv
  BY InitInv, NextKeeps, PTL DEF Spec

\* Every variable of the builder keeps to the words and arrays the code
\* gives it: offsets and counts never leave their bit fields, whatever the
\* document (PackInfo and the 32-bit Start, End and Next).
THEOREM BuilderTypes == Spec => []TypeOK
  BY Invariance, PTL DEF Inv

\* WalkFast never reads behind the input, never pushes behind its fixed
\* stacks and never appends behind the caller's storage.
THEOREM WalkIsMemorySafe == Spec => []MemorySafe
  BY Invariance, PTL DEF Inv

\* The fast walk's stacks hold exactly the open containers, and the list
\* threaded through Next by pushContainer and finishContainer visits exactly
\* them.
THEOREM ScopesAreAlwaysOpen == Spec => []ScopesAreOpen
  BY Invariance, PTL DEF Inv

\* The skip counts on the tape always nest, hashed names aside: the steps
\* that Node takes without looking stay inside the parent.
THEOREM SubtreesAlwaysNest == Spec => []SubtreesNest
  BY Invariance, PTL DEF Inv

\* A step ends or restarts the build, or it leaves complete entries alone.
Final == entries' = <<>> \/ pc' = "done" \/
         \A k \in 1..Len(entries) : entries[k].end # 0 => entries'[k] = entries[k]

\* The entries of a step that goes on: an entry is added, or the head of
\* the open containers is written.
LEMMA AddIsFinal ==
    ASSUME entries \in Seq(EntryType), NEW e, entries' = Append(entries, e)
    PROVE  Final
  BY DEF Final

LEMMA HeadIsFinal ==
    ASSUME entries \in Seq(EntryType), NEW h \in OpenIn(entries), NEW e,
           entries' = [entries EXCEPT ![h] = e]
    PROVE  Final
  <1>1. entries[h].end = 0 /\ h \in 1..Len(entries)
    BY DEF OpenIn
  <1>2. \A k \in 1..Len(entries) : k # h => entries'[k] = entries[k]
    BY <1>1
  <1>. QED
    BY <1>1, <1>2 DEF Final

LEMMA StepIsFinal ==
    ASSUME Inv, [Next]_vars
    PROVE  Final
  <1>0. entries \in Seq(EntryType)
    BY Types
  <1>1. CASE UNCHANGED entries
    BY <1>1 DEF Final
  <1>2. CASE \E r : Return(r)
    BY <1>2 DEF Return, Final
  <1>3. CASE Finish \/ FallBack
    BY <1>3 DEF Finish, FallBack, Final
  <1>4. CASE \E e : entries' = Append(entries, e)
    BY <1>0, <1>4, AddIsFinal
  <1>5. CASE \E h \in OpenIn(entries) : \E e : entries' = [entries EXCEPT ![h] = e]
    BY <1>0, <1>5, HeadIsFinal
  <1>6. ASSUME scopeEnd, entries' # entries, ~FallBack
        PROVE  \E h \in OpenIn(entries) : \E e : entries' = [entries EXCEPT ![h] = e]
    <2>1. Top.entry + 1 \in OpenIn(entries)
      BY <1>6, TopIsLast DEF scopeEnd
    <2>2. entries' = [entries EXCEPT ![Top.entry + 1].end   = i + 1,
                                     ![Top.entry + 1].count = Top.count + 1,
                                     ![Top.entry + 1].next  = Len(entries) - Top.entry]
      BY <1>6 DEF scopeEnd
    <2> DEFINE e == [entries[Top.entry + 1] EXCEPT !.end = i + 1, !.count = Top.count + 1,
                                                   !.next = Len(entries) - Top.entry]
    <2>3. entries' = [entries EXCEPT ![Top.entry + 1] = e]
      BY <1>0, <2>1, <2>2 DEF OpenIn
    <2>. QED
      BY <2>1, <2>3
  <1>7. ASSUME pc \in Parsing, OpenIn(entries) # {},
               finishContainer(entries)
        PROVE  \E h \in OpenIn(entries) : \E e : entries' = [entries EXCEPT ![h] = e]
    <2>1. parent + 1 \in OpenIn(entries)
      BY <1>7, HeadIsLast
    <2> DEFINE e == [entries[parent + 1] EXCEPT !.end = i + 1, !.next = Len(entries) - parent]
    <2>2. entries' = [entries EXCEPT ![parent + 1] = e]
      BY <1>0, <1>7, <2>1 DEF finishContainer, OpenIn
    <2>. QED
      BY <2>1, <2>2
  <1>8. ASSUME parseCompleted, ~(\E r : Return(r))
        PROVE  \E h \in OpenIn(entries) : \E e : entries' = [entries EXCEPT ![h] = e]
    <2> DEFINE h == parent + 1
               b == [entries[h] EXCEPT !.count = @ + 1]
               bumped == [entries EXCEPT ![h].count = @ + 1]
               e == [b EXCEPT !.end = i + 1, !.next = Len(bumped) - parent]
    <2>1. h \in OpenIn(entries)
      <3>1. pc \in Parsing /\ sp # 0
        BY <1>8 DEF parseCompleted, Parsing
      <3>2. OpenIn(entries) # {}
        BY <3>1, ParseFacts, FS_EmptySet
      <3>. QED
        BY <3>1, <3>2, HeadIsLast
    <2>2. bumped = [entries EXCEPT ![h] = b]
      BY <1>0, <2>1 DEF OpenIn
    <2>3. CASE entries' = bumped
      BY <2>1, <2>2, <2>3
    <2>4. CASE finishContainer(bumped)
      <3>1. entries' = [bumped EXCEPT ![h].end = i + 1, ![h].next = Len(bumped) - parent]
        BY <2>4 DEF finishContainer
      <3>2. entries' = [entries EXCEPT ![h] = e]
        BY <1>0, <2>1, <2>2, <3>1 DEF OpenIn
      <3>. QED
        BY <2>1, <3>2
    <2>. QED
      BY <1>8, <2>3, <2>4 DEF parseCompleted
  <1>9. CASE buildIndexOptions \/ parseFast \/ valueInvalid \/ rootEnd \/ parseInvalid \/ parseRootEnd
    BY <1>1, <1>2, <1>3, <1>9
       DEF buildIndexOptions, parseFast, valueInvalid, rootEnd, parseInvalid, parseRootEnd
  <1>10. CASE valueOpen \/ valueScalar \/ objectKey
    BY <1>2, <1>3, <1>4, <1>10 DEF valueOpen, valueScalar, objectKey
  <1>11. CASE scopeEnd
    BY <1>1, <1>3, <1>5, <1>6, <1>11
  <1>12. CASE parseScalar \/ parseOpen \/ parseObjectKey
    BY <1>2, <1>4, <1>12 DEF parseScalar, parseOpen, parseObjectKey, add
  <1>13. CASE parseOpened
    <2>1. pc \in Parsing /\ OpenIn(entries) # {}
      BY <1>13 DEF parseOpened, Parsing, Inv, Limits, Open
    <2>. QED
      BY <1>1, <1>5, <1>7, <1>13, <2>1 DEF parseOpened
  <1>14. CASE parseCompleted
    BY <1>2, <1>5, <1>8, <1>14
  <1>15. CASE UNCHANGED vars
    BY <1>1, <1>15 DEF vars
  <1>. QED
    BY <1>9, <1>10, <1>11, <1>12, <1>13, <1>14, <1>15 DEF Next

\* Everything the unchecked code of the walk and of Node relies on holds at
\* every step of both builders.
THEOREM BuilderWalkSound == Spec => []WalkSound
BY WalkIsMemorySafe, ScopesAreAlwaysOpen, SubtreesAlwaysNest, PTL DEF WalkSound

\* Neither builder writes to a complete entry again: only starting over and
\* enriching the finished tape do (buildIndexOptions, EnrichKeyHashes).
THEOREM CompleteEntriesStay == Spec => CompleteEntriesFinal
  <1>1. ASSUME Inv, [Next]_vars
        PROVE  [ entries' = <<>> \/ pc' = "done" \/
                 \A k \in 1..Len(entries) : entries[k].end # 0 => entries'[k] = entries[k] ]_vars
    BY <1>1, StepIsFinal DEF Final
  <1>. QED
    BY <1>1, Invariance, PTL DEF Spec, CompleteEntriesFinal

-----------------------------------------------------------------------------
(***************************************************************************)
(* The probe of one object.                                                *)
(***************************************************************************)

ProbeSlots == [hash : Nat, off : Nat]

\* The object o by the offsets of its names, and its members up to n.
NameIn(o, x) == o[CHOOSE m \in 1..Len(o) : o[m].at = x].name
EscapedUpTo(o, n) == {m \in 1..n : o[m].name \in EscapedNames}

\* The last of the first n members with its spelling, which has no escape.
Latest(o, n, m) ==
    /\ m \in 1..n /\ o[m].name \notin EscapedNames
    /\ \A w \in 1..n : o[w].name = o[m].name => w <= m

\* Slot k of a table of c slots is where a probe for `name' in K arrives: every
\* slot before it on the way is taken by another name.
Place(c, h, d) == ((h + d) % c) + 1
Path(K, o, c, name, k) ==
    \E d \in 0..(c - 1) :
        /\ k = Place(c, NameHash[name], d)
        /\ \A e \in 0..(d - 1) : LET x == K[Place(c, NameHash[name], e)].off
                                 IN  x # 0 /\ NameIn(o, x) # name

\* The table K after n members of o: a slot that is not empty holds the latest
\* member of some name, where a probe for it arrives; every name is there; and
\* at most n slots are taken.
TableOk(K, o, n, c) ==
    /\ \A k \in 1..c :
          /\ K[k] \in ProbeSlots
          /\ K[k].off # 0 =>
                \E m \in 1..n : /\ Latest(o, n, m) /\ Path(K, o, c, o[m].name, k)
                                /\ K[k] = [hash |-> NameHash[o[m].name], off |-> o[m].at]
    /\ \A m \in 1..n : o[m].name \notin EscapedNames =>
          \E k \in 1..c : K[k].off # 0 /\ NameIn(o, K[k].off) = o[m].name
    /\ Cardinality({k \in 1..c : K[k].off # 0}) <= n

ProbeTypeOK ==
    /\ obj = <<>> \/ obj \in Objects
    /\ member \in 0..Len(obj) /\ off \in Nat /\ nescaped \in Nat
    /\ storage \in Seq(ProbeSlots) /\ Len(storage) = StorageCap
    /\ fresh \in Seq(ProbeSlots) /\ grown \in Seq(ProbeSlots)
    /\ member < Len(obj) => off = obj[member + 1].at

\* The table fits the slots; so does the escaped list, or it has moved, which
\* it does only when the storage was too small for it.
Layout ==
    /\ capacity <= Len(Slots)
    /\ nescaped = Cardinality(EscapedUpTo(obj, member))
    /\ IF grown = <<>> THEN capacity + nescaped <= Len(Slots) ELSE nescaped <= Len(grown)
    /\ fresh # <<>> => StorageCap < capacity
    /\ fresh = <<>> /\ grown # <<>> => StorageCap < capacity + nescaped

EscapedOk == {escaped[k].off : k \in 1..nescaped} = {obj[m].at : m \in EscapedUpTo(obj, member)}

ProbeInv == ProbeTypeOK /\ Layout /\ EscapedOk /\ TableOk(Slots, obj, member, capacity)

-----------------------------------------------------------------------------
(***************************************************************************)
(* Numbers: least and greatest members, powers of two, remainders.         *)
(***************************************************************************)

\* A set of numbers that is not empty has a least member.
LEMMA LeastNumber ==
    ASSUME NEW K, K \subseteq Nat, K # {}
    PROVE  \E x \in K : \A y \in K : x <= y
  <1> DEFINE R == OpToRel(<, Nat)
  <1>1. IsWellFoundedOn(R, Nat)
    BY NatLessThanWellFounded
  <1> HIDE DEF R
  <1>2. PICK x \in K : \A y \in K : ~ (<<y, x>> \in R)
    BY <1>1, WFMin
  <1>3. ASSUME NEW y \in K, y < x
        PROVE  FALSE
    <2>1. <<y, x>> \in R
      BY <1>3 DEF R, OpToRel
    <2>. QED
      BY <1>2, <2>1
  <1>. QED
    BY <1>3

\* Min of numbers is the least of them.
LEMMA MinIsLeast ==
    ASSUME NEW K, K \subseteq Nat, K # {}
    PROVE  Min(K) \in K /\ \A y \in K : Min(K) <= y
  BY LeastNumber DEF Min

\* Max is the member that no other exceeds, when there is one.
LEMMA MaxIs ==
    ASSUME NEW K, K \subseteq Nat, NEW x \in K, \A y \in K : y <= x
    PROVE  Max(K) = x
  <1>1. \E z \in K : \A y \in K : z >= y
    OBVIOUS
  <1>2. Max(K) \in K /\ \A y \in K : Max(K) >= y
    BY <1>1 DEF Max
  <1>3. Max(K) <= x /\ Max(K) >= x /\ Max(K) \in Nat /\ x \in Nat
    BY <1>2
  <1> DEFINE y == Max(K)
  <1> HIDE DEF y
  <1>4. y <= x /\ y >= x /\ y \in Nat /\ x \in Nat
    BY <1>3 DEF y
  <1>. QED
    BY <1>4 DEF y

\* PowerOfTwo up to n.
PowersUpTo(g, n) == g = [k \in 0..n |-> IF k = 0 THEN 1 ELSE 2 * g[k - 1]]

LEMMA PowersUpToSteps ==
    ASSUME NEW g, NEW n \in Nat, PowersUpTo(g, n)
    PROVE  /\ DOMAIN g = 0..n /\ g[0] = 1
           /\ \A k \in 1..n : g[k] = 2 * g[k - 1]
  BY DEF PowersUpTo

LEMMA PowersUpToExist ==
    ASSUME NEW n \in Nat
    PROVE  \E g : PowersUpTo(g, n)
  <1> DEFINE K == {m \in Nat : \A g : ~PowersUpTo(g, m)}
  <1> SUFFICES ASSUME K # {} PROVE FALSE
    OBVIOUS
  <1>1. PICK m \in K : \A y \in K : m <= y
    BY LeastNumber
  <1>2. m # 0
    <2>1. PowersUpTo([k \in 0..0 |-> 1], 0)
      BY DEF PowersUpTo
    <2>. QED
      BY <2>1, <1>1
  <1>3. m - 1 \in Nat /\ m \in Nat /\ ~(m <= m - 1)
    BY <1>1, <1>2
  <1>4. PICK g : PowersUpTo(g, m - 1)
    BY <1>1, <1>3
  <1>5. DOMAIN g = 0..(m - 1) /\ g[0] = 1 /\ \A k \in 1..(m - 1) : g[k] = 2 * g[k - 1]
    BY <1>3, <1>4, PowersUpToSteps
  <1> DEFINE h == [k \in 0..m |-> IF k = m THEN 2 * g[m - 1] ELSE g[k]]
  <1>6. \A k \in 0..m : h[k] = IF k = 0 THEN 1 ELSE 2 * h[k - 1]
    <2> SUFFICES ASSUME NEW k \in 0..m PROVE h[k] = IF k = 0 THEN 1 ELSE 2 * h[k - 1]
      OBVIOUS
    <2>1. CASE k = 0
      BY <2>1, <1>2, <1>5
    <2>2. CASE k # 0 /\ k # m
      <3>1. k \in 1..(m - 1) /\ k - 1 \in 0..m /\ k - 1 # m /\ k \in 0..m
        BY <2>2, <1>3
      <3>. QED
        BY <2>2, <3>1, <1>5
    <2>3. CASE k = m
      <3>1. m - 1 \in 0..m /\ m - 1 # m /\ m # 0
        BY <1>2, <1>3
      <3>. QED
        BY <2>3, <3>1
    <2>. QED
      BY <2>1, <2>2, <2>3
  <1>7. h = [k \in 0..m |-> IF k = 0 THEN 1 ELSE 2 * h[k - 1]]
    <2> DEFINE r == [k \in 0..m |-> IF k = 0 THEN 1 ELSE 2 * h[k - 1]]
    <2>1. DOMAIN h = 0..m /\ DOMAIN r = 0..m /\ \A k \in 0..m : r[k] = IF k = 0 THEN 1 ELSE 2 * h[k - 1]
      OBVIOUS
    <2>2. h = [k \in DOMAIN h |-> h[k]] /\ r = [k \in DOMAIN r |-> r[k]]
      OBVIOUS
    <2> HIDE DEF h, r
    <2>3. \A k \in 0..m : h[k] = r[k]
      BY <1>6, <2>1
    <2>4. h = r
      BY <2>1, <2>2, <2>3
    <2>. QED
      BY <2>4 DEF r
  <1>. QED
    BY <1>1, <1>7 DEF PowersUpTo

\* Two of them agree where both are defined; there they exceed their argument.
LEMMA PowersUpToAgree ==
    ASSUME NEW m \in Nat, NEW n \in Nat, NEW g, NEW h, PowersUpTo(g, m), PowersUpTo(h, n),
           NEW k \in Nat, k <= m, k <= n
    PROVE  g[k] = h[k] /\ g[k] \in Nat /\ g[k] > k
  <1> DEFINE K == {x \in Nat : x <= m /\ x <= n /\ ~(g[x] = h[x] /\ g[x] \in Nat /\ g[x] > x)}
  <1> SUFFICES ASSUME K # {} PROVE FALSE
    OBVIOUS
  <1>1. PICK x \in K : \A y \in K : x <= y
    BY LeastNumber
  <1>2. g[0] = 1 /\ h[0] = 1
    BY PowersUpToSteps
  <1>3. x # 0 /\ x \in Nat
    BY <1>1, <1>2
  <1>4. x \in 1..m /\ x \in 1..n /\ x - 1 \in Nat /\ x - 1 <= m /\ x - 1 <= n /\ ~(x <= x - 1)
    BY <1>1, <1>3
  <1>5. g[x] = 2 * g[x - 1] /\ h[x] = 2 * h[x - 1]
    BY <1>4, PowersUpToSteps
  <1>6. g[x - 1] = h[x - 1] /\ g[x - 1] \in Nat /\ g[x - 1] > x - 1
    BY <1>1, <1>4
  <1>7. g[x] = h[x] /\ g[x] \in Nat /\ g[x] > x
    BY <1>3, <1>5, <1>6
  <1>. QED
    BY <1>1, <1>7

\* The recursive definition is met by a function, so PowerOfTwo is one.
LEMMA PowerOfTwoIs == PowerOfTwo = [k \in Nat |-> IF k = 0 THEN 1 ELSE 2 * PowerOfTwo[k - 1]]
  <1> DEFINE G(n) == CHOOSE g : PowersUpTo(g, n)
             F == [k \in Nat |-> G(k)[k]]
  <1>1. \A n \in Nat : PowersUpTo(G(n), n)
    BY PowersUpToExist
  <1>2. \A k \in Nat : F[k] = G(k)[k]
    OBVIOUS
  <1>3. DOMAIN F = Nat /\ F = [k \in DOMAIN F |-> F[k]]
    OBVIOUS
  <1> HIDE DEF G, F
  <1>4. \A k \in Nat : F[k] = IF k = 0 THEN 1 ELSE 2 * F[k - 1]
    <2> SUFFICES ASSUME NEW k \in Nat PROVE F[k] = IF k = 0 THEN 1 ELSE 2 * F[k - 1]
      OBVIOUS
    <2>1. CASE k = 0
      <3>1. G(0)[0] = 1
        BY <1>1, PowersUpToSteps
      <3>. QED
        BY <2>1, <3>1, <1>2
    <2>2. CASE k # 0
      <3>1. k \in 1..k /\ k - 1 \in Nat /\ k - 1 <= k /\ k - 1 <= k - 1
        BY <2>2
      <3>2. G(k)[k] = 2 * G(k)[k - 1]
        BY <3>1, <1>1, PowersUpToSteps
      <3>3. G(k)[k - 1] = G(k - 1)[k - 1]
        BY <3>1, <1>1, PowersUpToAgree
      <3>. QED
        BY <2>2, <3>1, <3>2, <3>3, <1>2
    <2>. QED
      BY <2>1, <2>2
  <1> DEFINE r == [k \in Nat |-> IF k = 0 THEN 1 ELSE 2 * F[k - 1]]
  <1>5. DOMAIN r = Nat /\ r = [k \in DOMAIN r |-> r[k]] /\ \A k \in Nat : r[k] = IF k = 0 THEN 1 ELSE 2 * F[k - 1]
    OBVIOUS
  <1> HIDE DEF r
  <1>6. F = r
    BY <1>3, <1>4, <1>5
  <1>7. \E f : f = [k \in Nat |-> IF k = 0 THEN 1 ELSE 2 * f[k - 1]]
    BY <1>6 DEF r
  <1>. QED
    BY <1>7 DEF PowerOfTwo

LEMMA PowerOfTwoExceeds ==
    ASSUME NEW n \in Nat
    PROVE  PowerOfTwo[n] \in Nat /\ PowerOfTwo[n] > n
  <1> DEFINE g == [k \in 0..n |-> PowerOfTwo[k]]
  <1>1. \A k \in Nat : PowerOfTwo[k] = IF k = 0 THEN 1 ELSE 2 * PowerOfTwo[k - 1]
    BY PowerOfTwoIs, Zenon
  <1>2. \A k \in 0..n : g[k] = IF k = 0 THEN 1 ELSE 2 * g[k - 1]
    <2> SUFFICES ASSUME NEW k \in 0..n PROVE g[k] = IF k = 0 THEN 1 ELSE 2 * g[k - 1]
      OBVIOUS
    <2>1. k \in Nat /\ (k # 0 => k - 1 \in 0..n)
      OBVIOUS
    <2>. QED
      BY <1>1, <2>1
  <1> DEFINE r == [k \in 0..n |-> IF k = 0 THEN 1 ELSE 2 * g[k - 1]]
  <1>3. /\ DOMAIN r = 0..n /\ r = [k \in DOMAIN r |-> r[k]]
        /\ DOMAIN g = 0..n /\ g = [k \in DOMAIN g |-> g[k]]
        /\ \A k \in 0..n : r[k] = IF k = 0 THEN 1 ELSE 2 * g[k - 1]
    OBVIOUS
  <1>4. g[n] = PowerOfTwo[n]
    OBVIOUS
  <1> HIDE DEF g, r
  <1>5. g = r
    BY <1>2, <1>3
  <1>6. PowersUpTo(g, n)
    BY <1>5 DEF r, PowersUpTo
  <1>. QED
    BY <1>4, <1>6, PowersUpToAgree

\* The capacity of a table is a number, at least twice the members.
LEMMA CapacityIs ==
    ASSUME NEW n \in Nat
    PROVE  ProbeCapacity(n) \in Nat /\ ProbeCapacity(n) >= 2 * n
  <1> DEFINE P == {p \in {PowerOfTwo[k] : k \in 0..(2 * n)} : p >= 2 * n}
  <1>1. 2 * n \in Nat /\ 2 * n \in 0..(2 * n) /\ \A k \in 0..(2 * n) : k \in Nat
    OBVIOUS
  <1>2. PowerOfTwo[2 * n] \in Nat /\ PowerOfTwo[2 * n] >= 2 * n
    <2> DEFINE q == 2 * n
    <2>1. q \in Nat
      OBVIOUS
    <2> HIDE DEF q
    <2>2. PowerOfTwo[q] \in Nat /\ PowerOfTwo[q] > q
      BY <2>1, PowerOfTwoExceeds
    <2>3. PowerOfTwo[q] \in Nat /\ PowerOfTwo[q] >= q
      BY <2>1, <2>2
    <2>. QED
      BY <2>3 DEF q
  <1>3. P \subseteq Nat /\ P # {}
    BY <1>1, <1>2, PowerOfTwoExceeds
  <1>4. Min(P) \in P
    BY <1>3, MinIsLeast
  <1>5. \A p \in P : p \in Nat /\ p >= 2 * n
    BY <1>3
  <1> HIDE DEF P
  <1>6. Min(P) \in Nat /\ Min(P) >= 2 * n
    BY <1>4, <1>5
  <1>. QED
    BY <1>6 DEF P, ProbeCapacity

LEMMA RemainderIs ==
    ASSUME NEW c \in Nat, c > 0, NEW q \in Nat, NEW j \in 0..(c - 1)
    PROVE  (c * q + j) % c = j
  OBVIOUS

\* From every starting slot, linear probing reaches every slot of a table.
LEMMA PlaceOnto ==
    ASSUME NEW c \in Nat, c > 0, NEW h \in Nat, NEW k \in 1..c
    PROVE  \E d \in 0..(c - 1) : k = Place(c, h, d)
  <1> DEFINE b == h % c
             q == h \div c
             d == IF b <= k - 1 THEN k - 1 - b ELSE c + k - 1 - b
  <1>1. b \in 0..(c - 1) /\ q \in Nat /\ h = c * q + b
    OBVIOUS
  <1>2. d \in 0..(c - 1)
    BY <1>1
  <1>3. CASE b <= k - 1
    <2>1. h + d = c * q + (k - 1)
      BY <1>1, <1>3
    <2>2. (c * q + (k - 1)) % c = k - 1
      BY <1>1, RemainderIs
    <2>3. k = Place(c, h, d)
      BY <2>1, <2>2 DEF Place
    <2>. QED
      BY <1>2, <2>3
  <1>4. CASE ~(b <= k - 1)
    <2>1. h + d = c * (q + 1) + (k - 1)
      BY <1>1, <1>4
    <2> DEFINE r == q + 1
    <2>4. r \in Nat /\ k - 1 \in 0..(c - 1)
      BY <1>1
    <2> HIDE DEF r
    <2>5. (c * r + (k - 1)) % c = k - 1
      BY <2>4, RemainderIs
    <2>2. (c * (q + 1) + (k - 1)) % c = k - 1
      BY <2>5 DEF r
    <2>3. k = Place(c, h, d)
      BY <2>1, <2>2 DEF Place
    <2>. QED
      BY <1>2, <2>3
  <1>. QED
    BY <1>3, <1>4

LEMMA PlaceIn ==
    ASSUME NEW c \in Nat, c > 0, NEW h \in Nat, NEW d \in Nat
    PROVE  Place(c, h, d) \in 1..c
  <1>1. (h + d) % c \in 0..(c - 1)
    OBVIOUS
  <1>. QED
    BY <1>1 DEF Place

-----------------------------------------------------------------------------
(***************************************************************************)
(* An object: its offsets rise, so an offset stands for one name.          *)
(***************************************************************************)

LEMMA MembersAre ==
    ASSUME ProbeAssumption, NEW o, o = <<>> \/ o \in Objects
    PROVE  /\ Len(o) \in Nat /\ o \in Seq([name : Names, next : Nat \ {0}, at : Nat])
           /\ \A m \in 1..Len(o) :
                 /\ o[m].name \in Names /\ o[m].next \in Nat \ {0} /\ o[m].at \in Nat
                 /\ o[m].at = IF m = 1 THEN 1 ELSE o[m - 1].at + 1 + o[m - 1].next
  <1>1. CASE o = <<>>
    BY <1>1
  <1>2. CASE o \in Objects
    <2>1. o \in Seq([name : Names, next : Nat \ {0}, at : Nat])
      BY <1>2 DEF ProbeAssumption
    <2>2. \A m \in 1..Len(o) : o[m] \in [name : Names, next : Nat \ {0}, at : Nat]
      BY <2>1, ElementOfSeq
    <2>. QED
      BY <1>2, <2>1, <2>2 DEF ProbeAssumption
  <1>. QED
    BY <1>1, <1>2

\* Offsets are positive, and rise from member to member.
LEMMA OffsetsRise ==
    ASSUME ProbeAssumption, NEW o, o = <<>> \/ o \in Objects, NEW m \in 1..Len(o)
    PROVE  o[m].at > 0 /\ \A w \in 1..(m - 1) : o[w].at < o[m].at
  <1> DEFINE K == {n \in Nat : n \in 1..Len(o) /\ ~(o[n].at > 0 /\ \A w \in 1..(n - 1) : o[w].at < o[n].at)}
  <1> SUFFICES ASSUME K # {} PROVE FALSE
    BY MembersAre, SMTT(60)
  <1>1. PICK n \in K : \A y \in K : n <= y
    BY LeastNumber
  <1>2. n \in 1..Len(o) /\ n \in Nat /\ Len(o) \in Nat
    BY <1>1, MembersAre
  <1>3. o[n].at \in Nat /\ o[n].at = IF n = 1 THEN 1 ELSE o[n - 1].at + 1 + o[n - 1].next
    BY <1>2, MembersAre
  <1>4. n # 1
    BY <1>1, <1>3
  <1>5. n - 1 \in 1..Len(o) /\ ~(n <= n - 1) /\ n - 1 \in Nat
    BY <1>2, <1>4
  <1>6. o[n - 1].at \in Nat /\ o[n - 1].next \in Nat
    BY <1>5, MembersAre
  <1>7. o[n - 1].at > 0 /\ \A w \in 1..(n - 2) : o[w].at < o[n - 1].at
    BY <1>1, <1>5
  <1>8. o[n].at > o[n - 1].at /\ o[n].at > 0
    BY <1>3, <1>4, <1>6, <1>7, SMTT(20)
  <1>9. ASSUME NEW w \in 1..(n - 1)
        PROVE  o[w].at < o[n].at
    <2>1. w \in 1..Len(o) /\ (w = n - 1 \/ w \in 1..(n - 2))
      BY <1>2
    <2>2. o[w].at \in Nat
      BY <2>1, MembersAre
    <2>. QED
      BY <2>1, <2>2, <1>3, <1>6, <1>7, <1>8
  <1>. QED
    BY <1>1, <1>8, <1>9

\* The name at a member's offset is the member's.
LEMMA NameInAt ==
    ASSUME ProbeAssumption, NEW o, o = <<>> \/ o \in Objects, NEW m \in 1..Len(o)
    PROVE  NameIn(o, o[m].at) = o[m].name
  <1> DEFINE n == CHOOSE w \in 1..Len(o) : o[w].at = o[m].at
  <1>1. n \in 1..Len(o) /\ o[n].at = o[m].at
    OBVIOUS
  <1>2. Len(o) \in Nat /\ o[n].at \in Nat /\ o[m].at \in Nat
    BY <1>1, MembersAre
  <1> HIDE DEF n
  <1>3. ~(n < m) /\ ~(m < n)
    <2>1. n < m => n \in 1..(m - 1)
      BY <1>1, <1>2
    <2>2. m < n => m \in 1..(n - 1)
      BY <1>1, <1>2
    <2>. QED
      BY <1>1, <1>2, <2>1, <2>2, OffsetsRise
  <1>4. n = m
    BY <1>1, <1>2, <1>3
  <1>. QED
    BY <1>4 DEF n, NameIn

-----------------------------------------------------------------------------
(***************************************************************************)
(* A table: where a probe arrives, and what an insertion leaves.           *)
(***************************************************************************)

\* How far a probe for name may go in the table K.
Stops(K, o, c, name) ==
    {d \in 0..(c - 1) :
        \/ K[Place(c, NameHash[name], d)].off = 0
        \/ K[Place(c, NameHash[name], d)].hash = NameHash[name] /\ NameIn(o, K[Place(c, NameHash[name], d)].off) = name}

\* Where a probe for name arrives.
Arrival(K, o, c, name) == Place(c, NameHash[name], Min(Stops(K, o, c, name)))

\* A table for some of the members of o.
Table(K, o, n, c) ==
    /\ o = <<>> \/ o \in Objects
    /\ n \in 0..Len(o)
    /\ c \in Nat /\ c > 0 /\ c >= 2 * Len(o)
    /\ TableOk(K, o, n, c)

\* A slot that is not empty holds a member: its offset, and its name's hash.
LEMMA SlotHolds ==
    ASSUME ProbeAssumption, NEW K, NEW o, NEW n, NEW c, Table(K, o, n, c), NEW k \in 1..c, K[k].off # 0
    PROVE  \E m \in 1..n : /\ Latest(o, n, m) /\ m \in 1..Len(o)
                           /\ Path(K, o, c, o[m].name, k)
                           /\ K[k].off = o[m].at /\ K[k].hash = NameHash[o[m].name]
                           /\ NameIn(o, K[k].off) = o[m].name
  <1>1. PICK m \in 1..n : /\ Latest(o, n, m) /\ Path(K, o, c, o[m].name, k)
                          /\ K[k] = [hash |-> NameHash[o[m].name], off |-> o[m].at]
    BY DEF Table, TableOk
  <1>2. o = <<>> \/ o \in Objects
    BY DEF Table
  <1>3. Len(o) \in Nat /\ n \in 0..Len(o)
    BY <1>2, MembersAre DEF Table
  <1>4. m \in 1..Len(o)
    BY <1>3
  <1>5. K[k].off = o[m].at /\ K[k].hash = NameHash[o[m].name]
    BY <1>1
  <1>6. NameIn(o, o[m].at) = o[m].name
    BY <1>2, <1>4, NameInAt
  <1>. QED
    BY <1>1, <1>4, <1>5, <1>6

\* A table has an empty slot.
LEMMA HasEmpty ==
    ASSUME ProbeAssumption, NEW K, NEW o, NEW n, NEW c, Table(K, o, n, c)
    PROVE  \E k \in 1..c : K[k].off = 0
  <1> DEFINE taken == {k \in 1..c : K[k].off # 0}
  <1>1. o = <<>> \/ o \in Objects
    BY DEF Table
  <1>2. Len(o) \in Nat /\ n \in 0..Len(o) /\ c \in Nat /\ c > 0 /\ c >= 2 * Len(o)
    BY <1>1, MembersAre DEF Table
  <1>3. Cardinality(taken) <= n
    BY DEF Table, TableOk
  <1>4. n < c
    BY <1>2
  <1> SUFFICES ASSUME \A k \in 1..c : K[k].off # 0 PROVE FALSE
    OBVIOUS
  <1>5. taken = 1..c
    OBVIOUS
  <1>6. Cardinality(1..c) = c
    BY <1>2, FS_Interval
  <1> HIDE DEF taken
  <1>7. Cardinality(taken) = c
    BY <1>5, <1>6
  <1>. QED
    BY <1>2, <1>3, <1>4, <1>7

\* A probe for name arrives at the one slot that holds the name, if there is
\* one, and else at an empty slot; no slot on its way is empty or holds it.
LEMMA ArrivalIs ==
    ASSUME ProbeAssumption, NEW K, NEW o, NEW n, NEW c, Table(K, o, n, c), NEW name \in Names
    PROVE  LET a == Arrival(K, o, c, name)
           IN  /\ a \in 1..c
               /\ Path(K, o, c, name, a)
               /\ K[a].off # 0 => NameIn(o, K[a].off) = name
               /\ \A k \in 1..c : K[k].off # 0 /\ NameIn(o, K[k].off) = name => k = a
  <1> DEFINE S == Stops(K, o, c, name)
             d == Min(S)
             a == Arrival(K, o, c, name)
             h == NameHash[name]
  <1>1. h \in Nat /\ c \in Nat /\ c > 0
    BY DEF Table, ProbeAssumption
  <1>2. S # {}
    <2>1. PICK k \in 1..c : K[k].off = 0
      BY HasEmpty
    <2>2. PICK e \in 0..(c - 1) : k = Place(c, h, e)
      BY <1>1, PlaceOnto
    <2>. QED
      BY <2>1, <2>2 DEF Stops
  <1>3. S \subseteq Nat
    BY <1>1 DEF Stops
  <1>4. d \in S /\ \A e \in S : d <= e
    BY <1>2, <1>3, MinIsLeast
  <1>5. /\ d \in 0..(c - 1)
        /\ \/ K[Place(c, h, d)].off = 0
           \/ K[Place(c, h, d)].hash = h /\ NameIn(o, K[Place(c, h, d)].off) = name
    BY <1>4 DEF Stops
  <1>6. a = Place(c, h, d)
    BY DEF Arrival
  <1>7. \A e \in 0..(c - 1) : Place(c, h, e) \in 1..c
    <2>1. \A e \in 0..(c - 1) : e \in Nat
      BY <1>1
    <2> HIDE DEF h
    <2>. QED
      BY <2>1, <1>1, PlaceIn
  <1>8. ASSUME NEW k \in 1..c, K[k].off # 0, NameIn(o, K[k].off) = name
        PROVE  K[k].hash = h /\ Path(K, o, c, name, k)
    BY <1>8, SlotHolds
  <1> HIDE DEF S, d, h, a
  <1>9. ASSUME NEW e \in 0..(d - 1)
        PROVE  K[Place(c, h, e)].off # 0 /\ NameIn(o, K[Place(c, h, e)].off) # name
    <2>1. e \in 0..(c - 1) /\ ~(d <= e)
      BY <1>1, <1>5
    <2>2. e \notin S
      BY <1>4, <2>1
    <2>3. K[Place(c, h, e)].off # 0
      BY <2>1, <2>2 DEF S, h, Stops
    <2>4. NameIn(o, K[Place(c, h, e)].off) # name
      <3>1. K[Place(c, h, e)].hash = h => NameIn(o, K[Place(c, h, e)].off) # name
        BY <2>1, <2>2 DEF S, h, Stops
      <3>. QED
        BY <3>1, <2>1, <2>3, <1>7, <1>8
    <2>. QED
      BY <2>3, <2>4
  <1>10. Path(K, o, c, name, a)
    BY <1>5, <1>6, <1>9 DEF Path, h
  <1>11. ASSUME NEW k \in 1..c, K[k].off # 0, NameIn(o, K[k].off) = name
         PROVE  k = a
    <2>1. K[k].hash = h /\ Path(K, o, c, name, k)
      BY <1>8, <1>11
    <2>2. PICK e \in 0..(c - 1) : /\ k = Place(c, h, e)
                                  /\ \A x \in 0..(e - 1) : /\ K[Place(c, h, x)].off # 0
                                                           /\ NameIn(o, K[Place(c, h, x)].off) # name
      BY <2>1 DEF Path, h
    <2>3. e \in S
      BY <1>11, <2>1, <2>2 DEF S, h, Stops
    <2>4. d <= e
      BY <1>4, <2>3
    <2>5. ~(d < e)
      <3>1. d < e => d \in 0..(e - 1)
        BY <1>5
      <3>. QED
        BY <3>1, <2>2, <1>5
    <2>6. d = e
      BY <2>4, <2>5, <1>5
    <2>. QED
      BY <2>2, <2>6, <1>6
  <1>12. a \in 1..c
    BY <1>5, <1>6, <1>7
  <1>13. K[a].off # 0 => NameIn(o, K[a].off) = name
    BY <1>5, <1>6
  <1>. QED
    BY <1>10, <1>11, <1>12, <1>13 DEF a

\* A way past slots that keep being taken by other names stays one.
LEMMA PathStays ==
    ASSUME ProbeAssumption, NEW K, NEW U, NEW o, NEW c \in Nat, c > 0, NEW name \in Names, NEW k,
           Path(K, o, c, name, k),
           \A j \in 1..c : K[j].off # 0 /\ NameIn(o, K[j].off) # name =>
                              U[j].off # 0 /\ NameIn(o, U[j].off) # name
    PROVE  Path(U, o, c, name, k)
  <1>1. PICK d \in 0..(c - 1) :
          /\ k = Place(c, NameHash[name], d)
          /\ \A e \in 0..(d - 1) : /\ K[Place(c, NameHash[name], e)].off # 0
                                   /\ NameIn(o, K[Place(c, NameHash[name], e)].off) # name
    BY DEF Path
  <1>2. NameHash[name] \in Nat
    BY DEF ProbeAssumption
  <1>3. \A e \in 0..(d - 1) : /\ U[Place(c, NameHash[name], e)].off # 0
                              /\ NameIn(o, U[Place(c, NameHash[name], e)].off) # name
    <2> SUFFICES ASSUME NEW e \in 0..(d - 1)
                 PROVE  /\ U[Place(c, NameHash[name], e)].off # 0
                        /\ NameIn(o, U[Place(c, NameHash[name], e)].off) # name
      OBVIOUS
    <2>1. e \in Nat
      BY <1>1
    <2>2. Place(c, NameHash[name], e) \in 1..c
      BY <2>1, <1>2, PlaceIn
    <2>. QED
      BY <1>1, <2>2
  <1>. QED
    BY <1>1, <1>3 DEF Path

\* A table whose slots are all empty is that of no members.
LEMMA ClearOk ==
    ASSUME NEW U, NEW o, NEW c \in Nat, \A k \in 1..c : U[k] = EmptySlot
    PROVE  TableOk(U, o, 0, c)
  <1>1. \A k \in 1..c : U[k] \in ProbeSlots /\ U[k].off = 0
    BY DEF EmptySlot, ProbeSlots
  <1>2. {k \in 1..c : U[k].off # 0} = {}
    BY <1>1
  <1>3. 1..0 = {} /\ Cardinality({}) = 0
    BY FS_EmptySet
  <1>. QED
    BY <1>1, <1>2, <1>3 DEF TableOk

\* A member whose name has an escape leaves the table as it is.
LEMMA SkipOk ==
    ASSUME ProbeAssumption, NEW K, NEW U, NEW o, NEW n, NEW c, Table(K, o, n, c), n < Len(o),
           o[n + 1].name \in EscapedNames, \A k \in 1..c : U[k] = K[k]
    PROVE  TableOk(U, o, n + 1, c)
  <1>1. (o = <<>> \/ o \in Objects) /\ c \in Nat /\ c > 0
    BY DEF Table
  <1>2. Len(o) \in Nat /\ n \in 0..Len(o) /\ n + 1 \in 1..Len(o)
    BY <1>1, MembersAre DEF Table
  <1>3. ASSUME NEW k \in 1..c, U[k].off # 0
        PROVE  \E m \in 1..(n + 1) : /\ Latest(o, n + 1, m) /\ Path(U, o, c, o[m].name, k)
                                     /\ U[k] = [hash |-> NameHash[o[m].name], off |-> o[m].at]
    <2>1. PICK m \in 1..n : /\ Latest(o, n, m) /\ Path(K, o, c, o[m].name, k)
                            /\ K[k] = [hash |-> NameHash[o[m].name], off |-> o[m].at]
      BY <1>3 DEF Table, TableOk
    <2>2. m \in 1..(n + 1) /\ m \in 1..Len(o)
      BY <1>2
    <2>3. Latest(o, n + 1, m)
      <3>1. \A w \in 1..(n + 1) : w \in 1..n \/ w = n + 1
        BY <1>2
      <3>. QED
        BY <2>1, <2>2, <3>1 DEF Latest
    <2>4. o[m].name \in Names
      BY <1>1, <2>2, MembersAre
    <2>5. Path(U, o, c, o[m].name, k)
      BY <1>1, <2>1, <2>4, PathStays
    <2>. QED
      BY <2>1, <2>2, <2>3, <2>5
  <1>4. ASSUME NEW m \in 1..(n + 1), o[m].name \notin EscapedNames
        PROVE  \E k \in 1..c : U[k].off # 0 /\ NameIn(o, U[k].off) = o[m].name
    <2>1. m # n + 1
      BY <1>4
    <2>2. m \in 1..n
      BY <1>2, <2>1
    <2>. QED
      BY <1>4, <2>2 DEF Table, TableOk
  <1>5. Cardinality({k \in 1..c : U[k].off # 0}) <= n + 1
    <2> DEFINE A == {k \in 1..c : K[k].off # 0}
    <2>1. {k \in 1..c : U[k].off # 0} = A
      OBVIOUS
    <2>2. Cardinality(A) <= n
      BY DEF Table, TableOk
    <2>3. Cardinality(A) \in Nat
      <3>1. IsFiniteSet(1..c)
        BY <1>1, FS_Interval
      <3>. QED
        BY <3>1, FS_Subset, FS_CardinalityType
    <2> HIDE DEF A
    <2>4. Cardinality(A) <= n + 1
      BY <1>2, <2>2, <2>3
    <2>. QED
      BY <2>1, <2>4
  <1>6. \A k \in 1..c : U[k] \in ProbeSlots
    BY DEF Table, TableOk
  <1>. QED
    BY <1>3, <1>4, <1>5, <1>6 DEF TableOk

\* A member whose name has none goes where a probe for it arrives.
LEMMA InsertOk ==
    ASSUME ProbeAssumption, NEW K, NEW U, NEW o, NEW n, NEW c, Table(K, o, n, c), n < Len(o),
           o[n + 1].name \notin EscapedNames,
           NEW a, a = Arrival(K, o, c, o[n + 1].name),
           U[a] = [hash |-> NameHash[o[n + 1].name], off |-> o[n + 1].at],
           \A k \in 1..c : k # a => U[k] = K[k]
    PROVE  TableOk(U, o, n + 1, c)
  <1> DEFINE name == o[n + 1].name
  <1>1. (o = <<>> \/ o \in Objects) /\ c \in Nat /\ c > 0
    BY DEF Table
  <1>2. Len(o) \in Nat /\ n \in 0..Len(o) /\ n + 1 \in 1..Len(o) /\ n \in Nat
    BY <1>1, MembersAre DEF Table
  <1>3. name \in Names /\ o[n + 1].at \in Nat /\ o[n + 1].at > 0 /\ NameIn(o, o[n + 1].at) = name
    BY <1>1, <1>2, MembersAre, OffsetsRise, NameInAt
  <1>4. /\ a \in 1..c /\ Path(K, o, c, name, a)
        /\ K[a].off # 0 => NameIn(o, K[a].off) = name
        /\ \A k \in 1..c : K[k].off # 0 /\ NameIn(o, K[k].off) = name => k = a
    BY <1>3, ArrivalIs
  <1>5. U[a].off = o[n + 1].at /\ U[a].off # 0 /\ NameIn(o, U[a].off) = name
    BY <1>3
  <1>6. U[a] \in ProbeSlots
    BY <1>3 DEF ProbeSlots, ProbeAssumption
  <1> HIDE DEF name
  <1>7. \A w \in 1..(n + 1) : w \in 1..n \/ w = n + 1
    BY <1>2
  <1>8. ASSUME NEW k \in 1..c, U[k].off # 0
        PROVE  \E m \in 1..(n + 1) : /\ Latest(o, n + 1, m) /\ Path(U, o, c, o[m].name, k)
                                     /\ U[k] = [hash |-> NameHash[o[m].name], off |-> o[m].at]
    <2>1. CASE k = a
      <3>1. Latest(o, n + 1, n + 1) /\ n + 1 \in 1..(n + 1)
        BY <1>2 DEF Latest
      <3>2. \A j \in 1..c : K[j].off # 0 /\ NameIn(o, K[j].off) # name =>
                               U[j].off # 0 /\ NameIn(o, U[j].off) # name
        BY <1>4
      <3>3. Path(U, o, c, name, a)
        BY <1>1, <1>3, <1>4, <3>2, PathStays
      <3>. QED
        BY <2>1, <3>1, <3>3 DEF name
    <2>2. CASE k # a
      <3>1. K[k].off # 0 /\ U[k] = K[k]
        BY <1>8, <2>2
      <3>2. PICK m \in 1..n : /\ Latest(o, n, m) /\ Path(K, o, c, o[m].name, k)
                              /\ K[k] = [hash |-> NameHash[o[m].name], off |-> o[m].at]
        BY <3>1 DEF Table, TableOk
      <3>3. m \in 1..(n + 1) /\ m \in 1..Len(o)
        BY <1>2
      <3>4. o[m].name # name
        <4>1. NameIn(o, o[m].at) = o[m].name
          BY <1>1, <3>3, NameInAt
        <4>. QED
          BY <4>1, <3>1, <3>2, <1>4, <2>2
      <3>5. Latest(o, n + 1, m)
        BY <1>7, <3>2, <3>3, <3>4 DEF Latest, name
      <3>6. o[m].name \in Names
        BY <1>1, <3>3, MembersAre
      <3>7. \A j \in 1..c : K[j].off # 0 /\ NameIn(o, K[j].off) # o[m].name =>
                               U[j].off # 0 /\ NameIn(o, U[j].off) # o[m].name
        BY <1>5, <3>4
      <3>8. Path(U, o, c, o[m].name, k)
        BY <1>1, <3>2, <3>6, <3>7, PathStays
      <3>. QED
        BY <3>1, <3>2, <3>3, <3>5, <3>8
    <2>. QED
      BY <2>1, <2>2
  <1>9. ASSUME NEW m \in 1..(n + 1), o[m].name \notin EscapedNames
        PROVE  \E k \in 1..c : U[k].off # 0 /\ NameIn(o, U[k].off) = o[m].name
    <2>1. CASE m = n + 1
      BY <2>1, <1>4, <1>5 DEF name
    <2>2. CASE m \in 1..n
      <3>1. PICK k \in 1..c : K[k].off # 0 /\ NameIn(o, K[k].off) = o[m].name
        BY <1>9, <2>2 DEF Table, TableOk
      <3>2. CASE k = a
        BY <3>1, <3>2, <1>4, <1>5
      <3>3. CASE k # a
        BY <3>1, <3>3
      <3>. QED
        BY <3>2, <3>3
    <2>. QED
      BY <1>7, <2>1, <2>2
  <1>10. Cardinality({k \in 1..c : U[k].off # 0}) <= n + 1
    <2> DEFINE A == {k \in 1..c : K[k].off # 0}
               B == {k \in 1..c : U[k].off # 0}
    <2>1. Cardinality(A) <= n
      BY DEF Table, TableOk
    <2>2. IsFiniteSet(A)
      <3>1. IsFiniteSet(1..c)
        BY <1>1, FS_Interval
      <3>. QED
        BY <3>1, FS_Subset
    <2>3. B \subseteq A \cup {a}
      OBVIOUS
    <2> HIDE DEF A, B
    <2>4. Cardinality(A) \in Nat
      BY <2>2, FS_CardinalityType
    <2>5. IsFiniteSet(A \cup {a}) /\ Cardinality(A \cup {a}) <= Cardinality(A) + 1
      <3>1. /\ IsFiniteSet(A \cup {a})
            /\ Cardinality(A \cup {a}) = Cardinality(A) \/ Cardinality(A \cup {a}) = Cardinality(A) + 1
        BY <2>2, FS_AddElement
      <3>. QED
        BY <3>1, <2>4
    <2>6. Cardinality(A \cup {a}) \in Nat /\ Cardinality(B) \in Nat /\ Cardinality(B) <= Cardinality(A \cup {a})
      BY <2>3, <2>5, FS_Subset, FS_CardinalityType
    <2>7. Cardinality(B) <= n + 1
      BY <2>1, <2>4, <2>5, <2>6, <1>2
    <2>. QED
      BY <2>7 DEF B
  <1>11. \A k \in 1..c : U[k] \in ProbeSlots
    BY <1>6 DEF Table, TableOk
  <1>. QED
    BY <1>8, <1>9, <1>10, <1>11 DEF TableOk

-----------------------------------------------------------------------------
(***************************************************************************)
(* The list of escaped names.                                              *)
(***************************************************************************)

\* A stretch of a sequence.
LEMMA StretchIs ==
    ASSUME NEW R, NEW s \in Seq(R), NEW a \in Nat, NEW n \in Nat, a + n <= Len(s)
    PROVE  /\ SubSeq(s, a + 1, a + n) \in Seq(R) /\ Len(SubSeq(s, a + 1, a + n)) = n
           /\ \A k \in 1..n : SubSeq(s, a + 1, a + n)[k] = s[a + k]
  <1> DEFINE w == a + 1
             j == a + n
             t == SubSeq(s, w, j)
  <1>1. Len(s) \in Nat /\ w \in Nat /\ j \in Nat /\ w <= j + 1 /\ j - w + 1 = n
    OBVIOUS
  <1>2. \A k \in w..j : k \in 1..Len(s)
    OBVIOUS
  <1>3. w \in 1..(Len(s) + 1) /\ j \in (w - 1)..Len(s)
    OBVIOUS
  <1> HIDE DEF w, j
  <1>4. t \in Seq(R) /\ Len(t) = (IF w <= j THEN j - w + 1 ELSE 0) /\ \A k \in 1..(j - w + 1) : t[k] = s[w + k - 1]
    BY <1>1, <1>2, <1>3, SubSeqProperties, SMTT(20)
  <1>5. Len(t) = n
    BY <1>1, <1>4
  <1>6. \A k \in 1..n : t[k] = s[w + k - 1]
    BY <1>1, <1>4
  <1> HIDE DEF t
  <1>7. \A k \in 1..n : t[k] = s[a + k]
    <2>1. \A k \in 1..n : w + k - 1 = a + k
      BY DEF w
    <2>. QED
      BY <1>6, <2>1
  <1>. QED
    BY <1>4, <1>5, <1>7 DEF t, w, j

\* The list lies in the slots behind the table, or where it moved to.
ListIn(g, s, c, n) == IF g # <<>> THEN SubSeq(g, 1, n) ELSE SubSeq(s, c + 1, c + n)
ListFits(g, s, c, n) ==
    /\ g \in Seq(ProbeSlots) /\ s \in Seq(ProbeSlots) /\ c \in Nat /\ n \in Nat
    /\ IF g = <<>> THEN c + n <= Len(s) ELSE n <= Len(g)

LEMMA ListIs ==
    ASSUME NEW g, NEW s, NEW c, NEW n, ListFits(g, s, c, n)
    PROVE  /\ ListIn(g, s, c, n) \in Seq(ProbeSlots) /\ Len(ListIn(g, s, c, n)) = n
           /\ \A k \in 1..n : ListIn(g, s, c, n)[k] = IF g # <<>> THEN g[k] ELSE s[c + k]
  <1>0. /\ g \in Seq(ProbeSlots) /\ s \in Seq(ProbeSlots) /\ c \in Nat /\ n \in Nat
        /\ IF g = <<>> THEN c + n <= Len(s) ELSE n <= Len(g)
    BY DEF ListFits
  <1>1. CASE g = <<>>
    <2>1. c + n <= Len(s)
      BY <1>0, <1>1
    <2>2. /\ SubSeq(s, c + 1, c + n) \in Seq(ProbeSlots) /\ Len(SubSeq(s, c + 1, c + n)) = n
          /\ \A k \in 1..n : SubSeq(s, c + 1, c + n)[k] = s[c + k]
      BY <1>0, <2>1, StretchIs
    <2>. QED
      BY <1>1, <2>2 DEF ListIn
  <1>2. CASE g # <<>>
    <2>1. 0 \in Nat /\ 0 + n <= Len(g) /\ 0 + 1 = 1 /\ 0 + n = n /\ \A k \in 1..n : 0 + k = k
      BY <1>0, <1>2
    <2>2. SubSeq(g, 1, n) \in Seq(ProbeSlots) /\ Len(SubSeq(g, 1, n)) = n
      BY <1>0, <2>1, StretchIs
    <2>3. \A k \in 1..n : SubSeq(g, 1, n)[k] = g[k]
      <3>1. \A k \in 1..n : SubSeq(g, 0 + 1, 0 + n)[k] = g[0 + k]
        BY <1>0, <2>1, StretchIs
      <3>. QED
        BY <3>1, <2>1
    <2>. QED
      BY <1>2, <2>2, <2>3 DEF ListIn
  <1>. QED
    BY <1>1, <1>2

\* One slot of a sequence of slots is put.
LEMMA PutIs ==
    ASSUME NEW s \in Seq(ProbeSlots), NEW k \in 1..Len(s), NEW slot \in ProbeSlots
    PROVE  LET t == [s EXCEPT ![k] = slot]
           IN  /\ t \in Seq(ProbeSlots) /\ Len(t) = Len(s) /\ t[k] = slot
               /\ \A j \in 1..Len(s) : j # k => t[j] = s[j]
  <1> DEFINE t == [s EXCEPT ![k] = slot]
  <1>1. t \in Seq(ProbeSlots) /\ Len(t) = Len(s)
    BY ExceptSeq
  <1>2. t[k] = slot /\ \A j \in 1..Len(s) : j # k => t[j] = s[j]
    OBVIOUS
  <1>. QED
    BY <1>1, <1>2

LEMMA ZeroedIs ==
    ASSUME NEW n \in Nat
    PROVE  /\ Zeroed(n) \in Seq(ProbeSlots) /\ Len(Zeroed(n)) = n
           /\ \A k \in 1..n : Zeroed(n)[k] = EmptySlot
  BY DEF Zeroed, EmptySlot, ProbeSlots

\* The escaped members up to a number, and up to the next one.
LEMMA EscapedStep ==
    ASSUME NEW o, NEW n \in Nat
    PROVE  /\ EscapedUpTo(o, 0) = {} /\ Cardinality({}) = 0
           /\ IsFiniteSet(EscapedUpTo(o, n)) /\ Cardinality(EscapedUpTo(o, n)) \in Nat
           /\ o[n + 1].name \notin EscapedNames => EscapedUpTo(o, n + 1) = EscapedUpTo(o, n)
           /\ o[n + 1].name \in EscapedNames =>
                 /\ EscapedUpTo(o, n + 1) = EscapedUpTo(o, n) \cup {n + 1}
                 /\ Cardinality(EscapedUpTo(o, n + 1)) = Cardinality(EscapedUpTo(o, n)) + 1
  <1> DEFINE E == EscapedUpTo(o, n)
  <1>1. EscapedUpTo(o, 0) = {} /\ Cardinality({}) = 0
    <2>1. 1..0 = {}
      OBVIOUS
    <2>. QED
      BY <2>1, FS_EmptySet DEF EscapedUpTo
  <1>2. IsFiniteSet(E) /\ Cardinality(E) \in Nat
    <2>1. IsFiniteSet(1..n) /\ E \subseteq 1..n
      BY FS_Interval DEF EscapedUpTo
    <2>. QED
      BY <2>1, FS_Subset, FS_CardinalityType
  <1>3. \A w : w \in 1..(n + 1) <=> (w \in 1..n \/ w = n + 1)
    OBVIOUS
  <1>4. o[n + 1].name \notin EscapedNames => EscapedUpTo(o, n + 1) = E
    BY <1>3 DEF EscapedUpTo
  <1>5. o[n + 1].name \in EscapedNames => EscapedUpTo(o, n + 1) = E \cup {n + 1}
    BY <1>3 DEF EscapedUpTo
  <1>6. n + 1 \notin E
    BY DEF EscapedUpTo
  <1> HIDE DEF E
  <1>7. Cardinality(E \cup {n + 1}) = Cardinality(E) + 1
    BY <1>2, <1>6, FS_AddElement
  <1>. QED
    BY <1>1, <1>2, <1>4, <1>5, <1>7 DEF E

-----------------------------------------------------------------------------
(***************************************************************************)
(* States and steps.                                                       *)
(***************************************************************************)

LEMMA StateIs ==
    ASSUME ProbeAssumption, ProbeTypeOK
    PROVE  /\ obj = <<>> \/ obj \in Objects
           /\ Len(obj) \in Nat /\ member \in 0..Len(obj) /\ member \in Nat /\ StorageCap \in Nat
           /\ capacity \in Nat
           /\ obj = <<>> => capacity = 0 /\ Len(obj) = 0
           /\ obj # <<>> => capacity > 0 /\ capacity >= 2 * Len(obj) /\ Len(obj) > 0
           /\ Slots \in Seq(ProbeSlots) /\ Len(Slots) \in Nat
           /\ Len(storage) = StorageCap /\ Len(fresh) \in Nat /\ Len(grown) \in Nat
  <1>1. obj = <<>> \/ obj \in Objects
    BY DEF ProbeTypeOK
  <1>2. Len(obj) \in Nat /\ obj \in Seq([name : Names, next : Nat \ {0}, at : Nat])
    BY <1>1, MembersAre
  <1>3. obj = <<>> => capacity = 0 /\ Len(obj) = 0
    BY DEF capacity
  <1>4. obj # <<>> => Len(obj) > 0
    BY <1>2, EmptySeq
  <1>5. obj # <<>> => capacity \in Nat /\ capacity >= 2 * Len(obj)
    BY <1>2, CapacityIs DEF capacity
  <1>6. Slots \in Seq(ProbeSlots) /\ Len(Slots) \in Nat
    BY DEF ProbeTypeOK, Slots
  <1> DEFINE c == capacity
  <1>7. c \in Nat /\ (obj # <<>> => c > 0)
    <2> HIDE DEF c
    <2>1. obj = <<>> => c = 0
      BY <1>3 DEF c
    <2>2. obj # <<>> => c \in Nat /\ c >= 2 * Len(obj)
      BY <1>5 DEF c
    <2>. QED
      BY <2>1, <2>2, <1>2, <1>4
  <1> HIDE DEF c
  <1>. QED
    BY <1>1, <1>2, <1>3, <1>4, <1>5, <1>6, <1>7 DEF c, ProbeTypeOK, ProbeAssumption

\* In a build, the slots are a table for the members added so far.
LEMMA TableNow ==
    ASSUME ProbeAssumption, ProbeInv, obj # <<>>
    PROVE  Table(Slots, obj, member, capacity)
  BY StateIs DEF ProbeInv, Table

\* The next member.
LEMMA NextMember ==
    ASSUME ProbeAssumption, ProbeInv, member < Len(obj)
    PROVE  /\ obj # <<>> /\ obj \in Objects
           /\ member + 1 \in 1..Len(obj) /\ off = obj[member + 1].at /\ off \in Nat
           /\ obj[member + 1].name \in Names
           /\ member + 1 < Len(obj) => off + 1 + obj[member + 1].next = obj[member + 2].at
           /\ off + 1 + obj[member + 1].next \in Nat
  <1>1. /\ obj = <<>> \/ obj \in Objects
        /\ Len(obj) \in Nat /\ member \in Nat /\ (obj = <<>> => Len(obj) = 0)
    BY StateIs DEF ProbeInv
  <1>2. obj # <<>> /\ obj \in Objects
    BY <1>1
  <1>3. member + 1 \in 1..Len(obj)
    BY <1>1
  <1>4. off = obj[member + 1].at /\ off \in Nat
    BY DEF ProbeInv, ProbeTypeOK
  <1>5. obj[member + 1].name \in Names /\ obj[member + 1].next \in Nat
    BY <1>1, <1>3, MembersAre
  <1>6. ASSUME member + 1 < Len(obj)
        PROVE  off + 1 + obj[member + 1].next = obj[member + 2].at
    <2> DEFINE m == member + 2
    <2>1. m \in 1..Len(obj) /\ m # 1 /\ m - 1 = member + 1
      BY <1>1, <1>6
    <2> HIDE DEF m
    <2>2. obj[m].at = obj[m - 1].at + 1 + obj[m - 1].next
      BY <1>1, <2>1, MembersAre
    <2>3. obj[m].at = off + 1 + obj[member + 1].next
      BY <2>1, <2>2, <1>4
    <2>. QED
      BY <2>3 DEF m
  <1>7. off + 1 + obj[member + 1].next \in Nat
    BY <1>4, <1>5
  <1>. QED
    BY <1>2, <1>3, <1>4, <1>5, <1>6, <1>7

\* What a member's step does to the fields of the loop.
LEMMA AdvanceIs ==
    ASSUME ProbeAssumption, ProbeInv, member < Len(obj), Advance
    PROVE  /\ obj' = obj /\ member' = member + 1 /\ capacity' = capacity
           /\ obj' = <<>> \/ obj' \in Objects
           /\ member' \in 0..Len(obj') /\ off' \in Nat
           /\ member' < Len(obj') => off' = obj'[member' + 1].at
  <1>1. Len(obj) \in Nat /\ member \in Nat
    BY StateIs DEF ProbeInv
  <1>2. obj' = obj /\ member' = member + 1 /\ off' = off + 1 + obj[member + 1].next
    BY DEF Advance
  <1>3. capacity' = capacity
    BY <1>2 DEF capacity
  <1>4. member' + 1 = member + 2 /\ member' \in 0..Len(obj')
    BY <1>1, <1>2
  <1>. QED
    BY <1>2, <1>3, <1>4, NextMember

\* Putting a slot changes that slot of the slots in use.
LEMMA PutSlotIs ==
    ASSUME ProbeTypeOK, NEW k \in 1..Len(Slots), NEW slot \in ProbeSlots, PutSlot(k, slot)
    PROVE  /\ storage' \in Seq(ProbeSlots) /\ Len(storage') = Len(storage)
           /\ fresh' \in Seq(ProbeSlots) /\ (fresh' = <<>> <=> fresh = <<>>)
           /\ Slots' \in Seq(ProbeSlots) /\ Len(Slots') = Len(Slots) /\ Slots'[k] = slot
           /\ \A j \in 1..Len(Slots) : j # k => Slots'[j] = Slots[j]
  <1>1. CASE fresh # <<>>
    <2>1. Slots = fresh /\ fresh' = [fresh EXCEPT ![k] = slot] /\ storage' = storage
      BY <1>1 DEF Slots, PutSlot
    <2>2. fresh \in Seq(ProbeSlots) /\ k \in 1..Len(fresh)
      BY <2>1 DEF ProbeTypeOK
    <2>3. /\ fresh' \in Seq(ProbeSlots) /\ Len(fresh') = Len(fresh) /\ fresh'[k] = slot
          /\ \A j \in 1..Len(fresh) : j # k => fresh'[j] = fresh[j]
      BY <2>1, <2>2, PutIs
    <2>4. fresh' # <<>>
      BY <2>2, <2>3
    <2>5. Slots' = fresh'
      BY <2>4 DEF Slots
    <2>. QED
      BY <1>1, <2>1, <2>3, <2>4, <2>5 DEF ProbeTypeOK
  <1>2. CASE fresh = <<>>
    <2>1. Slots = storage /\ storage' = [storage EXCEPT ![k] = slot] /\ fresh' = fresh
      BY <1>2 DEF Slots, PutSlot
    <2>2. storage \in Seq(ProbeSlots) /\ k \in 1..Len(storage)
      BY <2>1 DEF ProbeTypeOK
    <2>3. /\ storage' \in Seq(ProbeSlots) /\ Len(storage') = Len(storage) /\ storage'[k] = slot
          /\ \A j \in 1..Len(storage) : j # k => storage'[j] = storage[j]
      BY <2>1, <2>2, PutIs
    <2>4. Slots' = storage'
      BY <1>2, <2>1 DEF Slots
    <2>. QED
      BY <1>2, <2>1, <2>3, <2>4 DEF ProbeTypeOK
  <1>. QED
    BY <1>1, <1>2

\* The escaped list as it is now, and after a step.
LEMMA ListNow ==
    ASSUME ProbeAssumption, ProbeTypeOK, Layout
    PROVE  /\ escaped \in Seq(ProbeSlots) /\ Len(escaped) = nescaped
           /\ \A k \in 1..nescaped : escaped[k] = IF grown # <<>> THEN grown[k] ELSE Slots[capacity + k]
  <1>1. escaped = ListIn(grown, Slots, capacity, nescaped)
    BY DEF escaped, ListIn
  <1>2. /\ grown \in Seq(ProbeSlots) /\ Slots \in Seq(ProbeSlots) /\ capacity \in Nat /\ nescaped \in Nat
        /\ IF grown = <<>> THEN capacity + nescaped <= Len(Slots) ELSE nescaped <= Len(grown)
    BY StateIs DEF ProbeTypeOK, Layout
  <1>3. ListFits(grown, Slots, capacity, nescaped)
    BY <1>2 DEF ListFits
  <1>4. /\ Len(ListIn(grown, Slots, capacity, nescaped)) = nescaped
        /\ ListIn(grown, Slots, capacity, nescaped) \in Seq(ProbeSlots)
        /\ \A k \in 1..nescaped : ListIn(grown, Slots, capacity, nescaped)[k]
                                    = IF grown # <<>> THEN grown[k] ELSE Slots[capacity + k]
    BY ONLY <1>3, ListIs
  <1>. QED
    BY <1>1, <1>4

-----------------------------------------------------------------------------
(***************************************************************************)
(* The invariant holds, and is kept.                                       *)
(***************************************************************************)

LEMMA InitOk ==
    ASSUME ProbeAssumption, ProbeInit
    PROVE  ProbeInv
  <1>1. /\ obj = <<>> /\ member = 0 /\ off = 1 /\ storage = Zeroed(StorageCap)
        /\ fresh = <<>> /\ grown = <<>> /\ nescaped = 0
    BY DEF ProbeInit
  <1>2. StorageCap \in Nat
    BY DEF ProbeAssumption
  <1>3. Slots = storage /\ capacity = 0 /\ Len(obj) = 0
    BY <1>1 DEF Slots, capacity
  <1>4. storage \in Seq(ProbeSlots) /\ Len(storage) = StorageCap
    BY <1>1, <1>2, ZeroedIs
  <1>5. ProbeTypeOK
    BY <1>1, <1>3, <1>4 DEF ProbeTypeOK
  <1>6. EscapedUpTo(obj, member) = {} /\ Cardinality({}) = 0
    BY <1>1, EscapedStep
  <1>7. Layout
    BY <1>1, <1>2, <1>3, <1>4, <1>6 DEF Layout
  <1>8. EscapedOk
    BY <1>1, <1>6 DEF EscapedOk
  <1>9. TableOk(Slots, obj, member, capacity)
    <2>1. \A k \in 1..0 : Slots[k] = EmptySlot
      OBVIOUS
    <2>2. TableOk(Slots, obj, 0, 0)
      BY <2>1, ClearOk
    <2>. QED
      BY <2>2, <1>1, <1>3
  <1>. QED
    BY <1>5, <1>7, <1>8, <1>9 DEF ProbeInv

LEMMA BuildOk ==
    ASSUME ProbeAssumption, ProbeInv, NEW o \in Objects, BuildObjectProbe(o)
    PROVE  ProbeInv'
  <1> DEFINE c == ProbeCapacity(Len(o))
  <1>1. obj' = o /\ member' = 0 /\ off' = 1 /\ nescaped' = 0 /\ grown' = <<>>
    BY DEF BuildObjectProbe
  <1>2. o \in Seq([name : Names, next : Nat \ {0}, at : Nat]) /\ Len(o) \in Nat
    BY MembersAre
  <1>3. c \in Nat /\ c >= 2 * Len(o) /\ (o # <<>> => Len(o) > 0)
    BY <1>2, CapacityIs, EmptySeq
  <1>4. StorageCap \in Nat /\ storage \in Seq(ProbeSlots) /\ Len(storage) = StorageCap
    BY DEF ProbeInv, ProbeTypeOK, ProbeAssumption
  <1>5. capacity' = IF o = <<>> THEN 0 ELSE c
    BY <1>1 DEF capacity
  <1> HIDE DEF c
  <1>6. /\ capacity' \in Nat
        /\ storage' \in Seq(ProbeSlots) /\ Len(storage') = StorageCap
        /\ fresh' \in Seq(ProbeSlots) /\ (fresh' # <<>> => StorageCap < capacity')
        /\ capacity' <= Len(Slots')
        /\ \A k \in 1..capacity' : Slots'[k] = EmptySlot
    <2>1. CASE o = <<>>
      <3>1. fresh' = <<>> /\ storage' = storage /\ capacity' = 0
        BY <2>1, <1>5 DEF BuildObjectProbe
      <3>2. Slots' = storage'
        BY <3>1 DEF Slots
      <3>. QED
        BY <3>1, <3>2, <1>4
    <2>2. CASE o # <<>> /\ StorageCap < c
      <3>1. fresh' = Zeroed(c + Len(o)) /\ storage' = storage /\ capacity' = c
        BY <2>2, <1>5 DEF BuildObjectProbe, c
      <3>2. c + Len(o) \in Nat /\ c + Len(o) > 0 /\ c <= c + Len(o) /\ \A k \in 1..c : k \in 1..(c + Len(o))
        BY <2>2, <1>2, <1>3
      <3>3. /\ fresh' \in Seq(ProbeSlots) /\ Len(fresh') = c + Len(o)
            /\ \A k \in 1..(c + Len(o)) : fresh'[k] = EmptySlot
        BY <3>1, <3>2, ZeroedIs
      <3>4. fresh' # <<>>
        BY <3>2, <3>3
      <3>5. Slots' = fresh'
        BY <3>4 DEF Slots
      <3>. QED
        BY <2>2, <3>1, <3>2, <3>3, <3>5, <1>3, <1>4
    <2>3. CASE o # <<>> /\ ~(StorageCap < c)
      <3>1. /\ fresh' = <<>> /\ capacity' = c
            /\ storage' = [k \in 1..StorageCap |-> IF k <= c THEN EmptySlot ELSE storage[k]]
        BY <2>3, <1>5 DEF BuildObjectProbe, c
      <3>2. \A k \in 1..StorageCap : (IF k <= c THEN EmptySlot ELSE storage[k]) \in ProbeSlots
        <4>1. EmptySlot \in ProbeSlots
          BY DEF EmptySlot, ProbeSlots
        <4>. QED
          BY <4>1, <1>4
      <3>3. storage' \in Seq(ProbeSlots) /\ Len(storage') = StorageCap
        BY <3>1, <3>2, <1>4
      <3>4. \A k \in 1..c : k \in 1..StorageCap /\ k <= c
        BY <2>3, <1>3, <1>4
      <3>5. \A k \in 1..c : storage'[k] = EmptySlot
        BY <3>1, <3>4
      <3>6. Slots' = storage'
        BY <3>1 DEF Slots
      <3>. QED
        BY <2>3, <3>1, <3>3, <3>5, <3>6, <1>3, <1>4, EmptySeq
    <2>. QED
      BY <2>1, <2>2, <2>3
  <1>7. ProbeTypeOK'
    <2>1. member' < Len(obj') => off' = obj'[member' + 1].at
      <3>1. 0 < Len(o) => o[1].at = 1
        BY <1>2, MembersAre
      <3>. QED
        BY <3>1, <1>1
    <2>2. grown' \in Seq(ProbeSlots)
      BY <1>1, EmptySeq
    <2>. QED
      BY <2>1, <2>2, <1>1, <1>2, <1>6 DEF ProbeTypeOK
  <1>8. EscapedUpTo(obj', member') = {} /\ Cardinality({}) = 0
    BY <1>1, EscapedStep
  <1>9. Layout'
    <2>1. capacity' + nescaped' <= Len(Slots')
      BY <1>1, <1>6
    <2>. QED
      BY <2>1, <1>1, <1>6, <1>8 DEF Layout
  <1>10. EscapedOk'
    <2>1. 1..nescaped' = {}
      BY <1>1
    <2>. QED
      BY <2>1, <1>8 DEF EscapedOk
  <1>11. TableOk(Slots', obj', member', capacity')
    BY <1>1, <1>6, ClearOk
  <1>. QED
    BY <1>7, <1>9, <1>10, <1>11 DEF ProbeInv

LEMMA AddPlainOk ==
    ASSUME ProbeAssumption, ProbeInv, AddPlain
    PROVE  ProbeInv'
  <1> DEFINE name == obj[member + 1].name
             a == Arrival(Slots, obj, capacity, name)
             slot == [hash |-> NameHash[name], off |-> off]
  <1>1. member < Len(obj) /\ name \notin EscapedNames /\ Advance /\ grown' = grown /\ nescaped' = nescaped
    BY DEF AddPlain
  <1>2. /\ obj # <<>> /\ name \in Names /\ off = obj[member + 1].at /\ off \in Nat
    BY <1>1, NextMember
  <1>3. Table(Slots, obj, member, capacity)
    BY <1>2, TableNow
  <1>4. a \in 1..capacity
    BY <1>2, <1>3, ArrivalIs
  <1>5. PutSlot(a, slot)
    BY DEF AddPlain, Reach, Arrival, Place, Stops, ProbeAt, NameAt, NameIn
  <1>6. slot \in ProbeSlots
    BY <1>2 DEF ProbeSlots, ProbeAssumption
  <1>7. ProbeTypeOK /\ Layout /\ EscapedOk /\ capacity \in Nat /\ Len(Slots) \in Nat /\ member \in Nat
    BY StateIs DEF ProbeInv
  <1>8. a \in 1..Len(Slots)
    BY <1>4, <1>7 DEF Layout
  <1>9. /\ storage' \in Seq(ProbeSlots) /\ Len(storage') = Len(storage)
        /\ fresh' \in Seq(ProbeSlots) /\ (fresh' = <<>> <=> fresh = <<>>)
        /\ Slots' \in Seq(ProbeSlots) /\ Len(Slots') = Len(Slots) /\ Slots'[a] = slot
        /\ \A j \in 1..Len(Slots) : j # a => Slots'[j] = Slots[j]
    BY <1>5, <1>6, <1>7, <1>8, PutSlotIs
  <1>10. /\ obj' = obj /\ member' = member + 1 /\ capacity' = capacity
         /\ obj' = <<>> \/ obj' \in Objects
         /\ member' \in 0..Len(obj') /\ off' \in Nat
         /\ member' < Len(obj') => off' = obj'[member' + 1].at
    BY <1>1, AdvanceIs
  <1>11. ProbeTypeOK'
    BY <1>1, <1>7, <1>9, <1>10 DEF ProbeTypeOK
  <1>12. EscapedUpTo(obj', member') = EscapedUpTo(obj, member)
    BY <1>1, <1>7, <1>10, EscapedStep
  <1>13. Layout'
    BY <1>1, <1>7, <1>9, <1>10, <1>12 DEF Layout
  <1>14. TableOk(Slots', obj', member', capacity')
    <2>1. \A k \in 1..capacity : k \in 1..Len(Slots)
      BY <1>7 DEF Layout
    <2>2. \A k \in 1..capacity : k # a => Slots'[k] = Slots[k]
      BY <2>1, <1>9
    <2>3. Slots'[a] = [hash |-> NameHash[obj[member + 1].name], off |-> obj[member + 1].at]
      BY <1>2, <1>9
    <2>4. TableOk(Slots', obj, member + 1, capacity)
      BY <1>1, <1>3, <2>2, <2>3, InsertOk
    <2>. QED
      BY <2>4, <1>10
  <1>15. EscapedOk'
    <2>1. \A k \in 1..nescaped : escaped[k] = IF grown # <<>> THEN grown[k] ELSE Slots[capacity + k]
      BY <1>7, ListNow
    <2>2. \A k \in 1..nescaped' : escaped'[k] = IF grown' # <<>> THEN grown'[k] ELSE Slots'[capacity' + k]
      <3>1. escaped' = ListIn(grown', Slots', capacity', nescaped')
        BY DEF escaped, ListIn
      <3>2. /\ grown' \in Seq(ProbeSlots) /\ nescaped' \in Nat /\ capacity' \in Nat
            /\ IF grown' = <<>> THEN capacity' + nescaped' <= Len(Slots') ELSE nescaped' <= Len(grown')
        BY <1>7, <1>10, <1>11, <1>13 DEF ProbeTypeOK, Layout
      <3>3. \A k \in 1..nescaped' : ListIn(grown', Slots', capacity', nescaped')[k]
                                       = IF grown' # <<>> THEN grown'[k] ELSE Slots'[capacity' + k]
        <4>1. ListFits(grown', Slots', capacity', nescaped')
          BY <1>9, <3>2 DEF ListFits
        <4>. QED
          BY ONLY <4>1, ListIs
      <3>. QED
        BY <3>1, <3>3, Zenon
    <2>3. \A k \in 1..nescaped : grown = <<>> => capacity + k \in 1..Len(Slots) /\ capacity + k # a
      BY <1>4, <1>7, SMTT(20) DEF Layout, ProbeTypeOK
    <2>4. \A k \in 1..nescaped : escaped'[k] = escaped[k]
      BY <2>1, <2>2, <2>3, <1>1, <1>9, <1>10
    <2>5. {escaped'[k].off : k \in 1..nescaped} = {escaped[k].off : k \in 1..nescaped}
      BY <2>4
    <2>6. {escaped'[k].off : k \in 1..nescaped'} = {obj'[m].at : m \in EscapedUpTo(obj', member')}
      BY <2>5, <1>1, <1>7, <1>10, <1>12 DEF EscapedOk
    <2>. QED
      BY <2>6 DEF EscapedOk
  <1>. QED
    BY <1>11, <1>13, <1>14, <1>15 DEF ProbeInv

\* A list grows by one member: what the three ways to append a name share.
LEMMA ListGrows ==
    ASSUME ProbeAssumption, ProbeInv, member < Len(obj), obj[member + 1].name \in EscapedNames, Advance,
           nescaped' = nescaped + 1,
           storage' \in Seq(ProbeSlots), Len(storage') = StorageCap,
           fresh' \in Seq(ProbeSlots), fresh' = <<>> <=> fresh = <<>>,
           grown' \in Seq(ProbeSlots),
           IF grown' = <<>> THEN capacity + nescaped + 1 <= Len(Slots') ELSE nescaped + 1 <= Len(grown'),
           fresh = <<>> /\ grown' # <<>> => StorageCap < capacity + nescaped + 1,
           Len(Slots') = Len(Slots), \A k \in 1..capacity : Slots'[k] = Slots[k],
           NEW F, F = IF grown' # <<>> THEN grown' ELSE Slots',
           NEW b, b = IF grown' # <<>> THEN 0 ELSE capacity,
           \A k \in 1..nescaped : F[b + k] = escaped[k],
           F[b + nescaped + 1].off = off
    PROVE  ProbeInv'
  <1>1. ProbeTypeOK /\ Layout /\ EscapedOk /\ capacity \in Nat /\ Len(Slots) \in Nat /\ member \in Nat /\ nescaped \in Nat
    BY StateIs DEF ProbeInv, ProbeTypeOK
  <1>2. /\ obj' = obj /\ member' = member + 1 /\ capacity' = capacity
        /\ obj' = <<>> \/ obj' \in Objects
        /\ member' \in 0..Len(obj') /\ off' \in Nat
        /\ member' < Len(obj') => off' = obj'[member' + 1].at
    BY AdvanceIs
  <1>3. ProbeTypeOK'
    BY <1>1, <1>2 DEF ProbeTypeOK
  <1>4. /\ EscapedUpTo(obj', member') = EscapedUpTo(obj, member) \cup {member + 1}
        /\ Cardinality(EscapedUpTo(obj', member')) = Cardinality(EscapedUpTo(obj, member)) + 1
    BY <1>1, <1>2, EscapedStep
  <1>5. Layout'
    <2>1. nescaped' = Cardinality(EscapedUpTo(obj', member'))
      BY <1>1, <1>4 DEF Layout
    <2>2. capacity' <= Len(Slots')
      BY <1>1, <1>2 DEF Layout
    <2>3. IF grown' = <<>> THEN capacity' + nescaped' <= Len(Slots') ELSE nescaped' <= Len(grown')
      BY <1>1, <1>2
    <2>4. fresh' # <<>> => StorageCap < capacity'
      BY <1>1, <1>2 DEF Layout
    <2>5. fresh' = <<>> /\ grown' # <<>> => StorageCap < capacity' + nescaped'
      BY <1>1, <1>2
    <2>. QED
      BY <2>1, <2>2, <2>3, <2>4, <2>5 DEF Layout
  <1>6. TableOk(Slots', obj', member', capacity')
    <2>1. Table(Slots, obj, member, capacity)
      BY NextMember, TableNow
    <2>2. TableOk(Slots', obj, member + 1, capacity)
      BY <2>1, SkipOk
    <2>. QED
      BY <2>2, <1>2
  <1>7. EscapedOk'
    <2>1. escaped' = ListIn(grown', Slots', capacity', nescaped')
      BY DEF escaped, ListIn
    <2>2. ListFits(grown', Slots', capacity', nescaped')
      BY <1>1, <1>2, <1>3, <1>5 DEF ProbeTypeOK, Layout, Slots, ListFits
    <2>3. \A k \in 1..nescaped' : ListIn(grown', Slots', capacity', nescaped')[k]
                                    = IF grown' # <<>> THEN grown'[k] ELSE Slots'[capacity' + k]
      BY ONLY <2>2, ListIs
    <2>4. \A k \in 1..nescaped' : escaped'[k] = IF grown' # <<>> THEN grown'[k] ELSE Slots'[capacity' + k]
      BY <2>1, <2>3, Zenon
    <2>5. \A k \in 1..nescaped' : escaped'[k] = F[b + k]
      <3>1. \A k \in 1..nescaped' : 0 + k = k
        OBVIOUS
      <3>2. CASE grown' # <<>>
        <4>1. F = grown' /\ b = 0
          BY <3>2
        <4>. QED
          BY <2>4, <3>1, <3>2, <4>1, Zenon
      <3>3. CASE grown' = <<>>
        <4>1. F = Slots' /\ b = capacity'
          BY <3>3, <1>2
        <4>. QED
          BY <2>4, <3>3, <4>1, Zenon
      <3>. QED
        BY <3>2, <3>3
    <2>6. \A k \in 1..nescaped' : k \in 1..nescaped \/ k = nescaped + 1
      BY <1>1
    <2>7. nescaped + 1 \in 1..nescaped' /\ \A k \in 1..nescaped : k \in 1..nescaped'
      BY <1>1
    <2>8. b + (nescaped + 1) = b + nescaped + 1
      BY <1>1
    <2>9. \A k \in 1..nescaped : escaped'[k] = escaped[k]
      BY <2>5, <2>7
    <2>10. escaped'[nescaped + 1].off = obj[member + 1].at
      BY <2>5, <2>7, <2>8, NextMember
    <2>11. {escaped'[k].off : k \in 1..nescaped'} = {escaped[k].off : k \in 1..nescaped} \cup {obj[member + 1].at}
      <3> DEFINE L == {escaped'[k].off : k \in 1..nescaped'}
                 R == {escaped[k].off : k \in 1..nescaped}
                 y == obj[member + 1].at
      <3>1. \A k \in 1..nescaped' : escaped'[k].off \in R \cup {y}
        BY <2>6, <2>9, <2>10
      <3>2. \A k \in 1..nescaped : escaped[k].off \in L
        BY <2>7, <2>9
      <3>3. y \in L
        BY <2>7, <2>10
      <3>4. L \subseteq R \cup {y}
        BY <3>1
      <3>5. R \subseteq L
        BY <3>2
      <3> HIDE DEF L, R, y
      <3>6. L = R \cup {y}
        BY <3>3, <3>4, <3>5
      <3>. QED
        BY <3>6 DEF L, R, y
    <2>12. {obj[m].at : m \in EscapedUpTo(obj, member) \cup {member + 1}}
             = {obj[m].at : m \in EscapedUpTo(obj, member)} \cup {obj[member + 1].at}
      OBVIOUS
    <2>13. {escaped[k].off : k \in 1..nescaped} = {obj[m].at : m \in EscapedUpTo(obj, member)}
      BY <1>1 DEF EscapedOk
    <2>14. {escaped'[k].off : k \in 1..nescaped'} = {obj'[m].at : m \in EscapedUpTo(obj', member')}
      <3>1. {obj'[m].at : m \in EscapedUpTo(obj', member')} = {obj[m].at : m \in EscapedUpTo(obj, member) \cup {member + 1}}
        BY <1>2, <1>4, Zenon
      <3>. QED
        BY <3>1, <2>11, <2>12, <2>13
    <2>. QED
      BY <2>14 DEF EscapedOk
  <1>. QED
    BY <1>3, <1>5, <1>6, <1>7 DEF ProbeInv

LEMMA AddEscapedOk ==
    ASSUME ProbeAssumption, ProbeInv, AddEscaped
    PROVE  ProbeInv'
  <1> DEFINE slot == [hash |-> 0, off |-> off]
             room == IF grown # <<>> THEN Len(grown) ELSE Len(Slots) - capacity
             zeroed == Zeroed(Len(obj) - member)
             moved == escaped \o zeroed
  <1>1. /\ member < Len(obj) /\ obj[member + 1].name \in EscapedNames /\ Advance /\ nescaped' = nescaped + 1
    BY DEF AddEscaped
  <1>2. /\ ProbeTypeOK /\ Layout /\ capacity \in Nat /\ Len(Slots) \in Nat /\ Len(obj) \in Nat /\ member \in Nat
        /\ nescaped \in Nat /\ StorageCap \in Nat /\ Len(storage) = StorageCap
        /\ storage \in Seq(ProbeSlots) /\ fresh \in Seq(ProbeSlots) /\ grown \in Seq(ProbeSlots)
    BY StateIs DEF ProbeInv, ProbeTypeOK
  <1>3. slot \in ProbeSlots /\ slot.off = off
    BY <1>1, NextMember DEF ProbeSlots
  <1>4. /\ escaped \in Seq(ProbeSlots) /\ Len(escaped) = nescaped
        /\ \A k \in 1..nescaped : escaped[k] = IF grown # <<>> THEN grown[k] ELSE Slots[capacity + k]
    BY <1>2, ListNow
  <1>5. capacity <= Len(Slots) /\ \A k \in 1..capacity : k \in 1..Len(Slots)
    BY <1>2 DEF Layout
  <1>6. \/ /\ nescaped < room /\ grown # <<>>
           /\ grown' = [grown EXCEPT ![nescaped + 1] = slot]
           /\ storage' = storage /\ fresh' = fresh
        \/ /\ nescaped < room /\ grown = <<>>
           /\ PutSlot(capacity + nescaped + 1, slot) /\ grown' = grown
        \/ /\ nescaped = room
           /\ grown' = [moved EXCEPT ![nescaped + 1] = slot]
           /\ storage' = storage /\ fresh' = fresh
    BY DEF AddEscaped
  <1> HIDE DEF slot, zeroed
  <1>7. CASE /\ nescaped < room /\ grown # <<>>
             /\ grown' = [grown EXCEPT ![nescaped + 1] = slot]
             /\ storage' = storage /\ fresh' = fresh
    <2>1. nescaped + 1 \in 1..Len(grown)
      BY <1>2, <1>7
    <2>2. /\ grown' \in Seq(ProbeSlots) /\ Len(grown') = Len(grown) /\ grown'[nescaped + 1] = slot
          /\ \A j \in 1..Len(grown) : j # nescaped + 1 => grown'[j] = grown[j]
      BY <1>2, <1>3, <1>7, <2>1, PutIs
    <2>3. grown' # <<>>
      BY <2>1, <2>2
    <2>4. Slots' = Slots
      BY <1>7 DEF Slots
    <2>5. \A k \in 1..nescaped : grown'[0 + k] = escaped[k]
      <3>1. \A k \in 1..nescaped : k \in 1..Len(grown) /\ k # nescaped + 1 /\ 0 + k = k
        BY <1>2, <2>1
      <3>. QED
        BY <3>1, <2>2, <1>4, <1>7
    <2>6. grown'[0 + nescaped + 1].off = off
      <3>1. 0 + nescaped + 1 = nescaped + 1
        BY <1>2
      <3>. QED
        BY <3>1, <2>2, <1>3
    <2>7. fresh = <<>> /\ grown' # <<>> => StorageCap < capacity + nescaped + 1
      BY <1>2, <1>7 DEF Layout
    <2>8. nescaped + 1 <= Len(grown')
      BY <2>1, <2>2
    <2> DEFINE F == grown'
               b == 0
    <2>9. /\ F = IF grown' # <<>> THEN grown' ELSE Slots'
          /\ b = IF grown' # <<>> THEN 0 ELSE capacity
      BY <2>3
    <2>10. (\A k \in 1..nescaped : F[b + k] = escaped[k]) /\ F[b + nescaped + 1].off = off
      BY <2>5, <2>6
    <2>11. IF grown' = <<>> THEN capacity + nescaped + 1 <= Len(Slots') ELSE nescaped + 1 <= Len(grown')
      BY <2>3, <2>8
    <2>12. /\ storage' \in Seq(ProbeSlots) /\ Len(storage') = StorageCap
           /\ fresh' \in Seq(ProbeSlots) /\ (fresh' = <<>> <=> fresh = <<>>)
           /\ Len(Slots') = Len(Slots) /\ \A k \in 1..capacity : Slots'[k] = Slots[k]
      BY <1>2, <1>7, <2>4
    <2> HIDE DEF F, b
    <2>. QED
      BY <1>1, <2>2, <2>7, <2>9, <2>10, <2>11, <2>12, ListGrows
  <1>8. CASE /\ nescaped < room /\ grown = <<>>
             /\ PutSlot(capacity + nescaped + 1, slot) /\ grown' = grown
    <2>1. capacity + nescaped + 1 \in 1..Len(Slots)
      BY <1>2, <1>5, <1>8
    <2>2. /\ storage' \in Seq(ProbeSlots) /\ Len(storage') = Len(storage)
          /\ fresh' \in Seq(ProbeSlots) /\ (fresh' = <<>> <=> fresh = <<>>)
          /\ Slots' \in Seq(ProbeSlots) /\ Len(Slots') = Len(Slots) /\ Slots'[capacity + nescaped + 1] = slot
          /\ \A j \in 1..Len(Slots) : j # capacity + nescaped + 1 => Slots'[j] = Slots[j]
      BY <1>2, <1>3, <1>8, <2>1, PutSlotIs
    <2>3. grown' = <<>>
      BY <1>8
    <2>4. \A k \in 1..capacity : Slots'[k] = Slots[k]
      <3>1. \A k \in 1..capacity : k # capacity + nescaped + 1
        BY <1>2
      <3>. QED
        BY <3>1, <1>5, <2>2
    <2>5. \A k \in 1..nescaped : Slots'[capacity + k] = escaped[k]
      <3>1. \A k \in 1..nescaped : capacity + k \in 1..Len(Slots) /\ capacity + k # capacity + nescaped + 1
        BY <1>2, <2>1
      <3>. QED
        BY <3>1, <2>2, <1>4, <1>8
    <2>6. Slots'[capacity + nescaped + 1].off = off
      BY <2>2, <1>3
    <2>7. capacity + nescaped + 1 <= Len(Slots')
      BY <2>1, <2>2
    <2>8. Slots' = (IF grown' # <<>> THEN grown' ELSE Slots') /\ capacity = IF grown' # <<>> THEN 0 ELSE capacity
      BY <2>3
    <2>9. PICK F, b : F = Slots' /\ b = capacity
      OBVIOUS
    <2>10. /\ F = IF grown' # <<>> THEN grown' ELSE Slots'
           /\ b = IF grown' # <<>> THEN 0 ELSE capacity
      BY <2>8, <2>9
    <2>11. (\A k \in 1..nescaped : F[b + k] = escaped[k]) /\ F[b + nescaped + 1].off = off
      BY <2>5, <2>6, <2>9
    <2>12. /\ storage' \in Seq(ProbeSlots) /\ Len(storage') = StorageCap
           /\ fresh' \in Seq(ProbeSlots) /\ (fresh' = <<>> <=> fresh = <<>>)
           /\ Len(Slots') = Len(Slots) /\ \A k \in 1..capacity : Slots'[k] = Slots[k]
      BY <1>2, <2>2, <2>4
    <2>13. grown' \in Seq(ProbeSlots)
      BY <1>2, <1>8
    <2>14. IF grown' = <<>> THEN capacity + nescaped + 1 <= Len(Slots') ELSE nescaped + 1 <= Len(grown')
      BY <2>3, <2>7
    <2>. QED
      BY <1>1, <2>3, <2>10, <2>11, <2>12, <2>13, <2>14, ListGrows
  <1>9. CASE /\ nescaped = room
             /\ grown' = [moved EXCEPT ![nescaped + 1] = slot]
             /\ storage' = storage /\ fresh' = fresh
    <2>1. Len(obj) - member \in Nat /\ Len(obj) - member > 0
      BY <1>1, <1>2
    <2>2. zeroed \in Seq(ProbeSlots) /\ Len(zeroed) = Len(obj) - member
      BY <2>1, ZeroedIs DEF zeroed
    <2>3. /\ moved \in Seq(ProbeSlots) /\ Len(moved) = nescaped + (Len(obj) - member)
          /\ \A k \in 1..(nescaped + (Len(obj) - member)) :
                moved[k] = IF k <= nescaped THEN escaped[k] ELSE zeroed[k - nescaped]
      <3>1. /\ moved \in Seq(ProbeSlots) /\ Len(moved) = Len(escaped) + Len(zeroed)
            /\ \A k \in 1..(Len(escaped) + Len(zeroed)) :
                  moved[k] = IF k <= Len(escaped) THEN escaped[k] ELSE zeroed[k - Len(escaped)]
        BY <2>2, <1>4, ConcatProperties
      <3> HIDE DEF moved
      <3>. QED
        BY <3>1, <2>2, <1>4
    <2>4. \A k \in 1..nescaped : k \in 1..(nescaped + (Len(obj) - member)) /\ k <= nescaped
                                   /\ k # nescaped + 1 /\ 0 + k = k
      BY <1>2, <2>1
    <2>5. nescaped + 1 \in 1..Len(moved)
      BY <1>2, <2>1, <2>3
    <2> HIDE DEF moved
    <2>6. /\ grown' \in Seq(ProbeSlots) /\ Len(grown') = Len(moved) /\ grown'[nescaped + 1] = slot
          /\ \A j \in 1..Len(moved) : j # nescaped + 1 => grown'[j] = moved[j]
      BY <1>3, <1>9, <2>3, <2>5, PutIs
    <2>7. grown' # <<>>
      BY <2>5, <2>6
    <2>8. Slots' = Slots
      BY <1>9 DEF Slots
    <2>9. \A k \in 1..nescaped : grown'[0 + k] = escaped[k]
      BY <2>3, <2>4, <2>6
    <2>10. grown'[0 + nescaped + 1].off = off
      <3>1. 0 + nescaped + 1 = nescaped + 1
        BY <1>2
      <3>. QED
        BY <3>1, <2>6, <1>3
    <2>11. fresh = <<>> /\ grown' # <<>> => StorageCap < capacity + nescaped + 1
      <3>1. CASE grown # <<>>
        BY <3>1, <1>2 DEF Layout
      <3>2. CASE grown = <<>>
        <4>1. fresh = <<>> => Slots = storage
          BY DEF Slots
        <4>2. fresh = <<>> => nescaped = StorageCap - capacity
          BY <4>1, <3>2, <1>2, <1>9
        <4>. QED
          BY <4>2, <1>2
      <3>. QED
        BY <3>1, <3>2
    <2>12. nescaped + 1 <= Len(grown')
      BY <2>5, <2>6
    <2> DEFINE F == grown'
               b == 0
    <2>13. /\ F = IF grown' # <<>> THEN grown' ELSE Slots'
           /\ b = IF grown' # <<>> THEN 0 ELSE capacity
      BY <2>7
    <2>14. (\A k \in 1..nescaped : F[b + k] = escaped[k]) /\ F[b + nescaped + 1].off = off
      BY <2>9, <2>10
    <2>15. IF grown' = <<>> THEN capacity + nescaped + 1 <= Len(Slots') ELSE nescaped + 1 <= Len(grown')
      BY <2>7, <2>12
    <2>16. /\ storage' \in Seq(ProbeSlots) /\ Len(storage') = StorageCap
           /\ fresh' \in Seq(ProbeSlots) /\ (fresh' = <<>> <=> fresh = <<>>)
           /\ Len(Slots') = Len(Slots) /\ \A k \in 1..capacity : Slots'[k] = Slots[k]
      BY <1>2, <1>9, <2>8
    <2> HIDE DEF F, b
    <2>. QED
      BY <1>1, <2>6, <2>11, <2>13, <2>14, <2>15, <2>16, ListGrows
  <1>. QED
    BY <1>6, <1>7, <1>8, <1>9

LEMMA InvStays ==
    ASSUME ProbeAssumption, ProbeInv, [ProbeNext]_probeVars
    PROVE  ProbeInv'
  <1>1. CASE UNCHANGED probeVars
    <2>1. Slots' = Slots /\ escaped' = escaped /\ capacity' = capacity
      BY <1>1 DEF probeVars, Slots, escaped, capacity
    <2>2. /\ obj' = obj /\ member' = member /\ off' = off /\ storage' = storage /\ fresh' = fresh
          /\ grown' = grown /\ nescaped' = nescaped
      BY <1>1 DEF probeVars
    <2>3. ProbeTypeOK' /\ Layout'
      BY <2>1, <2>2 DEF ProbeInv, ProbeTypeOK, Layout
    <2>4. EscapedOk'
      <3>1. EscapedUpTo(obj, member)' = EscapedUpTo(obj, member)
        BY <2>2
      <3>2. EscapedOk
        BY DEF ProbeInv
      <3>3. PICK e, e2, k, k2 : e = escaped /\ e2 = escaped' /\ k = nescaped /\ k2 = nescaped'
        OBVIOUS
      <3>4. e2 = e /\ k2 = k
        BY ONLY <2>1, <2>2, <3>3
      <3>5. { escaped[x].off : x \in 1..nescaped }' = { e2[x].off : x \in 1..k2 }
        BY ONLY <3>3
      <3>6. { escaped[x].off : x \in 1..nescaped } = { e[x].off : x \in 1..k }
        BY ONLY <3>3
      <3>7. { e2[x].off : x \in 1..k2 } = { e[x].off : x \in 1..k }
        BY ONLY <3>4
      <3>8. { obj[m].at : m \in EscapedUpTo(obj, member) }' = { obj[m].at : m \in EscapedUpTo(obj, member) }
        BY ONLY <2>2, <3>1
      <3>. QED
        BY ONLY <3>2, <3>5, <3>6, <3>7, <3>8 DEF EscapedOk
    <2>5. TableOk(Slots', obj', member', capacity')
      BY <2>1, <2>2 DEF ProbeInv
    <2>. QED
      BY <2>3, <2>4, <2>5 DEF ProbeInv
  <1>2. CASE \E o \in Objects : BuildObjectProbe(o)
    BY <1>2, BuildOk
  <1>3. CASE AddEscaped
    BY <1>3, AddEscapedOk
  <1>4. CASE AddPlain
    BY <1>4, AddPlainOk
  <1>. QED
    BY <1>1, <1>2, <1>3, <1>4 DEF ProbeNext

\* Every build, over whatever storage, keeps the invariant.
THEOREM ProbeInvariance == ASSUME ProbeAssumption PROVE ProbeSpec => []ProbeInv
  <1>1. ProbeInit => ProbeInv
    BY InitOk
  <1>2. ProbeInv /\ [ProbeNext]_probeVars => ProbeInv'
    BY InvStays
  <1>. QED
    BY <1>1, <1>2, PTL DEF ProbeSpec

-----------------------------------------------------------------------------
(***************************************************************************)
(* What follows from it.                                                   *)
(***************************************************************************)

LEMMA InvHalfEmpty ==
    ASSUME ProbeAssumption, ProbeInv
    PROVE  HalfEmpty
  <1> DEFINE taken == {k \in 1..capacity : Slots[k].off # 0}
  <1>1. Cardinality(taken) <= member
    BY DEF ProbeInv, TableOk
  <1>2. /\ capacity \in Nat /\ Len(obj) \in Nat /\ member \in 0..Len(obj)
        /\ obj = <<>> => capacity = 0 /\ Len(obj) = 0
        /\ obj # <<>> => capacity >= 2 * Len(obj)
    BY StateIs DEF ProbeInv
  <1>3. Cardinality(taken) \in Nat
    <2>1. taken \subseteq 1..capacity /\ 1 \in Int /\ capacity \in Int
      BY <1>2
    <2> HIDE DEF taken
    <2>2. IsFiniteSet(1..capacity)
      BY <2>1, FS_Interval
    <2>. QED
      BY <2>1, <2>2, FS_Subset, FS_CardinalityType
  <1> HIDE DEF taken
  <1>4. 2 * Cardinality(taken) <= capacity
    <2> DEFINE c == capacity
               t == Cardinality(taken)
               l == Len(obj)
    <2>1. t \in Nat /\ l \in Nat /\ c \in Nat /\ t <= l /\ c >= 2 * l
      BY <1>1, <1>2, <1>3
    <2> HIDE DEF c, t, l
    <2>2. 2 * t <= c
      BY <2>1
    <2>. QED
      BY <2>2 DEF c, t
  <1>. QED
    BY <1>4 DEF taken, HalfEmpty

LEMMA InvRequiredIsEnough ==
    ASSUME ProbeAssumption, ProbeInv, RequiredProbeSlots(obj) <= StorageCap
    PROVE  fresh = <<>> /\ grown = <<>>
  <1>1. /\ Len(obj) \in Nat /\ member \in 0..Len(obj) /\ member \in Nat /\ capacity \in Nat /\ StorageCap \in Nat
        /\ nescaped = Cardinality(EscapedUpTo(obj, member)) /\ nescaped \in Nat
        /\ fresh # <<>> => StorageCap < capacity
        /\ fresh = <<>> /\ grown # <<>> => StorageCap < capacity + nescaped
        /\ (obj = <<>> => capacity = 0 /\ Len(obj) = 0)
    BY StateIs DEF ProbeInv, ProbeTypeOK, Layout
  <1> DEFINE all == EscapedUpTo(obj, Len(obj))
  <1>2. IsFiniteSet(all) /\ Cardinality(all) \in Nat
    BY <1>1, EscapedStep
  <1>3. EscapedUpTo(obj, member) \subseteq all
    <2>1. \A m \in 1..member : m \in 1..Len(obj)
      BY <1>1
    <2>. QED
      BY <2>1 DEF EscapedUpTo
  <1>4. nescaped <= Cardinality(all)
    BY <1>1, <1>2, <1>3, FS_Subset
  <1>5. CASE obj = <<>>
    <2>1. 1..Len(obj) = {} /\ Cardinality({}) = 0
      BY <1>1, <1>5, FS_EmptySet
    <2>2. Cardinality(all) = 0
      <3>1. all = {}
        BY <2>1 DEF EscapedUpTo
      <3>. QED
        BY <3>1, <2>1
    <2> HIDE DEF all
    <2>3. nescaped = 0 /\ capacity = 0
      BY <1>1, <1>4, <1>5, <2>2
    <2>. QED
      BY <2>3, <1>1
  <1>6. CASE obj # <<>>
    <2>1. RequiredProbeSlots(obj) = capacity + Cardinality(all)
      BY <1>6 DEF RequiredProbeSlots, capacity, EscapedUpTo
    <2> DEFINE a == Cardinality(all)
               c == capacity
    <2>2. a \in Nat /\ c \in Nat /\ nescaped <= a /\ c + a <= StorageCap
      BY <1>1, <1>2, <1>4, <2>1
    <2>3. ~(StorageCap < c) /\ ~(StorageCap < c + nescaped)
      <3> HIDE DEF a, c
      <3>. QED
        BY <2>2, <1>1
    <2>. QED
      BY <2>3, <1>1
  <1>. QED
    BY <1>5, <1>6

\* A set of numbers with a bound, if not empty, has a greatest member.
LEMMA GreatestNumber ==
    ASSUME NEW K, K \subseteq Nat, K # {}, NEW b \in Nat, \A x \in K : x <= b
    PROVE  \E x \in K : \A y \in K : y <= x
  <1> DEFINE D == {n \in Nat : b - n \in K}
  <1>1. D # {}
    <2>1. PICK x \in K : TRUE
      OBVIOUS
    <2>2. b - x \in Nat /\ b - (b - x) = x
      BY <2>1
    <2>. QED
      BY <2>1, <2>2
  <1>2. PICK n \in D : \A m \in D : n <= m
    BY <1>1, LeastNumber
  <1>3. b - n \in K /\ n \in Nat
    BY <1>2
  <1>4. ASSUME NEW y \in K
        PROVE  y <= b - n
    <2>1. y \in Nat /\ y <= b
      OBVIOUS
    <2>2. b - y \in Nat /\ b - (b - y) = y
      BY <2>1
    <2>3. n <= b - y
      BY <1>2, <2>2
    <2>. QED
      BY <2>1, <2>3, <1>3
  <1>. QED
    BY <1>3, <1>4

\* The offsets of the members so far whose name decodes to key; 0 stands for none.
Matches(key) == {0} \cup {obj[m].at : m \in {n \in 1..member : NameText[obj[n].name] = key}}

\* The last of them is found in the table, or in the list.
LEMMA LastIsFound ==
    ASSUME ProbeAssumption, ProbeInv, NEW key \in PlainNames,
           NEW hit, hit = (IF capacity = 0 THEN 0 ELSE ProbeAt(NameHash[key], Reach(NameHash[key], key)).off),
           NEW best, best = {escaped[k].off : k \in {j \in 1..nescaped : NameText[NameAt(escaped[j].off)] = key}}
    PROVE  /\ {hit} \cup best \subseteq Matches(key)
           /\ \A y \in Matches(key) : \E x \in {hit} \cup best : y <= x
  <1>1. /\ obj = <<>> \/ obj \in Objects
        /\ Len(obj) \in Nat /\ member \in 0..Len(obj) /\ member \in Nat
        /\ obj = <<>> => capacity = 0 /\ Len(obj) = 0
        /\ obj # <<>> => capacity > 0
        /\ capacity \in Nat
    BY StateIs DEF ProbeInv
  <1>2. key \in Names /\ key \notin EscapedNames
    BY DEF PlainNames
  <1>3. \A m \in 1..member : m \in 1..Len(obj) /\ obj[m].name \in Names /\ obj[m].at \in Nat
    <2>1. \A m \in 1..member : m \in 1..Len(obj)
      BY <1>1
    <2>. QED
      BY <2>1, <1>1, MembersAre
  <1>4. \A m \in 1..member : obj[m].name \notin EscapedNames => NameText[obj[m].name] = obj[m].name
    BY <1>3 DEF ProbeAssumption, PlainNames
  <1>5. /\ hit \in Nat /\ hit \in Matches(key)
        /\ \A m \in 1..member : obj[m].name = key => obj[m].at <= hit
    <2>1. CASE obj = <<>>
      <3>1. hit = 0 /\ 1..member = {}
        BY <2>1, <1>1
      <3>. QED
        BY <3>1 DEF Matches
    <2>2. CASE obj # <<>>
      <3> DEFINE K == Slots
                 a == Arrival(K, obj, capacity, key)
      <3>1. Table(K, obj, member, capacity)
        BY <2>2, TableNow
      <3>2. /\ a \in 1..capacity
            /\ K[a].off # 0 => NameIn(obj, K[a].off) = key
            /\ \A k \in 1..capacity : K[k].off # 0 /\ NameIn(obj, K[k].off) = key => k = a
        BY <3>1, <1>2, ArrivalIs
      <3>3. capacity # 0
        BY <2>2, <1>1
      <3>4. hit = K[a].off
        <4>1. ProbeAt(NameHash[key], Reach(NameHash[key], key)) = K[a]
          BY DEF Reach, Arrival, Place, Stops, ProbeAt, NameAt, NameIn
        <4>. QED
          BY <4>1, <3>3
      <3> HIDE DEF a, K
      <3>5. \A m \in 1..member : obj[m].name = key => K[a].off # 0
        <4> SUFFICES ASSUME NEW m \in 1..member, obj[m].name = key PROVE K[a].off # 0
          OBVIOUS
        <4>1. PICK k \in 1..capacity : K[k].off # 0 /\ NameIn(obj, K[k].off) = key
          BY <3>1, <1>2 DEF Table, TableOk
        <4>. QED
          BY <4>1, <3>2
      <3>6. CASE K[a].off = 0
        BY <3>4, <3>5, <3>6 DEF Matches
      <3>7. CASE K[a].off # 0
        <4>1. PICK m \in 1..member : /\ Latest(obj, member, m) /\ m \in 1..Len(obj)
                                     /\ K[a].off = obj[m].at /\ NameIn(obj, K[a].off) = obj[m].name
          BY <3>1, <3>2, <3>7, SlotHolds
        <4>2. obj[m].name = key
          BY <4>1, <3>2, <3>7
        <4>3. hit \in Matches(key) /\ hit \in Nat
          BY <4>1, <4>2, <3>4, <1>3, <1>4 DEF Matches, Latest
        <4>4. ASSUME NEW w \in 1..member, obj[w].name = key
              PROVE  obj[w].at <= obj[m].at
          <5>1. w <= m
            BY <4>1, <4>2, <4>4 DEF Latest
          <5>2. w = m \/ w \in 1..(m - 1)
            BY <5>1, <1>1
          <5>3. w \in 1..(m - 1) => obj[w].at < obj[m].at
            BY <4>1, <1>1, OffsetsRise
          <5>. QED
            BY <5>2, <5>3, <1>3
        <4>. QED
          BY <4>1, <4>3, <4>4, <3>4
      <3>. QED
        BY <3>6, <3>7
    <2>. QED
      BY <2>1, <2>2
  <1>6. {escaped[k].off : k \in 1..nescaped} = {obj[m].at : m \in EscapedUpTo(obj, member)}
    BY DEF ProbeInv, EscapedOk
  <1>7. \A m \in 1..member : NameAt(obj[m].at) = obj[m].name
    BY <1>1, <1>3, NameInAt DEF NameAt, NameIn
  <1>8. ASSUME NEW x \in best
        PROVE  x \in Matches(key)
    <2>1. PICK k \in 1..nescaped : x = escaped[k].off /\ NameText[NameAt(escaped[k].off)] = key
      OBVIOUS
    <2>2. PICK m \in EscapedUpTo(obj, member) : x = obj[m].at
      BY <2>1, <1>6
    <2>3. m \in 1..member /\ NameText[obj[m].name] = key
      BY <2>1, <2>2, <1>7 DEF EscapedUpTo
    <2>. QED
      BY <2>2, <2>3 DEF Matches
  <1>9. ASSUME NEW y \in Matches(key)
        PROVE  \E x \in {hit} \cup best : y <= x
    <2>1. CASE y = 0
      BY <2>1, <1>5
    <2>2. CASE y # 0
      <3>1. PICK m \in 1..member : y = obj[m].at /\ NameText[obj[m].name] = key
        BY <2>2, <1>9 DEF Matches
      <3>2. CASE obj[m].name \notin EscapedNames
        BY <3>1, <3>2, <1>4, <1>5
      <3>3. CASE obj[m].name \in EscapedNames
        <4>1. m \in EscapedUpTo(obj, member)
          BY <3>3 DEF EscapedUpTo
        <4>2. PICK k \in 1..nescaped : y = escaped[k].off
          BY <4>1, <3>1, <1>6
        <4>3. NameText[NameAt(escaped[k].off)] = key
          BY <4>2, <3>1, <1>7
        <4>4. y \in best
          BY <4>2, <4>3
        <4>5. y <= y
          BY <3>1, <1>3
        <4>. QED
          BY <4>4, <4>5
      <3>. QED
        BY <3>2, <3>3
    <2>. QED
      BY <2>1, <2>2
  <1>. QED
    BY <1>5, <1>8, <1>9

\* The offsets of the matches are numbers with a bound.
LEMMA MatchesBounded ==
    ASSUME ProbeAssumption, ProbeInv, NEW key
    PROVE  Matches(key) \subseteq Nat /\ \E b \in Nat : \A x \in Matches(key) : x <= b
  <1>1. /\ obj = <<>> \/ obj \in Objects
        /\ Len(obj) \in Nat /\ member \in 0..Len(obj) /\ member \in Nat
    BY StateIs DEF ProbeInv
  <1>2. \A m \in 1..member : m \in 1..Len(obj) /\ obj[m].at \in Nat
    <2>1. \A m \in 1..member : m \in 1..Len(obj)
      BY <1>1
    <2>. QED
      BY <2>1, <1>1, MembersAre
  <1>3. Matches(key) \subseteq Nat
    BY <1>2 DEF Matches
  <1>4. CASE member = 0
    <2>1. 1..member = {}
      BY <1>4
    <2>. QED
      BY <2>1, <1>3 DEF Matches
  <1>5. CASE member # 0
    <2>1. member \in 1..member
      BY <1>1, <1>5
    <2>2. ASSUME NEW m \in 1..member
          PROVE  obj[m].at <= obj[member].at
      <3>1. m = member \/ m \in 1..(member - 1)
        BY <1>1
      <3>2. m \in 1..(member - 1) => obj[m].at < obj[member].at
        BY <2>1, <1>1, <1>2, OffsetsRise
      <3>. QED
        BY <3>1, <3>2, <2>1, <1>2
    <2>3. \A x \in Matches(key) : x <= obj[member].at
      BY <2>1, <2>2, <1>2 DEF Matches
    <2>. QED
      BY <2>1, <2>3, <1>2, <1>3
  <1>. QED
    BY <1>4, <1>5

LEMMA InvProbeExact ==
    ASSUME ProbeAssumption, ProbeInv
    PROVE  ProbeExact
  <1> SUFFICES ASSUME NEW key \in PlainNames
               PROVE  ProbeGet(key) = Max(Matches(key))
    BY DEF ProbeExact, Matches
  <1> DEFINE hit  == IF capacity = 0 THEN 0 ELSE ProbeAt(NameHash[key], Reach(NameHash[key], key)).off
             best == {escaped[k].off : k \in {j \in 1..nescaped : NameText[NameAt(escaped[j].off)] = key}}
             A == {hit} \cup best
             B == Matches(key)
  <1>1. A \subseteq B /\ \A y \in B : \E x \in A : y <= x
    BY LastIsFound
  <1>2. ProbeGet(key) = Max(A)
    BY DEF ProbeGet
  <1>3. B # {}
    BY DEF Matches
  <1>4. B \subseteq Nat /\ \E b \in Nat : \A x \in B : x <= b
    BY MatchesBounded
  <1> HIDE DEF A, B
  <1>5. PICK z \in B : \A y \in B : y <= z
    BY <1>3, <1>4, GreatestNumber
  <1>6. z \in A
    <2>1. PICK x \in A : z <= x
      BY <1>1
    <2>2. x \in B /\ x <= z /\ x \in Nat /\ z \in Nat
      BY <2>1, <1>1, <1>4, <1>5
    <2>3. x = z
      BY <2>1, <2>2
    <2>. QED
      BY <2>3
  <1>7. Max(B) = z
    BY <1>4, <1>5, MaxIs
  <1>8. Max(A) = z
    <2>1. A \subseteq Nat /\ \A y \in A : y <= z
      BY <1>1, <1>4, <1>5
    <2>. QED
      BY <2>1, <1>6, MaxIs
  <1>. QED
    BY <1>2, <1>7, <1>8 DEF B

\* The probe is sound, for any objects, names, hashes and storage: Get answers
\* as a scan of the members added so far, the loops of probeInsert and Get meet
\* an empty slot, and RequiredProbeSlots is storage enough.
THEOREM ProbeIsSound == ASSUME ProbeAssumption PROVE ProbeSpec => []ProbeSound
  <1>1. ProbeInv => ProbeSound
    BY InvHalfEmpty, InvRequiredIsEnough, InvProbeExact DEF ProbeSound, RequiredIsEnough
  <1>. QED
    BY <1>1, ProbeInvariance, PTL
=============================================================================
