---------------------------- MODULE DecodeReuse ----------------------------
(***************************************************************************)
(* A program that decodes into one value over and over, and shares parts   *)
(* of it between the calls.                                                *)
(*                                                                         *)
(* Sharing is what ordinary Go code does to a value it owns: two pointers  *)
(* to one object, a pointer into the destination itself, overlapping       *)
(* slices, one map in two fields, a pointer in an interface.  The abstract *)
(* side is `Standard': what the value should read as, computed on trees    *)
(* without any memory.                                                     *)
(***************************************************************************)
EXTENDS TypedValue

CONSTANTS
  Roots,       \* the types decoded, each with the decoder's option, its entry point and documents
  MaxDecodes,  \* bound: calls
  MaxShares    \* bound: steps that share storage

ASSUME ReuseAssumption == MaxDecodes \in Nat /\ MaxShares \in Nat

VARIABLES
  root,     \* the entry of Roots this behaviour is about
  mem,      \* the words; the destination starts at word 1
  maps,     \* map id -> its entries, each the words of one element
  decodes,  \* calls made
  shares,   \* sharing steps taken
  last      \* what the last call did; << >> after a sharing step

vars == <<root, mem, maps, decodes, shares, last>>

(***************************************************************************)
(* What a successful decode of d should make of the tree `old': as         *)
(* encoding/json merges, or, under Replace, as into a fresh zero value.    *)
(***************************************************************************)
Field(t, key) == FindFieldSlow(t, key)

RECURSIVE Standard(_, _, _), SetAt(_, _, _, _, _)
(* The member at `path', through embedded structs and pointers. *)
SetAt(t, v, path, f, d) ==
  LET i == Head(path)
      m == Members(t)[i].type
      sub == v[2][i]
      base == IF Kind(m) = "pointer" THEN IF sub = Zero THEN ZeroTree(Elem(m)) ELSE sub[2] ELSE sub
      new == CASE Len(path) = 1 /\ f.quoted ->
                    (CASE d \in {Null, <<"qnull">>} /\ Kind(m) = "pointer" -> Zero
                       [] d \in {Null, <<"qnull">>} /\ Kind(m) # "pointer" -> IF root.replace THEN Zero ELSE sub
                       [] OTHER -> IF Kind(m) = "pointer" THEN <<"p", <<"v", d[2]>>>> ELSE <<"v", d[2]>>)
               [] Len(path) = 1 /\ ~f.quoted -> Standard(m, sub, d)
               [] Len(path) > 1 /\ Kind(m) = "pointer" -> <<"p", SetAt(Elem(m), base, Tail(path), f, d)>>
               [] OTHER -> SetAt(m, base, Tail(path), f, d)
  IN [v EXCEPT ![2][i] = new]

SetEntry(entries, key, v) == [k \in DOMAIN entries \union {key} |-> IF k = key THEN v ELSE entries[k]]

Standard(t, old, d) ==
  LET base == IF root.replace THEN ZeroTree(t) ELSE old
      Element(i, kept) == Standard(Elem(t), IF i <= Len(kept) THEN kept[i] ELSE ZeroTree(Elem(t)), d[2][i])
      Entry(entries, m) == SetEntry(entries, m[1], Standard(Elem(t), ZeroTree(Elem(t)), m[2]))
      Member(v, m) ==
        LET i == Field(t, m[1])
            at == InlineAt(t)
            entries == IF v[2][at] = Zero THEN << >> ELSE v[2][at][2]
            elem == Elem(InlineMap(t)) IN
        IF i # 0 THEN SetAt(t, v, Fields[t][i].path, Fields[t][i], m[2])
        ELSE IF HasInline(t)
        THEN [v EXCEPT ![2][at] = <<"m", SetEntry(entries, m[1], Standard(elem, ZeroTree(elem), m[2]))>>]
        ELSE v
      kept == IF base = Zero THEN << >> ELSE base[3]
      Byte(i) == IF d[2][i] # Null THEN <<"v", d[2][i][2]>>
                 ELSE IF base # Zero /\ i <= base[2] THEN base[3][i] ELSE Zero
  IN CASE Kind(t) \in {"scalar", "text"} -> IF d = Null THEN base ELSE <<"v", d[2]>>
       [] Kind(t) = "struct" -> IF d = Null THEN base ELSE FoldLeft(Member, base, d[2])
       [] Kind(t) = "array" ->
            IF d = Null THEN base
            ELSE <<"array", [i \in 1..ArrayLen(t) |->
                              IF i <= Len(d[2]) THEN Element(i, base[2]) ELSE ZeroTree(Elem(t))]>>
       [] Kind(t) \notin {"scalar", "text", "struct", "array"} /\ d = Null -> Zero
       [] Kind(t) = "pointer" /\ d # Null ->
            <<"p", Standard(Elem(t), IF base = Zero THEN ZeroTree(Elem(t)) ELSE base[2], d)>>
       [] Kind(t) = "slice" /\ d # Null ->
            IF d[2] = << >> THEN <<"s", 0, << >>>>
            ELSE <<"s", Len(d[2]), [i \in DOMAIN d[2] |-> Element(i, kept)]
                                     \o SubSeq(kept, Len(d[2]) + 1, Len(kept))>>
       [] Kind(t) = "bytes" /\ d[1] = "b64" -> <<"s", Len(d[2]), [i \in DOMAIN d[2] |-> <<"v", d[2][i]>>]>>
       [] Kind(t) = "bytes" /\ d[1] = "arr" -> <<"s", Len(d[2]), [i \in DOMAIN d[2] |-> Byte(i)]>>
       [] Kind(t) = "map" /\ d # Null ->
            <<"m", FoldLeft(Entry, IF base = Zero THEN << >> ELSE base[2], d[2])>>
       [] Kind(t) \in {"any", "iface"} /\ d # Null /\ Held(base) ->
            <<"box", base[2], Standard(base[2], base[3], d)>>
       [] OTHER -> <<"any", d>>

(***************************************************************************)
(* The places a value reaches, through its references, and the storage the *)
(* references own.  Elements of a map have no address: their words are     *)
(* read where they are.                                                    *)
(***************************************************************************)
RECURSIVE Parts(_, _)
Parts(t, a) ==
  {<<t, a>>} \union
  CASE Kind(t) = "struct" -> UNION {Parts(Members(t)[i].type, a + MemberOffset(t, i)) : i \in DOMAIN Members(t)}
    [] Kind(t) = "array" -> UNION {Parts(Elem(t), a + (i - 1) * Size(Elem(t))) : i \in 1..ArrayLen(t)}
    [] OTHER -> {}

(* `whole': up to the capacity of a slice, not its length. *)
Targets(M, place, whole) ==
  LET t == place[1]
      w == M[place[2]] IN
  CASE Kind(t) = "pointer" /\ w # Zero -> Parts(Elem(t), w[2])
    [] Kind(t) \in {"slice", "bytes"} /\ w # Zero ->
         UNION {Parts(SliceElem(t), w[2] + (i - 1) * Size(SliceElem(t))) : i \in 1..(IF whole THEN w[4] ELSE w[3])}
    [] Kind(t) \in {"any", "iface"} /\ Held(w) -> Parts(w[2], w[3])
    [] OTHER -> {}

RECURSIVE Reach(_, _, _, _)
Reach(M, whole, frontier, known) ==
  LET next == UNION {Targets(M, p, whole) : p \in frontier} \ known
  IN IF next = {} THEN known ELSE Reach(M, whole, next, known \union next)
Places(M, t) == Reach(M, FALSE, Parts(t, Dst), Parts(t, Dst))
Storage(M, t) == Reach(M, TRUE, Parts(t, Dst), Parts(t, Dst))

(* The words or the map a place owns; {} when it owns nothing. *)
Owned(M, place) ==
  LET t == place[1]
      w == M[place[2]] IN
  CASE Kind(t) = "pointer" /\ w # Zero -> w[2] .. w[2] + Size(Elem(t)) - 1
    [] Kind(t) \in {"slice", "bytes"} /\ w # Zero -> w[2] .. w[2] + w[4] * Size(SliceElem(t)) - 1
    [] Kind(t) \in {"any", "iface"} /\ Held(w) -> w[3] .. w[3] + Size(w[2]) - 1
    [] Kind(t) = "map" /\ w # Zero -> {-1 - w[2]}
    [] OTHER -> {}

Apart(M, t, places) ==
  /\ \A p \in places : Owned(M, p) \cap (Dst .. Dst + Size(t) - 1) = {}
  /\ \A p, q \in places : p # q => Owned(M, p) \cap Owned(M, q) = {}
Unshared(M, t) == Apart(M, t, Places(M, t))

(* Following pointers and the pointers interfaces hold from a place never  *)
(* ends: it comes back to a place already passed, or the type has nothing  *)
(* but pointers.                                                           *)
RECURSIVE ChainCycle(_, _, _, _)
ChainCycle(M, t, a, passed) ==
  LET w == M[a] IN
  CASE <<t, a>> \in passed \/ OnlyPointers(t, {}) -> TRUE
    [] Kind(t) = "pointer" /\ w # Zero -> ChainCycle(M, Elem(t), w[2], passed \union {<<t, a>>})
    [] Kind(t) \in {"any", "iface"} /\ Held(w) -> ChainCycle(M, w[2], w[3], passed \union {<<t, a>>})
    [] OTHER -> FALSE

(* A document with at most one member meets such a chain. *)
MeetsCycle(M, t, d) ==
  IF Kind(t) = "struct"
  THEN \E i \in DOMAIN Fields[t] :
         /\ d[1] = "obj" /\ \E j \in DOMAIN d[2] : d[2][j][1] = Fields[t][i].name /\ d[2][j][2] # Null
         /\ ChainCycle(M, Fields[t][i].node, Dst + Fields[t][i].offset, {})
  ELSE d # Null /\ ChainCycle(M, t, Dst, {})

(***************************************************************************)
(* The calls.                                                              *)
(***************************************************************************)
(* Decoder.DecodeArray: the destination is the backing of the slice the    *)
(* caller passes, whose header is the caller's own.                        *)
RunDecodeArray(replace, M, P, t, d) ==
  LET w == M[Dst]
      e == Elem(t)
  IN DecodeSlice(Context(replace, M, P, TracksArrayAliases(e),
                         IF TracksDestination(e) /\ Cap(w) # 0
                         THEN [ptr |-> Addr(w), span |-> Cap(w) * Size(e)] ELSE NoRange),
                 t, Dst, d)

Init ==
  /\ root \in Roots
  /\ mem = [i \in 1..Size(root.type) |-> Zero]
  /\ maps = << >> /\ decodes = 0 /\ shares = 0 /\ last = << >>

Finish(out, d) ==
  LET alone == Unshared(mem, root.type) IN
  /\ mem' = out.mem /\ maps' = out.maps
  /\ decodes' = decodes + 1
  /\ last' = [err |-> out.err, alone |-> alone, allocs |-> out.allocs,
              cyclic |-> MeetsCycle(mem, root.type, d),
              doc |-> d, again |-> last # << >> /\ last.err = "" /\ last.doc = d,
              want |-> IF out.err # "" \/ (~root.replace /\ ~Apart(mem, root.type, Storage(mem, root.type))) THEN << >>
                       ELSE Visible(Standard(root.type, IF root.replace THEN ZeroTree(root.type)
                                                        ELSE Read(mem, maps, root.type, Dst), d))]
  /\ UNCHANGED <<root, shares>>

Decode ==
  /\ decodes < MaxDecodes /\ root.entry = "Decode"
  /\ \E d \in root.docs : Finish(RunDecode(root.replace, mem, maps, root.type, d), d)

DecodeArrayCall ==
  /\ decodes < MaxDecodes /\ root.entry = "DecodeArray"
  /\ \E d \in root.docs : Finish(RunDecodeArray(root.replace, mem, maps, root.type, d), d)

(***************************************************************************)
(* The program's own steps.                                                *)
(***************************************************************************)
Share(a, w) ==
  /\ shares < MaxShares /\ decodes > 0 /\ decodes < MaxDecodes
  /\ mem[a] # w
  /\ mem' = [mem EXCEPT ![a] = w]
  /\ shares' = shares + 1 /\ last' = << >>
  /\ UNCHANGED <<root, maps, decodes>>

(* q = p, of two references of one type. *)
CopyReference ==
  \E p, q \in Places(mem, root.type) :
    /\ p # q /\ p[1] = q[1] /\ Kind(p[1]) \in {"pointer", "slice", "bytes", "map"}
    /\ mem[p[2]] # Zero
    /\ Share(q[2], mem[p[2]])

(* t = s[1:] *)
Reslice ==
  \E p, q \in Places(mem, root.type) :
    /\ p # q /\ p[1] = q[1] /\ Kind(p[1]) \in {"slice", "bytes"} /\ Length(mem[p[2]]) > 1
    /\ LET w == mem[p[2]]
       IN Share(q[2], <<"s", w[2] + Size(SliceElem(p[1])), w[3] - 1, w[4] - 1>>)

(* p = &x, s = x[:] *)
TakeAddress ==
  \E p, q \in Places(mem, root.type) :
    \/ Kind(p[1]) = "pointer" /\ Elem(p[1]) = q[1] /\ Share(p[2], <<"p", q[2]>>)
    \/ /\ Kind(p[1]) \in {"slice", "bytes"} /\ Kind(q[1]) = "array" /\ Elem(q[1]) = SliceElem(p[1])
       /\ Share(p[2], <<"s", q[2], ArrayLen(q[1]), ArrayLen(q[1])>>)

(* i = &x: an interface with a pointer in it. *)
BoxAddress ==
  \E p, q \in Places(mem, root.type) :
    /\ Kind(p[1]) \in {"any", "iface"} /\ q[1] \in root.boxed
    /\ Share(p[2], <<"box", q[1], q[2]>>)

(* The program fills a word JSON does not reach. *)
SetHidden ==
  \E p \in Places(mem, root.type) :
    p[1] \in root.hidden /\ Share(p[2], <<"v", 9>>)

Next == Decode \/ DecodeArrayCall \/ CopyReference \/ Reslice \/ TakeAddress \/ BoxAddress \/ SetHidden

Spec == Init /\ [][Next]_vars

(***************************************************************************)
(* Properties.                                                             *)
(***************************************************************************)
Succeeded == last # << >> /\ last.err = ""

(* Every reference the value reaches points into storage that exists. *)
TypeOK ==
  /\ root \in Roots /\ decodes \in 0..MaxDecodes /\ shares \in 0..MaxShares
  /\ \A p \in Places(mem, root.type) :
       /\ p[2] \in DOMAIN mem
       /\ Owned(mem, p) \subseteq DOMAIN mem \union {-1 - id : id \in DOMAIN maps}

(* After a call that succeeds the value reads as the document says: under  *)
(* Replace as if it had been decoded into a fresh zero value, whatever the *)
(* destination held, whatever earlier calls left behind half done and      *)
(* whatever of it was shared; without Replace as encoding/json merges the  *)
(* document into a value nothing of which is shared, the elements behind   *)
(* the lengths of its slices, which it decodes over, included.             *)
DecodesAsStandard ==
  Succeeded /\ last.want # << >> /\ Unshared(mem, root.type)
    => Visible(Read(mem, maps, root.type, Dst)) = last.want

(* A successful Replace decode leaves no two places of the value owning    *)
(* the same storage, and none owning the destination's own words: later    *)
(* writes to one member cannot show in another.                            *)
ResultUnshared == Succeeded /\ root.replace => Unshared(mem, root.type)

(* Replace keeps what is unique: decoding a document again, with nothing   *)
(* shared in between, allocates nothing.                                   *)
StorageReused ==
  Succeeded /\ root.replace /\ last.again /\ last.alone /\ root.reusable => last.allocs = 0

(* Decoding without Replace through pointers and interfaces that hold      *)
(* pointers stops with an error exactly when they form a cycle; it never   *)
(* runs around one and never mistakes a long chain for one.                *)
CyclesRefused ==
  last # << >> /\ ~root.replace => ((last.err = "cyclic") <=> last.cyclic)
=============================================================================
