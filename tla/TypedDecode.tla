---------------------------- MODULE TypedDecode ----------------------------
(***************************************************************************)
(* Decoding one document into a caller's value with a compiled plan.       *)
(*                                                                         *)
(* The destination and everything it reaches are words of one memory.  The *)
(* plan runs over the document and writes in place; a call that fails      *)
(* leaves a part of its work behind.                                       *)
(*                                                                         *)
(* Words: << >> is the zero value of every kind, <<"v", n>> a scalar,      *)
(* <<"p", a>> a pointer, <<"s", a, len, cap>> a slice, <<"m", id>> a map,  *)
(* <<"any", d>> an interface holding the dynamic value of d, and           *)
(* <<"box", t, a>> an interface holding a pointer to a t at a.  Map        *)
(* entries are not addressable and are kept beside the memory.             *)
(*                                                                         *)
(* Documents: <<"null">>, <<"num", n>>, <<"str", s>>, <<"arr", elements>>, *)
(* <<"obj", <<name, value>> pairs>>, a string whose text is base64         *)
(* <<"b64", bytes, valid>>, a number <<"quot", n>> or null <<"qnull">>,    *)
(* and <<"bad">>, text that is no value at all.  An array or an object     *)
(* whose text breaks off has <<"cut">> in place of the rest.               *)
(***************************************************************************)
EXTENDS TypedPlan, ReplaceTracker

CONSTANTS
  MaxDepth,         \* DecoderOptions.MaxDepth
  MinSliceCap,      \* the first capacity a slice grows to: 4 in the code
  DisallowUnknown   \* DecoderOptions.DisallowUnknownFields

ASSUME DecodeAssumption ==
  MaxDepth \in Nat \ {0} /\ MinSliceCap \in Nat \ {0} /\ DisallowUnknown \in BOOLEAN

Zero == << >>
Null == <<"null">>
Cut == <<"cut">>

Addr(w) == IF w = Zero THEN 0 ELSE w[2]
Cap(w) == IF w = Zero THEN 0 ELSE w[4]
Length(w) == IF w = Zero THEN 0 ELSE w[3]

(***************************************************************************)
(* The context of one call: whether the plan is one of a Replace decoder   *)
(* (DecoderOptions.Replace), the memory, the alias tracker, the range of   *)
(* the destination when the plan watches it, the element boxes in use, the *)
(* nesting depth, the allocations made and the error.                      *)
(***************************************************************************)
Ok(cx) == cx.err = ""
Fail(cx, why) == [cx EXCEPT !.err = why]
Word(cx, a) == cx.mem[a]
Put(cx, a, w) == [cx EXCEPT !.mem[a] = w]
Clear(cx, S) == [cx EXCEPT !.mem = Eager([i \in DOMAIN @ |-> IF i \in S THEN Zero ELSE @[i]])]
Next0(cx) == Len(cx.mem) + 1
Extend(cx, n) == [cx EXCEPT !.mem = @ \o [i \in 1..n |-> Zero]]
Alloc(cx, n) == [Extend(cx, n) EXCEPT !.allocs = @ + 1]

AllocatePointer(cx, t, dst) ==
  Put(Alloc(cx, Size(Elem(t))), dst, <<"p", Next0(cx)>>)

Allocated(cx, t, dst) == IF Word(cx, dst) = Zero THEN AllocatePointer(cx, t, dst) ELSE cx

MakeMap(cx, dst) ==
  [Put(cx, dst, <<"m", Len(cx.maps) + 1>>) EXCEPT !.maps = Append(@, << >>), !.allocs = @ + 1]

SetMapIndex(cx, id, key, words) ==
  [cx EXCEPT !.maps[id] = [k \in DOMAIN @ \union {key} |-> IF k = key THEN words ELSE @[k]]]

(***************************************************************************)
(* Embedded pointers on the way to a promoted field.                       *)
(***************************************************************************)
(* resolveDecodeHops allocates; an unexported one it refuses to. *)
RECURSIVE ResolveHops(_, _, _)
ResolveHop(cx, slot, hop) ==
  CASE Word(cx, slot) # Zero -> cx
    [] Word(cx, slot) = Zero /\ hop.unexported -> Fail(cx, "cannot set embedded pointer")
    [] OTHER -> Put(Alloc(cx, Size(hop.pointee)), slot, <<"p", Next0(cx)>>)

FromHop(cx, slot, hops) ==
  IF Ok(cx) THEN ResolveHops(cx, Addr(Word(cx, slot)), hops) ELSE [cx |-> cx, at |-> slot]

ResolveHops(cx, dst, hops) ==
  IF hops = << >> THEN [cx |-> cx, at |-> dst]
  ELSE FromHop(ResolveHop(cx, dst + Head(hops).offset, Head(hops)), dst + Head(hops).offset, Tail(hops))

(* resolveResetHops: 0 when a link is nil. *)
RECURSIVE ResolveReset(_, _, _)
ResolveReset(cx, dst, hops) ==
  IF dst = 0 \/ hops = << >> THEN dst
  ELSE ResolveReset(cx, Addr(Word(cx, dst + Head(hops).offset)), Tail(hops))

(***************************************************************************)
(* Resets.  The words a value's own fields take, its embedded pointers and *)
(* its catch-all; a nested value contributes its fields only.              *)
(***************************************************************************)
RECURSIVE PlainWords(_, _)
PlainWords(t, offset) ==
  CASE Kind(t) = "struct" ->
         UNION {PlainWords(Fields[t][i].node, offset + Fields[t][i].offset) :
                  i \in {j \in DOMAIN Fields[t] : Fields[t][j].hops = << >>}}
           \union {offset + HopResets[t][i][1].offset :
                     i \in {j \in DOMAIN HopResets[t] : Len(HopResets[t][j]) = 1}}
           \union (IF HasInline(t) THEN {offset + InlineOffset(t)} ELSE {})
    [] Kind(t) = "array" ->
         UNION {PlainWords(Elem(t), offset + i * Size(Elem(t))) : i \in 0..ArrayLen(t) - 1}
    [] OTHER -> {offset}

IgnoredWords(cx, t, dst) ==
  IF ~cx.replace \/ Kind(t) # "struct" THEN {}
  ELSE UNION {LET op == Ignored[t][i]
                  at == ResolveReset(cx, dst, op.hops)
              IN IF at = 0 THEN {} ELSE at + op.offset .. at + op.offset + op.size - 1 :
                i \in DOMAIN Ignored[t]}

\* Mutant: state JSON does not name is left alone.
ResetIgnoredNever(cx, t, dst) == cx
ResetIgnored(cx, t, dst) == Clear(cx, IgnoredWords(cx, t, dst))
ResetTyped(cx, t, dst) == Clear(cx, IgnoredWords(cx, t, dst) \union PlainWords(t, dst))

(***************************************************************************)
(* Claims.                                                                 *)
(***************************************************************************)
Begin(cx, owner) == IF cx.tracked THEN [cx EXCEPT !.tr = BeginScope(@, owner)] ELSE cx
End(cx, previous) == IF cx.tracked THEN [cx EXCEPT !.tr = EndScope(@, previous)] ELSE cx
DropOwner(cx, owner) == [cx EXCEPT !.tr = ClearOwner(@, owner)]
StoreReference(cx, ref, live) == IF cx.tracked THEN [cx EXCEPT !.tr = Store(@, ref, live)] ELSE cx

(* pointerAliasesDestination *)
AliasesDestination(cx, ptr, span) ==
  /\ cx.dest.span # 0
  /\ IF ptr >= cx.dest.ptr THEN ptr - cx.dest.ptr < cx.dest.span \/ ptr = cx.dest.ptr
     ELSE cx.dest.ptr - ptr < span

(* replaceReferenceSeen: whether another slot owns the storage; a claim    *)
(* that is new or renewed is recorded.                                     *)
Seen(cx, ref) ==
  IF ref.kind # "map" /\ AliasesDestination(cx, ref.ptr, ref.span) THEN [seen |-> TRUE, cx |-> cx]
  ELSE IF ~cx.tracked THEN [seen |-> FALSE, cx |-> cx]
  ELSE IF Claimed(cx.tr, ref) THEN [seen |-> TRUE, cx |-> cx]
  ELSE [seen |-> FALSE, cx |-> StoreReference(cx, ref, TRUE)]

(* currentReplaceReference: what the slot holds now, and whether anything. *)
Reference(cx, t, dst) ==
  LET w == Word(cx, dst) IN
  CASE Kind(t) = "pointer" ->
         [kind |-> "pointer", scope |-> cx.tr.cur, owner |-> dst,
          ptr |-> Addr(w), span |-> Size(Elem(t))]
    [] Kind(t) = "map" ->
         [kind |-> "map", scope |-> cx.tr.cur, owner |-> dst, ptr |-> Addr(w), span |-> 0]
    [] OTHER ->
         [kind |-> "slice", scope |-> cx.tr.cur, owner |-> dst,
          ptr |-> IF Cap(w) = 0 THEN 0 ELSE Addr(w), span |-> Cap(w) * Size(SliceElem(t))]
Live(cx, t, dst) == Reference(cx, t, dst).ptr # 0

Refresh(cx, t, dst) == StoreReference(cx, Reference(cx, t, dst), Live(cx, t, dst))

(* A slot that was decoded claims what it holds now. *)
EndReference(cx, t, dst, previous) == End(IF Ok(cx) THEN Refresh(cx, t, dst) ELSE cx, previous)

\* Mutant: every pointer gets a new pointee.
ReusePointerNever(cx, t, dst) == AllocatePointer(cx, t, dst)

(* reuseReplacePointer: keep a unique pointee, replace a shared one. *)
KeepPointee(s, t, dst) == IF s.seen THEN AllocatePointer(s.cx, t, dst) ELSE s.cx
ReusePointer(cx, t, dst) ==
  IF Word(cx, dst) = Zero THEN AllocatePointer(cx, t, dst)
  ELSE KeepPointee(Seen(cx, Reference(cx, t, dst)), t, dst)

(* detachReplaceAlias *)
KeepOrDrop(s, dst) == IF s.seen THEN Put(s.cx, dst, Zero) ELSE s.cx
Detach(cx, t, dst) ==
  IF (~cx.tracked /\ cx.dest.span = 0) \/ ~Live(cx, t, dst) THEN cx
  ELSE KeepOrDrop(Seen(cx, Reference(cx, t, dst)), dst)

(* clearTypedReplaceReferences: the slots below a value that is about to   *)
(* be reset give their claims up.                                          *)
RECURSIVE OwnerSlots(_, _, _)
OwnerSlots(cx, t, dst) ==
  CASE Kind(t) \in {"pointer", "slice", "bytes", "map"} -> << dst >>
    [] Kind(t) = "struct" ->
         FlattenSeq([i \in DOMAIN HopResets[t] |->
           LET hops == HopResets[t][i]
               at == ResolveReset(cx, dst, Front(hops))
           IN IF at = 0 THEN << >> ELSE << at + Last(hops).offset >>])
         \o FlattenSeq([i \in DOMAIN Fields[t] |->
              LET at == ResolveReset(cx, dst, Fields[t][i].hops)
              IN IF at = 0 THEN << >> ELSE OwnerSlots(cx, Fields[t][i].node, at + Fields[t][i].offset)])
         \o (IF HasInline(t) THEN << dst + InlineOffset(t) >> ELSE << >>)
    [] Kind(t) = "array" ->
         FlattenSeq([i \in 1..ArrayLen(t) |->
                       OwnerSlots(cx, Elem(t), dst + (i - 1) * Size(Elem(t)))])
    [] OTHER -> << >>

ClearReferences(cx, t, dst) ==
  IF cx.tracked THEN FoldLeft(DropOwner, cx, OwnerSlots(cx, t, dst)) ELSE cx

(* prepareReplaceHops: embedded pointees are claimed before any field is   *)
(* decoded; one somebody else owns is let go.                              *)
KeepHop(s, slot, ref) ==
  IF s.seen THEN StoreReference(Put(s.cx, slot, Zero), [ref EXCEPT !.ptr = 0], FALSE)
  ELSE StoreReference(s.cx, ref, TRUE)

ClaimHop(cx, slot, ref) ==
  IF Word(cx, slot) = Zero THEN StoreReference(cx, ref, FALSE) ELSE KeepHop(Seen(cx, ref), slot, ref)

HopReference(cx, slot, hop) ==
  [kind |-> "pointer", scope |-> cx.tr.cur, owner |-> slot, ptr |-> Addr(Word(cx, slot)), span |-> Size(hop.pointee)]

InHop(cx, slot, hop) == ClaimHop(cx, slot, HopReference(cx, slot, hop))

PrepareHop(dst, c, hops) ==
  LET at   == ResolveReset(c, dst, Front(hops))
      slot == at + Last(hops).offset
  IN IF at = 0 \/ (\E j \in DOMAIN hops : hops[j].unexported) THEN c
     ELSE End(InHop(Begin(c, slot), slot, Last(hops)), c.tr.cur)

PrepareHops(cx, t, dst) ==
  IF cx.replace THEN FoldLeft(LAMBDA c, hops : PrepareHop(dst, c, hops), cx, HopResets[t]) ELSE cx

(* clearReplaceHop *)
ClearHop(cx, slot) == Put(IF cx.tracked THEN DropOwner(cx, slot) ELSE cx, slot, Zero)

(* resetMissingTypedFields, narrow and wide: `seen' holds the fields that  *)
(* came; an embedded pointer none of whose fields came returns to nil, the *)
(* inner ones first.                                                       *)
ResetField(cx, t, at) == IF at = 0 THEN cx ELSE ResetTyped(ClearReferences(cx, t, at), t, at)
Within(at, offset) == IF at = 0 THEN 0 ELSE at + offset
ResetFields(cx, t, dst, fields) ==
  FoldLeft(LAMBDA c, f : ResetField(c, f.node, Within(ResolveReset(c, dst, f.hops), f.offset)), cx, fields)

ResetHop(cx, at, offset) == IF at = 0 THEN cx ELSE ClearHop(cx, at + offset)
ResetHops(cx, dst, unused) ==
  FoldLeft(LAMBDA c, hops : ResetHop(c, ResolveReset(c, dst, Front(hops)), Last(hops).offset), cx, Reverse(unused))

ResetInline(cx, t, dst, seen) == IF HasInline(t) /\ ~seen THEN ClearHop(cx, dst + InlineOffset(t)) ELSE cx

ResetMissing(cx, t, dst, seen, inlineSeen) ==
  LET missing == SelectSeq(Fields[t], LAMBDA f : f \notin seen)
      unused  == SelectSeq(HopResets[t], LAMBDA hops : ~\E f \in seen : IsPrefix(hops, f.hops))
  IN ResetInline(ResetHops(ResetFields(cx, t, dst, missing), dst, unused), t, dst, inlineSeen)

(***************************************************************************)
(* Containers check the depth on the way in.                               *)
(***************************************************************************)
\* Mutant: the deepest container the limit allows is refused.
EnterEarly(cx, d, tag) ==
  IF d[1] # tag THEN Fail(cx, "expected " \o tag)
  ELSE IF cx.depth + 1 = MaxDepth THEN Fail(cx, "maximum depth")
  ELSE [cx EXCEPT !.depth = @ + 1]

Enter(cx, d, tag) ==
  IF d[1] # tag THEN Fail(cx, "expected " \o tag)
  ELSE IF cx.depth = MaxDepth THEN Fail(cx, "maximum depth")
  ELSE [cx EXCEPT !.depth = @ + 1]
Leave(cx) == IF Ok(cx) THEN [cx EXCEPT !.depth = @ - 1] ELSE cx

(* Skipping a value, and building one for an interface, read it whole. *)
RECURSIVE Depth(_)
Depth(d) ==
  CASE d[1] = "arr" -> 1 + FoldLeft(LAMBDA n, e : IF Depth(e) > n THEN Depth(e) ELSE n, 0, d[2])
    [] d[1] = "obj" -> 1 + FoldLeft(LAMBDA n, m : IF Depth(m[2]) > n THEN Depth(m[2]) ELSE n, 0, d[2])
    [] OTHER -> 0
RECURSIVE WellFormed(_)
WellFormed(d) ==
  CASE d[1] = "arr" -> \A i \in DOMAIN d[2] : WellFormed(d[2][i])
    [] d[1] = "obj" -> \A i \in DOMAIN d[2] : WellFormed(d[2][i][2])
    [] OTHER -> d \notin {<<"bad">>, Cut}
Skip(cx, d) ==
  IF ~WellFormed(d) THEN Fail(cx, "syntax")
  ELSE IF cx.depth + Depth(d) > MaxDepth THEN Fail(cx, "maximum depth") ELSE cx

(* A box for the elements of a map: one per plan node, another when that   *)
(* one is in use further out.                                              *)
TakeBox(cx, t) ==
  LET fresh == Next0(cx)
      size  == Size(Elem(t)) IN
  IF t \in DOMAIN cx.boxes /\ t \notin cx.busy
  THEN [cx |-> [cx EXCEPT !.busy = @ \union {t}], at |-> cx.boxes[t], owned |-> TRUE]
  ELSE IF t \in cx.busy THEN [cx |-> Extend(cx, size), at |-> fresh, owned |-> FALSE]
  ELSE [cx |-> [Extend(cx, size) EXCEPT !.boxes = [u \in DOMAIN @ \union {t} |->
                                                    IF u = t THEN fresh ELSE @[u]],
                                        !.busy = @ \union {t}],
        at |-> fresh, owned |-> TRUE]
ReleaseBox(cx, t, box) == IF box.owned THEN [cx EXCEPT !.busy = @ \ {t}] ELSE cx
BoxWords(cx, t, at) == SubSeq(cx.mem, at, at + Size(Elem(t)) - 1)
ClearBox(cx, t, at) == Clear(cx, at .. at + Size(Elem(t)) - 1)

(* typedPointerChainCycle: a type of pointers only, never a value. *)
RECURSIVE OnlyPointers(_, _)
OnlyPointers(t, seen) ==
  Kind(t) = "pointer" /\ (t \in seen \/ OnlyPointers(Elem(t), seen \union {t}))

(* nextTypedSliceCapacity and typedSliceState.grow *)
NextCapacity(current, required) ==
  LET twice == IF 2 * current < MinSliceCap THEN MinSliceCap ELSE 2 * current
  IN IF twice < required THEN required ELSE twice
Grow(cx, dst, count, size, capacity) ==
  LET old == Word(cx, dst)
      new == Next0(cx)
      big == Alloc(cx, capacity * size) IN
  [big EXCEPT !.mem = Eager([i \in DOMAIN @ |->
     IF i = dst THEN <<"s", new, count, capacity>>
     ELSE IF i \in new .. new + count * size - 1 THEN cx.mem[Addr(old) + (i - new)] ELSE @[i]])]

SetLen(cx, dst, n) ==
  LET w == Word(cx, dst) IN IF w = Zero THEN cx ELSE Put(cx, dst, <<"s", w[2], n, w[4]>>)
EmptySlice == <<"s", -1, 0, 0>>

Held(w) == w # Zero /\ w[1] = "box"

RECURSIVE DecodeCompiled(_, _, _, _), DecodeMembers(_, _, _, _), DecodeElements(_, _, _, _, _),
          DecodeArrayElements(_, _, _, _, _), DecodeEntries(_, _, _, _, _),
          CheckedPointer(_, _, _, _), PointerChain(_, _, _, _, _)

(***************************************************************************)
(* Scalars.  null leaves the value alone, and clears it under Replace.     *)
(***************************************************************************)
DecodeScalar(cx, t, dst, d) ==
  CASE d = Null -> IF cx.replace THEN Put(cx, dst, Zero) ELSE cx
    [] d[1] = (IF Kind(t) = "text" THEN "str" ELSE "num") -> Put(cx, dst, <<"v", d[2]>>)
    [] OTHER -> Fail(cx, "expected scalar")

(***************************************************************************)
(* Pointers.                                                               *)
(***************************************************************************)
(* decodePointerChain: pointers and the pointers interfaces hold, followed *)
(* without reading input.  Brent's check: the anchor is moved to the       *)
(* current place after 1, 2, 4, ... steps.                                 *)
From(t, dst) == [anchor |-> <<t, dst>>, span |-> 1, distance |-> 0]
Further(trail, place) ==
  IF trail.distance + 1 = trail.span THEN [anchor |-> place, span |-> 2 * trail.span, distance |-> 0]
  ELSE [trail EXCEPT !.distance = @ + 1]

Advance(cx, t, dst, trail, d) ==
  IF <<t, dst>> = trail.anchor THEN Fail(cx, "cyclic") ELSE PointerChain(cx, t, dst, Further(trail, <<t, dst>>), d)
AlongPointer(cx, t, dst, trail, d) == Advance(cx, Elem(t), Addr(Word(cx, dst)), trail, d)

PointerChain(cx, t, dst, trail, d) ==
  LET w == Word(cx, dst) IN
  CASE Kind(t) = "pointer" -> AlongPointer(Allocated(cx, t, dst), t, dst, trail, d)
    [] Kind(t) \in {"any", "iface"} /\ Held(w) ->
         IF OnlyPointers(w[2], {}) THEN Fail(cx, "cyclic") ELSE Advance(cx, w[2], w[3], trail, d)
    [] OTHER -> DecodeCompiled(cx, t, dst, d)

\* Mutant: a pointer held by an interface is taken for a cycle.
FollowChainRefuses(cx, t, dst, d) ==
  IF Kind(t) = "pointer" THEN Fail(cx, "cyclic") ELSE PointerChain(cx, t, dst, From(t, dst), d)
FollowChain(cx, t, dst, d) ==
  IF OnlyPointers(t, {}) THEN Fail(cx, "cyclic") ELSE PointerChain(cx, t, dst, From(t, dst), d)

(* decodeCompiledPointer, the merging kind. *)
IntoPointee(cx, t, dst, d) ==
  IF Kind(t) = "pointer" THEN FollowChain(cx, t, dst, d) ELSE DecodeCompiled(cx, t, dst, d)
ThroughPointer(cx, t, dst, d) == IntoPointee(cx, Elem(t), Addr(Word(cx, dst)), d)

DecodePointer(cx, t, dst, d) ==
  IF d = Null THEN Put(cx, dst, Zero) ELSE ThroughPointer(Allocated(cx, t, dst), t, dst, d)

(* decodeCheckedPointerReplace *)
IntoChecked(cx, t, dst, d) ==
  IF Kind(t) = "pointer" THEN CheckedPointer(cx, t, dst, d) ELSE DecodeCompiled(cx, t, dst, d)
ThroughChecked(cx, t, dst, d) == IntoChecked(cx, Elem(t), Addr(Word(cx, dst)), d)
RenewPointer(cx, t, dst, d) ==
  IF d = Null THEN Put(cx, dst, Zero) ELSE ThroughChecked(ReusePointer(cx, t, dst), t, dst, d)

CheckedPointer(cx, t, dst, d) ==
  EndReference(RenewPointer(Begin(cx, dst), t, dst, d), t, dst, cx.tr.cur)

(* decodeCompiledPointerReplace *)
DecodePointerReplace(cx, t, dst, d) ==
  IF d # Null /\ Kind(Elem(t)) = "pointer" /\ OnlyPointers(t, {}) THEN Fail(cx, "cyclic")
  ELSE CheckedPointer(cx, t, dst, d)

(***************************************************************************)
(* Slices and arrays.  Elements are decoded over what the backing holds; a *)
(* failing element leaves the ones before it.                              *)
(***************************************************************************)
RoomFor(cx, t, dst, i) ==
  IF i - 1 < Cap(Word(cx, dst)) THEN cx
  ELSE Grow(cx, dst, i - 1, Size(Elem(t)), NextCapacity(Cap(Word(cx, dst)), i))

DecodeElement(cx, t, dst, i, d) ==
  DecodeCompiled(cx, Elem(t), Addr(Word(cx, dst)) + (i - 1) * Size(Elem(t)), d)

DecodeElements(cx, t, dst, ds, i) ==
  IF i > Len(ds) \/ ~Ok(cx) THEN cx
  ELSE DecodeElements(IF ds[i] = Cut THEN Fail(cx, "syntax")
                      ELSE DecodeElement(SetLen(RoomFor(cx, t, dst, i), dst, i), t, dst, i, ds[i]), t, dst, ds, i + 1)

DecodeSliceIn(cx, t, dst, ds) ==
  CASE ~Ok(cx) -> cx
    [] Ok(cx) /\ ds = << >> -> Leave(Put(cx, dst, EmptySlice))
    [] OTHER -> Leave(DecodeElements(SetLen(cx, dst, 0), t, dst, ds, 1))

DecodeSlice(cx, t, dst, d) ==
  IF d = Null THEN Put(cx, dst, Zero) ELSE DecodeSliceIn(Enter(cx, d, "arr"), t, dst, d[2])

DecodeArrayElement(cx, t, dst, i, d) ==
  CASE d = Cut -> Fail(cx, "syntax")
    [] d # Cut /\ i > ArrayLen(t) -> Skip(cx, d)
    [] OTHER -> DecodeCompiled(cx, Elem(t), dst + (i - 1) * Size(Elem(t)), d)

DecodeArrayElements(cx, t, dst, ds, i) ==
  IF i > Len(ds) \/ ~Ok(cx) THEN cx
  ELSE DecodeArrayElements(DecodeArrayElement(cx, t, dst, i, ds[i]), t, dst, ds, i + 1)

(* Without Replace the elements the document lacks are cleared at the end. *)
ResetTail(cx, t, dst, n) ==
  IF cx.replace \/ ~Ok(cx) THEN cx
  ELSE Clear(cx, UNION {PlainWords(Elem(t), dst + i * Size(Elem(t))) : i \in n .. ArrayLen(t) - 1})

DecodeArrayIn(cx, t, dst, ds) ==
  IF Ok(cx) THEN Leave(ResetTail(DecodeArrayElements(cx, t, dst, ds, 1), t, dst, Len(ds))) ELSE cx
DecodeClearedArray(cx, t, dst, d) ==
  IF d = Null THEN cx ELSE DecodeArrayIn(Enter(cx, d, "arr"), t, dst, d[2])

DecodeArray(cx, t, dst, d) ==
  DecodeClearedArray(IF cx.replace THEN ResetTyped(cx, t, dst) ELSE cx, t, dst, d)

(***************************************************************************)
(* Byte slices: base64 text, or an array of integers.                      *)
(***************************************************************************)
WriteBytes(cx, at, bytes) ==
  [cx EXCEPT !.mem = Eager([i \in DOMAIN @ |->
     IF i \in at .. at + Len(bytes) - 1 THEN <<"v", bytes[i - at + 1]>> ELSE @[i]])]

DecodeBase64(cx, dst, d) ==
  LET n == Len(d[2])
      w == Word(cx, dst)
      fits == n <= Cap(w)
      at == IF fits THEN Addr(w) ELSE Next0(cx)
      filled == WriteBytes(IF fits THEN cx ELSE Alloc(cx, n), at, d[2]) IN
  IF ~d[3] THEN Fail(filled, "invalid base64")
  ELSE Put(filled, dst, IF n = 0 /\ Cap(w) = 0 THEN EmptySlice
                        ELSE <<"s", at, n, IF fits THEN Cap(w) ELSE n>>)

(* decodeBytesArray keeps its own slice and stores it at the end; `buf' is *)
(* that slice, longer by one whenever it is full.                          *)
DecodeByteElements(cx, dst, ds) ==
  LET Element(st, e) ==
        LET w == st.buf
            spare == st.count < Cap(w)
            copy == Next0(st.cx)
            cap == NextCapacity(Cap(w), st.count + 1)
            moved == Alloc(st.cx, cap)
            grown == IF spare THEN Put(st.cx, Addr(w) + st.count, Zero)
                     ELSE [moved EXCEPT !.mem = Eager([i \in DOMAIN @ |->
                             IF i \in copy .. copy + st.count - 1
                             THEN st.cx.mem[Addr(w) + (i - copy)] ELSE @[i]])]
            buf == IF st.count < Length(w) THEN w
                   ELSE IF spare THEN <<"s", Addr(w), st.count + 1, Cap(w)>>
                   ELSE <<"s", copy, st.count + 1, cap>>
            room == IF st.count < Length(w) THEN st.cx ELSE grown
            done == IF e = Cut THEN Fail(st.cx, "syntax")
                    ELSE DecodeScalar(room, ByteType, Addr(buf) + st.count, e)
        IN IF Ok(st.cx) THEN [cx |-> done, buf |-> buf, count |-> st.count + 1] ELSE st
      end == FoldLeft(Element, [cx |-> cx, buf |-> Word(cx, dst), count |-> 0], ds)
  IN IF ~Ok(end.cx) THEN end.cx
     ELSE Put(end.cx, dst, IF end.count = 0 THEN EmptySlice
                           ELSE <<"s", end.buf[2], end.count, end.buf[4]>>)

DecodeBytes(cx, t, dst, d) ==
  LET in == Enter(cx, d, "arr") IN
  CASE d = Null -> Put(cx, dst, Zero)
    [] d[1] = "arr" -> IF Ok(in) THEN Leave(DecodeByteElements(in, dst, d[2])) ELSE in
    [] d[1] = "b64" -> DecodeBase64(cx, dst, d)
    [] d[1] = "str" -> Fail(cx, "invalid base64")
    [] OTHER -> Fail(cx, "expected base64 string")

(***************************************************************************)
(* Maps: one element box for all entries, cleared before each.             *)
(***************************************************************************)
StoreEntry(cx, t, id, box, key) == IF Ok(cx) THEN SetMapIndex(cx, id, key, BoxWords(cx, t, box)) ELSE cx

DecodeEntry(cx, t, id, box, m) ==
  IF m[2] = Cut THEN Fail(cx, "syntax")
  ELSE StoreEntry(DecodeCompiled(ClearBox(cx, t, box), Elem(t), box, m[2]), t, id, box, m[1])

DecodeEntries(cx, t, id, box, members) ==
  IF members = << >> \/ ~Ok(cx) THEN cx
  ELSE DecodeEntries(DecodeEntry(cx, t, id, box, Head(members)), t, id, box, Tail(members))

OwnMap(cx, dst) ==
  CASE Word(cx, dst) = Zero -> MakeMap(cx, dst)
    [] Word(cx, dst) # Zero /\ cx.replace -> [cx EXCEPT !.maps[Addr(Word(cx, dst))] = << >>]
    [] OTHER -> cx

FillMap(box, t, dst, members) ==
  ReleaseBox(DecodeEntries(box.cx, t, Addr(Word(box.cx, dst)), box.at, members), t, box)
DecodeMapIn(cx, t, dst, members) ==
  IF Ok(cx) THEN Leave(FillMap(TakeBox(OwnMap(cx, dst), t), t, dst, members)) ELSE cx

DecodeMap(cx, t, dst, d) ==
  IF d = Null THEN Put(cx, dst, Zero) ELSE DecodeMapIn(Enter(cx, d, "obj"), t, dst, d[2])

(* decodeCompiledReferenceReplace *)
DecodeOwned(cx, t, dst, d) ==
  CASE Kind(t) = "slice" -> DecodeSlice(cx, t, dst, d)
    [] Kind(t) = "map"   -> DecodeMap(cx, t, dst, d)
    [] OTHER             -> DecodeBytes(cx, t, dst, d)
DecodeReferenceReplace(cx, t, dst, d) ==
  EndReference(DecodeOwned(Detach(Begin(cx, dst), t, dst), t, dst, d), t, dst, cx.tr.cur)

(***************************************************************************)
(* Interfaces.                                                             *)
(***************************************************************************)
DecodeAny(cx, t, dst, d) ==
  LET w == Word(cx, dst)
      built == Skip(cx, d) IN
  IF ~cx.replace /\ w # Zero /\ d = Null THEN Put(cx, dst, Zero)
  ELSE IF ~cx.replace /\ Held(w) THEN FollowChain(cx, w[2], w[3], d)
  ELSE IF Ok(built) THEN Put(cx, dst, IF d = Null THEN Zero ELSE <<"any", d>>) ELSE built

DecodeIface(cx, t, dst, d) ==
  LET w == Word(cx, dst) IN
  CASE d = Null -> Put(cx, dst, Zero)
    [] d # Null /\ cx.replace -> Fail(Put(cx, dst, Zero), "non-empty interface")
    [] d # Null /\ ~cx.replace /\ Held(w) -> FollowChain(cx, w[2], w[3], d)
    [] OTHER -> Fail(cx, "non-empty interface")

(***************************************************************************)
(* A number tagged `string', or a pointer to one.                          *)
(***************************************************************************)
Claims(cx, t) == Kind(t) = "pointer" /\ cx.replace
OpenQuoted(cx, t, dst) == IF Claims(cx, t) THEN Begin(cx, dst) ELSE cx
CloseQuoted(cx, t, dst, previous) == IF Claims(cx, t) THEN EndReference(cx, t, dst, previous) ELSE cx

QuotedPlace(cx, t, dst) ==
  CASE Kind(t) # "pointer" -> cx
    [] Claims(cx, t) -> ReusePointer(cx, t, dst)
    [] OTHER -> Allocated(cx, t, dst)
StoreQuoted(cx, t, dst, d) ==
  IF d[1] = "quot" THEN Put(cx, IF Kind(t) = "pointer" THEN Addr(Word(cx, dst)) ELSE dst, <<"v", d[2]>>)
  ELSE Fail(cx, "cannot parse string-tagged number")
QuotedValue(cx, t, dst, d) ==
  IF d \in {Null, <<"qnull">>} THEN ResetTyped(cx, t, dst) ELSE StoreQuoted(QuotedPlace(cx, t, dst), t, dst, d)

DecodeQuoted(cx, t, dst, d) ==
  CASE d \in {Null, <<"qnull">>} /\ Kind(t) # "pointer" /\ ~cx.replace -> cx
    [] d[1] \notin {"null", "qnull", "quot", "str"} -> Fail(cx, "expected quoted value")
    [] OTHER -> CloseQuoted(QuotedValue(OpenQuoted(cx, t, dst), t, dst, d), t, dst, cx.tr.cur)

(***************************************************************************)
(* Records.  `st' carries the loop: the context, the position of the field *)
(* expected next, the fields seen and the box of the catch-all map.        *)
(***************************************************************************)
(* takeInlineDecoder: the first entry of a Replace decode empties the map  *)
(* of the catch-all, or lets go of one that somebody else claimed.         *)
KeepInline(s, slot) ==
  IF s.cx.tracked /\ s.seen THEN Put(s.cx, slot, Zero)
  ELSE [s.cx EXCEPT !.maps[Addr(Word(s.cx, slot))] = << >>]
OwnInline(cx, map, slot) ==
  IF ~cx.replace \/ Word(cx, slot) = Zero THEN cx ELSE KeepInline(Seen(cx, Reference(cx, map, slot)), slot)

(* decodeInlineEntry *)
RenewInline(cx, map, slot) == IF Ok(cx) /\ cx.replace THEN Refresh(cx, map, slot) ELSE cx
InlineValue(cx, map, slot, box, m) ==
  RenewInline(DecodeEntry(cx, map, Addr(Word(cx, slot)), box, m), map, slot)
MadeInline(cx, slot) == IF Word(cx, slot) = Zero THEN MakeMap(cx, slot) ELSE cx
OpenInline(cx, first, map, slot) == IF first THEN OwnInline(cx, map, slot) ELSE cx

ScopedInline(cx, first, map, slot, box, m) ==
  IF cx.replace
  THEN End(InlineValue(MadeInline(OpenInline(Begin(cx, slot), first, map, slot), slot), map, slot, box, m), cx.tr.cur)
  ELSE InlineValue(MadeInline(cx, slot), map, slot, box, m)

FirstBox(st, map) == IF st.entries = 0 THEN TakeBox(st.cx, map) ELSE [st.box EXCEPT !.cx = st.cx]
WithEntry(st, box, map, slot, m) ==
  [st EXCEPT !.cx = ScopedInline(box.cx, st.entries = 0, map, slot, box.at, m), !.box = box, !.entries = @ + 1]
InlineEntry(st, t, dst, m) ==
  WithEntry(st, FirstBox(st, InlineMap(t)), InlineMap(t), dst + InlineOffset(t), m)

FieldValue(cx, f, at, d) ==
  IF f.quoted THEN DecodeQuoted(cx, f.node, at, d) ELSE DecodeCompiled(cx, f.node, at, d)
ResolvedField(r, f, d) == IF Ok(r.cx) THEN FieldValue(r.cx, f, r.at + f.offset, d) ELSE r.cx
DecodeField(st, dst, f, i, d) ==
  [st EXCEPT !.cx = ResolvedField(ResolveHops(@, dst, f.hops), f, d), !.position = i + 1, !.seen = @ \union {f}]

Unknown(cx, d) == IF DisallowUnknown THEN Fail(cx, "unknown field") ELSE Skip(cx, d)

DecodeMember(st, t, dst, m) ==
  LET field == FieldFor(t, st.position, m[1]) IN
  CASE m[2] = Cut -> [st EXCEPT !.cx = Fail(@, "syntax")]
    [] m[2] # Cut /\ field # 0 -> DecodeField(st, dst, Fields[t][field], field, m[2])
    [] m[2] # Cut /\ field = 0 /\ HasInline(t) -> InlineEntry(st, t, dst, m)
    [] OTHER -> [st EXCEPT !.cx = Unknown(@, m[2])]

DecodeMembers(st, t, dst, members) ==
  IF members = << >> \/ ~Ok(st.cx) THEN st
  ELSE DecodeMembers(DecodeMember(st, t, dst, Head(members)), t, dst, Tail(members))

ResetFirst(cx, t, dst) ==
  CASE cx.replace /\ Presence(t) = "wide" -> ResetIgnored(cx, t, dst)
    [] cx.replace /\ Presence(t) = "resetFirst" -> ResetTyped(cx, t, dst)
    [] OTHER -> cx
StartRecord(cx, t, dst) ==
  [cx |-> ResetFirst(PrepareHops(cx, t, dst), t, dst), position |-> 1, seen |-> {}, entries |-> 0, box |-> << >>]

ReleaseInline(cx, st, t) == IF st.entries > 0 THEN ReleaseBox(cx, InlineMap(t), st.box) ELSE cx
FinishRecord(st, t, dst) ==
  CASE ~Ok(st.cx) -> st.cx
    [] Ok(st.cx) /\ st.cx.replace /\ Presence(t) # "resetFirst" ->
         Leave(ReleaseInline(ResetMissing(st.cx, t, dst, st.seen, st.entries > 0), st, t))
    [] OTHER -> Leave(ReleaseInline(st.cx, st, t))

DecodeRecord(cx, t, dst, members) ==
  IF Ok(cx) THEN FinishRecord(DecodeMembers(StartRecord(cx, t, dst), t, dst, members), t, dst) ELSE cx

(* decodeCompiledStruct and decodeCompiledStructWide. *)
DecodeStruct(cx, t, dst, d) ==
  CASE d = Null /\ cx.replace -> ResetTyped(ClearReferences(cx, t, dst), t, dst)
    [] d = Null /\ ~cx.replace -> cx
    [] OTHER -> DecodeRecord(Enter(cx, d, "obj"), t, dst, d[2])

DecodeCompiled(cx, t, dst, d) ==
  CASE Kind(t) \in {"scalar", "text"} -> DecodeScalar(cx, t, dst, d)
    [] Kind(t) = "struct"  -> DecodeStruct(cx, t, dst, d)
    [] Kind(t) = "array"   -> DecodeArray(cx, t, dst, d)
    [] Kind(t) = "any"     -> DecodeAny(cx, t, dst, d)
    [] Kind(t) = "iface"   -> DecodeIface(cx, t, dst, d)
    [] Kind(t) = "pointer" -> IF cx.replace THEN DecodePointerReplace(cx, t, dst, d)
                              ELSE DecodePointer(cx, t, dst, d)
    [] cx.replace          -> DecodeReferenceReplace(cx, t, dst, d)
    [] Kind(t) = "slice"   -> DecodeSlice(cx, t, dst, d)
    [] Kind(t) = "map"     -> DecodeMap(cx, t, dst, d)
    [] OTHER               -> DecodeBytes(cx, t, dst, d)
=============================================================================
