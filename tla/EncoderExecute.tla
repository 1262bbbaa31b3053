--------------------------- MODULE EncoderExecute ---------------------------
(***************************************************************************)
(* Encoding one value with a compiled plan: what AppendJSON appends, or    *)
(* that it fails.  A value is a tree, as TypedValue reads it; in addition  *)
(* <<"val", t, v>> is an interface holding a t by value.                   *)
(***************************************************************************)
EXTENDS EncodePlan, TypedValue

CONSTANT NameOrder   \* the names of map keys in byte order

NullToken == <<"null">>
OpenBracket == <<"[">>
CloseBracket == <<"]">>
SortNames(S) == SelectSeq(NameOrder, LAMBDA k : k \in S)

Number(v) == IF v = Zero THEN 0 ELSE v[2]
ScalarToken(t, v) == << IF Kind(t) = "text" THEN "str" ELSE "num", Number(v) >>

(* A part of a value, through embedded structs and pointers; Missing       *)
(* behind a nil pointer.                                                   *)
Missing == <<"missing">>
RECURSIVE At(_, _)
At(v, path) ==
  LET part == v[2][Head(path)] IN
  IF Len(path) = 1 THEN part
  ELSE IF part = Zero THEN Missing
  ELSE At(IF part[1] = "p" THEN part[2] ELSE part, Tail(path))

(***************************************************************************)
(* Omission.                                                               *)
(***************************************************************************)
IsEmpty(t, v) ==
  CASE Kind(t) \in {"scalar", "text"} -> Number(v) = 0
    [] Kind(t) \in {"slice", "bytes"} -> v = Zero \/ v[2] = 0
    [] Kind(t) = "array" -> ArrayLen(t) = 0
    [] Kind(t) = "map" -> v = Zero \/ DOMAIN v[2] = {}
    [] Kind(t) = "struct" -> FALSE
    [] OTHER -> v = Zero
RECURSIVE IsZero(_, _)
IsZero(t, v) ==
  CASE Kind(t) \in {"scalar", "text"} -> Number(v) = 0
    [] Kind(t) = "struct" -> \A i \in DOMAIN Members(t) : IsZero(Members(t)[i].type, v[2][i])
    [] Kind(t) = "array" -> \A i \in DOMAIN v[2] : IsZero(Elem(t), v[2][i])
    [] OTHER -> v = Zero
ShouldOmit(omit, t, v) ==
  (omit = "omitempty" /\ IsEmpty(t, v)) \/ (omit = "omitzero" /\ IsZero(t, v))

(***************************************************************************)
(* The state of one call.                                                  *)
(***************************************************************************)
Good(e) == e.err = ""
Emit(e, tokens) == [e EXCEPT !.out = @ \o tokens]
Refuse(e, why) == [e EXCEPT !.err = why]
(* A container is entered at most MaxDepth deep. *)
Deeper(e, extra, token) ==
  IF e.depth + extra >= MaxDepth THEN Refuse(e, "depth") ELSE Emit([e EXCEPT !.depth = @ + 1], <<token>>)
Close(e, tokens) == IF Good(e) THEN Emit([e EXCEPT !.depth = @ - 1], tokens) ELSE e
Separate(e, i) == IF i > 1 THEN Emit(e, <<Comma>>) ELSE e

(* encodeMarshalerKind on what a method returned.  Short output needs no   *)
(* depth check of its own: a container takes two bytes.                    *)
SpliceOutput(e, d, text) ==
  IF ~WellFormed(d) THEN Refuse(e, "method")
  ELSE IF e.depth = 0 \/ Len(text) \div 2 <= MaxDepth - e.depth
       THEN IF Depth(d) > MaxDepth THEN Refuse(e, "depth") ELSE Emit(e, text)
  ELSE IF Depth(d) > MaxDepth - e.depth THEN Refuse(e, "depth") ELSE Emit(e, text)

(* The tokens of a document. *)
RECURSIVE Render(_)
Render(d) ==
  LET Part(i) == IF d[1] = "arr" THEN Render(d[2][i]) ELSE <<NameToken(d[2][i][1])>> \o Render(d[2][i][2])
      Parts0 == FlattenSeq([i \in DOMAIN d[2] |-> IF i > 1 THEN <<Comma>> \o Part(i) ELSE Part(i)])
  IN CASE d[1] = "arr" -> <<OpenBracket>> \o Parts0 \o <<CloseBracket>>
       [] d[1] = "obj" -> <<OpenBrace>> \o Parts0 \o <<CloseBrace>>
       [] OTHER -> <<d>>

(* The last member of each name, as a map built from an object has them. *)
LastMembers(ms) ==
  [k \in {ms[i][1] : i \in DOMAIN ms} |-> ms[CHOOSE i \in DOMAIN ms : ms[i][1] = k /\ \A j \in (i + 1)..Len(ms) : ms[j][1] # k][2]]

(* One element: addressable, not addressable, or a part of a dynamic value. *)
RECURSIVE EncodeElement(_, _, _, _)

(* encodeArray, encodeNonAddressableArray and the loop of encodeSlice. *)
EncodeElements(e, mode, t, values) ==
  LET in == Deeper(e, 0, OpenBracket)
      One(c, i) == IF Good(c) THEN EncodeElement(Separate(c, i), mode, t, values[i]) ELSE c
  IN IF ~Good(in) THEN in
     ELSE Close(FoldLeft(One, in, [i \in DOMAIN values |-> i]), <<CloseBracket>>)

(* The entries of a map in the order of their names; `started' when        *)
(* members of the same object came before.                                 *)
EncodeEntries(e, mode, t, entries, started) ==
  LET names == SortNames(DOMAIN entries)
      One(c, i) ==
        LET separated == IF started \/ i > 1 THEN Emit(c, <<Comma>>) ELSE c
        IN IF Good(c) THEN EncodeElement(Emit(separated, <<NameToken(names[i])>>), mode, t, entries[names[i]]) ELSE c
  IN FoldLeft(One, e, [i \in DOMAIN names |-> i])

(* encodeMapValue: values of a map are not addressable. *)
EncodeMap(e, mode, t, entries) ==
  LET in == Deeper(e, 0, OpenBrace) IN
  IF ~Good(in) THEN in ELSE Close(EncodeEntries(in, mode, t, entries, FALSE), <<CloseBrace>>)

(* encodeQuoted *)
EncodeQuoted(e, t, v) ==
  IF Kind(t) = "pointer" /\ v = Zero THEN Emit(e, <<NullToken>>)
  ELSE Emit(e, << << "quot", Number(IF Kind(t) = "pointer" THEN v[2] ELSE v) >> >>)

(* encodeStructFieldValue, and its form in a struct without an address. *)
EncodeField(e, f, v, addressable) ==
  IF f.quoted THEN EncodeQuoted(e, f.node, v)
  ELSE EncodeElement(e, IF ~addressable /\ f.hops = << >> /\ HasPtrMarshaler(f.node)
                        THEN "nonAddressable" ELSE "addressable", f.node, v)

(* encodeSimpleStructPairs: every member is written, commas included in    *)
(* the literals.                                                           *)
EncodePairs(e, t, v, addressable) ==
  FoldLeft(LAMBDA c, f : IF Good(c) THEN EncodeField(Emit(c, f.literal), f, At(v, f.path), addressable) ELSE c,
           e, EncodeProgram[t].fields)

(* The general loop: a member may be skipped, and the first one written    *)
(* loses its comma.                                                        *)
EncodeMember(addressable, v, c, f) ==
  LET part == At(v, f.path)
      started == c.started IN
  IF ~Good(c.e) \/ part = Missing \/ ShouldOmit(f.omit, f.node, part) THEN c
  ELSE [e |-> EncodeField(Emit(c.e, IF started THEN f.literal ELSE Tail(f.literal)), f, part, addressable),
        started |-> TRUE]
EncodeMembers(e, t, v, addressable) ==
  FoldLeft(LAMBDA c, f : EncodeMember(addressable, v, c, f), [e |-> e, started |-> FALSE], EncodeProgram[t].fields)

(* encodeInlineMembers *)
EncodeInline(c, t, v) ==
  LET rest == IF HasInline(t) THEN v[2][InlineAt(t)] ELSE Zero
  IN IF rest = Zero \/ ~Good(c.e) THEN c.e
     ELSE EncodeEntries(c.e, "nonAddressable", Elem(InlineMap(t)), rest[2], c.started)

EncodeStruct(e, t, v, addressable) ==
  LET in == Deeper(e, EncodeProgram[t].extra, OpenBrace)
  IN IF ~Good(in) THEN in
     ELSE IF Simple(t) THEN Close(EncodePairs(in, t, v, addressable), EncodeProgram[t].close)
     ELSE Close(EncodeInline(EncodeMembers(in, t, v, addressable), t, v), <<CloseBrace>>)

(* One more pointer on the way: a cycle shows as too many.  The pointer to *)
(* a type with a method has the method itself, and is not followed.        *)
Follow(e, t, v) ==
  CASE Method(t) # "none" -> EncodeElement(e, "addressable", t, v)
    [] Method(t) = "none" /\ e.pointers >= MaxDepth -> Refuse(e, "pointers")
    [] OTHER ->
         [EncodeElement([e EXCEPT !.pointers = @ + 1], "addressable", t, v) EXCEPT !.pointers = e.pointers]

(* encodeDynamicValue: what decoding into an interface made. *)
EncodeDynamic(e, d) ==
  CASE d[1] = "arr" -> EncodeElements(e, "dynamic", "any", d[2])
    [] d[1] = "obj" -> EncodeMap(e, "dynamic", "any", LastMembers(d[2]))
    [] OTHER -> Emit(e, <<d>>)

(* encodeAny *)
EncodeAny(e, v) ==
  CASE v = Zero -> Emit(e, <<NullToken>>)
    [] v # Zero /\ v[1] = "val" -> EncodeElement(e, "nonAddressable", v[2], v[3])
    [] v # Zero /\ v[1] = "box" -> Follow(e, v[2], v[3])
    [] OTHER -> EncodeDynamic(e, v[2])

(* encodeStructSlice tests the depth once for all its simple elements. *)
StructSliceTooDeep(e, t, v) ==
  /\ Kind(t) = "struct" /\ Method(t) = "none" /\ Simple(t) /\ v[2] > 0
  /\ e.depth + 1 + EncodeProgram[t].extra >= MaxDepth

EncodeSlice(e, t, v) ==
  IF StructSliceTooDeep(e, t, v) THEN Refuse(e, "depth")
  ELSE EncodeElements(e, "addressable", t, SubSeq(v[3], 1, v[2]))
EncodeArray(e, t, v) == EncodeElements(e, "addressable", t, v[2])

(* encodeKind with the kind of the type itself. *)
EncodeBase(e, t, v) ==
  CASE Kind(t) \in {"scalar", "text"} -> Emit(e, <<ScalarToken(t, v)>>)
    [] Kind(t) = "struct" -> EncodeStruct(e, t, v, TRUE)
    [] Kind(t) = "array" -> EncodeArray(e, Elem(t), v)
    [] Kind(t) \notin {"scalar", "text", "struct", "array", "any", "iface"} /\ v = Zero -> Emit(e, <<NullToken>>)
    [] Kind(t) = "bytes" /\ v # Zero ->
         Emit(e, << <<"b64", [i \in 1..v[2] |-> Number(v[3][i])], TRUE>> >>)
    [] Kind(t) = "slice" /\ v # Zero -> EncodeSlice(e, Elem(t), v)
    [] Kind(t) = "map" /\ v # Zero -> EncodeMap(e, "nonAddressable", Elem(t), v[2])
    [] Kind(t) = "pointer" /\ v # Zero -> Follow(e, Elem(t), v[2])
    [] OTHER -> EncodeAny(e, v)

(* encode: an addressable value, or one without pointer-only methods. *)
Encode(e, t, v) ==
  IF Method(t) # "none" THEN SpliceOutput(e, MethodOutput(t), Render(MethodOutput(t))) ELSE EncodeBase(e, t, v)

(* encodeNonAddressable: a value of a map or of an interface. *)
EncodeNonAddressable(e, t, v) ==
  CASE ~HasPtrMarshaler(t) -> EncodeElement(e, "addressable", t, v)
    [] HasPtrMarshaler(t) /\ Kind(t) = "struct" -> EncodeStruct(e, t, v, FALSE)
    [] HasPtrMarshaler(t) /\ Kind(t) = "array" ->
         EncodeElements(e, IF HasPtrMarshaler(Elem(t)) THEN "nonAddressable" ELSE "addressable", Elem(t), v[2])
    [] OTHER -> EncodeBase(e, t, v)

EncodeElement(e, mode, t, v) ==
  CASE mode = "addressable" -> Encode(e, t, v)
    [] mode = "nonAddressable" -> EncodeNonAddressable(e, t, v)
    [] mode = "dynamic" -> EncodeAny(e, IF v = Null THEN Zero ELSE <<"any", v>>)

AppendJSON(t, v) == EncodeElement([out |-> << >>, depth |-> 0, pointers |-> 0, err |-> ""], "addressable", t, v)
=============================================================================
