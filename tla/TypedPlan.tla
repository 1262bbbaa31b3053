----------------------------- MODULE TypedPlan -----------------------------
(***************************************************************************)
(* The decode plan CompileDecoder builds for one Go type.                  *)
(*                                                                         *)
(* A Go type is a record: its kind, an element type for the kinds that     *)
(* have one, and for a struct its members in declaration order.  The       *)
(* memory it describes is counted in words: a scalar, a pointer, a slice   *)
(* header, a map and an interface take one word each, a struct and an      *)
(* array the words of their parts.  What the plan decides is derived here  *)
(* from the type as the compiler derives it: the flattened fields and the  *)
(* embedded pointers on the way to them, the resets of the state JSON does *)
(* not name, how a record tracks the members it has seen, and which plans  *)
(* track aliases.                                                          *)
(***************************************************************************)
EXTENDS Integers, Sequences, FiniteSets, SequencesExt

CONSTANTS
  Types,          \* type name -> description
  SeenBits,       \* the width of the narrow presence set: 64 in the code
  Fold            \* member name -> its case-folded form; itself when case matters

ASSUME SeenBitsAssumption == SeenBits \in Nat \ {0}

(* A type declared from another has its layout and none of its methods. *)
RECURSIVE Underlying(_)
Underlying(t) ==
  IF Types[t].kind # "named" THEN Types[t]
  ELSE [k \in DOMAIN Underlying(Types[t].of) \ {"method", "output"} |-> Underlying(Types[t].of)[k]]
Layout == [t \in DOMAIN Types |-> Underlying(t)]

Kind(t) == Layout[t].kind
Elem(t) == Layout[t].elem
Members(t) == Layout[t].members
ArrayLen(t) == Layout[t].length

(***************************************************************************)
(* Layout.                                                                 *)
(***************************************************************************)
RECURSIVE Size(_), MemberOffset(_, _)
Size(t) ==
  CASE Kind(t) = "array"  -> ArrayLen(t) * Size(Elem(t))
    [] Kind(t) = "struct" -> MemberOffset(t, Len(Members(t)) + 1)
    [] OTHER              -> 1

MemberOffset(t, i) ==
  IF i = 1 THEN 0 ELSE MemberOffset(t, i - 1) + Size(Members(t)[i - 1].type)

(***************************************************************************)
(* The members JSON names, in declaration order, with the words of the     *)
(* struct they live in.  A member of an embedded pointer is reached        *)
(* through a hop per pointer; its offset then counts from the last         *)
(* pointee.  `path' is the way to it through the Go members.               *)
(***************************************************************************)
RECURSIVE FieldsFrom(_, _, _, _)
MemberFields(m, at, hops, path) ==
  CASE m.tag \in {"field", "quoted", "omitempty", "omitzero"} ->
         << [name |-> m.name, node |-> m.type, offset |-> at, hops |-> hops,
             quoted |-> m.tag = "quoted", omit |-> m.tag, path |-> path] >>
    [] m.tag \in {"embed", "hiddenEmbed"} /\ Kind(m.type) = "struct" ->
         FieldsFrom(m.type, at, hops, path)
    [] m.tag \in {"embed", "hiddenEmbed"} /\ Kind(m.type) = "pointer" ->
         FieldsFrom(Elem(m.type), 0,
                    Append(hops, [offset |-> at, pointee |-> Elem(m.type),
                                  unexported |-> m.tag = "hiddenEmbed"]), path)
    [] OTHER -> << >>

FieldsFrom(t, offset, hops, path) ==
  FlattenSeq([i \in DOMAIN Members(t) |->
    MemberFields(Members(t)[i], offset + MemberOffset(t, i), hops, Append(path, i))])

StructTypes == {t \in DOMAIN Types : Kind(t) = "struct"}
Fields == [t \in StructTypes |-> FieldsFrom(t, 0, << >>, << >>)]

(* addTypedHopResets: every distinct prefix of embedded pointers, the      *)
(* outermost first.                                                        *)
HopPrefixes(hops) == [d \in DOMAIN hops |-> SubSeq(hops, 1, d)]
HopResets ==
  [t \in StructTypes |->
    FoldLeft(LAMBDA seen, f : seen \o SelectSeq(HopPrefixes(f.hops), LAMBDA p : p \notin ToSet(seen)),
             << >>, Fields[t])]

(* The catch-all map of a struct, the position of its member; 0 without.   *)
InlineAt(t) ==
  LET at == {i \in DOMAIN Members(t) : Members(t)[i].tag = "inline"}
  IN IF at = {} THEN 0 ELSE CHOOSE i \in at : TRUE
HasInline(t) == InlineAt(t) # 0
InlineOffset(t) == MemberOffset(t, InlineAt(t))
InlineMap(t) == Members(t)[InlineAt(t)].type

(***************************************************************************)
(* appendTypedIgnoredFieldResets: the words JSON never names.  Each one is *)
(* cleared before a record is decoded under Replace: members without a     *)
(* JSON name, and embedded pointers to unexported structs, which a fresh   *)
(* destination could not allocate through.                                 *)
(***************************************************************************)
RECURSIVE IgnoredFrom(_, _, _)
IgnoredMember(m, at, hops) ==
  CASE m.tag = "hidden" \/ (m.tag = "hiddenEmbed" /\ Kind(m.type) = "pointer") ->
         << [hops |-> hops, offset |-> at, size |-> Size(m.type)] >>
    [] m.tag \in {"embed", "hiddenEmbed"} /\ Kind(m.type) = "struct" ->
         IgnoredFrom(m.type, at, hops)
    [] m.tag = "embed" /\ Kind(m.type) = "pointer" ->
         IgnoredFrom(Elem(m.type), 0,
                     Append(hops, [offset |-> at, pointee |-> Elem(m.type), unexported |-> FALSE]))
    [] OTHER -> << >>

IgnoredFrom(t, offset, hops) ==
  FlattenSeq([i \in DOMAIN Members(t) |->
    IgnoredMember(Members(t)[i], offset + MemberOffset(t, i), hops)])
Ignored == [t \in StructTypes |-> IgnoredFrom(t, 0, << >>)]

(***************************************************************************)
(* typedReplaceReferenceCount, capped at two.  An array counts none: it is *)
(* cleared before its elements are decoded.  A map counts once: its        *)
(* elements are decoded in a box of their own.                             *)
(***************************************************************************)
Capped(n) == IF n > 2 THEN 2 ELSE n

RECURSIVE ReferenceCount(_, _)
ReferenceCount(t, visiting) ==
  CASE t \in visiting -> 1
    [] Kind(t) \in {"map", "bytes"} -> 1
    [] Kind(t) \in {"slice", "pointer"} ->
         IF ReferenceCount(Elem(t), visiting \union {t}) # 0 THEN 2 ELSE 1
    [] Kind(t) = "struct" ->
         Capped(FoldLeft(LAMBDA n, f : n + ReferenceCount(f.node, visiting \union {t}),
                         Len(HopResets[t]) + (IF HasInline(t) THEN 1 ELSE 0), Fields[t]))
    [] OTHER -> 0

(***************************************************************************)
(* prepareTypedWideSeen: how a record under Replace knows which members    *)
(* came.  A narrow record has one bit per field; a wide one, and one with  *)
(* ignored state, a presence set of its own; a long record of plain values *)
(* clears everything first.                                                *)
(***************************************************************************)
Wide(t) ==
  \/ Ignored[t] # << >>
  \/ /\ Len(Fields[t]) > SeenBits \/ (HasInline(t) /\ Len(Fields[t]) > SeenBits - 2)
     /\ HasInline(t) \/ \E f \in ToSet(Fields[t]) : f.hops # << >> \/ ReferenceCount(f.node, {}) # 0

Presence(t) ==
  CASE Wide(t)                  -> "wide"
    [] Len(Fields[t]) > SeenBits -> "resetFirst"
    [] OTHER                     -> "narrow"

(***************************************************************************)
(* typedReplaceReferenceMayAliasDestination: whether some reference of the *)
(* plan may point into the words of the destination itself.                *)
(***************************************************************************)
(* Go converts a pointer between types of one layout. *)
Convertible(a, b) ==
  /\ Kind(a) = Kind(b) /\ Size(a) = Size(b)
  /\ IF Kind(a) = "struct"
     THEN [i \in DOMAIN Members(a) |-> Members(a)[i].type]
            = [i \in DOMAIN Members(b) |-> Members(b)[i].type]
     ELSE Layout[a] = Layout[b]

(* typedStaticContains: by value, through structs and arrays. *)
RECURSIVE StaticContains(_, _)
StaticContains(container, target) ==
  \/ container = target
  \/ Convertible(container, target)
  \/ /\ Kind(container) = "struct"
     /\ \E i \in DOMAIN Members(container) : StaticContains(Members(container)[i].type, target)
  \/ Kind(container) = "array" /\ StaticContains(Elem(container), target)

(* typedStaticArrayContainsElement *)
RECURSIVE ArrayContains(_, _)
ArrayContains(container, target) ==
  \/ /\ Kind(container) = "struct"
     /\ \E i \in DOMAIN Members(container) : ArrayContains(Members(container)[i].type, target)
  \/ /\ Kind(container) = "array" /\ ArrayLen(container) > 0
     /\ Elem(container) = target \/ ArrayContains(Elem(container), target)

EitherContains(a, b) == StaticContains(a, b) \/ StaticContains(b, a)

ByteType == "byte"
SliceElem(t) == IF Kind(t) = "bytes" THEN ByteType ELSE Elem(t)

RECURSIVE MayAliasDestination(_, _, _)
MayAliasDestination(root, t, visiting) ==
  /\ t \notin visiting
  /\ \/ Kind(t) = "pointer" /\ EitherContains(root, Elem(t))
     \/ /\ Kind(t) \in {"slice", "bytes"}
        /\ root = SliceElem(t) \/ ArrayContains(root, SliceElem(t))
     \/ /\ Kind(t) = "struct"
        /\ \/ \E hops \in ToSet(HopResets[t]) : EitherContains(root, Last(hops).pointee)
           \/ \E f \in ToSet(Fields[t]) : MayAliasDestination(root, f.node, visiting \union {t})
           \/ HasInline(t)
              /\ MayAliasDestination(root, Elem(InlineMap(t)), visiting \union {t})
     \/ /\ Kind(t) \in {"pointer", "slice", "array", "map"}
        /\ MayAliasDestination(root, Elem(t), visiting \union {t})

(* The plan of Decode, and of DecodeArray, whose elements are roots. *)
TracksAliases(root) == ReferenceCount(root, {}) >= 2
TracksArrayAliases(root) == ReferenceCount(root, {}) # 0
TracksDestination(root) == MayAliasDestination(root, root, {})

(***************************************************************************)
(* Field lookup.  The expected field matches its own name, or a folded one *)
(* unless two fields fold alike (disableAmbiguousFieldFolds).  Otherwise   *)
(* an exact name wins over a folded one, and among those the first.        *)
(***************************************************************************)
Ambiguous(t, i) ==
  \E j \in DOMAIN Fields[t] \ {i} : Fold[Fields[t][j].name] = Fold[Fields[t][i].name]

MatchesExpected(t, i, key) ==
  \/ Fields[t][i].name = key
  \/ Fold[Fields[t][i].name] = Fold[key] /\ ~Ambiguous(t, i)

FirstField(t, S) == IF S = {} THEN 0 ELSE CHOOSE i \in S : \A j \in S : i <= j

FindFieldSlow(t, key) ==
  LET exact == {i \in DOMAIN Fields[t] : Fields[t][i].name = key}
      fold  == {i \in DOMAIN Fields[t] : Fold[Fields[t][i].name] = Fold[key]}
  IN IF exact # {} THEN FirstField(t, exact) ELSE FirstField(t, fold)

FieldFor(t, position, key) ==
  IF position <= Len(Fields[t]) /\ MatchesExpected(t, position, key)
  THEN position ELSE FindFieldSlow(t, key)
=============================================================================
