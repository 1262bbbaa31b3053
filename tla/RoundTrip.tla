----------------------------- MODULE RoundTrip -----------------------------
(***************************************************************************)
(* A program that obtains a value, encodes it, and decodes the result into *)
(* another.  The value comes from a document or is built by the program.   *)
(* The abstract side is `Document': the JSON value that encoding/json      *)
(* makes of a Go value, computed on trees with no plan and no limits.      *)
(***************************************************************************)
EXTENDS EncoderExecute

CONSTANT Trips   \* the types, each with documents to decode and values to build

VARIABLES
  trip,    \* the entry of Trips this behaviour is about
  phase,   \* "start", "value", "encoded", "decoded", "again" or "refused"
  value,   \* the value at hand
  first,   \* what AppendJSON made of it; << >> before
  second   \* the same, after a round trip

tripVars == <<trip, phase, value, first, second>>

(***************************************************************************)
(* The reference.  A method is called on a value that has it, and through  *)
(* a pointer receiver only when the value can be addressed.                *)
(***************************************************************************)
RECURSIVE Document(_, _, _), Dynamic(_)
Dynamic(d) ==
  CASE d[1] = "arr" -> <<"arr", [i \in DOMAIN d[2] |-> Dynamic(d[2][i])]>>
    [] d[1] = "obj" ->
         LET last == LastMembers(d[2])
             names == SortNames(DOMAIN last)
         IN <<"obj", [i \in DOMAIN names |-> <<names[i], Dynamic(last[names[i]])>>]>>
    [] OTHER -> d

Sorted(entries, t) ==
  LET names == SortNames(DOMAIN entries)
  IN [i \in DOMAIN names |-> <<names[i], Document(t, entries[names[i]], FALSE)>>]

Member(t, v, addressable, f) ==
  LET part == At(v, f.path)
      quoted == IF Kind(f.node) = "pointer" /\ part = Zero THEN Null
                ELSE <<"quot", Number(IF Kind(f.node) = "pointer" THEN part[2] ELSE part)>>
  IN IF part = Missing \/ ShouldOmit(f.omit, f.node, part) THEN << >>
     ELSE << <<f.name, IF f.quoted THEN quoted ELSE Document(f.node, part, addressable \/ f.hops # << >>)>> >>

Document(t, v, addressable) ==
  IF Method(t) = "value" \/ (Method(t) = "pointer" /\ addressable) THEN MethodOutput(t)
  ELSE
  CASE Kind(t) = "struct" ->
         <<"obj", FlattenSeq([i \in DOMAIN Fields[t] |-> Member(t, v, addressable, Fields[t][i])])
                    \o (IF ~HasInline(t) THEN << >>
                        ELSE IF v[2][InlineAt(t)] = Zero THEN << >>
                        ELSE Sorted(v[2][InlineAt(t)][2], Elem(InlineMap(t))))>>
    [] Kind(t) = "array" -> <<"arr", [i \in DOMAIN v[2] |-> Document(Elem(t), v[2][i], addressable)]>>
    [] Kind(t) \in {"scalar", "text"} -> ScalarToken(t, v)
    [] Kind(t) \notin {"struct", "array", "scalar", "text"} /\ v = Zero -> Null
    [] Kind(t) = "pointer" /\ v # Zero -> Document(Elem(t), v[2], TRUE)
    [] Kind(t) = "slice" /\ v # Zero -> <<"arr", [i \in 1..v[2] |-> Document(Elem(t), v[3][i], TRUE)]>>
    [] Kind(t) = "bytes" /\ v # Zero -> <<"b64", [i \in 1..v[2] |-> Number(v[3][i])], TRUE>>
    [] Kind(t) = "map" /\ v # Zero -> <<"obj", Sorted(v[2], Elem(t))>>
    [] Kind(t) \in {"any", "iface"} /\ v # Zero /\ v[1] = "box" -> Document(v[2], v[3], TRUE)
    [] Kind(t) \in {"any", "iface"} /\ v # Zero /\ v[1] = "val" -> Document(v[2], v[3], FALSE)
    [] OTHER -> Dynamic(v[2])

(* The pointers on the longest way into a value. *)
RECURSIVE PointersOn(_)
PointersOn(v) ==
  LET Longest(S) == IF S = {} THEN 0 ELSE CHOOSE n \in S : \A m \in S : m <= n IN
  CASE v = Zero -> 0
    [] v # Zero /\ v[1] = "p" -> 1 + PointersOn(v[2])
    [] v # Zero /\ v[1] = "box" -> 1 + PointersOn(v[3])
    [] v # Zero /\ v[1] = "val" -> PointersOn(v[3])
    [] v # Zero /\ v[1] = "s" -> Longest({PointersOn(v[3][i]) : i \in 1..v[2]})
    [] v # Zero /\ v[1] \in {"struct", "array", "m"} -> Longest({PointersOn(v[2][i]) : i \in DOMAIN v[2]})
    [] OTHER -> 0

(***************************************************************************)
(* The program.                                                            *)
(***************************************************************************)
TripInit ==
  /\ trip \in Trips
  /\ phase = "start" /\ value = << >> /\ first = << >> /\ second = << >>

Outcome(call, t) ==
  [err |-> call.err, value |-> IF call.err = "" THEN Visible(Read(call.mem, call.maps, t, Dst)) ELSE << >>]
Decoded(t, d) == Outcome(RunDecode(FALSE, [i \in 1..Size(t) |-> Zero], << >>, t, d), t)

Receive(outcome, reached) ==
  /\ value' = outcome.value
  /\ phase' = IF outcome.err = "" THEN reached ELSE "refused"
  /\ UNCHANGED <<trip, first, second>>

DecodeDocument ==
  phase = "start" /\ \E d \in trip.docs : Receive(Decoded(trip.type, d), "value")

BuildValue ==
  /\ phase = "start"
  /\ value' \in trip.values
  /\ phase' = "value"
  /\ UNCHANGED <<trip, first, second>>

EncodeValue ==
  /\ phase = "value"
  /\ first' = AppendJSON(trip.type, value)
  /\ phase' = "encoded"
  /\ UNCHANGED <<trip, value, second>>

(* The text is read as the document it stands for. *)
DecodeAgain ==
  /\ phase = "encoded" /\ Good(first) /\ trip.decodable
  /\ Receive(Decoded(trip.type, Document(trip.type, value, TRUE)), "decoded")

EncodeAgain ==
  /\ phase = "decoded"
  /\ second' = AppendJSON(trip.type, value)
  /\ phase' = "again"
  /\ UNCHANGED <<trip, value, first>>

TripNext == DecodeDocument \/ BuildValue \/ EncodeValue \/ DecodeAgain \/ EncodeAgain

TripSpec == TripInit /\ [][TripNext]_tripVars

(***************************************************************************)
(* Properties.                                                             *)
(***************************************************************************)
(* AppendJSON appends the compact text of the document encoding/json makes *)
(* of the value, however the plan fused literals, skipped members, sorted  *)
(* entries or lost an address on the way; and it fails exactly when that   *)
(* document is deeper than the limit, a method returned no JSON, or more   *)
(* pointers than the limit follow each other.                              *)
EncodesAsStandard ==
  phase = "encoded" =>
    LET d == Document(trip.type, value, TRUE)
    IN IF WellFormed(d) /\ Depth(d) <= MaxDepth /\ PointersOn(value) <= MaxDepth
       THEN Good(first) /\ first.out = Render(d)
       ELSE ~Good(first)

(* What was encoded decodes again, and encodes to the same text. *)
RoundTrips ==
  /\ phase = "refused" => first = << >>
  /\ phase = "again" => Good(second) /\ second.out = first.out

(* `matching it here keeps documents this package decodes re-encodable':   *)
(* a value a Decoder produced has an encoding.                             *)
Reencodable == phase = "encoded" /\ trip.values = {} => Good(first)
=============================================================================
