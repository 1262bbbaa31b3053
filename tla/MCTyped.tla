------------------------------ MODULE MCTyped ------------------------------
(***************************************************************************)
(* Types, documents and values for compiled decoding and encoding.  A      *)
(* behaviour decodes into one value again and again, with Replace or       *)
(* without, or takes one value through a round trip.                       *)
(***************************************************************************)
EXTENDS DecodeReuse, RoundTrip, TLC

VARIABLE subject    \* "reuse" or "trip"

Ptr(e) == [kind |-> "pointer", elem |-> e]
Slice(e) == [kind |-> "slice", elem |-> e]
MapOf(e) == [kind |-> "map", elem |-> e]
Arr(e, n) == [kind |-> "array", elem |-> e, length |-> n]
Struct(ms) == [kind |-> "struct", members |-> ms]
M(name, type, tag) == [name |-> name, type |-> type, tag |-> tag]
F(name, type) == M(name, type, "field")
Custom(base, method, output) ==
  [k \in DOMAIN base \union {"method", "output"} |->
     IF k = "method" THEN method ELSE IF k = "output" THEN output ELSE base[k]]

N(n) == <<"num", n>>
S(n) == <<"str", n>>
A(s) == <<"arr", s>>
O(s) == <<"obj", s>>
Q(n) == <<"quot", n>>
V(n) == <<"v", n>>
Obj(s) == <<"struct", s>>

MCOrder == <<"a", "A", "b", "c", "d", "e", "f", "i", "in", "j", "k", "m", "n", "o", "p", "q", "r", "s", "t", "u",
             "v", "w", "x", "y", "z">>
MCFold == [k \in ToSet(MCOrder) |-> IF k = "A" THEN "a" ELSE k]

-----------------------------------------------------------------------------
(***************************************************************************)
(* "reuse".                                                                *)
(***************************************************************************)
ReuseTypes ==
  [int   |-> [kind |-> "scalar"], byte |-> [kind |-> "scalar"], text |-> [kind |-> "text"],
   secret |-> [kind |-> "named", of |-> "int"],
   any   |-> [kind |-> "any"], iface |-> [kind |-> "iface"], bytes |-> [kind |-> "bytes"],
   pint  |-> Ptr("int"), ppint |-> Ptr("pint"), pany |-> Ptr("any"), sint |-> Slice("int"),
   mint  |-> MapOf("int"), int2 |-> Arr("int", 2), byte2 |-> Arr("byte", 2),
   pair  |-> Struct(<<F("a", "pint"), F("b", "pint"), F("x", "int")>>),
   wins  |-> Struct(<<F("a", "sint"), F("b", "sint"), F("r", "int2")>>),
   mps   |-> Struct(<<F("a", "mint"), F("b", "mint"), M("inline", "mint", "inline")>>),
   emb   |-> Struct(<<F("x", "int"), F("y", "int")>>), pemb |-> Ptr("emb"),
   outer |-> Struct(<<M("embed", "pemb", "embed"), F("o", "pemb"), F("z", "int")>>),
   list  |-> Struct(<<F("v", "int"), F("n", "plist")>>), plist |-> Ptr("list"),
   row   |-> Struct(<<F("p", "pint"), F("s", "sint")>>), rows |-> Slice("row"),
   quo   |-> Struct(<<M("q", "pint", "quoted"), F("p", "pint"),
                      M("n", "int", "quoted")>>),
   blobs |-> Struct(<<F("a", "bytes"), F("b", "bytes"), F("r", "byte2")>>),
   dyn   |-> Struct(<<F("i", "any"), F("p", "pint"), F("f", "iface")>>),
   wide  |-> Struct(<<F("a", "pint"), F("b", "int"), F("c", "sint"), F("d", "pint")>>),
   plain |-> Struct(<<F("a", "int"), F("b", "text"), F("A", "int"), F("d", "int")>>),
   hid   |-> Struct(<<M("hidden", "secret", "hidden"), F("x", "int"), M("hiddenEmbed", "pemb2", "hiddenEmbed"), F("p", "pint")>>),
   emb2  |-> Struct(<<F("w", "int"), M("hidden", "secret", "hidden")>>), pemb2 |-> Ptr("emb2"),
   deep  |-> Struct(<<M("embed", "pmid", "embed"), F("m", "pmid"), F("e", "pemb2")>>),
   mid   |-> Struct(<<M("embed", "pemb2", "embed"), F("k", "int")>>), pmid |-> Ptr("mid"),
   dict  |-> MapOf("row"),
   prs   |-> Arr("pint", 2), arrs |-> Struct(<<F("a", "prs"), F("p", "pint")>>),
   chain |-> Struct(<<F("i", "any"), F("j", "any"), F("p", "pany")>>),
   ppair |-> Ptr("pair"), pp2 |-> Struct(<<F("a", "ppair"), F("b", "pint")>>),
   loop  |-> Ptr("loop"),
   box2  |-> Struct(<<F("x", "int"), M("hidden", "secret", "hidden")>>),
   nest  |-> Struct(<<F("in", "box2"), F("z", "int")>>)]

Root(t, docs) == [type |-> t, replace |-> FALSE, entry |-> "Decode", docs |-> docs, boxed |-> {}, hidden |-> {},
                  reusable |-> TRUE]
Replacing(roots) == {[r EXCEPT !.replace = TRUE] : r \in roots}

PairRoot == Root("pair",
  {O(<<<<"a", N(1)>>, <<"b", N(2)>>, <<"x", N(3)>>>>), O(<<<<"b", N(2)>>, <<"a", N(1)>>>>),
   O(<<<<"a", N(1)>>, <<"b", <<"bad">>>>>>), O(<<<<"x", N(3)>>, <<"b", N(4)>>>>), Null})
WinsRoot == Root("wins",
  {O(<<<<"a", A(<<N(1), N(2), N(3)>>)>>, <<"b", A(<<N(4), N(5)>>)>>, <<"r", A(<<N(6), N(7)>>)>>>>),
   O(<<<<"b", A(<<N(4)>>)>>, <<"a", A(<<N(1), Cut>>)>>>>),
   O(<<<<"r", A(<<N(6)>>)>>, <<"a", A(<<N(1), N(2)>>)>>, <<"b", A(<<N(3)>>)>>>>),
   O(<<<<"b", A(<<>>)>>, <<"r", Null>>, <<"a", A(<<Null>>)>>>>)})
MapsRoot == Root("mps",
  {O(<<<<"a", O(<<<<"p", N(1)>>, <<"q", N(2)>>>>)>>, <<"b", O(<<<<"p", N(3)>>>>)>>, <<"u", N(4)>>>>),
   O(<<<<"u", N(5)>>, <<"b", O(<<<<"q", N(6)>>>>)>>, <<"k", N(6)>>>>),
   O(<<<<"b", O(<<>>)>>, <<"a", Null>>, <<"u", <<"bad">>>>>>)})
OuterRoot == Root("outer",
  {O(<<<<"x", N(1)>>, <<"o", O(<<<<"x", N(2)>>, <<"y", N(3)>>>>)>>>>),
   O(<<<<"o", O(<<<<"y", N(3)>>>>)>>, <<"y", N(4)>>>>),
   O(<<<<"o", O(<<<<"x", N(5)>>>>)>>, <<"z", N(1)>>>>), O(<<<<"x", N(1)>>>>),
   O(<<<<"y", N(2)>>, <<"o", Null>>, <<"z", <<"bad">>>>>>)})
ListRoot == Root("list",
  {O(<<<<"v", N(1)>>, <<"n", O(<<<<"v", N(2)>>, <<"n", O(<<<<"v", N(3)>>>>)>>>>)>>>>),
   O(<<<<"n", O(<<<<"n", O(<<<<"v", N(3)>>, <<"n", O(<<>>)>>>>)>>>>)>>, <<"v", N(1)>>>>)})
TwiceRoot == [Root("list",
  {O(<<<<"n", O(<<<<"v", N(4)>>>>)>>, <<"n", O(<<<<"n", O(<<>>)>>>>)>>>>),
   O(<<<<"n", O(<<<<"v", N(1)>>>>)>>, <<"n", Null>>>>)})
   EXCEPT !.reusable = FALSE]
RowsRoot == [Root("rows",
  {A(<<O(<<<<"p", N(1)>>, <<"s", A(<<N(2)>>)>>>>), O(<<<<"p", N(3)>>>>)>>),
   A(<<O(<<<<"s", A(<<N(2), N(4)>>)>>>>), O(<<<<"p", N(3)>>>>), O(<<<<"p", N(5)>>, <<"s", A(<<N(6)>>)>>>>)>>),
   A(<<O(<<<<"p", N(1)>>>>), O(<<<<"p", <<"bad">>>>>>)>>), A(<<O(<<>>)>>)})
   EXCEPT !.entry = "DecodeArray"]
QuoRoot == Root("quo",
  {O(<<<<"q", Q(1)>>, <<"p", N(2)>>, <<"n", Q(3)>>>>), O(<<<<"p", N(2)>>, <<"q", Q(4)>>>>),
   O(<<<<"q", <<"qnull">>>>, <<"n", <<"qnull">>>>, <<"p", N(5)>>>>),
   O(<<<<"q", <<"str", "u">>>>>>), O(<<<<"q", Null>>, <<"n", Null>>>>)})
BlobsRoot == Root("blobs",
  {O(<<<<"a", <<"b64", <<1, 2>>, TRUE>>>>, <<"b", A(<<N(3), N(4)>>)>>, <<"r", A(<<N(5)>>)>>>>),
   O(<<<<"b", A(<<N(6), Null, N(7)>>)>>, <<"a", <<"b64", <<8>>, TRUE>>>>>>),
   O(<<<<"b", <<"b64", <<9>>, FALSE>>>>>>), O(<<<<"a", <<"b64", << >>, TRUE>>>>, <<"b", A(<<>>)>>>>)})
DynRoot == [Root("dyn",
  {O(<<<<"i", A(<<N(1)>>)>>, <<"p", N(2)>>>>), O(<<<<"p", N(2)>>, <<"i", N(3)>>>>),
   O(<<<<"i", Null>>, <<"f", Null>>>>), O(<<<<"i", N(4)>>, <<"f", N(5)>>>>)})
   EXCEPT !.boxed = {"int", "pint"}]
WideRoot == Root("wide",
  {O(<<<<"a", N(1)>>, <<"c", A(<<N(2)>>)>>, <<"d", N(3)>>>>), O(<<<<"d", N(1)>>, <<"a", N(4)>>, <<"b", N(5)>>>>),
   O(<<<<"c", A(<<N(6), N(7)>>)>>>>)})
PlainRoot == Root("plain",
  {O(<<<<"a", N(1)>>, <<"b", <<"str", 2>>>>, <<"A", N(3)>>, <<"d", N(4)>>>>), O(<<<<"A", N(5)>>, <<"d", Null>>>>),
   O(<<<<"b", <<"str", 6>>>>, <<"u", N(1)>>, <<"a", N(7)>>>>), Null})
HidRoot == [Root("hid",
  {O(<<<<"x", N(1)>>, <<"p", N(2)>>>>), O(<<<<"w", N(3)>>>>), O(<<<<"p", N(4)>>>>), Null})
   EXCEPT !.hidden = {"secret"}]
DeepRoot == [Root("deep",
  {O(<<<<"w", N(1)>>, <<"k", N(2)>>, <<"e", O(<<<<"w", N(3)>>>>)>>>>),
   O(<<<<"m", O(<<<<"k", N(4)>>, <<"w", N(5)>>>>)>>, <<"k", N(6)>>>>),
   O(<<<<"e", O(<<>>)>>, <<"w", N(7)>>>>)})
   EXCEPT !.hidden = {"secret"}]
DictRoot == [Root("dict",
  {O(<<<<"k", O(<<<<"p", N(1)>>, <<"s", A(<<N(2)>>)>>>>)>>, <<"m", O(<<<<"p", N(3)>>>>)>>>>),
   O(<<<<"m", O(<<<<"s", A(<<N(4)>>)>>>>)>>, <<"k", Null>>>>), O(<<<<"k", O(<<<<"p", <<"bad">>>>>>)>>>>)})
   EXCEPT !.reusable = FALSE]
ArrsRoot == [Root("arrs",
  {O(<<<<"a", A(<<N(1), N(2), N(3)>>)>>, <<"p", N(4)>>>>), O(<<<<"p", N(5)>>, <<"a", A(<<N(6)>>)>>>>)})
   EXCEPT !.reusable = FALSE]
PP2Root == Root("pp2",
  {O(<<<<"a", O(<<<<"a", N(1)>>, <<"b", N(2)>>>>)>>, <<"b", N(3)>>>>),
   O(<<<<"b", N(3)>>, <<"a", O(<<<<"x", N(4)>>, <<"a", N(5)>>>>)>>>>)})
ChainRoot == [Root("chain",
  {O(<<<<"i", N(1)>>>>), O(<<<<"j", N(2)>>>>), O(<<<<"p", N(3)>>>>), O(<<<<"i", Null>>>>)})
   EXCEPT !.boxed = {"any", "pany"}]
LoopRoot == Root("loop", {Null, N(1)})

NestRoot == [Root("nest", {O(<<<<"in", O(<<<<"x", N(1)>>>>)>>>>), Null}) EXCEPT !.hidden = {"secret"}]

Both == {PairRoot, WinsRoot, MapsRoot, OuterRoot, ListRoot, TwiceRoot, RowsRoot, QuoRoot, BlobsRoot, DynRoot,
         PlainRoot, HidRoot, DeepRoot, DictRoot, ArrsRoot, LoopRoot}
MCRoots == Both \union {ChainRoot} \union Replacing(Both \union {WideRoot, PP2Root})
NestRoots == Replacing({NestRoot})

-----------------------------------------------------------------------------
(***************************************************************************)
(* "trip".                                                                 *)
(***************************************************************************)
One == Struct(<<F("x", "int")>>)

TripTypes ==
  [none  |-> Struct(<<>>),
   point |-> Struct(<<F("x", "int"), F("y", "int")>>),
   seg   |-> Struct(<<F("a", "point"), F("b", "point"), F("t", "text")>>),
   mixed |-> Struct(<<F("a", "none"), F("b", "point"), F("c", "none"), M("q", "pint", "quoted"), F("d", "bytes"), F("e", "none")>>),
   tail  |-> Struct(<<F("a", "seg"), F("p", "pint"), F("b", "point")>>),
   segs  |-> Slice("seg"), tails |-> Slice("tail"), points |-> Slice("point"), deepp |-> Struct(<<F("s", "points")>>), deeper |-> Slice("deepp"),
   opt   |-> Struct(<<M("a", "int", "omitempty"), M("b", "point", "omitzero"), M("c", "sint", "omitempty"),
                      M("d", "point", "omitempty"), M("e", "pint", "omitzero"), M("p", "mint", "omitempty")>>),
   rest  |-> Struct(<<M("a", "int", "omitempty"), M("inline", "mint", "inline")>>),
   ppnt  |-> Ptr("point"), embp |-> Struct(<<M("ppnt", "ppnt", "embed"), F("t", "text")>>),
   tree  |-> Struct(<<F("s", "trees"), F("p", "ptree")>>), trees |-> Slice("tree"), ptree |-> Ptr("tree"),
   two   |-> Struct(<<F("p", "pptwo")>>), pptwo |-> Ptr("ptwo"), ptwo |-> Ptr("two"),
   dyns  |-> MapOf("any"), anys |-> Struct(<<F("a", "any"), F("b", "any")>>),
   byval |-> Custom(One, "value", A(<<S(1)>>)), byptr |-> Custom(One, "pointer", A(<<A(<<>>)>>)),
   broken |-> Custom(One, "value", <<"bad">>), tall |-> Custom(One, "pointer", A(<<A(<<A(<<>>)>>), N(1), N(2), N(3)>>)),
   hooks |-> Struct(<<F("v", "byval"), F("p", "byptr"), F("s", "sptr"), F("r", "ptr2"), F("q", "pptr")>>),
   sptr  |-> Slice("byptr"), ptr2 |-> Arr("byptr", 2), pptr |-> Ptr("byptr"),
   mhook |-> MapOf("hooks"), marr |-> MapOf("ptr2"), ahook |-> Struct(<<F("a", "any"), F("m", "marr")>>),
   onlye |-> Struct(<<F("a", "none"), F("b", "none")>>), outere |-> Struct(<<F("x", "int"), F("e", "onlye")>>)]

Trip(t, docs) == [type |-> t, docs |-> docs, values |-> {}, decodable |-> TRUE]
Built(t, values) == [type |-> t, docs |-> {}, values |-> values, decodable |-> FALSE]

Xy(a, b) == O(<<<<"x", N(a)>>, <<"y", N(b)>>>>)
Seg(d) == O(<<<<"b", d>>, <<"t", S(3)>>>>)
RECURSIVE Nested(_), Doubled(_)
Nested(n) == IF n = 0 THEN {O(<<>>)} ELSE UNION {{O(<<<<"s", A(<<d>>)>>>>), O(<<<<"p", d>>>>)} : d \in Nested(n - 1)}
Doubled(n) == IF n = 0 THEN O(<<>>) ELSE O(<<<<"p", Doubled(n - 1)>>>>)
RECURSIVE Lists(_)
Lists(n) == IF n = 0 THEN N(1) ELSE A(<<Lists(n - 1)>>)

PlainTrips ==
  {Trip("seg", {O(<<>>), Seg(Xy(1, 2)), O(<<<<"a", Xy(1, 2)>>, <<"b", Xy(3, 4)>>>>)}),
   Trip("mixed", {O(<<>>), O(<<<<"q", <<"quot", 7>>>>, <<"d", <<"b64", <<1, 2>>, TRUE>>>>>>), O(<<<<"b", Xy(1, 2)>>, <<"d", A(<<>>)>>>>)}),
   Trip("tail", {O(<<>>), O(<<<<"a", Seg(Xy(1, 2))>>, <<"p", N(3)>>, <<"b", Xy(5, 6)>>>>)}),
   Trip("tails", {A(<<>>), A(<<O(<<>>)>>), A(<<O(<<<<"p", N(1)>>>>), O(<<>>)>>)}),
   Trip("segs", {A(<<>>), A(<<Seg(Xy(1, 1))>>), A(<<O(<<>>), Seg(Xy(1, 2))>>)}),
   Trip("deeper", {A(<<O(<<>>)>>), A(<<O(<<<<"s", A(<<>>)>>>>)>>), A(<<O(<<<<"s", A(<<Xy(1, 2)>>)>>>>)>>)}),
   Trip("opt", {O(ms) : ms \in {<<>>, <<<<"a", N(0)>>, <<"c", A(<<>>)>>>>, <<<<"b", Xy(0, 1)>>, <<"e", N(0)>>>>,
                <<<<"p", O(<<>>)>>, <<"d", Xy(0, 0)>>, <<"a", N(2)>>>>, <<<<"p", O(<<<<"b", N(1)>>, <<"a", N(0)>>>>)>>, <<"c", A(<<N(1)>>)>>>>}}),
   Trip("rest", {O(ms) : ms \in {<<>>, <<<<"u", N(1)>>>>, <<<<"v", N(1)>>, <<"a", N(2)>>, <<"u", N(3)>>>>}}),
   Trip("embp", {O(<<>>), O(<<<<"y", N(1)>>>>), O(<<<<"t", S(2)>>, <<"x", N(1)>>>>)}),
   Trip("tree", UNION {Nested(n) : n \in 0..3}),
   Trip("any", {Null, N(1), A(<<O(<<<<"b", Null>>, <<"a", N(2)>>, <<"b", A(<<>>)>>>>), S(1)>>), Lists(3), Lists(4), Lists(5)}),
   Trip("dyns", {O(<<>>), O(<<<<"b", Lists(1)>>, <<"a", Null>>>>), O(<<<<"a", Lists(3)>>>>)})}

Hook == Obj(<<V(1)>>)
Hooks == Obj(<<Hook, Hook, <<"s", 1, <<Hook>>>>, <<"array", <<Hook, Hook>>>>, <<"p", Hook>>>>)
Shallow == Obj(<<Hook, Hook, Zero, <<"array", <<Hook, Hook>>>>, Zero>>)
HookTrips ==
  {Built("hooks", {Hooks, Shallow}), Built("mhook", {<<"m", [a |-> Hooks, b |-> Shallow]>>, <<"m", [a |-> Shallow]>>}),
   Built("ahook", {Obj(<<x, y>>) : x \in {<<"val", "byptr", Hook>>, <<"box", "byptr", Hook>>, <<"val", "byval", Hook>>,
                                          <<"val", "hooks", Shallow>>, <<"box", "hooks", Shallow>>, <<"val", "ptr2", <<"array", <<Hook, Hook>>>>>>},
                                   y \in {Zero, <<"m", [b |-> <<"array", <<Hook, Hook>>>>]>>}}),
   Built("anys", {Obj(<<x, y>>) : x \in {<<"val", "broken", Hook>>, <<"box", "tall", Hook>>, <<"val", "tall", Hook>>, Zero},
                                  y \in {<<"box", "byptr", Hook>>, <<"val", "opt", ZeroTree("opt")>>, <<"any", N(4)>>,
                                         <<"val", "dyns", <<"m", [a |-> <<"box", "tall", Hook>>]>>>>,
                                         <<"val", "dyns", <<"m", [a |-> <<"box", "byptr", Hook>>]>>>>}})}

MCTrips == PlainTrips \union HookTrips
EmptyTrips == {Built("onlye", {ZeroTree("onlye")}), Built("outere", {ZeroTree("outere")})}
PointerTrips == {Trip("two", {Doubled(n) : n \in 0..3})}

MCTypes == LET all == ReuseTypes @@ TripTypes IN all

-----------------------------------------------------------------------------
ReuseRests == root = << >> /\ mem = << >> /\ maps = << >> /\ decodes = 0 /\ shares = 0 /\ last = << >>
TripRests == trip = << >> /\ phase = "start" /\ value = << >> /\ first = << >> /\ second = << >>

TypedInit ==
  \/ subject = "reuse" /\ Init /\ TripRests
  \/ subject = "trip" /\ TripInit /\ ReuseRests

TypedNext ==
  \/ subject = "reuse" /\ Next /\ UNCHANGED <<tripVars, subject>>
  \/ subject = "trip" /\ TripNext /\ UNCHANGED <<vars, subject>>

TypedSpec == TypedInit /\ [][TypedNext]_<<vars, tripVars, subject>>
=============================================================================
