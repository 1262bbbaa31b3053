----------------------------- MODULE TapeLookup -----------------------------
(***************************************************************************)
(* Reading a finished tape: Node, its iterators, JSON Pointers and the     *)
(* column gather (node.go, index_iter.go, index_tapescan.go, pointer.go),  *)
(* and the counting pass that sizes the storage (RequiredIndexEntries).    *)
(*                                                                         *)
(* A Node is the number of its entry, counted from zero; NoNode is the     *)
(* zero Node.  Every step is EntryAt, which adds to a pointer and checks   *)
(* nothing: an entry number outside the tape is an error of the model.     *)
(***************************************************************************)
EXTENDS TapeBuilder

CONSTANTS Text,         \* the text a spelling decodes to
          Steps,        \* the tokens pointers are made of
          MaxPath       \* bound on the tokens of a pointer

Keys == Strings \ Escaped       \* the texts looked up

ASSUME LookupAssumption ==
    /\ Text \in [Strings -> Keys] /\ \A s \in Keys : Text[s] = s
    /\ MaxPath \in Nat

NoNode == -1

E(k)          == entries[k + 1]
Spelling(k)   == T(doc, E(k).start)
KeysHashed(v) == "escaped" \in E(v).flags
HashKey(key)  == Hash[key]

\* tapeKeyEqual: an unescaped name is compared byte for byte, an escaped
\* one as it decodes.
tapeKeyEqual(k, key) ==
    IF "escaped" \in E(k).flags THEN Text[Spelling(k)] = key ELSE Spelling(k) = key

-----------------------------------------------------------------------------
(***************************************************************************)
(* Arrays: Index and ArrayIter.                                            *)
(***************************************************************************)

\* The nth element, by skipping over its elder siblings.
Sibling(v, n) ==
    LET at[m \in 0..n] == IF m = 0 THEN v + 1 ELSE at[m - 1] + E(at[m - 1]).next
    IN  at[n]

Index(v, n) ==
    IF E(v).kind # "[" \/ n < 0 \/ n >= E(v).count THEN NoNode
    ELSE IF E(v).next = E(v).count + 1 THEN v + 1 + n
    ELSE Sibling(v, n)

\* What a loop over ArrayIter.Next returns: the iterator advances only while
\* elements remain.
ArrayIter(v) ==
    LET it[r \in 0..E(v).count] ==      \* r elements returned
            IF r = 0 THEN [entry |-> IF E(v).count # 0 THEN v + 1 ELSE NoNode, seen |-> <<>>]
            ELSE LET e == it[r - 1].entry
                 IN  [entry |-> IF r < E(v).count THEN e + E(e).next ELSE NoNode,
                      seen  |-> Append(it[r - 1].seen, e)]
    IN  it[E(v).count].seen

-----------------------------------------------------------------------------
(***************************************************************************)
(* Objects: ObjectIter, Get on plain and on hashed tapes.                  *)
(***************************************************************************)

\* The name entry of the mth member: names are stepped over by one, values
\* by their skip count.
KeyEntry(v, m) ==
    LET at[n \in 0..m] == IF n = 0 THEN v + 1 ELSE at[n - 1] + 1 + E(at[n - 1] + 1).next
    IN  at[m]

\* What a loop over ObjectIter.Next returns.
ObjectIter(v) ==
    [m \in 1..E(v).count |-> <<KeyEntry(v, m - 1), KeyEntry(v, m - 1) + 1>>]

Flat(v) == E(v).next = 2 * E(v).count + 1

\* Backward over members at fixed offsets, first match wins.
FlatScan(v, hi, lo, Hit(_)) ==
    LET hits == {m \in lo..hi : Hit(v + 2 * m + 1)}
    IN  IF hits = {} THEN NoNode ELSE v + 2 * Max(hits) + 2

\* Forward over all members, last match wins.
WalkScan(v, Hit(_)) ==
    LET hits == {m \in 0..(E(v).count - 1) : Hit(KeyEntry(v, m))}
    IN  IF hits = {} THEN NoNode ELSE KeyEntry(v, Max(hits)) + 1

getPlain(v, key) ==
    LET hit(k) == tapeKeyEqual(k, key)
    IN  IF Flat(v) THEN FlatScan(v, E(v).count - 1, 0, hit) ELSE WalkScan(v, hit)

\* Mutant: an escaped name is skipped when its hash differs.
HashHitTrusted(k, key, hash) == E(k).next = hash /\ tapeKeyEqual(k, key)

\* A stored hash is a prefilter; an escaped name, whose hash is the hash of
\* its spelling, is always compared.
HashHit(k, key, hash) ==
    ("escaped" \in E(k).flags \/ E(k).next = hash) /\ tapeKeyEqual(k, key)

tapeVerifyFlatRange(v, hi, lo, key, hash) ==
    LET hit(k) == HashHit(k, key, hash) IN FlatScan(v, hi, lo, hit)

\* Four members at a time from the end; a group is verified only when one of
\* its hashes matches or one of its names is escaped.
tapeScanFlatHash(v, key, hash) ==
    LET scan[m \in 0..E(v).count] ==
        IF m < 4 THEN IF m > 0 THEN tapeVerifyFlatRange(v, m - 1, 0, key, hash) ELSE NoNode
        ELSE LET group == {v + 2 * m - 1, v + 2 * m - 3, v + 2 * m - 5, v + 2 * m - 7}
                 found == IF \E k \in group : E(k).next = hash \/ "escaped" \in E(k).flags
                            THEN tapeVerifyFlatRange(v, m - 1, m - 4, key, hash) ELSE NoNode
             IN  IF found # NoNode THEN found ELSE scan[m - 4]
    IN  scan[E(v).count]

getHashedQuery(v, key, hash) ==
    LET hit(k) == HashHit(k, key, hash)
    IN  IF Flat(v) THEN tapeScanFlatHash(v, key, hash) ELSE WalkScan(v, hit)

Get(v, key) ==
    IF E(v).kind # "{" \/ E(v).count = 0 THEN NoNode
    ELSE IF KeysHashed(v) THEN getHashedQuery(v, key, HashKey(key))
    ELSE getPlain(v, key)

columnValue(v, key) ==
    IF E(v).kind # "{" \/ E(v).count = 0 THEN NoNode
    ELSE IF ~KeysHashed(v) THEN Get(v, key)
    ELSE IF Flat(v) THEN tapeScanFlatHash(v, key, HashKey(key))
    ELSE getHashedQuery(v, key, HashKey(key))

AppendColumn(v, key) ==
    [n \in 1..E(v).count |-> columnValue(Sibling(v, n - 1), key)]

-----------------------------------------------------------------------------
(***************************************************************************)
(* JSON Pointers.  A pointer is a sequence of tokens; "~" stands for one   *)
(* with a malformed escape.  Pointer meets it on the way or, when the      *)
(* search ends first, in validatePointerSyntax; CompilePointer meets it    *)
(* before any search.                                                      *)
(***************************************************************************)

Found(k) == [node |-> k, err |-> FALSE]
PointerError == [node |-> NoNode, err |-> TRUE]

\* classifyPointerIndex: "-" names the element behind the last one; the
\* indices in use are "0" and "1".
Dash    == -1
Invalid == -2
classifyPointerIndex(s) ==
    CASE s = "-" -> Dash [] s = "0" -> 0 [] s = "1" -> 1 [] OTHER -> Invalid

validatePointerSyntax(path) ==
    IF \E n \in 1..Len(path) : path[n] = "~" THEN PointerError ELSE Found(NoNode)

\* One token: the node it leads to from cur, or why the search ends.
PointerStep(cur, s) ==
    LET index == classifyPointerIndex(s)
    IN  IF E(cur).kind = "{" THEN Found(IF s \in Keys THEN Get(cur, s) ELSE NoNode)
        ELSE IF E(cur).kind # "[" \/ index = Dash THEN Found(NoNode)
        ELSE IF index = Invalid THEN PointerError
        ELSE Found(Index(cur, index))

Pointer(v, path) ==
    LET at[n \in 0..Len(path)] ==
        IF n = 0 THEN Found(v)
        ELSE LET cur == at[n - 1]
             IN  IF cur.err \/ cur.node = NoNode THEN cur
                 ELSE IF path[n] = "~" THEN PointerError
                 ELSE IF PointerStep(cur.node, path[n]) = Found(NoNode)
                        THEN validatePointerSyntax(path)
                 ELSE PointerStep(cur.node, path[n])
    IN  at[Len(path)]

PointerTokens(v, path) ==
    LET at[n \in 0..Len(path)] ==
        IF n = 0 THEN Found(v)
        ELSE IF at[n - 1].err \/ at[n - 1].node = NoNode THEN at[n - 1]
        ELSE PointerStep(at[n - 1].node, path[n])
    IN  at[Len(path)]

PointerCompiled(v, path) ==     \* CompilePointer, then the search
    IF \E n \in 1..Len(path) : path[n] = "~" THEN PointerError ELSE PointerTokens(v, path)

-----------------------------------------------------------------------------
(***************************************************************************)
(* RequiredIndexEntries: the validator's recursive descent with a layout.  *)
(* A call returns the offset behind what it parsed, or NoNode, and the     *)
(* entries it accounts for beyond the first: one per element, two per      *)
(* member.  Its depth limit is the default one, as BuildIndex's is when    *)
(* opts.MaxDepth is left zero: MaxDepth stands for both.                   *)
(***************************************************************************)
Rejected == [end |-> NoNode, counted |-> 0]

\* parseValue on the value at offset `from', inside `within' containers.
parseLayout(from, within) ==
    LET at(k) == IF k < Len(doc) THEN doc[k + 1] ELSE "end"
        L[r \in {"value", "elements", "members"} \X (0..Len(doc)) \X (0..(MaxDepth + 1))] ==
        LET k == r[2]  depth == r[3]
            container(rule) ==
                IF depth + 1 > MaxDepth THEN Rejected
                ELSE IF at(k + 1) = CloserOf(at(k)) THEN [end |-> k + 2, counted |-> 0]
                ELSE IF k + 1 > Len(doc) THEN Rejected ELSE L[<<rule, k + 1, depth + 1>>]
            \* after a value of this container: a comma, the bracket, or an error
            goOn(v, rule, each, close) ==
                IF v.end = NoNode THEN Rejected
                ELSE IF at(v.end) = close THEN [end |-> v.end + 1, counted |-> v.counted + each]
                ELSE IF at(v.end) # "," THEN Rejected
                ELSE LET rest == L[<<rule, v.end + 1, depth>>]
                     IN  IF rest.end = NoNode THEN Rejected
                         ELSE [end |-> rest.end, counted |-> v.counted + each + rest.counted]
        IN CASE r[1] = "value" /\ at(k) \in Scalar -> [end |-> k + 1, counted |-> 0]
             [] r[1] = "value" /\ at(k) = "[" -> container("elements")
             [] r[1] = "value" /\ at(k) = "{" -> container("members")
             [] r[1] = "elements" -> goOn(L[<<"value", k, depth>>], "elements", 1, "]")
             [] r[1] = "members" /\ at(k) \in Strings /\ at(k + 1) = ":" /\ k + 2 <= Len(doc) ->
                  goOn(L[<<"value", k + 2, depth>>], "members", 2, "}")
             [] OTHER -> Rejected
    IN  L[<<"value", from, within>>]

countLayout == parseLayout(0, 0)

\* Mutant: the document's own entry is forgotten.
RequiredWithoutRoot ==
    IF countLayout.end = Len(doc) THEN countLayout.counted ELSE NoNode

\* The number of entries to provide, or NoNode for a document it rejects.
RequiredIndexEntries ==
    IF countLayout.end = Len(doc) THEN 1 + countLayout.counted ELSE NoNode

-----------------------------------------------------------------------------
(***************************************************************************)
(* Properties of a finished tape.                                          *)
(***************************************************************************)

Nodes(kind) == {v \in 0..(Len(entries) - 1) : E(v).kind = kind}

\* The entry of the value that begins at offset k.
NodeAt(k) == Cardinality({m \in Begins(doc) : m < k})

\* The elements, or the member values, of a container, in document order.
RefChildren(v) ==
    LET kids == SetToSortSeq(Children(doc, E(v).start), <)
    IN  [n \in 1..Len(kids) |-> NodeAt(kids[n])]

\* The value of the last member of object v whose name decodes to key.
RefGet(v, key) ==
    LET named == {c \in Children(doc, E(v).start) : Text[T(doc, c - 2)] = key}
    IN  IF named = {} THEN NoNode ELSE NodeAt(Max(named))

RefPointer(v, path) ==
    LET at[n \in 0..Len(path)] ==
        IF n = 0 \/ at[n - 1] = NoNode THEN IF n = 0 THEN v ELSE NoNode
        ELSE LET cur == at[n - 1]  kids == RefChildren(cur)
             IN  IF E(cur).kind = "{"
                   THEN IF path[n] \in Keys THEN RefGet(cur, path[n]) ELSE NoNode
                 ELSE IF E(cur).kind = "[" /\ path[n] = "0" /\ Len(kids) > 0 THEN kids[1]
                 ELSE IF E(cur).kind = "[" /\ path[n] = "1" /\ Len(kids) > 1 THEN kids[2]
                 ELSE NoNode
    IN  at[Len(path)]

Paths == UNION {[1..n -> Steps] : n \in 0..MaxPath}

\* Get, on plain and on hashed tapes, over flat and over nested objects,
\* returns the last member with the name, however it is spelled and whatever
\* its hash collides with; a column gather returns what Get does.
LookupExact ==
    result = "ok" =>
        /\ \A v \in Nodes("{"), key \in Keys : Get(v, key) = RefGet(v, key)
        /\ \A v \in Nodes("["), key \in Keys :
             AppendColumn(v, key) =
               [n \in 1..Len(RefChildren(v)) |->
                  IF E(RefChildren(v)[n]).kind = "{" THEN RefGet(RefChildren(v)[n], key) ELSE NoNode]

\* Index and the iterators visit exactly the children, in document order,
\* although a hashed name's Next word is no skip count.
IterationExact ==
    result = "ok" =>
        /\ \A v \in Nodes("[") : /\ ArrayIter(v) = RefChildren(v)
                                 /\ \A n \in 1..Len(RefChildren(v)) : Index(v, n - 1) = RefChildren(v)[n]
                                 /\ Index(v, Len(RefChildren(v))) = NoNode
        /\ \A v \in Nodes("{") :
             ObjectIter(v) = [n \in 1..Len(RefChildren(v)) |-> <<RefChildren(v)[n] - 1, RefChildren(v)[n]>>]

\* Resolving a pointer and resolving its compiled form end the same way, at
\* the node the document has there, and a malformed pointer is reported
\* wherever the search happens to end.
PointersAgree ==
    result = "ok" =>
        \A path \in Paths :
            /\ PointerCompiled(0, path) = Pointer(0, path)
            /\ ~Pointer(0, path).err => Pointer(0, path).node = RefPointer(0, path)
            /\ (\E n \in 1..Len(path) : path[n] = "~") => Pointer(0, path).err

\* Navigation is exact: lookups, iteration and pointers, on plain and on
\* hashed tapes, lead to the nodes that the document has there.
NavigationExact == LookupExact /\ IterationExact /\ PointersAgree

\* RequiredIndexEntries is exact: with that much storage BuildIndex does not
\* report it full, with less it does not succeed, and its tape fills it.
StorageExact ==
    /\ (pc = "done" /\ result = "full") => RequiredIndexEntries \notin 0..cap
    /\ result = "ok" => RequiredIndexEntries = Len(entries)
    /\ (pc = "done" /\ result = "syntax") => RequiredIndexEntries = NoNode
=============================================================================
