---------------------------- MODULE TypeCompiler ----------------------------
(***************************************************************************)
(* The compiler of plans (typed_compile.go): one node per Go type, entered *)
(* in a table before its parts are compiled so that a recursive type finds *)
(* itself.  A part that cannot be compiled fails the attempt of every type *)
(* around it, up to the first one whose own methods can stand in for its   *)
(* layout; everything the abandoned attempt created is taken back.         *)
(*                                                                         *)
(* A type is its kind, the types it is made of, and whether it has methods *)
(* for the direction that is compiled, for an encoder a MarshalJSON or     *)
(* MarshalText with a value receiver (other methods need no box).  "ref"   *)
(* is a slice; a pointer or an array compiles like one.  "chan" is any     *)
(* kind without a JSON form, a map with such a key included.               *)
(* The calls of compileAt are a stack of frames.                           *)
(***************************************************************************)
EXTENDS Integers, Sequences, FiniteSets, SequencesExt

CONSTANTS Types, Root,  \* the types, and the one that is compiled
          Graphs,       \* what they may be made of
          Modes,        \* "decode", "replace" (a Replace decoder), "encode", "dynamic"
          InlineSize    \* len(typedCompiler.created)

Kinds == {"scalar", "ref", "map", "struct", "chan"}

\* What the compiler needs of the constants: only a struct has several parts,
\* and only a struct has an inline map.
CompilerAssumption ==
    /\ Root \in Types /\ InlineSize \in Nat
    /\ Modes \subseteq {"decode", "replace", "encode", "dynamic"}
    /\ Graphs \subseteq [Types -> [kind : Kinds, parts : Seq(Types), inline : BOOLEAN, hook : BOOLEAN]]
    /\ \A g \in Graphs : \A t \in Types :
          g[t].kind # "struct" => Len(g[t].parts) <= 1 /\ ~g[t].inline

VARIABLES
    graph, mode,
    nodes,                  \* typedCompiler.nodes: the node of a type, 0 without
    heap,                   \* the nodes ever allocated
    created, createdOverflow, createdCount,     \* the journal
    encScratchTypes, encBackingSlots, encHasMap,
    decodeNeedsFinalize,
    stack,                  \* the calls of compileAt in progress
    step,                   \* "start", "run", "ok" or "err" (a call returned), "done", "published", "failed"
    ret                     \* the node that was returned

journal   == <<created, createdOverflow, createdCount>>
resources == <<encScratchTypes, encBackingSlots, encHasMap>>
compilerVars == <<graph, mode, nodes, heap, journal, resources, decodeNeedsFinalize, stack, step, ret>>

compilesDecode == mode \in {"decode", "replace"}

\* A node: baseKind and op of the direction compiled, what it is made of,
\* and the scratch it was given.  -1 is no slot.
Node(t) == [type |-> t, baseKind |-> "invalid", op |-> "invalid", elem |-> 0, fields |-> <<>>,
            structuralFast |-> FALSE, encMapKey |-> -1, encBacking |-> -1, encScratch |-> -1]

\* Decoding reads op, which is known before the parts are; encoding reads
\* encOp, which is copied from op when the node is complete.
Opening(t) == [Node(t) EXCEPT !.op = IF compilesDecode THEN graph[t].kind ELSE "invalid"]

Frame  == Last(stack)
Type   == heap[Frame.node].type
Part   == graph[Type].parts[Frame.next]
IsMap(t) == graph[t].kind = "map"
InlinePart == graph[Type].inline /\ Frame.next = Len(graph[Type].parts)

(***************************************************************************)
(* The journal and the scratch of encoders.                                *)
(***************************************************************************)
recordCreated(t) ==
    /\ createdCount' = createdCount + 1
    /\ created' = IF createdCount < InlineSize THEN [created EXCEPT ![createdCount + 1] = t] ELSE created
    /\ createdOverflow' = IF createdCount < InlineSize THEN createdOverflow ELSE Append(createdOverflow, t)

JournalAt(k) == IF k <= InlineSize THEN created[k] ELSE createdOverflow[k - InlineSize]

\* Mutant: the type that fails stays in the table.
rollbackCreatedShort(start) ==
    LET gone == { JournalAt(k) : k \in (start + 2)..createdCount }
    IN  [t \in Types |-> IF t \in gone THEN 0 ELSE nodes[t]]

\* The table without what was created after start.
rollbackCreated(start) ==
    LET gone == { JournalAt(k) : k \in (start + 1)..createdCount }
    IN  [t \in Types |-> IF t \in gone THEN 0 ELSE nodes[t]]

\* The key slot and the backing slot the next map is given.
reserveTypedEncodeMap(t) ==
    /\ encHasMap' = TRUE
    /\ encScratchTypes' = IF mode = "dynamic" THEN encScratchTypes ELSE Append(encScratchTypes, <<"key", t>>)
    /\ encBackingSlots' = IF mode = "dynamic" THEN encBackingSlots ELSE encBackingSlots + 1

Reserved(n) ==
    IF mode = "dynamic" THEN n
    ELSE [n EXCEPT !.encMapKey = Len(encScratchTypes), !.encBacking = encBackingSlots]

-----------------------------------------------------------------------------
CompilerInit ==
    /\ graph \in Graphs /\ mode \in Modes
    /\ nodes = [t \in Types |-> 0] /\ heap = <<>>
    /\ created = [k \in 1..InlineSize |-> 0] /\ createdOverflow = <<>> /\ createdCount = 0
    /\ encScratchTypes = <<>> /\ encBackingSlots = 0 /\ encHasMap = FALSE
    /\ decodeNeedsFinalize = FALSE
    /\ stack = <<>> /\ step = "start" /\ ret = 0

\* compileAt on a type the table does not have.  A map reserves its scratch
\* before its elements are compiled.
compileAt(t) ==
    LET reserves == IsMap(t) /\ ~compilesDecode IN
    /\ nodes[t] = 0
    /\ nodes' = [nodes EXCEPT ![t] = Len(heap) + 1]
    /\ heap' = Append(heap, IF reserves THEN Reserved(Opening(t)) ELSE Opening(t))
    /\ recordCreated(t)
    /\ IF reserves THEN reserveTypedEncodeMap(t) ELSE UNCHANGED resources
    /\ stack' = Append(stack, [node |-> Len(heap) + 1, next |-> 1, created |-> createdCount,
                               scratch |-> Len(encScratchTypes), backing |-> encBackingSlots, hadMap |-> encHasMap])
    /\ step' = "run"
    /\ UNCHANGED <<graph, mode, decodeNeedsFinalize, ret>>

\* The part that was compiled becomes the element, a field with a copy of
\* its operation, or the element of the inline map, which reserves last.
Attach(part) ==
    LET n == heap[Frame.node]
        reserves == InlinePart /\ ~compilesDecode
        with == IF graph[Type].kind = "struct" /\ ~InlinePart
                THEN [n EXCEPT !.fields = Append(@, [node |-> part, op |-> heap[part].op])]
                ELSE [n EXCEPT !.elem = part]
    IN  /\ heap' = [heap EXCEPT ![Frame.node] = IF reserves THEN Reserved(with) ELSE with]
        /\ decodeNeedsFinalize' =
             (decodeNeedsFinalize \/ (compilesDecode /\ with.fields # n.fields /\ heap[part].baseKind = "invalid"))
        /\ IF reserves THEN reserveTypedEncodeMap(Type) ELSE UNCHANGED resources
        /\ stack' = [stack EXCEPT ![Len(stack)].next = @ + 1]
        /\ step' = "run"
        /\ UNCHANGED <<graph, mode, nodes, journal, ret>>

compile == step = "start" /\ compileAt(Root)
Descend == step = "run" /\ Frame.next <= Len(graph[Type].parts) /\ compileAt(Part)
Reuse   == step = "run" /\ Frame.next <= Len(graph[Type].parts) /\ nodes[Part] # 0 /\ Attach(nodes[Part])
Resume  == step = "ok" /\ Attach(ret)

unsupported ==
    /\ step = "run" /\ graph[Type].kind = "chan"
    /\ nodes' = [nodes EXCEPT ![Type] = 0]
    /\ step' = "err"
    /\ UNCHANGED <<graph, mode, heap, journal, resources, decodeNeedsFinalize, stack, ret>>

ReturnNode(n) ==
    /\ ret' = n /\ stack' = Front(stack)
    /\ step' = IF Len(stack) = 1 THEN "done" ELSE "ok"

Replaces(kind) == mode = "replace" /\ kind \in {"ref", "map"}
Op(t) == IF graph[t].hook THEN "hook" ELSE IF Replaces(graph[t].kind) THEN "replace" ELSE graph[t].kind

\* Operations the structural executor can run; it was chosen by the copies.
FastOps == {"scalar", "struct", "ref"}

\* The layout is complete: the operation is settled, methods come first.
Complete ==
    LET n == heap[Frame.node]
        boxes == graph[Type].hook /\ mode = "encode"
    IN  /\ step = "run" /\ graph[Type].kind # "chan" /\ Frame.next > Len(graph[Type].parts)
        /\ heap' = [heap EXCEPT ![Frame.node] =
             [n EXCEPT !.baseKind = graph[Type].kind, !.op = Op(Type),
                       !.structuralFast = /\ compilesDecode /\ graph[Type].kind = "struct" /\ ~graph[Type].inline
                                          /\ \A f \in Range(n.fields) : f.op \in FastOps,
                       !.encScratch = IF boxes THEN Len(encScratchTypes) ELSE -1]]
        /\ encScratchTypes' = IF boxes THEN Append(encScratchTypes, <<"value", Type>>) ELSE encScratchTypes
        /\ ReturnNode(Frame.node)
        /\ UNCHANGED <<graph, mode, nodes, journal, encBackingSlots, encHasMap, decodeNeedsFinalize>>

\* The scratch types as they were before the attempt of frame f.
ScratchBack(f) == SubSeq(encScratchTypes, 1, f.scratch)

\* compileStructural failed: the whole attempt is taken back.  Methods of the
\* type turn the node into a plain hook, the same node, entered anew.
Abandon ==
    LET f == Frame
        back == rollbackCreated(f.created)
        boxes == mode = "encode"
        inline == IF f.created < InlineSize THEN f.created ELSE InlineSize
        cut == [k \in 1..InlineSize |-> IF k > f.created THEN 0 ELSE created[k]]
        over == SubSeq(createdOverflow, 1, f.created - inline)
    IN  /\ step = "err"
        /\ encBackingSlots' = f.backing /\ encHasMap' = f.hadMap
        /\ \/ /\ graph[Type].hook
              /\ heap' = [heap EXCEPT ![f.node] =
                   [Node(Type) EXCEPT !.op = "hook", !.encScratch = IF boxes THEN Len(ScratchBack(f)) ELSE -1]]
              /\ encScratchTypes' = IF boxes THEN Append(ScratchBack(f), <<"value", Type>>) ELSE ScratchBack(f)
              /\ nodes' = [back EXCEPT ![Type] = f.node]
              /\ createdCount' = f.created + 1
              /\ created' = IF f.created < InlineSize THEN [cut EXCEPT ![f.created + 1] = Type] ELSE cut
              /\ createdOverflow' = IF f.created < InlineSize THEN over ELSE Append(over, Type)
              /\ ReturnNode(f.node)
           \/ /\ ~graph[Type].hook
              /\ heap' = [heap EXCEPT ![f.node] = Node(Type)]
              /\ encScratchTypes' = ScratchBack(f)
              /\ nodes' = back
              /\ createdCount' = f.created /\ created' = cut /\ createdOverflow' = over
              /\ stack' = Front(stack) /\ ret' = 0
              /\ step' = IF Len(stack) = 1 THEN "failed" ELSE "err"
        /\ UNCHANGED <<graph, mode, decodeNeedsFinalize>>

\* Mutant: the copies are left as they are.
finalizeDecodeFieldsNot(n) == n

\* A node with its copies refreshed; one that changed loses its shortcut.
finalizeDecodeFields(n) ==
    LET fresh == [k \in DOMAIN n.fields |-> [n.fields[k] EXCEPT !.op = heap[n.fields[k].node].op]]
    IN  [n EXCEPT !.fields = fresh, !.structuralFast = @ /\ fresh = n.fields]

\* The end of compile: nodes of the table are finalized, when one needs it.
Publish ==
    /\ step = "done"
    /\ heap' = IF compilesDecode /\ decodeNeedsFinalize
               THEN [k \in DOMAIN heap |-> IF k \in Range(nodes) THEN finalizeDecodeFields(heap[k]) ELSE heap[k]]
               ELSE heap
    /\ decodeNeedsFinalize' = IF compilesDecode THEN FALSE ELSE decodeNeedsFinalize
    /\ step' = "published"
    /\ UNCHANGED <<graph, mode, nodes, journal, resources, stack, ret>>

CompilerNext == compile \/ Descend \/ Reuse \/ Resume \/ unsupported \/ Complete \/ Abandon \/ Publish

CompilerSpec == CompilerInit /\ [][CompilerNext]_compilerVars

-----------------------------------------------------------------------------
(***************************************************************************)
(* Properties.                                                             *)
(***************************************************************************)
PartsOf(n) == { f.node : f \in Range(heap[n].fields) } \cup ({heap[n].elem} \ {0})

\* The nodes a plan that starts at n runs.
Plan(n) ==
    LET closed == { S \in SUBSET (1..Len(heap)) : n \in S /\ \A m \in S : PartsOf(m) \subseteq S }
    IN  { k \in 1..Len(heap) : \A S \in closed : k \in S }

\* The types that have a plan: the largest set in which each has methods or
\* is made of types of the set.  It knows no order, no table and no failure.
Compilable ==
    UNION { S \in SUBSET Types :
              \A t \in S : graph[t].hook \/ (graph[t].kind # "chan" /\ Range(graph[t].parts) \subseteq S) }

\* A published plan consists of complete nodes only, one per type, the ones in
\* the table and no others; every copied operation is that of its node, and a
\* structural shortcut covers only operations it can run.  Nothing in it
\* stems from an attempt that failed, in whatever order types met and failed.
PlanWhole ==
    step = "published" =>
        /\ Plan(ret) = Range(nodes) \ {0}
        /\ \A n \in Plan(ret) :
             /\ nodes[heap[n].type] = n /\ heap[n].op = Op(heap[n].type)
             /\ \A f \in Range(heap[n].fields) :
                  /\ f.op = heap[f.node].op \/ (~compilesDecode /\ f.op = "invalid")
                  /\ heap[n].structuralFast => f.op \in FastOps

\* Each node of a published encoder owns its scratch: its key slot, its value
\* box and its backing are within what the pool will allocate, have its type
\* and belong to no other node, every slot has an owner, and a failed compile
\* leaves none.
SlotsOwned ==
    /\ step = "failed" => encScratchTypes = <<>> /\ encBackingSlots = 0
    /\ step = "published" /\ mode = "encode" =>
        LET plan == Plan(ret)
            keys == { n \in plan : heap[n].encMapKey >= 0 }
            boxes == { n \in plan : heap[n].encScratch >= 0 }
        IN  /\ \A n \in keys : encScratchTypes[heap[n].encMapKey + 1] = <<"key", heap[n].type>>
            /\ \A n \in boxes : encScratchTypes[heap[n].encScratch + 1] = <<"value", heap[n].type>>
            /\ Cardinality(keys) + Cardinality(boxes) = Len(encScratchTypes)
            /\ { heap[n].encBacking : n \in keys } = 0..(encBackingSlots - 1)
            /\ Cardinality(keys) = encBackingSlots /\ encHasMap = (keys # {})

\* A published plan is whole: its nodes, and the scratch they own.
PlanSound == PlanWhole /\ SlotsOwned

\* A type compiles exactly when it has a plan: no failed part makes a later
\* type fail, and none is accepted because a table still knows it.
VerdictRight ==
    /\ step = "published" => Root \in Compilable
    /\ step = "failed" => Root \notin Compilable /\ nodes = [t \in Types |-> 0]
=============================================================================
