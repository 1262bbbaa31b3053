------------------------------- MODULE Cursor -------------------------------
(***************************************************************************)
(* The forward cursor a program walks a value with: ValueCursor over the   *)
(* value a Reader validated (stream_cursor.go), and DecodeCursor inside a  *)
(* decode hook, over text nobody has looked at (typed_hook.go).  Both are  *)
(* decoderCursor (decoder_cursor.go, decoder_cursor_scalar.go).            *)
(*                                                                         *)
(* A document is a sequence of tokens, "sp" among them for white space:    *)
(* the cursor's fast paths depend on where it is.  Strings: "s" is short   *)
(* and clean, "l" long, "e" has an escape, "q" spells a number.  Numbers:  *)
(* "int", "neg", "frac", and "big", which overflows an integer.  Literals: *)
(* "true", "null".  "bad" is text that begins no value, "badstr" a string  *)
(* that is none.  Scalars that would run together are kept apart by "sp".  *)
(***************************************************************************)
EXTENDS TokenText

CONSTANTS Docs,         \* the documents to walk
          MaxDepth      \* DecoderOptions.MaxDepth; DefaultMaxDepth for a ValueCursor

\* What the walk needs of the constants.
CursorAssumption ==
    MaxDepth \in Nat /\ {"s", "l", "e", "q"} \subseteq Strings

VARIABLES
    mode,       \* "cursor" for a ValueCursor, "hook" for a DecodeCursor
    doc,
    i, depth,   \* decoderCursor.i and depth
    first,      \* ValueCursor.first, or what the hook passes to the next call
    open,       \* the containers the program has entered and not left
    turn,       \* what it does next: "value", "next", "done", "finished" or "failed"
    seen,       \* the value positions it was given, in order
    entered,    \* the containers it entered
    fault       \* the last error: "kind", "syntax", "depth", "overrun"; "" without

vars == <<mode, doc, i, depth, first, open, turn, seen, entered, fault>>

(***************************************************************************)
(* The text.                                                               *)
(***************************************************************************)
Tok(k) == IF k < Len(doc) THEN doc[k + 1] ELSE "end"
SkipSpace(k) == Min({j \in k..Len(doc) : Tok(j) # "sp"})

Numbers  == {"int", "neg", "frac", "big"}
Literals == {"true", "null"}

\* TokenText's view of a token, and of a document without white space.
AsToken(t) == CASE t \in Numbers \cup Literals -> "num" [] t = "badstr" -> "bad" [] OTHER -> t
Text(d) == LET kept == SelectSeq(d, LAMBDA t : t # "sp") IN [n \in DOMAIN kept |-> AsToken(kept[n])]
Rank(k) == Cardinality({j \in 0..(k - 1) : Tok(j) # "sp"})
Valid(d) == WellFormed(Text(d)) /\ Nesting(Text(d)) <= MaxDepth

(***************************************************************************)
(* NextObjectField and NextArrayElement: the packed path takes a short     *)
(* clean name with its colon attached and leaves everything else, errors   *)
(* included, to the slow one.  An answer is an offset and what is there.   *)
(***************************************************************************)
Answer(k, what) == [at |-> k, is |-> what]

nextObjectFieldSlow(isFirst, k) ==
    LET j == SkipSpace(k)
        n == SkipSpace(IF isFirst THEN j ELSE j + 1)
        c == SkipSpace(n + 1)
    IN  CASE Tok(j) = "}" -> Answer(j + 1, "end")
          [] Tok(j) = "end" \/ (~isFirst /\ Tok(j) \notin {",", "}"}) -> Answer(j, "syntax")
          [] OTHER -> IF Tok(n) \notin Strings THEN Answer(n, "syntax")
                      ELSE IF Tok(c) # ":" THEN Answer(c, "syntax")
                      ELSE Answer(SkipSpace(c + 1), "value")

\* Mutant: the packed path stops right behind the colon.
NextObjectFieldTight(isFirst, k) ==
    LET j == SkipSpace(k)
        n == IF isFirst THEN j ELSE SkipSpace(j + 1)
        packed == Tok(j) # "end" /\ (isFirst \/ Tok(j) = ",") /\ Tok(n) \in {"s", "q"} /\ Tok(n + 1) = ":"
    IN  IF Tok(j) = "}" THEN Answer(j + 1, "end")
        ELSE IF packed THEN Answer(n + 2, "value") ELSE nextObjectFieldSlow(isFirst, j)

NextObjectField(isFirst, k) ==
    LET j == SkipSpace(k)
        n == IF isFirst THEN j ELSE SkipSpace(j + 1)
        packed == Tok(j) # "end" /\ (isFirst \/ Tok(j) = ",") /\ Tok(n) \in {"s", "q"} /\ Tok(n + 1) = ":"
    IN  IF Tok(j) = "}" THEN Answer(j + 1, "end")
        ELSE IF packed THEN Answer(SkipSpace(n + 2), "value") ELSE nextObjectFieldSlow(isFirst, j)

nextArrayElementSlow(isFirst, k) ==
    LET j == SkipSpace(k)
    IN  CASE Tok(j) = "]" -> Answer(j + 1, "end")
          [] Tok(j) = "end" \/ (~isFirst /\ Tok(j) \notin {",", "]"}) -> Answer(j, "syntax")
          [] OTHER -> Answer(SkipSpace(IF isFirst THEN j ELSE j + 1), "value")

\* Mutant: a comma is asked for before the first element only.
NextArrayElementLoose(isFirst, k) ==
    LET j == SkipSpace(k)
    IN  CASE Tok(j) = "]" -> Answer(j + 1, "end")
          [] Tok(j) = "," /\ ~isFirst -> Answer(SkipSpace(j + 1), "value")
          [] OTHER -> IF Tok(j) # "end" THEN Answer(j, "value") ELSE nextArrayElementSlow(isFirst, j)

NextArrayElement(isFirst, k) ==
    LET j == SkipSpace(k)
    IN  CASE Tok(j) = "]" -> Answer(j + 1, "end")
          [] Tok(j) = "," /\ ~isFirst -> Answer(SkipSpace(j + 1), "value")
          [] OTHER -> IF isFirst /\ Tok(j) # "end" THEN Answer(j, "value") ELSE nextArrayElementSlow(isFirst, j)

(***************************************************************************)
(* Scalars, at a significant byte: what each accessor of decoderCursor     *)
(* takes.  null is a value of every one.  Number also takes a string that  *)
(* spells a number, and has consumed the string when it does not.          *)
(***************************************************************************)
Bool(k)   == IF Tok(k) \in {"true", "null"} THEN Answer(k + 1, "ok") ELSE Answer(k, "kind")
String(k) == CASE Tok(k) \in Strings \cup {"null"} -> Answer(k + 1, "ok")
               [] Tok(k) = "badstr" -> Answer(k, "syntax")
               [] OTHER -> Answer(k, "kind")
Number(k) == CASE Tok(k) \in Numbers \cup {"null", "q"} -> Answer(k + 1, "ok")
               [] Tok(k) \in Strings \ {"q"} -> Answer(k + 1, "kind")
               [] Tok(k) = "badstr" -> Answer(k, "syntax")
               [] OTHER -> Answer(k, "kind")
Signed(k) == IF Tok(k) \in {"int", "neg", "null"} THEN Answer(k + 1, "ok") ELSE Answer(k, "kind")
Uint(k)   == IF Tok(k) \in {"int", "null"} THEN Answer(k + 1, "ok") ELSE Answer(k, "kind")
Float(k)  == IF Tok(k) \in Numbers \cup {"null"} THEN Answer(k + 1, "ok") ELSE Answer(k, "kind")
TryNull(k) == LET j == SkipSpace(k) IN IF Tok(j) = "null" THEN Answer(j + 1, "ok") ELSE Answer(j, "none")

\* ValueCursor looks at the first byte before it asks decoderCursor.
PeekBool(k)   == IF Tok(k) = "true" THEN Bool(k) ELSE Answer(k, "kind")
PeekInt(k)    == IF Tok(k) \in Numbers THEN Signed(k) ELSE Answer(k, "kind")
PeekUint(k)   == IF Tok(k) \in Numbers \ {"neg"} THEN Uint(k) ELSE Answer(k, "kind")
PeekFloat(k)  == IF Tok(k) \in Numbers THEN Float(k) ELSE Answer(k, "kind")
PeekText(k)   == IF Tok(k) \in Strings THEN String(k) ELSE Answer(k, "kind")
PeekNumber(k) == IF Tok(k) \in Numbers THEN Number(k) ELSE Answer(k, "kind")
PeekNull(k)   == IF Tok(k) = "null" THEN Answer(k + 1, "ok") ELSE Answer(k, "none")

Accessors(k) ==
    IF mode = "cursor"
    THEN {PeekBool(k), PeekInt(k), PeekUint(k), PeekFloat(k), PeekText(k), PeekNumber(k), PeekNull(k)}
    ELSE {Bool(k), String(k), Number(k), Signed(k), Uint(k), Float(k), TryNull(k)}

(***************************************************************************)
(* Skip.  A hook's validates, with the depth the cursor is at; a           *)
(* ValueCursor's trusts the value and looks for its end.                   *)
(***************************************************************************)
RECURSIVE parseValue(_, _), parseRest(_, _, _)
parseRest(k, close, d) ==       \* at an element or a member, d containers deep
    LET n == SkipSpace(k)
        c == SkipSpace(n + 1)
        v == parseValue(IF close = "}" THEN SkipSpace(c + 1) ELSE n, d)
        e == SkipSpace(v.at)
    IN  CASE close = "}" /\ (Tok(n) \notin Strings \/ Tok(c) # ":") -> Answer(n, "syntax")
          [] OTHER -> IF v.is # "ok" THEN v
                      ELSE IF Tok(e) = close THEN Answer(e + 1, "ok")
                      ELSE IF Tok(e) = "," THEN parseRest(e + 1, close, d) ELSE Answer(e, "syntax")
parseValue(k, d) ==
    CASE Tok(k) \in Strings \cup Numbers \cup Literals -> Answer(k + 1, "ok")
      [] Tok(k) \in Opener ->
           LET n == SkipSpace(k + 1) IN
           IF d + 1 > MaxDepth THEN Answer(k, "depth")
           ELSE IF Tok(n) = CloserOf(Tok(k)) THEN Answer(n + 1, "ok")
           ELSE parseRest(n, CloserOf(Tok(k)), d + 1)
      [] OTHER -> Answer(k, "syntax")

skipTypedValue(k) == parseValue(k, depth)

\* Brackets are counted, nothing else is looked at.
skipValidValue(k) ==
    LET Nest(j) == Cardinality({m \in k..j : Tok(m) \in Opener}) - Cardinality({m \in k..j : Tok(m) \in Closer})
        ends == {j \in k..(Len(doc) - 1) : Tok(j) \in Closer /\ Nest(j) = 0}
    IN  CASE Tok(k) \in Strings \cup Numbers \cup Literals -> Answer(k + 1, "ok")
          [] Tok(k) \in Opener -> IF ends = {} THEN Answer(k, "kind") ELSE Answer(Min(ends) + 1, "ok")
          [] OTHER -> Answer(k, "kind")

SkipFrom(k) == IF mode = "cursor" THEN skipValidValue(k) ELSE skipTypedValue(k)

(***************************************************************************)
(* The program.  It reads each value it is given, skips it, or walks into  *)
(* it.  On a ValueCursor it may try another accessor when one fails, and   *)
(* may stop anywhere; a hook returns its first error and otherwise         *)
(* consumes exactly one value.                                             *)
(***************************************************************************)
\* newValueCursor: over the Reader's current value, or over nothing.
StartCursor ==
    /\ mode = "cursor" /\ doc \in Docs
    /\ doc = <<>> \/ (Valid(doc) /\ Head(doc) # "sp" /\ Last(doc) # "sp")
    /\ i = 0

\* decodeRootHook: over whatever text it was given.
StartHook == mode = "hook" /\ doc \in Docs /\ i = SkipSpace(0)

Init ==
    /\ StartCursor \/ StartHook
    /\ depth = 0 /\ first = FALSE
    /\ open = <<>> /\ turn = "value" /\ seen = <<Rank(i)>> /\ entered = {} /\ fault = ""

\* A value was consumed up to k.
Consumed(k) == i' = k /\ turn' = IF open = <<>> THEN "done" ELSE "next"

Failed(a) ==
    /\ fault' = a.is /\ i' = a.at
    /\ turn' = IF mode = "cursor" THEN turn ELSE "failed"
    /\ UNCHANGED <<depth, first, open, seen, entered>>

ReadScalar ==
    /\ turn = "value"
    /\ \E a \in Accessors(i) :
         \/ a.is = "ok" /\ Consumed(a.at) /\ UNCHANGED <<depth, first, open, seen, entered, fault>>
         \/ a.is = "none" /\ i' = a.at /\ UNCHANGED <<depth, first, open, turn, seen, entered, fault>>
         \/ a.is \in {"kind", "syntax"} /\ Failed(a)
    /\ UNCHANGED <<mode, doc>>

Skip ==
    /\ turn = "value"
    /\ LET a == SkipFrom(i) IN
         \/ a.is = "ok" /\ Consumed(a.at) /\ UNCHANGED <<depth, first, open, seen, entered, fault>>
         \/ a.is # "ok" /\ Failed(a)
    /\ UNCHANGED <<mode, doc>>

Begin(kind) ==
    /\ turn = "value"
    /\ LET j == SkipSpace(i) IN
         \/ /\ Tok(j) = kind /\ depth < MaxDepth
            /\ i' = j + 1 /\ depth' = depth + 1 /\ first' = TRUE
            /\ open' = Append(open, kind) /\ turn' = "next" /\ entered' = entered \cup {Rank(j)}
            /\ UNCHANGED <<seen, fault>>
         \/ Tok(j) = kind /\ depth >= MaxDepth /\ Failed(Answer(j, "depth"))
         \/ Tok(j) # kind /\ Failed(Answer(j, "kind"))
    /\ UNCHANGED <<mode, doc>>

BeginObject == Begin("{")
BeginArray  == Begin("[")

\* NextField and NextElement, as the innermost container asks for.
Advance ==
    /\ turn = "next"
    /\ LET a == IF Last(open) = "{" THEN NextObjectField(first, i) ELSE NextArrayElement(first, i) IN
         \/ /\ a.is = "value"
            /\ turn' = "value" /\ seen' = Append(seen, Rank(a.at))
            /\ i' = a.at /\ first' = FALSE
            /\ UNCHANGED <<depth, open, entered, fault>>
         \/ /\ a.is = "end"
            /\ depth' = depth - 1 /\ open' = Front(open)
            /\ turn' = IF Len(open) = 1 THEN "done" ELSE "next"
            /\ i' = a.at /\ first' = FALSE
            /\ UNCHANGED <<seen, entered, fault>>
         \/ /\ a.is = "syntax"
            /\ turn' = "failed" /\ fault' = "syntax" /\ i' = a.at /\ first' = FALSE
            /\ UNCHANGED <<depth, open, seen, entered>>
    /\ UNCHANGED <<mode, doc>>

\* Finish; a ValueCursor's may come at any time, and fails without a value.
Finish ==
    /\ turn = "done" \/ (mode = "cursor" /\ turn \in {"value", "next"})
    /\ LET left == SkipSpace(i) # Len(doc) \/ (mode = "cursor" /\ doc = <<>>) IN
         fault' = IF left THEN "overrun" ELSE ""
    /\ turn' = "finished"
    /\ UNCHANGED <<mode, doc, i, depth, first, open, seen, entered>>

Next == ReadScalar \/ Skip \/ BeginObject \/ BeginArray \/ Advance \/ Finish

Spec == Init /\ [][Next]_vars

(***************************************************************************)
(* Properties.                                                             *)
(***************************************************************************)
\* The values an ordered walk meets: the root, and the children of every
\* container it entered.
Met(d) == {0} \cup UNION {Children(d, k) : k \in entered}

\* On valid text the program is only ever handed the first byte of a value,
\* in document order, and when it has left every container it entered it was
\* handed each of their children once, whatever it read, skipped, or tried
\* in vain on the way, and however the text is spaced.
WalkExact ==
    doc # <<>> /\ Valid(doc) =>
        /\ turn = "value" => Tok(i) # "sp" /\ Rank(i) = Last(seen) /\ Len(open) = Level(Text(doc), Rank(i))
        /\ turn \in {"value", "next", "done"} => \A n \in 1..(Len(seen) - 1) : seen[n] < seen[n + 1]
        /\ turn = "done" => ToSet(seen) = Met(Text(doc)) /\ depth = 0

\* Text that is not one JSON value within the limits is never walked to a
\* successful Finish, although a hook's calls each check a part of it only;
\* valid text never fails for its syntax or its depth; and a program that
\* stops before the end is told so.
WalkVerdict ==
    /\ turn = "finished" /\ fault = "" => open = <<>> /\ Valid(doc) /\ ToSet(seen) = Met(Text(doc))
    /\ doc # <<>> /\ Valid(doc) => fault \notin {"syntax", "depth"}
=============================================================================
