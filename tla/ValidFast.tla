----------------------------- MODULE ValidFast ------------------------------
(***************************************************************************)
(* The bool-only validator of valid_fast.go.  It recognises the same       *)
(* values as Validator but keeps no reason: an operation returns the       *)
(* offset after what it recognised, or NoValue.                            *)
(*                                                                         *)
(* WordBytes is the width of the loads the string fast path probes (eight  *)
(* in the code); runs use a smaller one so that short texts cross several  *)
(* words.                                                                  *)
(***************************************************************************)
EXTENDS Validator

CONSTANT WordBytes

ASSUME WordBytesAssumption == WordBytes \in Nat \ {0}

nextSignificantFast(src, i) == SpanEnd(src, i, Space)

-----------------------------------------------------------------------------
(***************************************************************************)
(* Numbers and strings.                                                    *)
(***************************************************************************)

\* scanNumberFast part by part, each from the offset where the previous ended.
scanExponentFast(src, i) ==
    LET d == IF Has(src, i + 1, {"+", "-"}) THEN i + 2 ELSE i + 1
    IN  IF ~Has(src, i, {"e", "E"}) THEN i
        ELSE IF Has(src, d, Digit) THEN SpanEnd(src, d + 1, Digit)
        ELSE NoValue

scanFractionFast(src, i) ==
    IF Has(src, i, {"."}) /\ ~Has(src, i + 1, Digit) THEN NoValue
    ELSE scanExponentFast(src, IF Has(src, i, {"."}) THEN SpanEnd(src, i + 2, Digit) ELSE i)

scanIntegerFast(src, i) ==
    IF ~Has(src, i, Digit) THEN NoValue
    ELSE scanFractionFast(src, IF At(src, i) = "0" THEN i + 1 ELSE SpanEnd(src, i + 1, Digit))

scanNumberFast(src, i) == scanIntegerFast(src, IF At(src, i) = "-" THEN i + 1 ELSE i)

\* The offset after the \u escape whose backslash is at i, low half included.
unicodeEscapeEnd(src, i) ==
    IF ~Hex4(src, i + 2) \/ IsLowSurrogate(src, i + 2) THEN NoValue
    ELSE IF ~IsHighSurrogate(src, i + 2) THEN i + 6
    ELSE IF /\ i + 12 <= Len(src)
            /\ MatchAt(src, i + 6, <<"\\", "u">>)
            /\ Hex4(src, i + 8) /\ IsLowSurrogate(src, i + 8)
    THEN i + 12
    ELSE NoValue

\* The string goes on at end; B is the scan.
continueStringFast(B, end) == IF end = NoValue THEN NoValue ELSE B[end]

\* The special byte of a string at offset j.
specialFast(src, B, j) ==
    LET c    == At(src, j)
        next == scanStringUnicodeRun(src, j)
    IN  IF j >= Len(src) THEN NoValue
        ELSE IF c = "\"" THEN j + 1
        ELSE IF c = "\\" THEN
            IF Has(src, j + 1, Escapable) THEN B[j + 2]
            ELSE IF Has(src, j + 1, {"u"}) THEN continueStringFast(B, unicodeEscapeEnd(src, j))
            ELSE NoValue
        ELSE IF c \in Control \/ next = j THEN NoValue
        ELSE B[next]

\* i is inside the string: after its opening quote, or at the byte where the
\* word probes of validStringFast stopped.  A run of \u escapes has a loop of
\* its own.
scanJSONStringFastFrom(src, i) ==
    LET B[k \in 0..Len(src)] ==
            IF k + 6 <= Len(src) /\ MatchAt(src, k, <<"\\", "u">>)
            THEN continueStringFast(B, unicodeEscapeEnd(src, k))
            ELSE specialFast(src, B, IF Has(src, k, {"\\"}) THEN k ELSE scanStringSpecial(src, k))
    IN  B[i]

\* One word probe per turn, at most two: the first special byte of the word
\* ends the string, sends the scan to the general machine, or is absent.
validStringFast(src, i) ==
    LET W == WordBytes
        start == i + 1
        special(k) == scanStringSpecial(src, k)
        clean(k)   == special(k) >= k + W            \* no special byte in the word
        fits   == start + W <= Len(src)
        resume ==                                    \* after one or two clean words
            IF start + 2 * W <= Len(src) /\ clean(start + W) THEN start + 2 * W ELSE start + W
        probe  == IF clean(start) THEN special(resume) ELSE special(start)
    IN  IF fits /\ Has(src, probe, {"\""}) THEN probe + 1
        ELSE scanJSONStringFastFrom(src, IF fits /\ clean(start) THEN probe ELSE start)

-----------------------------------------------------------------------------
(***************************************************************************)
(* Values.  V[<<rule, i, depth>>] is the recursion, as in Validator; every *)
(* call has looked for the end of the text and the nesting limit before.   *)
(***************************************************************************)

\* After an element or a member that ended at end.
continueFast(src, V, end, depth, rule, close) ==
    LET j    == nextSignificantFast(src, end)
        next == nextSignificantFast(src, j + 1)
    IN  IF end = NoValue \/ j >= Len(src) THEN NoValue
        ELSE IF At(src, j) = "," THEN
            IF next >= Len(src) THEN NoValue ELSE V[<<rule, next, depth>>]
        ELSE IF At(src, j) = close THEN j + 1
        ELSE NoValue

\* The member whose key ended at key.
memberFast(src, V, key, depth) ==
    LET colon == nextSignificantFast(src, key)
        value == nextSignificantFast(src, colon + 1)
    IN  IF key = NoValue THEN NoValue
        ELSE IF ~Has(src, colon, {":"}) \/ value >= Len(src) THEN NoValue
        ELSE continueFast(src, V, V[<<"value", value, depth + 1>>], depth, "members", "}")

membersFast(src, V, i, depth) ==
    IF At(src, i) # "\"" THEN NoValue ELSE memberFast(src, V, validStringFast(src, i), depth)

elementsFast(src, V, i, depth) ==
    continueFast(src, V, V[<<"value", i, depth + 1>>], depth, "elements", "]")

\* Mutant: an empty container is accepted before the depth is checked.
containerFastCloseFirst(src, V, i, depth, rule, close) ==
    LET j == nextSignificantFast(src, i + 1)
    IN  IF j >= Len(src) THEN NoValue
        ELSE IF At(src, j) = close THEN j + 1
        ELSE IF depth >= MaxDepth THEN NoValue
        ELSE V[<<rule, j, depth>>]

\* An object or an array whose opening byte is at i.
containerFast(src, V, i, depth, rule, close) ==
    LET j == nextSignificantFast(src, i + 1)
    IN  IF depth >= MaxDepth \/ j >= Len(src) THEN NoValue
        ELSE IF At(src, j) = close THEN j + 1
        ELSE V[<<rule, j, depth>>]

literalFast(src, i, lit) == IF MatchAt(src, i, lit) THEN i + Len(lit) ELSE NoValue

validValueFast(src, V, i, depth) ==
    LET c == At(src, i)
    IN  CASE c = "{"  -> containerFast(src, V, i, depth, "members", "}")
          [] c = "["  -> containerFast(src, V, i, depth, "elements", "]")
          [] c = "\"" -> validStringFast(src, i)
          [] c = "t"  -> literalFast(src, i, <<"t", "r", "u", "e">>)
          [] c = "f"  -> literalFast(src, i, <<"f", "a", "l", "s", "e">>)
          [] c = "n"  -> literalFast(src, i, <<"n", "u", "l", "l">>)
          [] c \in Digit \cup {"-"} -> scanNumberFast(src, i)
          [] OTHER -> NoValue

ValuesFast(src) ==
    LET V[s \in ({"value"} \X (0..(Len(src) - 1)) \X (0..MaxDepth))
             \cup ({"elements", "members"} \X (0..(Len(src) - 1)) \X (0..(MaxDepth - 1)))] ==
            CASE s[1] = "value"    -> validValueFast(src, V, s[2], s[3])
              [] s[1] = "elements" -> elementsFast(src, V, s[2], s[3])
              [] s[1] = "members"  -> membersFast(src, V, s[2], s[3])
    IN  V

\* The end of the value that starts at offset i of the window, or NoValue.
validRootValueFast(src, i) == ValuesFast(src)[<<"value", i, 0>>]

\* Valid: whether src is exactly one document.
validFast(src) ==
    LET ends(end) == end # NoValue /\ nextSignificantFast(src, end) = Len(src)
        i == nextSignificantFast(src, 0)
    IN  i < Len(src) /\ ends(validRootValueFast(src, i))
=============================================================================
