----------------------------- MODULE Validator ------------------------------
(***************************************************************************)
(* The scalar validator of validate.go: the recursive-descent parser that  *)
(* decides whether a text is one strict JSON document and, when it is not, *)
(* names the reason and the offset.  Reader, Decoder and the bitmap engine *)
(* all fall back on it for the error they report.                          *)
(*                                                                         *)
(* A parse returns a verdict: [end, msg].  With msg = "" the construct     *)
(* ends at end; otherwise end is the offset of the syntax error.           *)
(*                                                                         *)
(* The mutually recursive methods are operators that take the parser P     *)
(* they call back into: P[<<rule, i, depth>>] is the verdict of "value"    *)
(* (parseValue), of "elements" (one turn of parseArray's loop and all that *)
(* follow) or of "members" (the same for parseObject), at offset i.        *)
(***************************************************************************)
EXTENDS JsonText

Done(i)        == [end |-> i, msg |-> ""]
Fail(off, msg) == [end |-> off, msg |-> msg]
IsError(v)     == v.msg # ""

\* The bytes that stop scanStringSpecial.
StringSpecial == {"\"", "\\"} \cup Control \cup NonASCII

SkipSpace(src, i) == SpanEnd(src, i, Space)

scanStringSpecial(src, i) ==
    CHOOSE j \in i..Len(src) :
        /\ \A k \in i..(j - 1) : At(src, k) \notin StringSpecial
        /\ j = Len(src) \/ At(src, j) \in StringSpecial

\* One rune at i: the offset after it, or i itself when it is not UTF-8.
scanStringUnicodeRun(src, i) ==
    IF MatchAt(src, i, <<"C2", "80">>) THEN i + 2 ELSE i

-----------------------------------------------------------------------------
(***************************************************************************)
(* Numbers and strings.                                                    *)
(***************************************************************************)

\* The byte at offset i exists and is one of S.
Has(src, i, S) == i < Len(src) /\ At(src, i) \in S

\* scanNumber part by part, each from the offset where the previous one ended.
scanExponent(src, i) ==
    LET d == IF Has(src, i + 1, {"+", "-"}) THEN i + 2 ELSE i + 1
    IN  IF ~Has(src, i, {"e", "E"}) THEN Done(i)
        ELSE IF ~Has(src, d, Digit) THEN Fail(d, "invalid number exponent")
        ELSE Done(SpanEnd(src, d, Digit))

scanFraction(src, i) ==
    IF Has(src, i, {"."}) /\ ~Has(src, i + 1, Digit) THEN Fail(i + 1, "invalid number fraction")
    ELSE scanExponent(src, IF Has(src, i, {"."}) THEN SpanEnd(src, i + 1, Digit) ELSE i)

scanInteger(src, i) ==
    IF ~Has(src, i, Digit) THEN Fail(i, "invalid number")
    ELSE scanFraction(src, IF At(src, i) = "0" THEN i + 1 ELSE SpanEnd(src, i, Digit))

scanNumber(src, i) == scanInteger(src, IF Has(src, i, {"-"}) THEN i + 1 ELSE i)

\* parseNumber reports scanNumber's message at the number's first byte.
parseNumber(src, i) ==
    LET report(v) == IF IsError(v) THEN Fail(i, v.msg) ELSE v
    IN  report(scanNumber(src, i))

\* i is the offset of the u of a \u escape.
validateUnicodeEscape(src, i) ==
    LET start == i - 1
        low   == i + 5                                 \* after the four digits
    IN  IF ~Hex4(src, i + 1) THEN Fail(start, "invalid unicode escape")
        ELSE IF IsHighSurrogate(src, i + 1) THEN
            IF low + 6 > Len(src) \/ ~MatchAt(src, low, <<"\\", "u">>)
            THEN Fail(start, "missing low surrogate")
            ELSE IF ~Hex4(src, low + 2) \/ ~IsLowSurrogate(src, low + 2)
            THEN Fail(start, "invalid low surrogate")
            ELSE Done(low + 6)
        ELSE IF IsLowSurrogate(src, i + 1) THEN Fail(start, "unexpected low surrogate")
        ELSE Done(low)

\* i is the offset of the byte after the backslash.
validateEscape(src, i) ==
    IF At(src, i) \in Escapable THEN Done(i + 1)
    ELSE IF At(src, i) = "u" THEN validateUnicodeEscape(src, i)
    ELSE Fail(i - 1, "invalid escape sequence")

\* The string goes on at the end of an escape or a rune; B is the scan.
continueString(B, v) == IF IsError(v) THEN v ELSE B[v.end]

\* The special byte of a string at offset j.
parseSpecial(src, B, j) ==
    LET c == At(src, j)
        next == scanStringUnicodeRun(src, j)
    IN  IF j >= Len(src) THEN Fail(j, "unterminated string")
        ELSE IF c = "\"" THEN Done(j + 1)
        ELSE IF c = "\\" THEN
            IF j + 1 >= Len(src) THEN Fail(j + 1, "unterminated escape sequence")
            ELSE continueString(B, validateEscape(src, j + 1))
        ELSE IF c \in Control THEN Fail(j, "unescaped control byte in string")
        ELSE IF next = j THEN Fail(j, "invalid UTF-8 in string")
        ELSE B[next]

\* i is the offset of the opening quote.
parseString(src, i) ==
    LET B[k \in 0..Len(src)] == parseSpecial(src, B, scanStringSpecial(src, k))
    IN  B[i + 1]

-----------------------------------------------------------------------------
(***************************************************************************)
(* Values.                                                                 *)
(***************************************************************************)

parseLiteral(src, i, lit) ==
    IF MatchAt(src, i, lit) THEN Done(i + Len(lit)) ELSE Fail(i, "invalid literal")

\* What follows an element or a member: another one, the closing byte, or an
\* error.  rule is the loop to continue, v the verdict of the value.
closeOrNext(src, P, v, depth, rule, close, unterminated, expected) ==
    LET j == SkipSpace(src, v.end)
    IN  IF IsError(v) THEN v
        ELSE IF j >= Len(src) THEN Fail(j, unterminated)
        ELSE IF At(src, j) = "," THEN P[<<rule, j + 1, depth>>]
        ELSE IF At(src, j) = close THEN Done(j + 1)
        ELSE Fail(j, expected)

parseElements(src, P, i, depth) ==
    closeOrNext(src, P, P[<<"value", SkipSpace(src, i), depth>>], depth, "elements", "]",
                "unterminated array", "expected comma or closing bracket in array")

parseArray(src, P, i, depth) ==
    LET j == SkipSpace(src, i + 1)
    IN  IF depth > MaxDepth THEN Fail(i, "maximum nesting depth exceeded")
        ELSE IF j < Len(src) /\ At(src, j) = "]" THEN Done(j + 1)
        ELSE P[<<"elements", j, depth>>]

\* The member whose key has the verdict key.
parseMember(src, P, key, depth) ==
    LET colon == SkipSpace(src, key.end)
    IN  IF IsError(key) THEN key
        ELSE IF ~Has(src, colon, {":"}) THEN Fail(colon, "expected colon after object key")
        ELSE closeOrNext(src, P, P[<<"value", SkipSpace(src, colon + 1), depth>>], depth,
                         "members", "}", "unterminated object",
                         "expected comma or closing brace in object")

parseMembers(src, P, i, depth) ==
    LET k == SkipSpace(src, i)
    IN  IF ~Has(src, k, {"\""}) THEN Fail(k, "expected object key string")
        ELSE parseMember(src, P, parseString(src, k), depth)

parseObject(src, P, i, depth) ==
    LET j == SkipSpace(src, i + 1)
    IN  IF depth > MaxDepth THEN Fail(i, "maximum nesting depth exceeded")
        ELSE IF j < Len(src) /\ At(src, j) = "}" THEN Done(j + 1)
        ELSE P[<<"members", j, depth>>]

parseValue(src, P, i, depth) ==
    LET c == At(src, i)
    IN  IF depth > MaxDepth THEN Fail(i, "maximum nesting depth exceeded")
        ELSE IF i >= Len(src) THEN Fail(i, "expected value")
        ELSE CASE c = "n"  -> parseLiteral(src, i, <<"n", "u", "l", "l">>)
               [] c = "t"  -> parseLiteral(src, i, <<"t", "r", "u", "e">>)
               [] c = "f"  -> parseLiteral(src, i, <<"f", "a", "l", "s", "e">>)
               [] c = "\"" -> parseString(src, i)
               [] c = "["  -> parseArray(src, P, i, depth + 1)
               [] c = "{"  -> parseObject(src, P, i, depth + 1)
               [] c \in Digit \cup {"-"} -> parseNumber(src, i)
               [] OTHER -> Fail(i, "unexpected byte")

Parser(src) ==
    LET P[s \in {"value", "elements", "members"} \X (0..Len(src)) \X (0..MaxDepth)] ==
            CASE s[1] = "value"    -> parseValue(src, P, s[2], s[3])
              [] s[1] = "elements" -> parseElements(src, P, s[2], s[3])
              [] s[1] = "members"  -> parseMembers(src, P, s[2], s[3])
    IN  P

\* validateOptions with the default depth: the verdict on a whole document.
Validate(src) ==
    LET document(v) ==
            IF IsError(v) THEN v
            ELSE IF SkipSpace(src, v.end) # Len(src)
            THEN Fail(SkipSpace(src, v.end), "unexpected data after top-level value")
            ELSE Done(Len(src))
    IN  document(Parser(src)[<<"value", SkipSpace(src, 0), 0>>])
=============================================================================
