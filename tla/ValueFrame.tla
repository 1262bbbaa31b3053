----------------------------- MODULE ValueFrame -----------------------------
(***************************************************************************)
(* ValueFrame of stream_reader.go: the constant-size state with which the  *)
(* Reader finds the end of a value across refills, and the structural      *)
(* skipper of stream_cursor.go.  Neither validates: they only have to      *)
(* agree with the validator on the extent of a value that is valid.        *)
(*                                                                         *)
(* A frame is a record with the fields of the Go struct.  Scan returns the *)
(* frame after the scan and whether the value has a structural end.        *)
(***************************************************************************)
EXTENDS ValidFast

Frame(mode, depth, litLeft) ==
    [mode |-> mode, depth |-> depth, inStr |-> FALSE, esc |-> FALSE,
     numE |-> FALSE, litLeft |-> litLeft, framed |-> 1]

\* Init: classify the value by its leading byte and consume that byte.
FrameInit(c) ==
    CASE c = "\""          -> Frame("string", 0, 0)
      [] c \in {"{", "["}  -> Frame("container", 1, 0)
      [] c \in {"t", "n"}  -> Frame("literal", 0, 3)
      [] c = "f"           -> Frame("literal", 0, 4)
      [] OTHER             -> Frame("number", 0, 0)

\* scanStringBody from i to n: [i, esc, done], the offset reached, the escape
\* still pending and whether the closing quote was consumed.
scanStringBody(src, i, n, esc) ==
    LET body[s \in (0..n) \X BOOLEAN] ==
            LET j == scanStringSpecial(SubSeq(src, 1, n), s[1])
            IN  IF s[1] >= n THEN [i |-> s[1], esc |-> s[2], done |-> FALSE]
                ELSE IF s[2] THEN body[<<s[1] + 1, FALSE>>]
                ELSE IF j >= n THEN [i |-> n, esc |-> FALSE, done |-> FALSE]
                ELSE IF At(src, j) = "\"" THEN [i |-> j + 1, esc |-> FALSE, done |-> TRUE]
                ELSE body[<<j + 1, At(src, j) = "\\">>]
    IN  body[<<i, esc>>]

\* The number loop of Scan: [i, numE, done].
scanNumberRun(src, i, n, numE) ==
    LET run[s \in (0..n) \X BOOLEAN] ==
            LET c == At(src, s[1])
                signHere == c \in {"+", "-"} /\ s[2]
            IN  IF s[1] >= n THEN [i |-> s[1], numE |-> s[2], done |-> FALSE]
                ELSE IF c \in Digit \cup {"."} \/ signHere THEN run[<<s[1] + 1, FALSE>>]
                ELSE IF c \in {"e", "E"} THEN run[<<s[1] + 1, TRUE>>]
                ELSE [i |-> s[1], numE |-> s[2], done |-> TRUE]
    IN  run[<<i, numE>>]

\* The container loop of Scan: [i, depth, inStr, esc, done].
scanContainer(src, i, n, fr) ==
    LET loop[s \in (0..n) \X (Nat \ {0}) \X BOOLEAN \X BOOLEAN] ==
            LET k == s[1]  depth == s[2]  inStr == s[3]  esc == s[4]
                c   == At(src, k)
                str == scanStringBody(src, k, n, esc)
                left(j, d, done) ==
                    [i |-> j, depth |-> d, inStr |-> inStr, esc |-> esc, done |-> done]
            IN  IF k >= n THEN left(k, depth, FALSE)
                ELSE IF inStr THEN loop[<<str.i, depth, ~str.done, str.esc>>]
                ELSE IF c = "\"" THEN loop[<<k + 1, depth, TRUE, esc>>]
                ELSE IF c \in {"{", "["} THEN loop[<<k + 1, depth + 1, FALSE, esc>>]
                ELSE IF c \in {"}", "]"} THEN
                    IF depth = 1 THEN left(k + 1, 0, TRUE)
                    ELSE loop[<<k + 1, depth - 1, FALSE, esc>>]
                ELSE loop[<<k + 1, depth, FALSE, esc>>]
    IN  loop[<<i, fr.depth, fr.inStr, fr.esc>>]

\* Scan resumes fr, whose value starts at offset start, over src[:n].
Scan(fr, src, start, n) ==
    LET i    == start + fr.framed
        took == IF fr.litLeft <= n - i THEN fr.litLeft ELSE n - i
        string(r) == [fr |-> [fr EXCEPT !.framed = r.i - start, !.esc = r.esc], done |-> r.done]
        number(r) == [fr |-> [fr EXCEPT !.framed = r.i - start, !.numE = r.numE], done |-> r.done]
        container(r) == [fr |-> [fr EXCEPT !.framed = r.i - start, !.depth = r.depth,
                                           !.inStr = r.inStr, !.esc = r.esc],
                         done |-> r.done]
    IN  CASE fr.mode = "string" -> string(scanStringBody(src, i, n, fr.esc))
          [] fr.mode = "number" -> number(scanNumberRun(src, i, n, fr.numE))
          [] fr.mode = "literal" ->
               [fr |-> [fr EXCEPT !.framed = i + took - start, !.litLeft = @ - took],
                done |-> fr.litLeft = took]
          [] fr.mode = "container" -> container(scanContainer(src, i, n, fr))

\* Strings, literals and containers end by themselves; a number needs the byte
\* after it, or the end of the input.
terminalValueNeedsSourceBoundary(c) == c \notin {"{", "[", "\"", "n", "t", "f"}

-----------------------------------------------------------------------------
(***************************************************************************)
(* skipValidValue of stream_cursor.go, which ValueCursor.Skip uses on text *)
(* that has been validated.                                                *)
(***************************************************************************)

\* The offset after the string that opens at quote, or NoValue.
skipValidString(src, quote) ==
    LET n == Len(src)
        body[i \in 0..(n + 1)] ==
            LET j == scanStringSpecial(src, i)
            IN  IF i > n THEN NoValue
                ELSE IF j >= n THEN NoValue
                ELSE IF At(src, j) = "\"" THEN j + 1
                ELSE IF At(src, j) = "\\" THEN body[j + 2]
                ELSE body[j + 1]
    IN  body[quote + 1]

skipValidContainer(src, i) ==
    LET n == Len(src)
        loop[s \in (0..n) \X (Nat \ {0})] ==
            LET k == s[1]  depth == s[2]
                str == skipValidString(src, k)
            IN  IF k >= n THEN NoValue
                ELSE IF At(src, k) = "\"" THEN
                    IF str = NoValue THEN NoValue ELSE loop[<<str, depth>>]
                ELSE IF At(src, k) \in {"{", "["} THEN loop[<<k + 1, depth + 1>>]
                ELSE IF At(src, k) \in {"}", "]"} THEN
                    IF depth = 1 THEN k + 1 ELSE loop[<<k + 1, depth - 1>>]
                ELSE loop[<<k + 1, depth>>]
    IN  loop[<<i + 1, 1>>]

skipValidValue(src, i) ==
    LET n == Len(src)
        c == At(src, i)
        fixed(w) == IF i + w > n THEN NoValue ELSE i + w
        Follow   == {",", "]", "}"} \cup Space
    IN  IF i >= n THEN NoValue
        ELSE CASE c \in {"{", "["} -> skipValidContainer(src, i)
               [] c = "\""         -> skipValidString(src, i)
               [] c \in {"t", "n"} -> fixed(4)
               [] c = "f"          -> fixed(5)
               [] c \in Digit \cup {"-"} ->
                    CHOOSE j \in (i + 1)..n :
                        /\ \A k \in (i + 1)..(j - 1) : At(src, k) \notin Follow
                        /\ j = n \/ At(src, j) \in Follow
               [] OTHER -> NoValue

-----------------------------------------------------------------------------
(***************************************************************************)
(* incompleteFramedValue: whether the syntax error err of an extent that   *)
(* was cut off by the end of the input is caused by the missing bytes.     *)
(***************************************************************************)

incompleteLiteralAt(src, off) ==
    /\ off < Len(src)
    /\ \E lit \in {<<"n", "u", "l", "l">>, <<"t", "r", "u", "e">>, <<"f", "a", "l", "s", "e">>} :
          /\ At(src, off) = lit[1]
          /\ Len(src) - off < Len(lit)
          /\ Slice(src, off, Len(src)) = SubSeq(lit, 1, Len(src) - off)

\* Mutant: the digits that are present are not checked.
incompleteHexEscapeAtAnyDigits(src, off) ==
    MatchAt(src, off, <<"\\", "u">>) /\ off + 6 > Len(src)

incompleteHexEscapeAt(src, off) ==
    /\ MatchAt(src, off, <<"\\", "u">>)
    /\ off + 6 > Len(src)
    /\ AllIn(src, off + 2, Len(src), HexDigit)

\* Mutant: a text that ends right after the high half is not cut off.
incompleteLowSurrogateAtNeedsBackslash(src, off) ==
    LET low  == off + 6
        left == Len(src) - low
    IN  /\ left \in 1..5
        /\ At(src, low) = "\\"
        /\ left >= 2 => At(src, low + 1) = "u" /\ AllIn(src, low + 2, Len(src), HexDigit)

incompleteLowSurrogateAt(src, off) ==
    LET low  == off + 6
        left == Len(src) - low
    IN  /\ left \in 0..5
        /\ left >= 1 => At(src, low) = "\\"
        /\ left >= 2 => At(src, low + 1) = "u" /\ AllIn(src, low + 2, Len(src), HexDigit)

\* A rune is not full when its lead byte is the last byte.
incompleteUTF8At(src, off) == off = Len(src) - 1 /\ At(src, off) = "C2"

\* "unexpected EOF" stands for io.ErrUnexpectedEOF, which is no syntax error.
incompleteFramedValue(src, err, framed) ==
    /\ ~framed /\ Len(src) > 0
    /\ CASE err.msg \in {"expected value", "expected object key string",
                         "expected colon after object key",
                         "unterminated array", "unterminated object"} -> err.end = Len(src)
         [] err.msg \in {"unterminated string", "unterminated escape sequence",
                         "unexpected EOF"} -> TRUE
         [] err.msg \in {"invalid number", "invalid number fraction",
                         "invalid number exponent"} ->
               scanNumber(src, err.end) = Fail(Len(src), err.msg)
         [] err.msg = "invalid literal"        -> incompleteLiteralAt(src, err.end)
         [] err.msg = "invalid unicode escape" -> incompleteHexEscapeAt(src, err.end)
         [] err.msg \in {"missing low surrogate", "invalid low surrogate"} ->
               incompleteLowSurrogateAt(src, err.end)
         [] err.msg = "invalid UTF-8 in string" -> incompleteUTF8At(src, err.end)
         [] OTHER -> FALSE

\* The two messages for a high surrogate without its low half differ only in
\* how many bytes follow it.
SameError(v, w) ==
    /\ v.end = w.end
    /\ v.msg = w.msg \/ {v.msg, w.msg} = {"missing low surrogate", "invalid low surrogate"}
=============================================================================
