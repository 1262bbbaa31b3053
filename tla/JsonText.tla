------------------------------ MODULE JsonText ------------------------------
(***************************************************************************)
(* Bytes, spans and the reference grammar of one strict JSON value.        *)
(*                                                                         *)
(* A text is a sequence of bytes.  A byte is a one-character string;       *)
(* three names stand for classes of bytes that no character spells: "ctl"  *)
(* is a control byte that is not white space, "C2" the lead byte of a      *)
(* two-byte rune and "80" a continuation byte.  Offsets are zero based, as *)
(* in the Go source, and a span [i, j) excludes its end.                   *)
(*                                                                         *)
(* The scanners of the library (Validator, ValidFast, ValueFrame, ...) are *)
(* translated from the source in modules of their own; JsonValue below is  *)
(* the definition they are compared with.  It is written the way RFC 8259  *)
(* writes the grammar, over spans, and shares no step with any scanner.    *)
(***************************************************************************)
EXTENDS Integers, Sequences

CONSTANT MaxDepth   \* DefaultMaxDepth: the deepest container nesting accepted

ASSUME MaxDepthAssumption == MaxDepth \in Nat

Digit    == {"0", "1", "2", "3", "4", "5", "6", "7", "8", "9"}
OneNine  == Digit \ {"0"}
HexDigit == Digit \cup {"a", "b", "c", "d", "e", "f", "A", "B", "C", "D", "E", "F"}
Space    == {" ", "\n", "\r", "\t"}
Control  == {"ctl", "\n", "\r", "\t"}      \* bytes below 0x20
NonASCII == {"C2", "80"}                   \* bytes at or above 0x80
Escapable == {"\"", "\\", "/", "b", "f", "n", "r", "t"}

\* The byte of src at offset i.
At(src, i) == src[i + 1]

\* The bytes of src in [i, j).
Slice(src, i, j) == SubSeq(src, i + 1, j)

\* The end of the longest run of bytes of S that starts at offset i: the
\* byte loops of SkipSpace and of the digit scanners.
SpanEnd(src, i, S) ==
    CHOOSE j \in i..Len(src) :
        /\ \A k \in i..(j - 1) : At(src, k) \in S
        /\ j = Len(src) \/ At(src, j) \notin S

\* Whether the word w occurs in src at offset i.
MatchAt(src, i, w) ==
    /\ i + Len(w) <= Len(src)
    /\ \A k \in 0..(Len(w) - 1) : At(src, i + k) = At(w, k)

-----------------------------------------------------------------------------
(***************************************************************************)
(* The two hexadecimal facts the escape rules need: whether four bytes are *)
(* hexadecimal, and which surrogate half, if any, the value is.            *)
(***************************************************************************)

Hex4(src, i) == i + 4 <= Len(src) /\ \A k \in i..(i + 3) : At(src, k) \in HexDigit

\* D800..DBFF and DC00..DFFF are told apart by their first two digits.
IsHighSurrogate(src, i) ==
    /\ At(src, i) \in {"d", "D"}
    /\ At(src, i + 1) \in {"8", "9", "a", "b", "A", "B"}

IsLowSurrogate(src, i) ==
    /\ At(src, i) \in {"d", "D"}
    /\ At(src, i + 1) \in {"c", "d", "e", "f", "C", "D", "E", "F"}

-----------------------------------------------------------------------------
(***************************************************************************)
(* The reference grammar.  Every definition answers: is the span [i, j) of *)
(* src one of these?                                                       *)
(***************************************************************************)

AllIn(src, i, j, S) == \A k \in i..(j - 1) : At(src, k) \in S

IsLiteral(src, i, j) ==
    Slice(src, i, j) \in { <<"n", "u", "l", "l">>, <<"t", "r", "u", "e">>,
                           <<"f", "a", "l", "s", "e">> }

IsInt(src, i, j) ==
    /\ i < j
    /\ AllIn(src, i, j, Digit)
    /\ At(src, i) = "0" => j = i + 1

IsFrac(src, i, j) ==
    i = j \/ (i + 1 < j /\ At(src, i) = "." /\ AllIn(src, i + 1, j, Digit))

IsExp(src, i, j) ==
    \/ i = j
    \/ /\ i + 1 < j
       /\ At(src, i) \in {"e", "E"}
       /\ LET d == IF At(src, i + 1) \in {"+", "-"} THEN i + 2 ELSE i + 1
          IN  d < j /\ AllIn(src, d, j, Digit)

IsNumber(src, i, j) ==
    /\ i < j
    /\ LET d == IF At(src, i) = "-" THEN i + 1 ELSE i
       IN  \E p \in d..j : \E q \in p..j :
               IsInt(src, d, p) /\ IsFrac(src, p, q) /\ IsExp(src, q, j)

\* A string character, or an escape, spans [i, j).
IsChar(src, i, j) ==
    \/ j = i + 1 /\ At(src, i) \notin {"\"", "\\"} \cup Control \cup NonASCII
    \/ j = i + 2 /\ At(src, i) = "C2" /\ At(src, i + 1) = "80"
    \/ j = i + 2 /\ At(src, i) = "\\" /\ At(src, i + 1) \in Escapable
    \/ /\ j = i + 6 /\ At(src, i) = "\\" /\ At(src, i + 1) = "u" /\ Hex4(src, i + 2)
       /\ ~IsHighSurrogate(src, i + 2) /\ ~IsLowSurrogate(src, i + 2)
    \/ /\ j = i + 12 /\ At(src, i) = "\\" /\ At(src, i + 1) = "u" /\ Hex4(src, i + 2)
       /\ IsHighSurrogate(src, i + 2)
       /\ At(src, i + 6) = "\\" /\ At(src, i + 7) = "u" /\ Hex4(src, i + 8)
       /\ IsLowSurrogate(src, i + 8)

IsString(src, i, j) ==
    LET chars[k \in 0..Len(src)] ==     \* [i + 1, k) is a run of characters
            \/ k = i + 1
            \/ \E c \in {k - 1, k - 2, k - 6, k - 12} \cap (i + 1)..k :
                   IsChar(src, c, k) /\ chars[c]
    IN  i + 1 < j /\ At(src, i) = "\"" /\ At(src, j - 1) = "\"" /\ chars[j - 1]

\* White space, then rule r of the grammar G, then white space, span [a, b).
Padded(src, G, r, a, b, open) ==
    LET start == SpanEnd(src, a, Space)
    IN  \E p \in start..b : start < p /\ G[<<r, start, p, open>>] /\ SpanEnd(src, p, Space) >= b

\* The inside of the brackets at i and j - 1.
Bracketed(src, G, r, i, j, open) ==
    /\ open < MaxDepth
    /\ SpanEnd(src, i + 1, Space) = j - 1 \/ Padded(src, G, r, i + 1, j - 1, open + 1)

ValueRule(src, G, i, j, open) ==
    /\ i < j
    /\ \/ IsLiteral(src, i, j) \/ IsNumber(src, i, j) \/ IsString(src, i, j)
       \/ /\ i + 1 < j
          /\ \/ At(src, i) = "[" /\ At(src, j - 1) = "]" /\ Bracketed(src, G, "elements", i, j, open)
             \/ At(src, i) = "{" /\ At(src, j - 1) = "}" /\ Bracketed(src, G, "members", i, j, open)

ElementsRule(src, G, i, j, open) ==
    \/ G[<<"value", i, j, open>>]
    \/ \E k \in i..(j - 1) : /\ At(src, k) = ","
                             /\ Padded(src, G, "value", i, k, open)
                             /\ Padded(src, G, "elements", k + 1, j, open)

MembersRule(src, G, i, j, open) ==
    \E k \in i..(j - 1) :
       /\ At(src, k) = ":"
       /\ \E s \in i..k : IsString(src, i, s) /\ SpanEnd(src, s, Space) = k
       /\ \/ Padded(src, G, "value", k + 1, j, open)
          \/ \E m \in (k + 1)..(j - 1) : /\ At(src, m) = ","
                                         /\ Padded(src, G, "value", k + 1, m, open)
                                         /\ Padded(src, G, "members", m + 1, j, open)

\* JsonValue(src): whether [i, j) is a value (rule "value") or a non-empty
\* comma-separated run of elements or members, given the containers that
\* are already open around it.
JsonValue(src) ==
    LET n == Len(src)
        G[g \in {"value", "elements", "members"} \X (0..n) \X (0..n) \X (0..MaxDepth)] ==
            CASE g[1] = "value"    -> ValueRule(src, G, g[2], g[3], g[4])
              [] g[1] = "elements" -> ElementsRule(src, G, g[2], g[3], g[4])
              [] g[1] = "members"  -> MembersRule(src, G, g[2], g[3], g[4])
    IN  G

IsValue(src, i, j) == JsonValue(src)[<<"value", i, j, 0>>]

NoValue == -1

(***************************************************************************)
(* The value a stream holds at offset i ends at RefEnd(src, i).  Only      *)
(* numbers have no closing byte: a number ends where no further byte can   *)
(* continue it, so a text that only begins another number ("1.", "1e+") is *)
(* not the number it starts with.  src is a viable number when it is one,  *)
(* or becomes one by a further digit.                                      *)
(***************************************************************************)
ViableNumber(src, i, j) ==
    \/ IsNumber(src, i, j)
    \/ IsNumber(Append(Slice(src, i, j), "0"), 0, j - i + 1)

RefEnd(src, i) ==
    LET ends == { j \in (i + 1)..Len(src) :
                    /\ IsValue(src, i, j)
                    /\ IsNumber(src, i, j) =>
                         j = Len(src) \/ ~ViableNumber(src, i, j + 1) }
    IN  IF ends = {} THEN NoValue ELSE CHOOSE j \in ends : TRUE

\* Whether src is exactly one value between optional white space.
IsDocument(src) ==
    LET i == SpanEnd(src, 0, Space)
    IN  \E j \in (i + 1)..Len(src) : IsValue(src, i, j) /\ SpanEnd(src, j, Space) = Len(src)
=============================================================================
