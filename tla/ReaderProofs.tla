---------------------------- MODULE ReaderProofs ----------------------------
(***************************************************************************)
(* Proofs about the Reader, for every input, source, limit and buffer      *)
(* size.  First its rolling buffer: there the scanners stay opaque, and    *)
(* nothing depends on what a value is, only on how the buffer and its      *)
(* offsets move.  Then the frame of the value in progress, which is kept   *)
(* across refills and has to find what one scan of the input finds.        *)
(***************************************************************************)
EXTENDS Reader, FrameProofs

(***************************************************************************)
(* Two facts about slices: the bytes of two adjacent spans, and the tail   *)
(* that compaction keeps.                                                  *)
(***************************************************************************)

\* A slice is a sequence of the slice's length.
LEMMA SliceType ==
    ASSUME NEW s \in Seq(STRING), NEW a \in Nat, NEW b \in Nat, a <= b, b <= Len(s)
    PROVE  /\ Slice(s, a, b) \in Seq(STRING)
           /\ Len(Slice(s, a, b)) = b - a
           /\ \A k \in 1..(b - a) : Slice(s, a, b)[k] = s[a + k]
BY DEF Slice

\* Reading on: the span [a, b) followed by [b, c) is the span [a, c).
LEMMA SliceConcat ==
    ASSUME NEW s \in Seq(STRING), NEW a \in Nat, NEW b \in Nat, NEW c \in Nat,
           a <= b, b <= c, c <= Len(s)
    PROVE  Slice(s, a, b) \o Slice(s, b, c) = Slice(s, a, c)
BY ConcatAdjacentSubSeq DEF Slice

\* A part of a slice is a slice.
LEMMA SliceSlice ==
    ASSUME NEW s \in Seq(STRING), NEW a \in Nat, NEW b \in Nat, NEW x \in Nat, NEW y \in Nat,
           x <= y, a + y <= b, b <= Len(s)
    PROVE  Slice(Slice(s, a, b), x, y) = Slice(s, a + x, a + y)
<1> DEFINE u == Slice(s, a, b)
           l == Slice(u, x, y)
           r == Slice(s, a + x, a + y)
<1>1. /\ a <= b /\ a + x \in Nat /\ a + y \in Nat
      /\ a + x <= a + y /\ a + y <= Len(s) /\ (a + y) - (a + x) = y - x
  OBVIOUS
<1>2. u \in Seq(STRING) /\ Len(u) = b - a /\ \A k \in 1..(b - a) : u[k] = s[a + k]
  BY <1>1, SliceType
<1>3. r \in Seq(STRING) /\ Len(r) = y - x /\ \A k \in 1..(y - x) : r[k] = s[(a + x) + k]
  <2>1. PICK p \in Nat : p = a + x
    BY <1>1
  <2>2. PICK q \in Nat : q = a + y
    BY <1>1
  <2>3. p <= q /\ q <= Len(s) /\ q - p = y - x
    BY <1>1, <2>1, <2>2
  <2>4. /\ Slice(s, p, q) \in Seq(STRING) /\ Len(Slice(s, p, q)) = q - p
        /\ \A k \in 1..(q - p) : Slice(s, p, q)[k] = s[p + k]
    BY <2>3, SliceType
  <2> QED BY <2>1, <2>2, <2>3, <2>4
<1>4. l \in Seq(STRING) /\ Len(l) = y - x /\ \A k \in 1..(y - x) : l[k] = u[x + k]
  <2> HIDE DEF u, r
  <2>1. y <= Len(u)
    BY <1>2
  <2> QED BY <1>2, <2>1, SliceType
<1> HIDE DEF u, l, r
<1>5. \A k \in 1..(y - x) : l[k] = r[k]
  BY <1>2, <1>3, <1>4
<1>6. l = r
  BY <1>3, <1>4, <1>5, SeqEqual
<1> QED
  BY <1>6 DEF u, l, r

-----------------------------------------------------------------------------
(***************************************************************************)
(* The inductive invariant.  WindowFaithful alone is not inductive:        *)
(* compaction at an offset outside the buffer would break it, so the       *)
(* offsets must be known to be ordered; BytesFaithful follows from the     *)
(* window once a current value is known to lie inside it.                  *)
(***************************************************************************)
Inv == TypeOK /\ WindowFaithful /\ OffsetsOrdered /\ BytesFaithful /\ MemoryBounded

\* What fill does before it reads: the kept bytes are still a slice of the
\* input that ends where the source stands, and the offsets moved with them.
LEMMA MakeRoomKeepsWindow ==
    ASSUME Inv, ~closed, NEW keep \in Nat, valEnd <= keep, keep <= Len(buf),
           MakeRoom(keep), UNCHANGED source
    PROVE  /\ cap' \in Nat /\ consumed' \in Nat /\ pos' \in Nat /\ i' \in Nat
           /\ valStart' \in Int /\ valEnd' \in Int
           /\ Kept(keep) \in Seq(STRING)
           /\ sent = consumed' + Len(Kept(keep))
           /\ Len(Kept(keep)) <= cap'
           /\ Kept(keep) = Slice(input, consumed', sent)
           /\ pos' = i' /\ valEnd' <= i' /\ i' <= Len(Kept(keep))
           /\ consumed' + valEnd' = consumed + valEnd
           /\ MemoryBounded'
           /\ hasValue' = hasValue
<1>1. /\ input \in Seq(STRING) /\ buf \in Seq(STRING)
      /\ maxValue \in Nat /\ cap \in Nat /\ initCap \in Nat /\ consumed \in Nat
      /\ sent \in Nat /\ sent <= Len(input) /\ valStart \in Int /\ valEnd \in Int
  BY DEF Inv, TypeOK
<1>2. sent = consumed + Len(buf) /\ Len(buf) <= cap /\ buf = Slice(input, consumed, sent)
  BY DEF Inv, WindowFaithful
<1>3. maxValue' = maxValue /\ initCap' = initCap
  BY DEF source
<1>4. PICK m \in Nat : m = Len(buf)
  BY <1>1
<1>5. CASE m # cap
  <2>1. /\ cap' = cap /\ consumed' = consumed + 0 /\ pos' = keep - 0 /\ i' = keep - 0
        /\ valStart' = valStart - 0 /\ valEnd' = valEnd - 0 /\ hasValue' = hasValue
        /\ Kept(keep) = buf
    BY <1>4, <1>5 DEF MakeRoom, Kept
  <2>2. MemoryBounded'
    BY <1>3, <2>1 DEF Inv, MemoryBounded
  <2>3. consumed' = consumed /\ pos' = keep /\ i' = keep /\ valStart' = valStart /\ valEnd' = valEnd
    BY <1>1, <2>1
  <2> QED
    BY <1>1, <1>2, <2>1, <2>2, <2>3
<1>6. CASE m = cap
  <2>1. /\ cap' = IF keep = 0 THEN 2 * cap ELSE cap
        /\ consumed' = consumed + keep /\ pos' = keep - keep /\ i' = keep - keep
        /\ valStart' = valStart - keep /\ valEnd' = valEnd - keep
        /\ hasValue' = hasValue
        /\ Kept(keep) = Slice(buf, keep, m)
    BY <1>4, <1>6 DEF MakeRoom, Kept, Slice
  <2>2. Slice(Slice(input, consumed, sent), keep, m) = Slice(input, consumed + keep, consumed + m)
    BY <1>1, <1>2, <1>4, SliceSlice
  <2>3. Kept(keep) = Slice(input, consumed', sent)
    BY <1>2, <1>4, <2>1, <2>2
  <2>4. Slice(buf, keep, m) \in Seq(STRING) /\ Len(Slice(buf, keep, m)) = m - keep
    BY <1>1, <1>4, SliceType
  <2>5. MemoryBounded'
    <3>1. keep = 0 => ~TooLong(m - 0)
      BY <1>4, <1>6 DEF MakeRoom, FillRefused
    <3> QED
      BY <1>1, <1>3, <1>4, <1>6, <2>1, <3>1 DEF Inv, MemoryBounded, TooLong
  <2>6. /\ cap' \in Nat /\ cap <= cap' /\ pos' = 0 /\ i' = 0
        /\ consumed' \in Nat /\ valStart' \in Int /\ valEnd' \in Int /\ valEnd' <= 0
        /\ consumed' + valEnd' = consumed + valEnd
    BY <1>1, <2>1
  <2> HIDE DEF Kept
  <2>7. Kept(keep) \in Seq(STRING) /\ Len(Kept(keep)) = m - keep
    BY <2>1, <2>4
  <2>8. sent = consumed' + Len(Kept(keep)) /\ Len(Kept(keep)) <= cap' /\ 0 <= Len(Kept(keep))
    <3>1. sent = consumed + m /\ consumed' = consumed + keep /\ cap = m /\ keep <= m
      BY <1>2, <1>4, <1>6, <2>1
    <3>2. Len(Kept(keep)) = m - keep /\ cap' \in Nat /\ cap <= cap'
      BY <2>6, <2>7
    <3> QED
      BY <1>1, <3>1, <3>2
  <2> QED
    BY <2>1, <2>3, <2>5, <2>6, <2>7, <2>8
<1> QED
  BY <1>5, <1>6

\* What fill does altogether.
LEMMA FillKeepsWindow ==
    ASSUME Inv, ~closed, NEW keep \in Nat, valEnd <= keep, keep <= Len(buf),
           NEW n \in Nat, NEW last \in BOOLEAN, fill(keep, n, last), UNCHANGED source
    PROVE  /\ cap' \in Nat /\ consumed' \in Nat /\ pos' \in Nat /\ i' \in Nat
           /\ valStart' \in Int /\ valEnd' \in Int
           /\ buf' \in Seq(STRING) /\ sent' \in 0..Len(input)
           /\ eof' \in BOOLEAN /\ readErr' \in BOOLEAN
           /\ sent' = consumed' + Len(buf') /\ Len(buf') <= cap'
           /\ buf' = Slice(input, consumed', sent')
           /\ pos' = i' /\ valEnd' <= i' /\ i' <= Len(buf')
           /\ consumed' + valEnd' = consumed + valEnd
           /\ MemoryBounded'
           /\ hasValue' = hasValue
<1>1. MakeRoom(keep)
  BY DEF fill
<1>2. /\ cap' \in Nat /\ consumed' \in Nat /\ pos' \in Nat /\ i' \in Nat
      /\ valStart' \in Int /\ valEnd' \in Int
      /\ pos' = i' /\ valEnd' <= i'
      /\ consumed' + valEnd' = consumed + valEnd
      /\ MemoryBounded'
      /\ hasValue' = hasValue
  BY <1>1, MakeRoomKeepsWindow
<1>3. PICK kept \in Seq(STRING) :
         /\ kept = Kept(keep)
         /\ sent = consumed' + Len(kept) /\ i' <= Len(kept)
         /\ kept = Slice(input, consumed', sent)
  BY <1>1, MakeRoomKeepsWindow
<1>4. PICK c \in Nat, w \in Nat, j \in Nat : c = consumed' /\ w = cap' /\ j = i'
  BY <1>2
<1>5. PICK m \in Nat : m = Len(kept)
  BY <1>3
<1>6. input \in Seq(STRING) /\ sent \in Nat
  BY DEF Inv, TypeOK
<1>7. PICK e \in Nat : e = sent + n
  BY <1>6
<1>8. sent = c + m /\ j <= m
  BY <1>3, <1>4, <1>5
<1>9. sent' = sent + n /\ sent + n <= Len(input) /\ eof' \in BOOLEAN /\ readErr' \in BOOLEAN
  BY DEF fill, Inv, TypeOK
<1>10. Len(Kept(keep)) + n <= cap' /\ buf' = Kept(keep) \o Slice(input, sent, sent + n)
  BY DEF fill
<1>11. m + n <= w /\ buf' = kept \o Slice(input, sent, e) /\ sent' = e /\ e <= Len(input)
  BY <1>3, <1>4, <1>5, <1>7, <1>9, <1>10
<1>12. c <= sent /\ sent <= e /\ e - sent = n
  BY <1>6, <1>7, <1>8
<1>13. Slice(input, sent, e) \in Seq(STRING) /\ Len(Slice(input, sent, e)) = n
  BY <1>6, <1>11, <1>12, SliceType
<1>14. kept \o Slice(input, sent, e) = Slice(input, c, e)
  <2>1. Slice(input, c, sent) \o Slice(input, sent, e) = Slice(input, c, e)
    BY <1>6, <1>11, <1>12, SliceConcat, SMTT(30)
  <2> QED
    BY <1>3, <1>4, <2>1
<1>15. kept \o Slice(input, sent, e) \in Seq(STRING) /\ Len(kept \o Slice(input, sent, e)) = m + n
  BY <1>5, <1>13, ConcatProperties
<1>16. buf' \in Seq(STRING) /\ Len(buf') = m + n /\ buf' = Slice(input, consumed', sent')
  BY <1>4, <1>11, <1>14, <1>15
<1>17. e = c + (m + n) /\ m + n <= w /\ j <= m + n /\ e \in 0..Len(input)
  BY <1>6, <1>7, <1>8, <1>11
<1> QED
  BY <1>2, <1>4, <1>9, <1>11, <1>16, <1>17

\* A new Reader satisfies the invariant.
LEMMA InitInv == NewReader => Inv
<1> SUFFICES ASSUME NewReader PROVE Inv
  OBVIOUS
<1>1. TypeOK
  <2>1. /\ input \in Seq(STRING) /\ tail \in {"EOF", "ERR"} /\ maxValue \in Nat
        /\ initCap \in Nat \ {0} /\ cap \in Nat
    BY ReaderAssumption DEF NewReader
  <2>2. /\ sent \in 0..Len(input) /\ consumed \in Nat /\ buf \in Seq(STRING)
        /\ valStart \in Int /\ valEnd \in Int /\ pos \in Nat /\ i \in Nat
    BY <2>1 DEF NewReader
  <2>3. /\ hasValue \in BOOLEAN /\ eof \in BOOLEAN /\ readErr \in BOOLEAN /\ closed \in BOOLEAN
        /\ phase \in {"idle", "space", "frame"} /\ op \in {"Next", "DecodeNext"}
        /\ ret \in {"none", "true", "false"} /\ err.kind \in ErrorKinds
    BY DEF NewReader, NoErr, ErrorKinds
  <2> QED
    BY <2>1, <2>2, <2>3 DEF TypeOK
<1>2. WindowFaithful
  <2>1. input \in Seq(STRING) /\ sent = 0 /\ consumed = 0 /\ buf = <<>> /\ cap \in Nat
    BY <1>1 DEF NewReader, TypeOK
  <2>2. Slice(input, 0, 0) = <<>>
    BY <2>1 DEF Slice
  <2> QED
    BY <2>1, <2>2 DEF WindowFaithful
<1>3. OffsetsOrdered /\ BytesFaithful /\ MemoryBounded
  BY <1>1 DEF NewReader, TypeOK, OffsetsOrdered, BytesFaithful, MemoryBounded
<1> QED
  BY <1>1, <1>2, <1>3 DEF Inv

\* A step that neither reads nor closes keeps the window; what is left to
\* check are the types and the order of the offsets it assigns.
LEMMA QuietStep ==
    ASSUME Inv, UNCHANGED <<source, window, closed>>, ~closed,
           pos' \in Nat, i' \in Nat, valStart' \in Int, valEnd' \in Int, hasValue' \in BOOLEAN,
           phase' \in {"idle", "space", "frame"}, op' \in {"Next", "DecodeNext"},
           ret' \in {"none", "true", "false"}, err'.kind \in ErrorKinds,
           valEnd' <= pos', pos' <= Len(buf),
           phase' # "idle" => ~hasValue' /\ valEnd' <= i' /\ i' <= Len(buf),
           hasValue' => 0 <= valStart' /\ valStart' < valEnd' /\ valEnd' <= Len(buf)
    PROVE  Inv'
<1>1. /\ input' = input /\ tail' = tail /\ maxValue' = maxValue /\ initCap' = initCap
      /\ sent' = sent /\ buf' = buf /\ cap' = cap /\ consumed' = consumed
      /\ eof' = eof /\ readErr' = readErr /\ closed' = closed
  BY DEF source, window
<1>2. TypeOK'
  BY <1>1 DEF Inv, TypeOK
<1>3. WindowFaithful' /\ MemoryBounded'
  BY <1>1 DEF Inv, WindowFaithful, MemoryBounded
<1>4. OffsetsOrdered'
  BY <1>1 DEF OffsetsOrdered
<1>5. BytesFaithful'
  <2> SUFFICES ASSUME hasValue'
               PROVE  Slice(buf, valStart', valEnd')
                      = Slice(input, consumed + valStart', consumed + valEnd')
    BY <1>1 DEF BytesFaithful
  <2>1. PICK x \in Nat, y \in Nat : x = valStart' /\ y = valEnd' /\ x <= y /\ y <= Len(buf)
    <3>1. PICK x \in Int, y \in Int : x = valStart' /\ y = valEnd'
      OBVIOUS
    <3>2. 0 <= x /\ x < y /\ y <= Len(buf)
      BY <3>1
    <3>3. x \in Nat /\ y \in Nat /\ x <= y
      BY <3>2
    <3> QED
      BY <3>1, <3>2, <3>3
  <2>2. /\ input \in Seq(STRING) /\ consumed \in Nat /\ sent \in Nat /\ sent <= Len(input)
        /\ buf = Slice(input, consumed, sent) /\ consumed + Len(buf) = sent
        /\ Len(buf) \in Nat
    BY DEF Inv, TypeOK, WindowFaithful
  <2>3. PICK m \in Nat : m = Len(buf)
    BY <2>2
  <2>4. y <= m /\ consumed + m = sent /\ consumed + y <= sent
    <3>1. y <= m /\ consumed + m = sent
      BY <2>1, <2>2, <2>3
    <3> QED
      BY <2>2, <3>1
  <2>5. Slice(Slice(input, consumed, sent), x, y) = Slice(input, consumed + x, consumed + y)
    BY <2>1, <2>2, <2>4, SliceSlice, SMTT(30)
  <2> QED
    BY <2>1, <2>2, <2>5
<1> QED
  BY <1>2, <1>3, <1>4, <1>5 DEF Inv

\* A step that reads, and then goes on or gives up.
LEMMA FillStep ==
    ASSUME Inv, ~closed, ~hasValue, UNCHANGED <<source, closed, op>>,
           NEW keep \in Nat, valEnd <= keep, keep <= Len(buf),
           NEW n \in Nat, NEW last \in BOOLEAN, fill(keep, n, last),
           phase' \in {"idle", "space", "frame"},
           ret' \in {"none", "true", "false"}, err'.kind \in ErrorKinds
    PROVE  Inv' /\ InputOffset' = InputOffset
<1>1. /\ input' = input /\ tail' = tail /\ maxValue' = maxValue /\ initCap' = initCap
      /\ closed' = closed /\ op' = op /\ UNCHANGED source
  BY DEF source
<1>2. /\ cap' \in Nat /\ consumed' \in Nat /\ pos' \in Nat /\ i' \in Nat
      /\ valStart' \in Int /\ valEnd' \in Int
      /\ buf' \in Seq(STRING) /\ sent' \in 0..Len(input)
      /\ eof' \in BOOLEAN /\ readErr' \in BOOLEAN
  BY <1>1, FillKeepsWindow
<1>3. /\ sent' = consumed' + Len(buf') /\ Len(buf') <= cap'
      /\ buf' = Slice(input, consumed', sent')
      /\ pos' = i' /\ valEnd' <= i' /\ i' <= Len(buf')
      /\ consumed' + valEnd' = consumed + valEnd
      /\ MemoryBounded'
      /\ hasValue' = hasValue
  BY <1>1, FillKeepsWindow
<1>4. TypeOK'
  BY <1>1, <1>2, <1>3 DEF Inv, TypeOK
<1>5. WindowFaithful' /\ OffsetsOrdered' /\ BytesFaithful'
  BY <1>1, <1>3 DEF WindowFaithful, OffsetsOrdered, BytesFaithful
<1> QED
  BY <1>3, <1>4, <1>5 DEF Inv, InputOffset

\* What every step of a call needs to know of the state it starts in.
LEMMA InCall ==
    ASSUME Inv, phase # "idle"
    PROVE  /\ ~closed /\ hasValue = FALSE
           /\ i \in Nat /\ pos \in Nat /\ Len(buf) \in Nat /\ valStart \in Int /\ valEnd \in Int
           /\ valEnd <= i /\ i <= Len(buf) /\ valEnd <= Len(buf)
           /\ valEnd <= pos /\ pos <= Len(buf)
           /\ op \in {"Next", "DecodeNext"} /\ err.kind \in ErrorKinds
           /\ ret \in {"none", "true", "false"}
<1>1. /\ ~closed /\ hasValue = FALSE
      /\ i \in Nat /\ pos \in Nat /\ Len(buf) \in Nat /\ valStart \in Int /\ valEnd \in Int
      /\ valEnd <= i /\ i <= Len(buf) /\ valEnd <= pos /\ pos <= Len(buf)
      /\ op \in {"Next", "DecodeNext"} /\ err.kind \in ErrorKinds
      /\ ret \in {"none", "true", "false"}
  BY DEF Inv, TypeOK, OffsetsOrdered
<1>2. valEnd <= Len(buf)
  BY <1>1
<1> QED
  BY <1>1, <1>2

\* Every error a call can record is of a known kind.
LEMMA ErrorKind ==
    /\ \A k \in ErrorKinds : \A a : Error(k, a).kind \in ErrorKinds
    /\ \A a, v : SyntaxError(a, v).kind \in ErrorKinds
    /\ \A x, v : Diagnose(x, v).kind \in ErrorKinds
    /\ {"source", "limit", "count", "decode"} \subseteq ErrorKinds
<1>1. /\ \A k \in ErrorKinds : \A a : Error(k, a).kind \in ErrorKinds
      /\ \A a, v : SyntaxError(a, v).kind \in ErrorKinds
      /\ {"source", "limit", "count", "decode"} \subseteq ErrorKinds
  BY DEF Error, SyntaxError, ErrorKinds
<1>2. ASSUME NEW x, NEW v PROVE Diagnose(x, v).kind \in ErrorKinds
  BY <1>1 DEF Diagnose
<1> QED
  BY <1>1, <1>2

\* A call that gives up leaves everything but the error and its return.
LEMMA GivesUp ==
    ASSUME Inv, phase # "idle", NEW e, e.kind \in ErrorKinds, ReturnFalse(e),
           UNCHANGED <<source, window, value, closed, op>>,
           i' \in Nat, pos' \in {pos, i, Len(buf)}
    PROVE  Inv' /\ InputOffset' = InputOffset /\ ret' = "false"
<1>1. /\ phase' = "idle" /\ ret' = "false" /\ err' = e
      /\ valStart' = valStart /\ valEnd' = valEnd /\ hasValue' = hasValue /\ op' = op
      /\ consumed' = consumed /\ UNCHANGED <<source, window, closed>>
  BY DEF ReturnFalse, value, window
<1>2. pos' \in Nat /\ valEnd' <= pos' /\ pos' <= Len(buf)
  BY <1>1, InCall
<1>3. Inv'
  BY <1>1, <1>2, InCall, QuietStep
<1> QED
  BY <1>1, <1>3 DEF InputOffset

\* A call that delivers [start, end).
LEMMA Delivers ==
    ASSUME Inv, phase # "idle", NEW start \in Nat, NEW end \in Nat,
           i <= start, start < end, end <= Len(buf), ReturnValue(start, end),
           UNCHANGED <<source, window, closed, op>>, i' \in Nat
    PROVE  Inv' /\ InputOffset' > InputOffset
<1>1. /\ phase' = "idle" /\ ret' = "true" /\ err' = err /\ hasValue' = TRUE /\ op' = op
      /\ valStart' = start /\ valEnd' = end /\ pos' = end
      /\ consumed' = consumed /\ UNCHANGED <<source, window, closed>>
  BY DEF ReturnValue, window
<1>2. Inv'
  BY <1>1, InCall, QuietStep
<1>3. consumed \in Nat /\ valEnd \in Int /\ valEnd <= i /\ i \in Nat
  BY InCall DEF Inv, TypeOK
<1>4. consumed + end > consumed + valEnd
  BY <1>3
<1> QED
  BY <1>1, <1>2, <1>4 DEF InputOffset

\* What OffsetAdvances says of one step.
Advance ==
    IF phase # "idle" /\ ret' = "true" /\ phase' = "idle" /\ hasValue'
    THEN InputOffset' > InputOffset
    ELSE InputOffset' = InputOffset

\* Conclude either delivers or gives up.
LEMMA ConcludeStep ==
    ASSUME Inv, phase # "idle", NEW start \in Nat, NEW end \in Nat,
           i <= start, start < end, end <= Len(buf), Conclude(start, end),
           UNCHANGED <<source, window, closed, op>>, i' \in Nat
    PROVE  Inv' /\ Advance
<1>1. CASE ReturnValue(start, end)
  BY <1>1, Delivers DEF Advance, ReturnValue
<1>2. ASSUME NEW k \in {"source", "limit"},
             ReturnFalse(Error(k, consumed + start)), UNCHANGED <<value, pos>>
      PROVE  Inv' /\ Advance
  <2>1. Error(k, consumed + start).kind \in ErrorKinds
    BY ErrorKind
  <2>2. UNCHANGED <<source, window, value, closed, op>> /\ pos' \in {pos, i, Len(buf)}
    BY <1>2
  <2>3. Inv' /\ InputOffset' = InputOffset /\ ret' = "false"
    BY <1>2, <2>1, <2>2, GivesUp
  <2> QED
    BY <2>3 DEF Advance
<1> QED
  BY <1>1, <1>2 DEF Conclude

\* A Read with an impossible count ends the call; the window stays faithful.
LEMMA BadCountStep ==
    ASSUME Inv, phase # "idle", BadCount
    PROVE  Inv' /\ Advance
<1>1. PICK keep \in Nat : fillBadCount(keep) /\ valEnd <= keep /\ keep <= Len(buf)
  BY InCall DEF BadCount
<1>2. /\ input' = input /\ tail' = tail /\ maxValue' = maxValue /\ initCap' = initCap
      /\ closed' = closed /\ op' = op /\ UNCHANGED source
  BY DEF BadCount, source
<1>3. /\ phase' = "idle" /\ ret' = "false" /\ err'.kind \in ErrorKinds
  BY ErrorKind DEF BadCount, ReturnFalse
<1>4. /\ MakeRoom(keep) /\ buf' = Kept(keep) /\ eof' = TRUE /\ sent' = sent /\ readErr' = readErr
  BY <1>1 DEF fillBadCount
<1>5. /\ cap' \in Nat /\ consumed' \in Nat /\ pos' \in Nat /\ i' \in Nat
      /\ valStart' \in Int /\ valEnd' \in Int
      /\ buf' \in Seq(STRING)
      /\ sent = consumed' + Len(buf') /\ Len(buf') <= cap'
      /\ buf' = Slice(input, consumed', sent)
      /\ pos' = i' /\ valEnd' <= i' /\ i' <= Len(buf')
      /\ consumed' + valEnd' = consumed + valEnd
      /\ MemoryBounded' /\ hasValue' = hasValue
  BY <1>1, <1>2, <1>4, InCall, MakeRoomKeepsWindow
<1>6. TypeOK'
  BY <1>2, <1>3, <1>4, <1>5 DEF Inv, TypeOK
<1>7. WindowFaithful' /\ OffsetsOrdered' /\ BytesFaithful'
  BY <1>2, <1>3, <1>4, <1>5, InCall DEF WindowFaithful, OffsetsOrdered, BytesFaithful
<1> QED
  BY <1>3, <1>5, <1>6, <1>7 DEF Inv, InputOffset, Advance

\* Every step of a call preserves the invariant and moves InputOffset only by
\* delivering a value.
LEMMA StepInv ==
    ASSUME Inv, phase # "idle", Step
    PROVE  Inv' /\ Advance
<1>1. CASE SpaceFill
  <2>1. PICK n \in 0..Len(input), last \in BOOLEAN :
          /\ fill(Len(buf), n, last)
          /\ IF n > 0 THEN UNCHANGED <<err, phase, ret>>
             ELSE ReturnFalse(IF readErr' THEN Error("source", NoValue) ELSE err)
    BY <1>1 DEF SpaceFill
  <2>2. n \in Nat
    BY DEF Inv, TypeOK
  <2>3. /\ phase' \in {"idle", "space", "frame"} /\ ret' \in {"none", "true", "false"}
        /\ err'.kind \in ErrorKinds
        /\ (phase' # "idle" \/ ret' = "false")
    <3>1. CASE n > 0
      BY <2>1, <3>1, InCall DEF Inv, TypeOK
    <3>2. CASE ~(n > 0)
      BY <2>1, <3>2, InCall, ErrorKind DEF ReturnFalse
    <3> QED
      BY <3>1, <3>2
  <2>4. Inv' /\ InputOffset' = InputOffset
    BY <1>1, <2>1, <2>2, <2>3, InCall, FillStep DEF SpaceFill
  <2> QED
    BY <2>3, <2>4 DEF Advance
<1>2. CASE SpaceEnd
  <2>1. PICK e : /\ e = (IF readErr THEN Error("source", NoValue) ELSE err)
                 /\ ReturnFalse(e) /\ e.kind \in ErrorKinds
    BY <1>2, InCall, ErrorKind DEF SpaceEnd
  <2>2. i' \in Nat /\ pos' \in {pos, i, Len(buf)} /\ UNCHANGED <<source, window, value, closed, op>>
    BY <1>2, InCall DEF SpaceEnd
  <2> QED
    BY <2>1, <2>2, GivesUp DEF Advance
<1>3. CASE NextBuffered
  <2>0. PICK start \in i..(Len(buf) - 1) : \E end \in (start + 1)..Len(buf) :
          Conclude(start, end) /\ i' = start
    BY <1>3 DEF NextBuffered
  <2>1. PICK end \in (start + 1)..Len(buf) : Conclude(start, end) /\ i' = start
    BY <2>0
  <2>2. start \in Nat /\ end \in Nat /\ i <= start /\ start < end /\ end <= Len(buf)
    BY InCall
  <2> QED
    BY <1>3, <2>1, <2>2, ConcludeStep DEF NextBuffered
<1>4. CASE StartFrame
  <2>1. PICK start \in i..(Len(buf) - 1) : i' = start
    BY <1>4 DEF StartFrame
  <2>2. start \in Nat /\ i <= start /\ start <= Len(buf) /\ valEnd <= start
    BY InCall
  <2>3. /\ phase' = "frame" /\ op' = op /\ ret' = ret /\ err' = err /\ pos' = pos
        /\ valStart' = valStart /\ valEnd' = valEnd /\ hasValue' = hasValue
        /\ consumed' = consumed /\ UNCHANGED <<source, window, closed>>
    BY <1>4 DEF StartFrame, value, window
  <2>4. Inv'
    BY <2>1, <2>2, <2>3, InCall, QuietStep
  <2> QED
    BY <2>3, <2>4 DEF Advance, InputOffset
<1>5. CASE FrameFill
  <2>1. PICK n \in 0..Len(input), last \in BOOLEAN : fill(i, n, last)
    BY <1>5 DEF FrameFill
  <2>2. n \in Nat
    BY DEF Inv, TypeOK
  <2>3. /\ phase' = phase /\ ret' = ret /\ err' = err /\ UNCHANGED <<source, closed, op>>
        /\ phase \in {"idle", "space", "frame"}
    BY <1>5 DEF FrameFill, Inv, TypeOK
  <2>4. Inv' /\ InputOffset' = InputOffset
    BY <2>1, <2>2, <2>3, InCall, FillStep
  <2> QED
    BY <2>3, <2>4 DEF Advance
<1>6. CASE FrameLimit
  <2>1. /\ ReturnFalse(Error("limit", consumed + i))
        /\ Error("limit", consumed + i).kind \in ErrorKinds
    BY <1>6, ErrorKind DEF FrameLimit
  <2>2. i' \in Nat /\ pos' \in {pos, i, Len(buf)} /\ UNCHANGED <<source, window, value, closed, op>>
    BY <1>6, InCall DEF FrameLimit
  <2> QED
    BY <2>1, <2>2, GivesUp DEF Advance
<1>7. CASE BadCount
  BY <1>7, BadCountStep
<1>8. CASE NextResolve
  <2>1. i' = i /\ UNCHANGED <<source, window, closed, op>> /\ i' \in Nat
    BY <1>8, InCall DEF NextResolve
  <2>2. CASE \E end \in (i + 1)..Len(buf) : Conclude(i, end)
    <3>1. PICK end \in (i + 1)..Len(buf) : Conclude(i, end)
      BY <2>2
    <3>2. i \in Nat /\ end \in Nat /\ i <= i /\ i < end /\ end <= Len(buf)
      BY InCall
    <3> QED
      BY <2>1, <3>1, <3>2, ConcludeStep
  <2>3. ASSUME NEW x, NEW v, ReturnFalse(Diagnose(x, v)), UNCHANGED <<value, pos>>
        PROVE  Inv' /\ Advance
    <3>1. Diagnose(x, v).kind \in ErrorKinds
      BY ErrorKind
    <3>2. pos' \in {pos, i, Len(buf)} /\ UNCHANGED <<source, window, value, closed, op>>
      BY <2>1, <2>3
    <3>3. Inv' /\ InputOffset' = InputOffset /\ ret' = "false"
      BY <2>1, <2>3, <3>1, <3>2, GivesUp
    <3> QED
      BY <3>3 DEF Advance
  <2> QED
    BY <1>8, <2>2, <2>3 DEF NextResolve
<1>9. ASSUME NEW e, e.kind \in ErrorKinds, ReturnFalse(e),
             UNCHANGED <<source, window, value, pos, closed, op, i>>
      PROVE  Inv' /\ Advance
  <2>1. i' \in Nat /\ pos' \in {pos, i, Len(buf)} /\ UNCHANGED <<source, window, value, closed, op>>
    BY <1>9, InCall
  <2> QED
    BY <1>9, <2>1, GivesUp DEF Advance
<1>10. CASE DecodeCheck
  <2>1. PICK e : e.kind \in ErrorKinds /\ ReturnFalse(e)
    BY <1>10, ErrorKind DEF DecodeCheck
  <2> QED
    BY <1>9, <1>10, <2>1 DEF DecodeCheck
<1>11. CASE DecodeDeliver
  <2>1. PICK end \in (i + 1)..Len(buf) : ReturnValue(i, end)
    BY <1>11 DEF DecodeDeliver
  <2>2. i \in Nat /\ end \in Nat /\ i <= i /\ i < end /\ end <= Len(buf)
    BY InCall
  <2>3. i' \in Nat /\ UNCHANGED <<source, window, closed, op>>
    BY <1>11, InCall DEF DecodeDeliver
  <2>4. Inv' /\ InputOffset' > InputOffset
    BY <2>1, <2>2, <2>3, Delivers
  <2> QED
    BY <2>1, <2>4 DEF Advance, ReturnValue
<1>12. CASE DecodeFail
  <2>1. PICK e : e.kind \in ErrorKinds /\ ReturnFalse(e)
    BY <1>12, ErrorKind DEF DecodeFail
  <2> QED
    BY <1>9, <1>12, <2>1 DEF DecodeFail
<1> QED
  BY <1>1, <1>2, <1>3, <1>4, <1>5, <1>6, <1>7, <1>8, <1>10, <1>11, <1>12 DEF Step, Turn

\* Every step of the specification does.
LEMMA NextInv ==
    ASSUME Inv, [Next]_vars
    PROVE  Inv' /\ Advance
<1>1. ASSUME NEW o \in {"Next", "DecodeNext"}, Call(o) PROVE Inv' /\ Advance
  <2>1. /\ pos \in Nat /\ valStart \in Int /\ valEnd \in Int /\ ~closed
        /\ valEnd <= pos /\ pos <= Len(buf) /\ err.kind \in ErrorKinds
        /\ ret \in {"none", "true", "false"}
    BY <1>1 DEF Call, Inv, TypeOK, OffsetsOrdered
  <2>2. /\ phase = "idle" /\ phase' = "space" /\ op' = o /\ i' = pos /\ hasValue' = FALSE
        /\ valStart' = valStart /\ valEnd' = valEnd /\ pos' = pos /\ err' = err /\ ret' = ret
        /\ consumed' = consumed /\ UNCHANGED <<source, window, closed>>
    BY <1>1 DEF Call, window
  <2>3. Inv'
    BY <2>1, <2>2, QuietStep
  <2> QED
    BY <2>2, <2>3 DEF Advance, InputOffset
<1>2. CASE CallRefused
  <2>1. /\ phase = "idle" /\ ret' = "false"
        /\ UNCHANGED <<source, window, value, pos, err, closed, phase, op, i, fr>>
    BY <1>2 DEF CallRefused
  <2>2. TypeOK'
    BY <2>1 DEF Inv, TypeOK, source, window, value
  <2>3. WindowFaithful' /\ OffsetsOrdered' /\ BytesFaithful' /\ MemoryBounded'
    BY <2>1 DEF Inv, WindowFaithful, OffsetsOrdered, BytesFaithful, MemoryBounded, source, window, value
  <2> QED
    BY <2>1, <2>2, <2>3 DEF Inv, Advance, InputOffset, window, value
<1>3. CASE Close
  <2>1. TypeOK'
    <3>1. /\ closed' = TRUE /\ hasValue' = FALSE /\ buf' = <<>> /\ cap' = 0
          /\ input' = input /\ tail' = tail /\ maxValue' = maxValue /\ initCap' = initCap
          /\ UNCHANGED <<sent, consumed, eof, readErr, valStart, valEnd, pos, err,
                         phase, op, i, fr, ret>>
      BY <1>3 DEF Close, source
    <3>2. buf' \in Seq(STRING) /\ cap' \in Nat
      BY <3>1
    <3> QED
      BY <3>1, <3>2 DEF Inv, TypeOK
  <2>2. WindowFaithful' /\ OffsetsOrdered' /\ BytesFaithful'
    BY <1>3 DEF Close, WindowFaithful, OffsetsOrdered, BytesFaithful
  <2>3. MemoryBounded'
    BY <1>3 DEF Close, Inv, TypeOK, MemoryBounded, source
  <2> QED
    BY <1>3, <2>1, <2>2, <2>3 DEF Close, Inv, Advance, InputOffset
<1>4. CASE Step
  <2>1. phase # "idle"
    BY <1>4 DEF Step, Turn, SpaceFill, SpaceEnd, NextBuffered, StartFrame, FrameFill, FrameLimit,
                BadCount, NextResolve, DecodeCheck, DecodeDeliver, DecodeFail, DecodeReady,
                AtSpace, AtValue, Framing, Resolved
  <2> QED
    BY <1>4, <2>1, StepInv
<1>5. CASE UNCHANGED vars
  <2>1. TypeOK'
    BY <1>5 DEF vars, source, window, value, Inv, TypeOK
  <2>2. WindowFaithful' /\ OffsetsOrdered' /\ BytesFaithful' /\ MemoryBounded'
    BY <1>5 DEF vars, source, window, value, Inv, WindowFaithful, OffsetsOrdered, BytesFaithful,
                MemoryBounded
  <2> QED
    BY <1>5, <2>1, <2>2 DEF vars, window, value, Inv, Advance, InputOffset
<1> QED
  BY <1>1, <1>2, <1>3, <1>4, <1>5 DEF Next

\* The invariant holds in every reachable state of every Reader.
THEOREM ReaderInvariance == Spec => []Inv
<1>1. NewReader => Inv
  BY InitInv
<1>2. Inv /\ [Next]_vars => Inv'
  BY NextInv
<1> QED
  BY <1>1, <1>2, PTL DEF Spec

-----------------------------------------------------------------------------
(***************************************************************************)
(* The theorems.                                                           *)
(***************************************************************************)

\* Type correctness of the Reader, for every input, source and option.
THEOREM ReaderTypeOK == Spec => []TypeOK
<1>1. Inv => TypeOK
  BY DEF Inv
<1> QED
  BY <1>1, ReaderInvariance, PTL

\* fill never loses, repeats or reorders a byte: the buffer of a Reader is the
\* part of the input between the bytes it discarded and the bytes it has read.
THEOREM ReaderWindowFaithful == Spec => []WindowFaithful
<1>1. Inv => WindowFaithful
  BY DEF Inv
<1> QED
  BY <1>1, ReaderInvariance, PTL

\* The offsets of the struct stay ordered and inside the buffer.
THEOREM ReaderOffsetsOrdered == Spec => []OffsetsOrdered
<1>1. Inv => OffsetsOrdered
  BY DEF Inv
<1> QED
  BY <1>1, ReaderInvariance, PTL

\* Bytes returns the text of the input that ends at InputOffset.
THEOREM ReaderBytesFaithful == Spec => []BytesFaithful
<1>1. Inv => BytesFaithful
  BY DEF Inv
<1> QED
  BY <1>1, ReaderInvariance, PTL

\* MaxValueBytes bounds the memory of a Reader: its buffer never grows past
\* twice the limit.
THEOREM ReaderMemoryBounded == Spec => []MemoryBounded
<1>1. Inv => MemoryBounded
  BY DEF Inv
<1> QED
  BY <1>1, ReaderInvariance, PTL

\* The rolling window is sound: fill, compaction and growth keep the bytes of
\* the input, the place of the current value and the bound on the buffer.
THEOREM ReaderWindowSound == Spec => []WindowSound
BY ReaderWindowFaithful, ReaderBytesFaithful, ReaderMemoryBounded, PTL DEF WindowSound

\* InputOffset moves only when a value is delivered, and then forward.
THEOREM ReaderOffsetAdvances == Spec => OffsetAdvances
<1>1. Inv /\ [Next]_vars => [Advance]_vars
  BY NextInv
<1> QED
  BY <1>1, ReaderInvariance, PTL DEF Spec, OffsetAdvances, Advance

-----------------------------------------------------------------------------
(***************************************************************************)
(* The frame of the value in progress, across the refills.                 *)
(***************************************************************************)

\* It has entered no byte that is not buffered, and goes on in the input to what
\* one scan from the value's first byte finds.
FrameInv ==
    phase = "frame" =>
        /\ Suspended(fr, i, Len(buf))
        /\ Scan(fr, input, consumed + i, sent) =
               Scan(FrameInit(At(input, consumed + i)), input, consumed + i, sent)

\* The buffer holds the bytes of the input behind consumed.
LEMMA BufferBytes ==
    ASSUME Inv, ~closed
    PROVE  /\ SameBytes(input, buf, consumed, Len(buf))
           /\ consumed + Len(buf) = sent /\ sent \in 0..Len(input)
  <1>1. /\ input \in Seq(STRING) /\ buf \in Seq(STRING) /\ consumed \in Nat /\ sent \in 0..Len(input)
        /\ sent = consumed + Len(buf) /\ buf = Slice(input, consumed, sent)
    BY DEF Inv, TypeOK, WindowFaithful
  <1>2. PICK m \in Nat : m = Len(buf)
    BY <1>1
  <1>3. PICK c \in Nat : c = consumed
    BY <1>1
  <1>4. PICK e \in Nat : e = sent
    BY <1>1
  <1>5. PICK l \in Nat : l = Len(input)
    BY <1>1
  <1>10. e = c + m /\ e <= l
    <2>1. sent = consumed + Len(buf) /\ sent \in 0..l
      BY <1>1, <1>5
    <2>2. e = c + m
      BY <1>2, <1>3, <1>4, <2>1
    <2>3. e \in 0..l
      BY <1>4, <2>1
    <2>. QED
      BY <2>2, <2>3
  <1>11. c <= e /\ e - c = m
    BY <1>10
  <1>6. \A k \in 1..(e - c) : Slice(input, c, e)[k] = input[c + k]
    <2>1. input \in Seq(STRING) /\ c <= e /\ e <= Len(input)
      BY <1>1, <1>5, <1>10, <1>11
    <2>. QED
      BY <2>1, SliceType
  <1>7. \A k \in 1..m : buf[k] = input[c + k]
    BY <1>1, <1>3, <1>4, <1>11, <1>6
  <1>8. ASSUME NEW k \in 0..(m - 1) PROVE At(buf, k) = At(input, c + k)
    <2>1. k + 1 \in 1..m /\ c + (k + 1) = (c + k) + 1
      BY <1>8
    <2>. QED
      BY <1>7, <2>1 DEF At
  <1>9. SameBytes(input, buf, c, m)
    BY <1>2, <1>5, <1>8, <1>10 DEF SameBytes
  <1>. QED
    BY <1>1, <1>2, <1>3, <1>9

\* A frame finds in the buffer what it finds in the input.
LEMMA BufferScan ==
    ASSUME Inv, ~closed, Suspended(fr, i, Len(buf)), i \in 0..Len(buf)
    PROVE  /\ Scan(fr, buf, i, Len(buf)) = Scan(fr, input, consumed + i, sent)
           /\ Suspended(fr, consumed + i, sent)
  <1>1. SameBytes(input, buf, consumed, Len(buf)) /\ consumed + Len(buf) = sent
    BY BufferBytes
  <1>2. PICK m : m = Len(buf)
    OBVIOUS
  <1>3. Scan(fr, input, consumed + i, consumed + m) = Scan(fr, buf, i, m)
    BY <1>1, <1>2, FrameMoves
  <1>4. consumed \in Nat /\ m \in Nat
    BY <1>1, <1>2 DEF SameBytes
  <1>5. fr \in FrameFields /\ i + fr.framed \in 0..m /\ (fr.mode = "container" => fr.depth # 0)
    BY <1>2 DEF Suspended
  <1>6. fr.framed \in Nat
    BY <1>5 DEF FrameFields
  <1>7. (consumed + i) + fr.framed \in 0..(consumed + m)
    BY <1>2, <1>4, <1>5, <1>6
  <1>. QED
    BY <1>1, <1>2, <1>3, <1>5, <1>7 DEF Suspended

\* A frame that needs more bytes has been scanned and nothing else: the rules
\* for numbers only end one.
LEMMA UnfinishedScan ==
    ASSUME ~scanFrame(fr, i).done
    PROVE  scanFrame(fr, i) = Scan(fr, buf, i, Len(buf))
  <1> DEFINE z == IF At(buf, i) = "-" THEN i + 1 ELSE i
             scan == Scan(fr, buf, i, Len(buf))
             end == validRootValueFast(buf, i)
             zero == Has(buf, z, {"0"}) /\ Has(buf, z + 1, Digit)
             cut == /\ \/ ~TooLong(fr.framed) /\ TooLong(scan.fr.framed)
                       \/ terminalScalarSourceError(i, scan.fr.framed)
                    /\ end # NoValue /\ end < i + scan.fr.framed
             a == [fr |-> [fr EXCEPT !.framed = z + 1 - i], done |-> TRUE]
             b == [fr |-> [scan.fr EXCEPT !.framed = end - i], done |-> TRUE]
  <1>1. a.done = TRUE /\ b.done = TRUE
    OBVIOUS
  <1>2. splitNumber(fr, i, scan, end) = IF cut THEN b ELSE scan
    BY Zenon DEF splitNumber
  <1> HIDE DEF a, b, cut
  <1>3. scanFrame(fr, i) = IF fr.mode # "number" THEN scan
                           ELSE IF zero THEN a ELSE splitNumber(fr, i, scan, end)
    BY Zenon DEF scanFrame, a
  <1> HIDE DEF zero, scan, end
  <1>4. scanFrame(fr, i) = scan
    BY <1>1, <1>2, <1>3
  <1>. QED
    BY <1>4 DEF scan

\* A frame that starts.
LEMMA StartFrameFrames ==
    ASSUME Inv, StartFrame
    PROVE  FrameInv'
  <1>1. ~closed /\ i \in Nat
    BY DEF StartFrame, AtValue, Inv, TypeOK, OffsetsOrdered
  <1>2. PICK start \in i..(Len(buf) - 1) : i' = start /\ fr' = FrameInit(At(buf, start))
    BY DEF StartFrame
  <1>3. input' = input /\ buf' = buf /\ consumed' = consumed /\ sent' = sent
    BY DEF StartFrame, source, window
  <1>4. SameBytes(input, buf, consumed, Len(buf))
    BY <1>1, BufferBytes
  <1>5. PICK m : m = Len(buf)
    OBVIOUS
  <1>6. m \in Nat /\ start \in Nat /\ start \in 0..(m - 1) /\ start + 1 <= m
    BY <1>1, <1>2, <1>4, <1>5 DEF SameBytes
  <1>7. At(buf, start) = At(input, consumed + start)
    BY <1>4, <1>5, <1>6 DEF SameBytes
  <1>8. Suspended(fr', start, start + 1)
    BY <1>2, <1>6, FrameInitIs
  <1>9. Suspended(fr', start, m)
    BY <1>6, <1>8 DEF Suspended
  <1>. QED
    BY <1>2, <1>3, <1>5, <1>7, <1>9 DEF FrameInv

\* fill keeps the place of the value in the input.
LEMMA FillKeepsPlace ==
    ASSUME Inv, ~closed, NEW n \in Nat, NEW last \in BOOLEAN, fill(i, n, last)
    PROVE  consumed' + i' = consumed + i /\ sent' = sent + n
  <1>1. consumed \in Nat /\ i \in Nat
    BY DEF Inv, TypeOK
  <1> DEFINE shift == IF Len(buf) = cap THEN i ELSE 0
  <1>2. consumed' = consumed + shift /\ i' = i - shift /\ sent' = sent + n
    BY Zenon DEF fill, MakeRoom
  <1>3. shift \in Nat
    BY <1>1
  <1> HIDE DEF shift
  <1>. QED
    BY <1>1, <1>2, <1>3

\* A refill in the middle of a value.
LEMMA FrameFillFrames ==
    ASSUME Inv, Inv', FrameInv, FrameFill
    PROVE  FrameInv'
  <1> DEFINE at == consumed + i
             open == FrameInit(At(input, at))
             first == Scan(fr, input, at, sent)
  <1>1. phase = "frame" /\ phase' = "frame" /\ ~closed /\ ~scanFrame(fr, i).done /\ i <= Len(buf) /\ input' = input
    BY DEF FrameFill, Framing, Inv, OffsetsOrdered, source
  <1>2. PICK n \in 0..Len(input), last \in BOOLEAN : fill(i, n, last)
    BY DEF FrameFill
  <1>3. /\ Suspended(fr, i, Len(buf)) /\ first = Scan(open, input, at, sent)
    BY <1>1 DEF FrameInv
  <1>4. /\ i \in 0..Len(buf) /\ Len(buf) \in Nat /\ Len(input) \in Nat /\ consumed \in Nat /\ i \in Nat /\ n \in Nat
        /\ sent \in 0..Len(input) /\ sent' \in 0..Len(input) /\ sent = consumed + Len(buf)
    <2>1. /\ buf \in Seq(STRING) /\ input \in Seq(STRING) /\ consumed \in Nat /\ i \in Nat
          /\ sent \in 0..Len(input) /\ sent = consumed + Len(buf)
      BY <1>1 DEF Inv, TypeOK, WindowFaithful
    <2>2. sent' \in 0..Len(input)
      BY <1>1 DEF Inv, TypeOK
    <2>3. Len(buf) \in Nat /\ Len(input) \in Nat
      BY <2>1
    <2>. QED
      BY <1>1, <2>1, <2>2, <2>3
  <1>5. consumed' + i' = at /\ sent' = sent + n
    BY <1>1, <1>2, <1>4, FillKeepsPlace
  <1>6. Scan(fr, buf, i, Len(buf)) = first /\ Suspended(fr, at, sent)
    BY <1>1, <1>3, <1>4, BufferScan
  <1>7. fr' = first.fr /\ ~first.done
    <2>1. scanFrame(fr, i) = first
      BY <1>1, <1>6, UnfinishedScan
    <2>2. fr' = scanFrame(fr, i).fr
      BY DEF FrameFill
    <2>. QED
      BY <1>1, <2>1, <2>2
  <1>8. at \in Nat /\ at + 1 \in 0..sent
    <2>1. fr.framed \in Nat \ {0} /\ at + fr.framed \in 0..sent
      BY <1>6 DEF Suspended, FrameFields
    <2>. QED
      BY <1>4, <2>1, SMTT(60)
  <1>9. Suspended(open, at, sent)
    <2>1. Suspended(open, at, at + 1)
      BY <1>8, FrameInitIs
    <2> HIDE DEF at, open
    <2>. QED
      BY <1>4, <1>8, <2>1 DEF Suspended
  <1> HIDE DEF first, open, at
  <1>10. sent \in 0..sent' /\ at \in 0..sent
    BY <1>4, <1>5, <1>8
  <1>11. FrameResumed(input, at, sent, sent', Scan(open, input, at, sent), Scan(open, input, at, sent'))
    BY <1>4, <1>9, <1>10, FramesResume
  <1>12. /\ Suspended(fr', at, sent) /\ at + fr'.framed = sent
         /\ Scan(open, input, at, sent') = Scan(fr', input, at, sent')
    BY <1>3, <1>7, <1>11 DEF FrameResumed
  <1>13. Suspended(fr', i', Len(buf'))
    <2>1. /\ consumed' \in Nat /\ i' \in Nat /\ Len(buf') \in Nat /\ sent' = consumed' + Len(buf')
      <3>1. ~closed'
        BY <1>1 DEF FrameFill
      <3>2. buf' \in Seq(STRING) /\ consumed' \in Nat /\ i' \in Nat /\ sent' = consumed' + Len(buf')
        BY <3>1 DEF Inv, TypeOK, WindowFaithful
      <3>. QED
        BY <3>2
    <2>2. fr' \in FrameFields /\ (fr'.mode = "container" => fr'.depth # 0)
      BY <1>12 DEF Suspended
    <2>3. fr'.framed \in Nat
      BY <2>2 DEF FrameFields
    <2>4. i' + fr'.framed \in 0..Len(buf')
      <3>1. PICK a \in Nat : a = i'
        BY <2>1
      <3>2. PICK b \in Nat : b = fr'.framed
        BY <2>3
      <3>3. PICK c \in Nat : c = consumed'
        BY <2>1
      <3>4. PICK m \in Nat : m = Len(buf')
        BY <2>1
      <3>5. PICK x \in Nat, y \in Nat : x = sent /\ y = sent' /\ x <= y
        BY <1>4, <1>10
      <3>6. c + a = at /\ at + b = x /\ y = c + m
        BY <1>5, <1>12, <2>1, <3>1, <3>2, <3>3, <3>4, <3>5
      <3>7. a + b \in 0..m
        BY <3>5, <3>6
      <3>. QED
        BY <3>1, <3>2, <3>4, <3>7
    <2>. QED
      BY <2>2, <2>4 DEF Suspended
  <1>14. Scan(fr', input', consumed' + i', sent') = Scan(FrameInit(At(input', consumed' + i')), input', consumed' + i', sent')
    BY <1>1, <1>5, <1>12 DEF open
  <1>. QED
    BY <1>13, <1>14 DEF FrameInv

\* Every step keeps it.
LEMMA FrameStep ==
    ASSUME Inv, Inv', FrameInv, [Next]_vars
    PROVE  FrameInv'
  <1>1. CASE StartFrame
    BY <1>1, StartFrameFrames
  <1>2. CASE FrameFill
    BY <1>2, FrameFillFrames
  <1>3. CASE UNCHANGED vars
    BY <1>3 DEF vars, source, window, FrameInv
  <1>4. ASSUME phase' # "frame" PROVE FrameInv'
    BY <1>4 DEF FrameInv
  <1>5. CASE \E o \in {"Next", "DecodeNext"} : Call(o)
    <2>1. phase' = "space"
      BY <1>5 DEF Call
    <2>. QED
      BY <1>4, <2>1
  <1>6. CASE CallRefused \/ Close
    <2>1. phase' = "idle"
      BY <1>6 DEF CallRefused, Close
    <2>. QED
      BY <1>4, <2>1
  <1>7. CASE SpaceFill
    <2>1. phase' = phase \/ phase' = "idle"
      BY <1>7 DEF SpaceFill, ReturnFalse
    <2>2. phase = "space"
      BY <1>7 DEF SpaceFill, AtSpace
    <2>. QED
      BY <1>4, <2>1, <2>2
  <1>8. CASE SpaceEnd \/ NextBuffered \/ FrameLimit \/ BadCount \/ NextResolve \/ DecodeCheck \/ DecodeDeliver \/ DecodeFail
    <2>1. phase' = "idle"
      BY <1>8 DEF SpaceEnd, NextBuffered, FrameLimit, BadCount, NextResolve, DecodeCheck, DecodeDeliver, DecodeFail,
                  Conclude, ReturnFalse, ReturnValue
    <2>. QED
      BY <1>4, <2>1
  <1>. QED
    BY <1>1, <1>2, <1>3, <1>5, <1>6, <1>7, <1>8 DEF Next, Step, Turn

\* The frame of the value in progress, which the Reader keeps across refills,
\* compaction and growth, finds what one scan of the input would.
THEOREM ReaderFramesWhole == Spec => []FramesWhole
  <1>1. NewReader => FrameInv
    BY DEF NewReader, FrameInv
  <1>2. Inv /\ Inv' /\ FrameInv /\ [Next]_vars => FrameInv'
    BY FrameStep
  <1>3. Inv /\ FrameInv => FramesWhole
    <2> SUFFICES ASSUME Inv, FrameInv, phase = "frame"
                 PROVE  Scan(fr, buf, i, Len(buf)) =
                            Scan(FrameInit(At(input, consumed + i)), input, consumed + i, sent)
      BY DEF FramesWhole
    <2>1. ~closed /\ i \in 0..Len(buf)
      BY DEF Inv, OffsetsOrdered, TypeOK
    <2>. QED
      BY <2>1, BufferScan DEF FrameInv
  <1>. QED
    BY <1>1, <1>2, <1>3, ReaderInvariance, PTL DEF Spec
=============================================================================
