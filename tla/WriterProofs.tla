---------------------------- MODULE WriterProofs ----------------------------
(***************************************************************************)
(* Proofs about the Writer, for every threshold, every sink and every      *)
(* sequence of calls.  First the way of a byte: nothing is lost, repeated  *)
(* or reordered, the buffer is bounded between values, and after an error  *)
(* nothing moves.  Then what the bytes say: closing the open containers    *)
(* makes the output a stream of strict values, and the sink holds whole    *)
(* values.                                                                 *)
(***************************************************************************)
EXTENDS Writer, TextProofs

Frames == [kind : {"{", "["}, members : Nat, afterKey : BOOLEAN]

(***************************************************************************)
(* The inductive invariant.  The bound on the buffer holds only where      *)
(* stack is empty, so the type of the stack must be known to tell an empty *)
(* one; NothingLost is inductive by itself.                                *)
(***************************************************************************)
Inv == TypeOK /\ NothingLost /\ BufferBounded

\* What the sink and the buffer hold once the methods have produced t.
Written(t) ==
    /\ sink' \in Seq(Bytes) /\ buf' \in Seq(Bytes) /\ err' \in {"none", "sink"}
    /\ IF err' = "sink" THEN Len(sink') <= Len(t) /\ sink' = SubSeq(t, 1, Len(sink'))
                        ELSE sink' \o buf' = t

LEMMA InitInv == NewWriter => Inv
  <1>. SUFFICES ASSUME NewWriter PROVE Inv
    OBVIOUS
  <1>1. TypeOK
    <2>1. \A S : <<>> \in Seq(S) OBVIOUS
    <2>. QED BY <2>1 DEF NewWriter, TypeOK
  <1>2. NothingLost
    <2>1. sink = <<>> /\ buf = <<>> /\ emitted = <<>> /\ err # "sink"
      BY DEF NewWriter
    <2>2. <<>> \o <<>> = <<>> OBVIOUS
    <2>. QED BY <2>1, <2>2 DEF NothingLost
  <1>3. BufferBounded BY WriterAssumption DEF NewWriter, BufferBounded
  <1>. QED BY <1>1, <1>2, <1>3 DEF Inv

\* A tuple is a sequence.
LEMMA Tuples ==
    ASSUME NEW S, NEW a \in S, NEW b \in S, NEW c \in S
    PROVE  <<a>> \in Seq(S) /\ <<a, b, c>> \in Seq(S)
  OBVIOUS

\* The texts the methods append are sequences of bytes.
LEMMA Texts ==
    /\ \A c \in Bytes : <<c>> \in Seq(Bytes)
    /\ Separator \in Seq(Bytes) /\ Scalar \in Seq(Bytes) /\ KeyText \in Seq(Bytes)
  <1>1. {"{", "}", "[", "]", ",", ":", "\"", "1", "\n"} \subseteq Bytes
    BY DEF Bytes
  <1>2. \A c \in Bytes : <<c>> \in Seq(Bytes) BY Tuples
  <1>3. <<>> \in Seq(Bytes) OBVIOUS
  <1>4. Separator \in Seq(Bytes) BY <1>1, <1>2, <1>3 DEF Separator
  <1>5. Scalar \in Seq(Bytes) BY <1>1, <1>2 DEF Scalar
  <1>6. KeyText \in Seq(Bytes) BY <1>1, Tuples DEF KeyText
  <1>. QED BY <1>2, <1>4, <1>5, <1>6

LEMMA Concat ==
    ASSUME NEW a \in Seq(Bytes), NEW b \in Seq(Bytes)
    PROVE  /\ a \o b \in Seq(Bytes) /\ Len(a \o b) = Len(a) + Len(b)
           /\ \A k \in 1..Len(a \o b) : (a \o b)[k] = IF k <= Len(a) THEN a[k] ELSE b[k - Len(a)]
  BY ConcatProperties

LEMMA Associative ==
    ASSUME NEW x1 \in Seq(Bytes), NEW x2 \in Seq(Bytes), NEW x3 \in Seq(Bytes)
    PROVE  (x1 \o x2) \o x3 = x1 \o (x2 \o x3)
  BY SMTT(60)

\* The last element of a sequence.
LEMMA LastElement ==
    ASSUME NEW S, NEW s \in Seq(S), s # <<>>
    PROVE  Len(s) \in 1..Len(s) /\ s[Len(s)] \in S
  OBVIOUS

\* A partial write leaves a prefix.
LEMMA PrefixOfConcat ==
    ASSUME NEW s \in Seq(Bytes), NEW o \in Seq(Bytes), NEW n \in 0..Len(o)
    PROVE  LET p == s \o SubSeq(o, 1, n)
               t == s \o o
           IN  p \in Seq(Bytes) /\ Len(p) <= Len(t) /\ p = SubSeq(t, 1, Len(p))
  <1> DEFINE q == SubSeq(o, 1, n)
             p == s \o q
             t == s \o o
             r == SubSeq(t, 1, Len(s) + n)
  <1>1. q \in Seq(Bytes) /\ Len(q) = n /\ \A k \in 1..n : q[k] = o[k] OBVIOUS
  <1> HIDE DEF q
  <1>2. /\ p \in Seq(Bytes) /\ Len(p) = Len(s) + n
        /\ \A k \in 1..Len(p) : p[k] = IF k <= Len(s) THEN s[k] ELSE q[k - Len(s)]
    <2>1. /\ p \in Seq(Bytes) /\ Len(p) = Len(s) + Len(q)
          /\ \A k \in 1..Len(p) : p[k] = IF k <= Len(s) THEN s[k] ELSE q[k - Len(s)]
      BY <1>1, Concat
    <2>. QED BY <1>1, <2>1
  <1>3. /\ t \in Seq(Bytes) /\ Len(t) = Len(s) + Len(o)
        /\ \A k \in 1..Len(t) : t[k] = IF k <= Len(s) THEN s[k] ELSE o[k - Len(s)]
    BY ConcatProperties
  <1> HIDE DEF p, t
  <1>4. /\ r \in Seq(Bytes) /\ Len(r) = Len(s) + n
        /\ \A k \in 1..(Len(s) + n) : r[k] = t[k]
    <2>1. Len(s) + n \in 0..Len(t) BY <1>3
    <2>. QED BY <1>3, <2>1
  <1> HIDE DEF r
  <1>5. \A k \in 1..Len(p) : p[k] = r[k]
    <2>1. SUFFICES ASSUME NEW k \in 1..Len(p) PROVE p[k] = r[k]
      OBVIOUS
    <2>2. k \in 1..(Len(s) + n) /\ k \in 1..Len(t) BY <1>2, <1>3
    <2>3. CASE k <= Len(s) BY <1>2, <1>3, <1>4, <2>2, <2>3
    <2>4. CASE ~(k <= Len(s))
      <3>1. k - Len(s) \in 1..n BY <2>2, <2>4
      <3>. QED BY <1>1, <1>2, <1>3, <1>4, <2>2, <2>4, <3>1
    <2>. QED BY <2>3, <2>4
  <1>6. p = r BY <1>2, <1>4, <1>5, SeqEqual
  <1>7. Len(p) <= Len(t) BY <1>2, <1>3
  <1>. QED BY <1>2, <1>6, <1>7 DEF p, q, t, r

\* flush: a complete write empties the buffer, any other one fails.
LEMMA FlushWrites ==
    ASSUME sink \in Seq(Bytes), err = "none", NEW out \in Seq(Bytes), flush(out)
    PROVE  Written(sink \o out) /\ (err' = "none" => buf' = <<>>)
  <1>1. CASE out = <<>> BY <1>1 DEF flush, Written
  <1>2. CASE out # <<>>
    <2>1. PICK n \in 0..Len(out), failed \in BOOLEAN :
             /\ sink' = sink \o SubSeq(out, 1, n)
             /\ IF failed \/ n # Len(out) THEN buf' = out /\ err' = "sink"
                                          ELSE buf' = <<>> /\ err' = err
      BY <1>2 DEF flush
    <2>2. CASE failed \/ n # Len(out) BY <2>1, <2>2, PrefixOfConcat DEF Written
    <2>3. CASE ~failed /\ n = Len(out)
      <3>1. SubSeq(out, 1, n) = out BY <2>3, SubSeqFull
      <3>2. sink' = sink \o out /\ buf' = <<>> /\ err' = "none"
        BY <2>1, <2>3, <3>1
      <3>. QED BY <3>2 DEF Written
    <2>. QED BY <2>2, <2>3
  <1>. QED BY <1>1, <1>2

LEMMA MaybeFlushWrites ==
    ASSUME sink \in Seq(Bytes), err = "none", NEW out \in Seq(Bytes), maybeFlush(out)
    PROVE  Written(sink \o out) /\ (err' = "none" => Len(buf') < FlushAt)
  <1>1. CASE Len(out) < FlushAt BY <1>1 DEF maybeFlush, Written
  <1>2. CASE ~(Len(out) < FlushAt)
    BY <1>2, FlushWrites, WriterAssumption DEF maybeFlush
  <1>. QED BY <1>1, <1>2

LEMMA AfterValueWrites ==
    ASSUME sink \in Seq(Bytes), err = "none", NEW out \in Seq(Bytes),
           NEW outer \in Seq(Frames), afterValue(outer, out)
    PROVE  /\ Written(sink \o out) /\ stack' \in Seq(Frames)
           /\ stack' # <<>> => outer # <<>>
           /\ err' = "none" /\ stack' = <<>> => Len(buf') < FlushAt
  <1>1. CASE outer = <<>> BY <1>1, MaybeFlushWrites DEF afterValue
  <1>2. CASE outer # <<>>
    <2> DEFINE f == [outer[Len(outer)] EXCEPT !.members = @ + 1, !.afterKey = FALSE]
    <2>1. Len(outer) \in 1..Len(outer) /\ outer[Len(outer)] \in Frames
      BY <1>2, LastElement
    <2>2. f \in Frames
      <3>1. PICK g \in Frames : g = outer[Len(outer)] BY <2>1
      <3>2. PICK m \in Nat : m = g.members + 1
        <4>1. g.members \in Nat BY DEF Frames
        <4>. QED BY <4>1
      <3>3. PICK h \in Frames : h = [g EXCEPT !.members = m] BY DEF Frames
      <3>4. [h EXCEPT !.afterKey = FALSE] \in Frames BY DEF Frames
      <3>. QED BY <3>1, <3>2, <3>3, <3>4
    <2>3. stack' = [outer EXCEPT ![Len(outer)] = f] /\ buf' = out /\ sink' = sink /\ err' = err
      BY <1>2, <2>1 DEF afterValue
    <2> HIDE DEF f
    <2>4. stack' \in Seq(Frames) /\ Len(stack') = Len(outer)
      BY <2>1, <2>2, <2>3, ExceptSeq
    <2>. QED BY <1>2, <2>3, <2>4 DEF Written
  <1>. QED BY <1>1, <1>2

\* What a method produced follows what the sink and the buffer hold.
LEMMA EmitAppends ==
    ASSUME Inv, err = "none", NEW text \in Seq(Bytes), Emit(text)
    PROVE  /\ emitted' \in Seq(Bytes) /\ buf \o text \in Seq(Bytes)
           /\ emitted' = sink \o (buf \o text)
  <1>1. sink \in Seq(Bytes) /\ buf \in Seq(Bytes) /\ emitted \in Seq(Bytes)
        /\ emitted = sink \o buf
    BY DEF Inv, TypeOK, NothingLost
  <1>2. emitted' = (sink \o buf) \o text BY <1>1 DEF Emit
  <1>. QED BY <1>1, <1>2, ConcatAssociative, SMTT(60)

\* The invariant, from what a step wrote and from the stack it left.
LEMMA WrittenInv ==
    ASSUME emitted' \in Seq(Bytes), Written(emitted'), stack' \in Seq(Frames),
           started' \in BOOLEAN, stack' # <<>> => started',
           err' = "none" /\ stack' = <<>> => Len(buf') < FlushAt
    PROVE  Inv'
  BY DEF Written, Inv, TypeOK, NothingLost, BufferBounded, Frames

LEMMA FailInv ==
    ASSUME Inv, err = "none", NEW e \in {"usage", "encode"}, fail(e)
    PROVE  Inv'
  BY DEF fail, Inv, TypeOK, NothingLost, BufferBounded

LEMMA Types ==
    ASSUME Inv
    PROVE  /\ sink \in Seq(Bytes) /\ buf \in Seq(Bytes) /\ emitted \in Seq(Bytes)
           /\ stack \in Seq(Frames) /\ started \in BOOLEAN
  BY DEF Inv, TypeOK, Frames

-----------------------------------------------------------------------------
(***************************************************************************)
(* One lemma per method.                                                   *)
(***************************************************************************)

LEMMA ValueInv ==
    ASSUME Inv, Value
    PROVE  Inv'
  <1>1. err = "none" /\ started' \in BOOLEAN /\ (stack = <<>> => started') /\ (started => started')
    BY DEF Value, Inv, TypeOK
  <1>2. stack # <<>> => started' BY <1>1 DEF Inv, BufferBounded
  <1>3. CASE /\ Emit(Separator \o Scalar) /\ afterValue(stack, buf \o Separator \o Scalar)
    <2>1. Separator \o Scalar \in Seq(Bytes) BY Texts
    <2>2. buf \o Separator \o Scalar = buf \o (Separator \o Scalar)
      <3>1. buf \in Seq(Bytes) /\ Separator \in Seq(Bytes) /\ Scalar \in Seq(Bytes)
        BY Types, Texts
      <3>. QED BY <3>1, Associative
    <2> DEFINE out == buf \o (Separator \o Scalar)
    <2>3. out \in Seq(Bytes) /\ emitted' = sink \o out /\ emitted' \in Seq(Bytes)
      BY <1>1, <1>3, <2>1, EmitAppends
    <2>4. afterValue(stack, out) BY <1>3, <2>2
    <2> HIDE DEF out
    <2>. QED BY <1>1, <1>2, <2>3, <2>4, Types, AfterValueWrites, WrittenInv
  <1>4. CASE Emit(Separator) /\ buf' = buf \o Separator /\ err' = "encode" /\ UNCHANGED <<sink, stack>>
    <2>1. emitted' \in Seq(Bytes) /\ buf' \in Seq(Bytes) /\ emitted' = sink' \o buf'
      BY <1>1, <1>4, Texts, EmitAppends
    <2>. QED BY <1>1, <1>2, <1>4, <2>1, Types DEF Inv, TypeOK, NothingLost, BufferBounded, Frames
  <1>. QED BY <1>3, <1>4 DEF Value

LEMMA BeginInv ==
    ASSUME Inv, NEW open \in {"{", "["}, Begin(open)
    PROVE  Inv'
  <1>1. err = "none" /\ err' = "none" /\ sink' = sink
        /\ started' \in BOOLEAN /\ (stack = <<>> => started') /\ (started => started')
    BY DEF Begin, Inv, TypeOK
  <1>2. started' BY <1>1 DEF Inv, BufferBounded
  <1> DEFINE text == Separator \o <<open>>
  <1>3. text \in Seq(Bytes) /\ buf \o Separator \o <<open>> = buf \o text
    <2>1. open \in Bytes BY DEF Bytes
    <2>2. <<open>> \in Seq(Bytes) BY <2>1, Texts
    <2>. QED
      <3>1. buf \in Seq(Bytes) /\ Separator \in Seq(Bytes) BY Types, Texts
      <3>2. text \in Seq(Bytes) BY <2>2, <3>1, Concat
      <3>. QED BY <2>2, <3>1, <3>2, Associative, ZenonT(30)
  <1>4. Emit(text) /\ buf' = buf \o text BY <1>3 DEF Begin
  <1> HIDE DEF text
  <1>5. Written(emitted') /\ emitted' \in Seq(Bytes)
    BY <1>1, <1>3, <1>4, Types, EmitAppends DEF Written
  <1>6. stack' \in Seq(Frames) /\ stack' # <<>>
    <2>1. streamFrame(open) \in Frames BY DEF streamFrame, Frames
    <2>. QED
      <3>1. stack \in Seq(Frames) /\ stack' = Append(stack, streamFrame(open))
        BY Types DEF Begin
      <3>. QED BY <2>1, <3>1, AppendProperties
  <1>. QED BY <1>1, <1>2, <1>5, <1>6, WrittenInv

\* A container ends: its closing byte is a step of afterValue around it.
LEMMA EndInv ==
    ASSUME Inv, err = "none", stack # <<>>, NEW c \in Bytes, Emit(<<c>>), UNCHANGED started,
           afterValue(SubSeq(stack, 1, Len(stack) - 1), buf \o <<c>>)
    PROVE  Inv'
  <1> DEFINE outer == SubSeq(stack, 1, Len(stack) - 1)
             out   == buf \o <<c>>
  <1>1. outer \in Seq(Frames) BY Types
  <1>2. out \in Seq(Bytes) /\ emitted' = sink \o out /\ emitted' \in Seq(Bytes)
    BY Texts, EmitAppends
  <1>3. started' \in BOOLEAN /\ started' BY Types DEF Inv, BufferBounded
  <1> HIDE DEF outer, out
  <1>4. afterValue(outer, out) BY DEF outer, out
  <1>. QED BY <1>1, <1>2, <1>3, <1>4, Types, AfterValueWrites, WrittenInv

LEMMA KeyInv ==
    ASSUME Inv, Key
    PROVE  Inv'
  <1>1. CASE fail("usage") BY <1>1, FailInv DEF Key
  <1> DEFINE text == (IF Top.members > 0 THEN <<",">> ELSE <<>>) \o KeyText
  <1>2. CASE /\ InObject /\ Emit(text) /\ buf' = buf \o text
             /\ stack' = [stack EXCEPT ![Len(stack)].afterKey = TRUE]
             /\ UNCHANGED <<sink, started, err>>
    <2>1. text \in Seq(Bytes) /\ err = "none"
      <3>1. "," \in Bytes /\ <<>> \in Seq(Bytes) BY DEF Bytes
      <3>. QED
        <4>1. <<",">> \in Seq(Bytes) /\ KeyText \in Seq(Bytes) BY <3>1, Texts
        <4>2. PICK comma \in Seq(Bytes) : comma = IF Top.members > 0 THEN <<",">> ELSE <<>>
          BY <3>1, <4>1
        <4>3. comma \o KeyText \in Seq(Bytes) BY <4>1, <4>2, Concat
        <4>. QED BY <4>2, <4>3 DEF Key
    <2> HIDE DEF text
    <2>2. Written(emitted') /\ emitted' \in Seq(Bytes)
      BY <1>2, <2>1, Types, EmitAppends DEF Written
    <2> DEFINE f == [stack[Len(stack)] EXCEPT !.afterKey = TRUE]
    <2>3. Len(stack) \in 1..Len(stack) /\ stack[Len(stack)] \in Frames
      BY <1>2, Types, LastElement DEF InObject
    <2>4. f \in Frames BY <2>3 DEF Frames
    <2>5. stack' = [stack EXCEPT ![Len(stack)] = f] BY <1>2
    <2> HIDE DEF f
    <2>6. stack' \in Seq(Frames) /\ Len(stack') = Len(stack)
      BY <2>3, <2>4, <2>5, Types, ExceptSeq
    <2>7. stack' # <<>> /\ started'
      <3>1. started BY <1>2 DEF Inv, BufferBounded, InObject
      <3>2. Len(stack') >= 1 BY <2>3, <2>6
      <3>. QED BY <1>2, <3>1, <3>2
    <2>. QED BY <1>2, <2>2, <2>6, <2>7, Types, WrittenInv
  <1>. QED BY <1>1, <1>2 DEF Key

\* EncodeTo and Newline: text between top-level values.
LEMMA TopLevelInv ==
    ASSUME Inv, err = "none", stack = <<>>, NEW text \in Seq(Bytes), Emit(text),
           maybeFlush(buf \o text), UNCHANGED stack, started' \in BOOLEAN
    PROVE  Inv'
  <1>1. /\ buf \o text \in Seq(Bytes) /\ emitted' = sink \o (buf \o text)
        /\ emitted' \in Seq(Bytes)
    BY EmitAppends
  <1>2. Written(emitted') /\ (err' = "none" => Len(buf') < FlushAt)
    BY <1>1, Types, MaybeFlushWrites
  <1>. QED BY <1>1, <1>2, Types, WrittenInv

LEMMA FlushInv ==
    ASSUME Inv, Flush
    PROVE  Inv'
  <1>1. CASE fail("usage") BY <1>1, FailInv DEF Flush
  <1>2. CASE stack = <<>> /\ flush(buf) /\ UNCHANGED <<stack, started, emitted>>
    <2>1. err = "none" /\ emitted = sink \o buf BY DEF Flush, Inv, NothingLost
    <2>2. Written(emitted') /\ (err' = "none" => buf' = <<>>)
      BY <1>2, <2>1, Types, FlushWrites
    <2>3. err' = "none" => Len(buf') < FlushAt BY <2>2, WriterAssumption
    <2>. QED BY <1>2, <2>2, <2>3, Types, WrittenInv
  <1>. QED BY <1>1, <1>2 DEF Flush

-----------------------------------------------------------------------------

LEMMA NextInv == Inv /\ [Next]_vars => Inv'
  <1>. SUFFICES ASSUME Inv, [Next]_vars PROVE Inv'
    OBVIOUS
  <1>1. CASE UNCHANGED vars
    BY <1>1 DEF vars, Inv, TypeOK, NothingLost, BufferBounded
  <1>2. CASE ValueMisplaced BY <1>2, FailInv DEF ValueMisplaced
  <1>3. CASE EndObject
    <2>1. CASE fail("usage") BY <1>3, <2>1, FailInv DEF EndObject
    <2>2. CASE /\ InObject /\ Emit(<<"}">>) /\ UNCHANGED started
               /\ afterValue(SubSeq(stack, 1, Len(stack) - 1), buf \o <<"}">>)
      <3>1. "}" \in Bytes /\ stack # <<>> /\ err = "none"
        BY <1>3, <2>2 DEF Bytes, InObject, EndObject
      <3>. QED BY <2>2, <3>1, EndInv
    <2>. QED BY <1>3, <2>1, <2>2 DEF EndObject
  <1>4. CASE EndArray
    <2>1. CASE fail("usage") BY <1>4, <2>1, FailInv DEF EndArray
    <2>2. CASE /\ InArray /\ Emit(<<"]">>) /\ UNCHANGED started
               /\ afterValue(SubSeq(stack, 1, Len(stack) - 1), buf \o <<"]">>)
      <3>1. "]" \in Bytes /\ stack # <<>> /\ err = "none"
        BY <1>4, <2>2 DEF Bytes, InArray, EndArray
      <3>. QED BY <2>2, <3>1, EndInv
    <2>. QED BY <1>4, <2>1, <2>2 DEF EndArray
  <1>5. CASE EncodeTo
    <2>1. CASE fail("usage") \/ fail("encode")
      BY <1>5, <2>1, FailInv DEF EncodeTo
    <2>2. CASE /\ stack = <<>> /\ Emit(Scalar) /\ started' = (started \/ stack = <<>>)
               /\ maybeFlush(buf \o Scalar) /\ UNCHANGED stack
      BY <1>5, <2>2, Types, Texts, TopLevelInv DEF EncodeTo
    <2>. QED BY <1>5, <2>1, <2>2 DEF EncodeTo
  <1>6. CASE Newline
    <2>1. CASE fail("usage") BY <1>6, <2>1, FailInv DEF Newline
    <2>2. CASE /\ stack = <<>> /\ Emit(<<"\n">>) /\ started' = FALSE
               /\ maybeFlush(buf \o <<"\n">>) /\ UNCHANGED stack
      <3>1. <<"\n">> \in Seq(Bytes) BY "\n" \in Bytes, Texts DEF Bytes
      <3>. QED BY <1>6, <2>2, <3>1, TopLevelInv DEF Newline
    <2>. QED BY <1>6, <2>1, <2>2 DEF Newline
  <1>7. CASE Refused BY <1>1, <1>7 DEF Refused
  <1>. QED BY <1>1, <1>2, <1>3, <1>4, <1>5, <1>6, <1>7, ValueInv, BeginInv, KeyInv, FlushInv DEF Next

\* The inductive invariant holds in every reachable state.
THEOREM WriterInvariance == Spec => []Inv
  BY InitInv, NextInv, PTL DEF Spec

\* What the sink took, followed by what is buffered, is what the methods
\* produced, for every sink and every sequence of calls (flush, maybeFlush).
THEOREM WriterNothingLost == Spec => []NothingLost
  BY WriterInvariance, PTL DEF Inv

\* Between top-level values less than the threshold is buffered (afterValue,
\* Newline, EncodeTo).
THEOREM WriterBufferBounded == Spec => []BufferBounded
  BY WriterInvariance, PTL DEF Inv

\* The Writer's buffer is sound: it is drained at the threshold, and flush
\* and its failures lose, repeat and reorder nothing.
THEOREM WriterBufferSound == Spec => []BufferSound
BY WriterNothingLost, WriterBufferBounded, PTL DEF BufferSound

\* After the first error no method touches the error, the sink or the buffer.
THEOREM WriterErrorSticks == Spec => ErrorSticks
  <1>1. [Next]_vars => [err # "none" => UNCHANGED <<err, sink, buf>>]_vars
    BY DEF Next, vars, Value, ValueMisplaced, Begin, EndObject, EndArray, Key, EncodeTo,
           Newline, Flush, Refused
  <1>. QED BY <1>1, PTL DEF Spec, ErrorSticks
-----------------------------------------------------------------------------
(***************************************************************************)
(* What the Writer emits, as the grammar reads it.                         *)
(***************************************************************************)
\* The bytes of a value: everything but the newline, and none is white space.
Ink == Bytes \ {"\n"}

\* src holds u at offset i.
Holds(src, i, u) ==
    /\ i + Len(u) <= Len(src)
    /\ \A k \in 1..Len(u) : src[i + k] = u[k]

\* Wherever a text holds u, the grammar reads u there, d containers deep.
Reads(rule, u, d) ==
    /\ u \in Seq(Ink) /\ u # <<>>
    /\ \A src \in Seq(Bytes), i \in Nat : Holds(src, i, u) => JsonValue(src)[<<rule, i, i + Len(u), d>>]

\* None of those bytes is white space.
LEMMA InkIsNotSpace ==
    \A c \in Ink : c \notin Space
  BY Zenon DEF Ink, Bytes, Space

\* The bytes of the grammar, and where they belong.
LEMMA InkBytes ==
    /\ Comma \in Ink /\ Colon \in Ink /\ Quote \in Ink /\ LBrace \in Ink /\ RBrace \in Ink
    /\ "[" \in Ink /\ "]" \in Ink /\ "1" \in Ink
    /\ Ink \subseteq Bytes
  BY Zenon DEF Ink, Bytes, Comma, Colon, Quote, LBrace, RBrace

\* A text without newline is a text; a member name is one.
LEMMA InkTexts ==
    /\ Seq(Ink) \subseteq Seq(Bytes)
    /\ KeyText \in Seq(Ink) /\ Len(KeyText) = 3
    /\ KeyText[1] = Quote /\ KeyText[2] = Quote /\ KeyText[3] = Colon
  <1>1. KeyText = <<Quote, Quote, Colon>> BY Zenon DEF KeyText, Quote, Colon
  <1>. QED BY <1>1, InkBytes

\* Such texts are concatenated.
LEMMA InkConcat ==
    ASSUME NEW u \in Seq(Ink), NEW v \in Seq(Ink)
    PROVE  /\ u \o v \in Seq(Ink) /\ Len(u \o v) = Len(u) + Len(v)
           /\ Len(u) \in Nat /\ Len(v) \in Nat
           /\ u # <<>> => (u \o v # <<>> /\ Len(u) > 0)
           /\ v # <<>> => (u \o v # <<>> /\ Len(v) > 0)
  BY ConcatProperties, EmptySeq

\* A concatenation is held when its parts are.
LEMMA HoldsParts ==
    ASSUME NEW src \in Seq(Bytes), NEW i \in Nat, NEW u \in Seq(Ink), NEW v \in Seq(Ink), Holds(src, i, u \o v)
    PROVE  /\ Holds(src, i, u) /\ Holds(src, i + Len(u), v)
           /\ Len(u \o v) = Len(u) + Len(v) /\ u \o v \in Seq(Ink)
  <1>1. /\ Len(u) \in Nat /\ Len(v) \in Nat /\ Len(u \o v) = Len(u) + Len(v) /\ u \o v \in Seq(Ink)
        /\ \A k \in 1..(Len(u) + Len(v)) : (u \o v)[k] = IF k <= Len(u) THEN u[k] ELSE v[k - Len(u)]
    BY ConcatProperties
  <1>2. ASSUME NEW k \in 1..Len(u) PROVE src[i + k] = u[k]
    <2>1. k \in 1..Len(u \o v) /\ (u \o v)[k] = u[k] BY <1>1
    <2>. QED BY <2>1 DEF Holds
  <1>3. ASSUME NEW k \in 1..Len(v) PROVE src[i + Len(u) + k] = v[k]
    <2>1. Len(u) + k \in 1..Len(u \o v) /\ (u \o v)[Len(u) + k] = v[k] BY <1>1
    <2>2. i + Len(u) + k = i + (Len(u) + k) BY <1>1
    <2>. QED BY <2>1, <2>2 DEF Holds
  <1>. QED BY <1>1, <1>2, <1>3 DEF Holds

\* What is read is read without white space around it.
LEMMA PaddedReads ==
    ASSUME NEW rule \in {"value", "elements", "members"}, NEW u, NEW d \in 0..MaxDepth, Reads(rule, u, d),
           NEW src \in Seq(Bytes), NEW i \in Nat, Holds(src, i, u)
    PROVE  Padded(src, JsonValue(src), rule, i, i + Len(u), d)
  <1>1. u \in Seq(Ink) /\ Len(u) \in Nat /\ Len(u) > 0 /\ i + Len(u) <= Len(src) /\ Len(src) \in Nat
    BY DEF Reads, Holds
  <1>2. At(src, i) = u[1] /\ u[1] \in Ink BY <1>1 DEF At, Holds
  <1>3. SpanEnd(src, i, Space) = i
    <2>1. At(src, i) \notin Space BY <1>2, InkIsNotSpace
    <2>2. i \in 0..(Len(src) - 1) BY <1>1
    <2>. QED BY <1>1, <2>1, <2>2, EmptySpan
  <1>4. SpanEnd(src, i + Len(u), Space) >= i + Len(u)
    <2>1. i + Len(u) \in 0..Len(src) BY <1>1
    <2>2. SpanEnd(src, i + Len(u), Space) \in (i + Len(u))..Len(src)
      BY <1>1, <2>1, SpanEndIs
    <2>. QED BY <1>1, <2>2
  <1>5. i + Len(u) \in i..(i + Len(u)) /\ i < i + Len(u) BY <1>1
  <1>6. JsonValue(src)[<<rule, i, i + Len(u), d>>] BY DEF Reads
  <1>. QED BY <1>3, <1>4, <1>5, <1>6 DEF Padded

\* A span of a rule belongs to the domain of the grammar, and the rule holds of
\* it when the grammar does.
LEMMA ReadsByRule ==
    ASSUME NEW rule \in {"value", "elements", "members"}, NEW u \in Seq(Ink), NEW d \in 0..MaxDepth,
           NEW src \in Seq(Bytes), NEW i \in Nat, Holds(src, i, u)
    PROVE  LET g == <<rule, i, i + Len(u), d>>
           IN  JsonValue(src)[g] <=> Grammar(src, JsonValue(src), g)
  <1> DEFINE g == <<rule, i, i + Len(u), d>>
  <1>1. Len(src) \in Nat /\ Len(u) \in Nat /\ i + Len(u) <= Len(src)
    BY DEF Holds
  <1>2. g \in Spans(Len(src)) BY <1>1 DEF Spans
  <1>. QED BY <1>1, <1>2, GrammarIs

\* A scalar is a value.
LEMMA ScalarReads ==
    ASSUME NEW d \in 0..MaxDepth
    PROVE  Reads("value", Scalar, d)
  <1>1. Scalar \in Seq(Ink) /\ Scalar # <<>> /\ Len(Scalar) = 1 /\ Scalar[1] = "1"
    BY InkBytes DEF Scalar
  <1>2. ASSUME NEW src \in Seq(Bytes), NEW i \in Nat, Holds(src, i, Scalar)
        PROVE  JsonValue(src)[<<"value", i, i + 1, d>>]
    <2>1. Len(src) \in Nat /\ i + 1 <= Len(src) /\ At(src, i) = "1"
      BY <1>1, <1>2 DEF Holds, At
    <2>2. "1" \in Digit /\ "1" # "0" /\ "1" # "-" BY DEF Digit
    <2>3. IsInt(src, i, i + 1) BY <2>1, <2>2 DEF IsInt, AllIn
    <2>4. IsFrac(src, i + 1, i + 1) /\ IsExp(src, i + 1, i + 1)
      BY DEF IsFrac, IsExp
    <2>5. IsNumber(src, i, i + 1)
      <3>1. i + 1 \in i..(i + 1) /\ i + 1 \in (i + 1)..(i + 1) /\ i < i + 1
        OBVIOUS
      <3>. QED BY <2>1, <2>2, <2>3, <2>4, <3>1 DEF IsNumber
    <2>6. ValueRule(src, JsonValue(src), i, i + 1, d)
      <3>1. i < i + 1 OBVIOUS
      <3>. QED BY <2>5, <3>1, Zenon DEF ValueRule
    <2>. QED BY <1>1, <1>2, <2>6, ReadsByRule DEF Grammar
  <1>. QED BY <1>1, <1>2 DEF Reads

\* The brackets and the rule of a container.
LEMMA Kinds ==
    ASSUME NEW kind \in {"[", LBrace}
    PROVE  kind \in Ink /\ CloserOf(kind) \in Ink /\ RuleOf(kind) \in {"elements", "members"}
  BY InkBytes DEF CloserOf, RuleOf

\* A container that is closed again at once is a value.
LEMMA EmptyContainerReads ==
    ASSUME NEW kind \in {"[", LBrace}, NEW d \in 0..MaxDepth, d < MaxDepth
    PROVE  Reads("value", <<kind>> \o <<CloserOf(kind)>>, d)
  <1> DEFINE o == <<kind>>
             c == <<CloserOf(kind)>>
             u == o \o c
  <1>1. u \in Seq(Ink) /\ u # <<>> /\ Len(u) = 2 /\ u[1] = kind /\ u[2] = CloserOf(kind)
    <2>1. /\ o \in Seq(Ink) /\ c \in Seq(Ink) /\ Len(o) = 1 /\ Len(c) = 1
          /\ o # <<>> /\ o[1] = kind /\ c[1] = CloserOf(kind)
      BY Kinds
    <2> HIDE DEF o, c
    <2>2. u \in Seq(Ink) /\ u # <<>> /\ Len(u) = Len(o) + Len(c)
      BY ONLY <2>1, InkConcat
    <2>3. \A k \in 1..(Len(o) + Len(c)) : u[k] = IF k <= Len(o) THEN o[k] ELSE c[k - Len(o)]
      BY <2>1, ConcatProperties
    <2> HIDE DEF u
    <2>4. u[1] = o[1] /\ u[2] = c[1] /\ Len(u) = 2 BY <2>1, <2>2, <2>3
    <2>. QED BY <2>1, <2>2, <2>4
  <1> HIDE DEF u
  <1>2. ASSUME NEW src \in Seq(Bytes), NEW i \in Nat, Holds(src, i, u)
        PROVE  JsonValue(src)[<<"value", i, i + 2, d>>]
    <2>1. /\ Len(src) \in Nat /\ i + 2 <= Len(src)
          /\ At(src, i) = kind /\ At(src, i + 1) = CloserOf(kind) /\ (i + 2) - 1 = i + 1
      BY <1>1, <1>2 DEF Holds, At
    <2>2. SpanEnd(src, i + 1, Space) = i + 1
      <3>1. At(src, i + 1) \notin Space BY <2>1, Kinds, InkIsNotSpace
      <3>2. i + 1 \in 0..(Len(src) - 1) BY <2>1
      <3>. QED BY <2>1, <3>1, <3>2, EmptySpan
    <2>3. Bracketed(src, JsonValue(src), RuleOf(kind), i, i + 2, d)
      BY <2>1, <2>2 DEF Bracketed
    <2>4. ValueRule(src, JsonValue(src), i, i + 2, d)
      <3>1. i + 2 \in Nat /\ i + 1 < i + 2 OBVIOUS
      <3>. QED BY <2>1, <2>3, <3>1, ContainerRule
    <2>. QED BY <1>1, <1>2, <2>4, ReadsByRule DEF Grammar
  <1>. QED BY <1>1, <1>2 DEF Reads, u, o, c

\* A container around members is a value.
LEMMA ContainerReads ==
    ASSUME NEW kind \in {"[", LBrace}, NEW d \in 0..MaxDepth, d < MaxDepth,
           NEW w, Reads(RuleOf(kind), w, d + 1)
    PROVE  Reads("value", <<kind>> \o w \o <<CloserOf(kind)>>, d)
  <1> DEFINE o == <<kind>>
             c == <<CloserOf(kind)>>
             u == o \o w \o c
  <1>1. o \in Seq(Ink) /\ c \in Seq(Ink) /\ w \in Seq(Ink) /\ Len(w) \in Nat
        /\ Len(o) = 1 /\ Len(c) = 1 /\ o[1] = kind /\ c[1] = CloserOf(kind) /\ d + 1 \in 0..MaxDepth
    BY Kinds, MaxDepthAssumption DEF Reads
  <1> HIDE DEF o, c
  <1>2. o \o w \in Seq(Ink) /\ Len(o \o w) = 1 + Len(w) /\ u \in Seq(Ink) /\ Len(u) = Len(w) + 2 /\ u # <<>>
    <2>1. o \o w \in Seq(Ink) /\ Len(o \o w) = 1 + Len(w) BY <1>1, InkConcat
    <2>2. u \in Seq(Ink) /\ Len(u) = Len(w) + 2 BY <1>1, <2>1, InkConcat
    <2>. QED BY <1>1, <2>1, <2>2
  <1>3. ASSUME NEW src \in Seq(Bytes), NEW i \in Nat, Holds(src, i, u)
        PROVE  JsonValue(src)[<<"value", i, i + Len(u), d>>]
    <2> DEFINE j == i + Len(u)
    <2>1. Holds(src, i, o) /\ Holds(src, i + 1, w) /\ Holds(src, i + 1 + Len(w), c)
      <3>1. Holds(src, i, o \o w) /\ Holds(src, i + Len(o \o w), c)
        BY <1>1, <1>2, <1>3, HoldsParts
      <3>2. i + Len(o \o w) = i + 1 + Len(w) BY <1>1, <1>2
      <3>. QED BY <1>1, <3>1, <3>2, HoldsParts
    <2>2. /\ j - 1 = i + 1 + Len(w) /\ j \in Nat /\ i + 1 < j
          /\ At(src, i) = kind /\ At(src, j - 1) = CloserOf(kind)
      <3>1. j - 1 = i + 1 + Len(w) /\ j \in Nat /\ i + 1 < j BY <1>1, <1>2
      <3>2. At(src, i) = kind BY <1>1, <2>1 DEF Holds, At
      <3>3. At(src, i + 1 + Len(w)) = CloserOf(kind) BY <1>1, <2>1 DEF Holds, At
      <3>. QED BY <3>1, <3>2, <3>3
    <2>3. Padded(src, JsonValue(src), RuleOf(kind), i + 1, j - 1, d + 1)
      <3>1. RuleOf(kind) \in {"value", "elements", "members"} /\ i + 1 \in Nat
        BY Kinds
      <3>. QED BY <1>1, <2>1, <2>2, <3>1, PaddedReads
    <2>4. ValueRule(src, JsonValue(src), i, j, d)
      <3>1. Bracketed(src, JsonValue(src), RuleOf(kind), i, j, d)
        BY <2>3 DEF Bracketed
      <3>. QED BY <2>2, <3>1, ContainerRule
    <2>. QED BY <1>2, <1>3, <2>4, ReadsByRule, ZenonT(30) DEF Grammar
  <1> HIDE DEF u
  <1>4. Reads("value", u, d) BY <1>2, <1>3 DEF Reads
  <1>. QED BY <1>4 DEF u, o, c

\* A member of a container: a value, after a name in an object.
Item(kind, x, d) ==
    IF kind = "[" THEN Reads("value", x, d)
    ELSE \E v : x = KeyText \o v /\ Reads("value", v, d)

\* A held name is a string and its colon.
LEMMA KeyIsHeld ==
    ASSUME NEW src \in Seq(Bytes), NEW i \in Nat, Holds(src, i, KeyText)
    PROVE  At(src, i + 2) = Colon /\ IsString(src, i, i + 2) /\ SpanEnd(src, i + 2, Space) = i + 2
  <1>1. /\ Len(src) \in Nat /\ i + 3 <= Len(src)
        /\ At(src, i) = Quote /\ At(src, i + 1) = Quote /\ At(src, i + 2) = Colon
    <2>1. Len(src) \in Nat /\ i + 3 <= Len(src) /\ \A k \in 1..3 : src[i + k] = KeyText[k]
      BY InkTexts DEF Holds
    <2>2. /\ i + 1 = (i + 0) + 1 /\ i + 2 = (i + 1) + 1 /\ i + 3 = (i + 2) + 1
      OBVIOUS
    <2>. QED BY <2>1, <2>2, InkTexts DEF At
  <1>2. IsString(src, i, i + 2)
    <2>1. i + 2 <= Len(src) BY <1>1
    <2>. QED BY <1>1, <2>1, EmptyString
  <1>3. SpanEnd(src, i + 2, Space) = i + 2
    <2>1. At(src, i + 2) \notin Space BY <1>1, InkBytes, InkIsNotSpace
    <2>2. i + 2 \in 0..(Len(src) - 1) BY <1>1
    <2>. QED BY <1>1, <2>1, <2>2, EmptySpan
  <1>. QED BY <1>1, <1>2, <1>3

\* One item alone is what a container holds.
LEMMA ItemReads ==
    ASSUME NEW kind \in {"[", LBrace}, NEW d \in 0..MaxDepth, NEW x, Item(kind, x, d)
    PROVE  Reads(RuleOf(kind), x, d)
  <1>1. CASE kind = "["
    <2>1. Reads("value", x, d) /\ RuleOf(kind) = "elements"
      BY <1>1 DEF Item, RuleOf
    <2>2. ASSUME NEW src \in Seq(Bytes), NEW i \in Nat, Holds(src, i, x)
          PROVE  JsonValue(src)[<<"elements", i, i + Len(x), d>>]
      <3>1. JsonValue(src)[<<"value", i, i + Len(x), d>>] /\ x \in Seq(Ink)
        BY <2>1, <2>2 DEF Reads
      <3>2. ElementsRule(src, JsonValue(src), i, i + Len(x), d)
        BY <3>1, Zenon DEF ElementsRule
      <3>. QED BY <2>2, <3>1, <3>2, ReadsByRule DEF Grammar
    <2>. QED BY <2>1, <2>2 DEF Reads
  <1>2. CASE kind # "["
    <2>1. PICK v : x = KeyText \o v /\ Reads("value", v, d) BY <1>2 DEF Item
    <2>2. RuleOf(kind) = "members" BY <1>2 DEF RuleOf
    <2>3. v \in Seq(Ink) /\ v # <<>> /\ x \in Seq(Ink) /\ x # <<>> /\ Len(x) = 3 + Len(v) /\ Len(v) \in Nat
      <3>1. v \in Seq(Ink) /\ v # <<>> BY <2>1 DEF Reads
      <3>. QED BY <2>1, <3>1, InkTexts, InkConcat
    <2>4. ASSUME NEW src \in Seq(Bytes), NEW i \in Nat, Holds(src, i, x)
          PROVE  JsonValue(src)[<<"members", i, i + Len(x), d>>]
      <3>1. Holds(src, i, KeyText) /\ Holds(src, i + 3, v)
        BY <2>1, <2>3, <2>4, InkTexts, HoldsParts
      <3>2. At(src, i + 2) = Colon /\ IsString(src, i, i + 2) /\ SpanEnd(src, i + 2, Space) = i + 2
        BY <3>1, KeyIsHeld
      <3>3. Padded(src, JsonValue(src), "value", i + 3, i + 3 + Len(v), d)
        BY <2>1, <3>1, PaddedReads
      <3>4. /\ i + 2 \in i..(i + Len(x) - 1) /\ i + 2 \in i..(i + 2)
            /\ i + 3 = (i + 2) + 1 /\ i + 3 + Len(v) = i + Len(x)
        BY <2>3
      <3>5. Padded(src, JsonValue(src), "value", (i + 2) + 1, i + Len(x), d)
        BY <3>3, <3>4
      <3>6. MembersRule(src, JsonValue(src), i, i + Len(x), d)
        BY <3>2, <3>4, <3>5, MembersComma
      <3>. QED BY <2>3, <2>4, <3>6, ReadsByRule DEF Grammar
    <2>. QED BY <2>2, <2>3, <2>4 DEF Reads
  <1>. QED BY <1>1, <1>2

\* Concatenation is associative.
LEMMA InkAssociative ==
    ASSUME NEW x1 \in Seq(Ink), NEW x2 \in Seq(Ink), NEW x3 \in Seq(Ink)
    PROVE  x1 \o (x2 \o x3) = (x1 \o x2) \o x3
  BY ConcatAssociative, SMTT(30)

CommaText == <<Comma>>

\* The comma is a text of its own.
LEMMA CommaIsInk ==
    /\ CommaText \in Seq(Ink) /\ Len(CommaText) = 1 /\ CommaText[1] = Comma /\ CommaText # <<>>
  BY InkBytes DEF CommaText

\* An item, a comma and what a container holds are again what it holds.
LEMMA ItemBefore ==
    ASSUME NEW kind \in {"[", LBrace}, NEW d \in 0..MaxDepth, NEW x, Item(kind, x, d),
           NEW w, Reads(RuleOf(kind), w, d)
    PROVE  Reads(RuleOf(kind), x \o CommaText \o w, d)
  <1>1. x \in Seq(Ink) /\ x # <<>> /\ w \in Seq(Ink) /\ w # <<>>
    BY ItemReads DEF Reads
  <1> DEFINE t == x \o CommaText
             u == t \o w
  <1>2. t \in Seq(Ink) /\ Len(t) = Len(x) + 1 /\ u \in Seq(Ink) /\ u # <<>> /\ Len(u) = Len(x) + 1 + Len(w)
        /\ Len(x) \in Nat /\ Len(w) \in Nat /\ Len(x) > 0 /\ Len(w) > 0
    <2>1. t \in Seq(Ink) /\ Len(t) = Len(x) + 1 /\ Len(x) \in Nat /\ Len(x) > 0
      BY <1>1, CommaIsInk, InkConcat
    <2>2. u \in Seq(Ink) /\ u # <<>> /\ Len(u) = Len(t) + Len(w) /\ Len(w) \in Nat /\ Len(w) > 0
      BY <1>1, <2>1, InkConcat
    <2>. QED BY <2>1, <2>2
  <1>3. ASSUME NEW src \in Seq(Bytes), NEW i \in Nat, Holds(src, i, u)
        PROVE  /\ Holds(src, i, x) /\ Holds(src, i + Len(x) + 1, w)
               /\ At(src, i + Len(x)) = Comma
    <2>1. Holds(src, i, t) /\ Holds(src, i + Len(t), w)
      BY <1>1, <1>2, <1>3, HoldsParts
    <2>2. Holds(src, i, x) /\ Holds(src, i + Len(x), CommaText)
      BY <1>1, <2>1, CommaIsInk, HoldsParts
    <2>3. At(src, i + Len(x)) = Comma BY <2>2, CommaIsInk DEF Holds, At
    <2>4. i + Len(t) = i + Len(x) + 1 BY <1>2
    <2>. QED BY <2>1, <2>2, <2>3, <2>4
  <1> HIDE DEF u
  <1>4. CASE kind = "["
    <2>1. Reads("value", x, d) /\ RuleOf(kind) = "elements"
      BY <1>4 DEF Item, RuleOf
    <2>2. ASSUME NEW src \in Seq(Bytes), NEW i \in Nat, Holds(src, i, u)
          PROVE  JsonValue(src)[<<"elements", i, i + Len(u), d>>]
      <3> DEFINE k == i + Len(x)
      <3>1. Padded(src, JsonValue(src), "value", i, k, d)
        BY <1>3, <2>1, <2>2, PaddedReads
      <3>2. Padded(src, JsonValue(src), "elements", k + 1, k + 1 + Len(w), d)
        <4>1. k + 1 \in Nat BY <1>2
        <4>. QED BY <1>3, <2>1, <2>2, <4>1, PaddedReads
      <3>3. k + 1 + Len(w) = i + Len(u) /\ k \in i..(i + Len(u) - 1) BY <1>2
      <3>4. ElementsRule(src, JsonValue(src), i, i + Len(u), d)
        BY <1>3, <2>2, <3>1, <3>2, <3>3, ElementsComma
      <3>. QED BY <1>2, <2>2, <3>4, ReadsByRule, ZenonT(30) DEF Grammar
    <2>. QED BY <1>2, <2>1, <2>2 DEF Reads, u
  <1>5. CASE kind # "["
    <2>1. PICK v : x = KeyText \o v /\ Reads("value", v, d) BY <1>5 DEF Item
    <2>2. RuleOf(kind) = "members" BY <1>5 DEF RuleOf
    <2>3. v \in Seq(Ink) /\ v # <<>> /\ Len(x) = 3 + Len(v) /\ Len(v) \in Nat
      <3>1. v \in Seq(Ink) /\ v # <<>> BY <2>1 DEF Reads
      <3>. QED BY <2>1, <3>1, InkTexts, InkConcat
    <2>4. ASSUME NEW src \in Seq(Bytes), NEW i \in Nat, Holds(src, i, u)
          PROVE  JsonValue(src)[<<"members", i, i + Len(u), d>>]
      <3> DEFINE m == i + Len(x)
                 j == i + Len(u)
      <3>1. Holds(src, i, KeyText) /\ Holds(src, i + 3, v)
        <4>1. Holds(src, i, KeyText \o v) BY <1>3, <2>1, <2>4
        <4>. QED BY <2>3, <4>1, InkTexts, HoldsParts
      <3>2. At(src, i + 2) = Colon /\ IsString(src, i, i + 2) /\ SpanEnd(src, i + 2, Space) = i + 2
        BY <3>1, KeyIsHeld
      <3>3. Padded(src, JsonValue(src), "value", i + 3, i + 3 + Len(v), d)
        BY <2>1, <3>1, PaddedReads
      <3>4. Padded(src, JsonValue(src), "members", m + 1, m + 1 + Len(w), d)
        <4>1. m + 1 \in Nat BY <1>2
        <4>. QED BY <1>3, <2>2, <2>4, <4>1, PaddedReads
      <3>5. /\ i + 2 \in i..(j - 1) /\ i + 2 \in i..(i + 2) /\ m \in ((i + 2) + 1)..(j - 1)
            /\ i + 3 = (i + 2) + 1 /\ i + 3 + Len(v) = m /\ m + 1 + Len(w) = j
        BY <1>2, <2>3
      <3>6. Padded(src, JsonValue(src), "value", (i + 2) + 1, m, d)
        BY <3>3, <3>5
      <3>7. Padded(src, JsonValue(src), "members", m + 1, j, d) BY <3>4, <3>5
      <3>8. At(src, m) = Comma BY <1>3, <2>4
      <3> HIDE DEF m, j
      <3>9. MembersRule(src, JsonValue(src), i, j, d)
        BY <3>2, <3>5, <3>6, <3>7, <3>8, MembersComma
      <3>10. MembersRule(src, JsonValue(src), i, i + Len(u), d) BY <3>9 DEF j
      <3>11. Grammar(src, JsonValue(src), <<"members", i, i + Len(u), d>>)
        BY <3>10 DEF Grammar
      <3>. QED BY <1>2, <2>4, <3>11, ReadsByRule
    <2>. QED BY <1>2, <2>2, <2>4 DEF Reads, u
  <1>. QED BY <1>4, <1>5

\* A run of items: it is what a container holds, and so is what follows it
\* after a comma.
Run(kind, u, d) ==
    /\ Reads(RuleOf(kind), u, d)
    /\ \A w : Reads(RuleOf(kind), w, d) => Reads(RuleOf(kind), u \o CommaText \o w, d)

\* One item is a run.
LEMMA ItemIsRun ==
    ASSUME NEW kind \in {"[", LBrace}, NEW d \in 0..MaxDepth, NEW x, Item(kind, x, d)
    PROVE  Run(kind, x, d)
  BY ItemReads, ItemBefore DEF Run

\* A run, a comma and an item are a run.
LEMMA RunGrows ==
    ASSUME NEW kind \in {"[", LBrace}, NEW d \in 0..MaxDepth, NEW u, Run(kind, u, d), NEW x, Item(kind, x, d)
    PROVE  Run(kind, u \o CommaText \o x, d)
  <1>1. Reads(RuleOf(kind), u \o CommaText \o x, d) BY ItemReads DEF Run
  <1>2. ASSUME NEW w, Reads(RuleOf(kind), w, d)
        PROVE  Reads(RuleOf(kind), (u \o CommaText \o x) \o CommaText \o w, d)
    <2>1. Reads(RuleOf(kind), u \o CommaText \o (x \o CommaText \o w), d)
      BY <1>2, ItemBefore DEF Run
    <2>2. u \in Seq(Ink) /\ x \in Seq(Ink) /\ w \in Seq(Ink)
      BY <1>2, ItemReads DEF Run, Reads
    <2>3. /\ u \o CommaText \in Seq(Ink) /\ x \o CommaText \in Seq(Ink)
      BY <2>2, CommaIsInk, InkConcat
    <2>4. (u \o CommaText) \o (x \o CommaText \o w) = ((u \o CommaText) \o (x \o CommaText)) \o w
      BY <2>2, <2>3, InkAssociative, SMTT(30)
    <2>5. (u \o CommaText) \o (x \o CommaText) = ((u \o CommaText) \o x) \o CommaText
      <3> DEFINE p == u \o CommaText
      <3>1. p \in Seq(Ink) BY <2>3
      <3> HIDE DEF p
      <3>2. p \o (x \o CommaText) = (p \o x) \o CommaText
        BY <2>2, <3>1, CommaIsInk, InkAssociative
      <3>. QED BY <3>2 DEF p
    <2>. QED BY <2>1, <2>4, <2>5
  <1>. QED BY <1>1, <1>2 DEF Run

-----------------------------------------------------------------------------
(***************************************************************************)
(* The output as lines of values.                                          *)
(***************************************************************************)

\* A text whose lines are values: no line is cut, no value shares a line.
Line(t, a, b) ==
    /\ a < b
    /\ a = 0 \/ At(t, a - 1) = "\n"
    /\ b = Len(t) \/ At(t, b) = "\n"
    /\ \A k \in a..(b - 1) : At(t, k) # "\n"

Lines(t) == \A a, b \in 0..Len(t) : Line(t, a, b) => Reads("value", Slice(t, a, b), 0)

\* Lines that are complete: a next value begins a line of its own.
Complete(t) ==
    /\ t \in Seq(Bytes) /\ Lines(t)
    /\ t # <<>> => t[Len(t)] = "\n"

\* A slice is held where it was taken.
LEMMA SliceIsHeld ==
    ASSUME NEW t \in Seq(Bytes), NEW a \in 0..Len(t), NEW b \in 0..Len(t), a < b
    PROVE  Len(Slice(t, a, b)) = b - a /\ Holds(t, a, Slice(t, a, b))
  <1> DEFINE u == SubSeq(t, a + 1, b)
  <1>1. Len(t) \in Nat OBVIOUS
  <1>2. Len(u) = b - a /\ \A k \in 1..(b - a) : u[k] = t[a + k]
    <2>1. a + 1 \in 1..(Len(t) + 1) /\ b \in a..Len(t) /\ \A x \in (a + 1)..b : t[x] \in Bytes
      BY <1>1
    <2>2. Len(u) = b - a BY <1>1, <2>1, SubSeqProperties
    <2>3. ASSUME NEW k \in 1..(b - a) PROVE u[k] = t[a + k]
      <3>1. u[k] = t[(a + 1) + k - 1] BY <1>1, <2>1, <2>2, SubSeqProperties
      <3>2. (a + 1) + k - 1 = a + k BY <1>1
      <3>. QED BY <3>1, <3>2
    <2>. QED BY <2>2, <2>3
  <1> HIDE DEF u
  <1>3. Holds(t, a, u) BY <1>1, <1>2 DEF Holds
  <1>. QED BY <1>2, <1>3 DEF Slice, u

\* A text of value lines is a stream of strict values.
LEMMA LinesAreStream ==
    ASSUME NEW t \in Seq(Bytes), Lines(t)
    PROVE  IsStream(t)
  <1>1. ASSUME NEW a \in 0..Len(t), NEW b \in 0..Len(t), Line(t, a, b)
        PROVE  IsValue(t, a, b)
    <2>1. a < b /\ a \in Nat /\ b \in Nat /\ a + (b - a) = b BY <1>1 DEF Line
    <2>2. Len(Slice(t, a, b)) = b - a /\ Holds(t, a, Slice(t, a, b))
      BY <2>1, SliceIsHeld
    <2>3. Reads("value", Slice(t, a, b), 0) BY <1>1 DEF Lines
    <2>4. JsonValue(t)[<<"value", a, a + Len(Slice(t, a, b)), 0>>]
      BY <2>1, <2>2, <2>3 DEF Reads
    <2>. QED BY <2>1, <2>2, <2>4 DEF IsValue
  <1>. QED BY <1>1 DEF IsStream, Line

\* NewWriter: nothing has been written.
LEMMA NoLines ==
    Complete(<<>>)
  <1>1. \A a, b \in 0..0 : ~(a < b) OBVIOUS
  <1>2. Len(<<>>) = 0 /\ <<>> \in Seq(Bytes) OBVIOUS
  <1>. QED BY <1>1, <1>2 DEF Complete, Lines, Line

\* A slice as a function.
LEMMA SubSeqIs ==
    ASSUME NEW s, NEW m \in Nat, NEW n \in Nat
    PROVE  SubSeq(s, m, n) = [k \in 1..(n - m + 1) |-> s[k + m - 1]]
  OBVIOUS

\* A newline completes the lines.
LEMMA NewlineCompletes ==
    ASSUME NEW t \in Seq(Bytes), Lines(t)
    PROVE  Complete(t \o <<"\n">>)
  <1> DEFINE nl == <<"\n">>
             u == t \o nl
  <1>1. nl \in Seq(Bytes) /\ Len(nl) = 1 /\ nl[1] = "\n"
    <2>1. "\n" \in Bytes BY Zenon DEF Bytes
    <2>. QED BY <2>1
  <1> HIDE DEF nl
  <1>2. /\ u \in Seq(Bytes) /\ Len(u) = Len(t) + 1 /\ u[Len(u)] = "\n" /\ Len(t) \in Nat
        /\ \A k \in 1..Len(t) : u[k] = t[k]
    BY <1>1, ConcatProperties, SMTT(30)
  <1> HIDE DEF u
  <1>3. ASSUME NEW a \in 0..Len(u), NEW b \in 0..Len(u), Line(u, a, b)
        PROVE  Reads("value", Slice(u, a, b), 0)
    <2>1. a < b /\ a \in 0..Len(t) BY <1>2, <1>3 DEF Line
    <2>2. b # Len(u)
      <3>1. SUFFICES ASSUME b = Len(u) PROVE FALSE
        OBVIOUS
      <3>2. Len(t) \in a..(b - 1) /\ At(u, Len(t)) = "\n"
        BY <1>2, <2>1, <3>1 DEF At
      <3>. QED BY <1>3, <3>2 DEF Line
    <2>3. b \in 0..Len(t) BY <1>2, <2>2
    <2>4. \A k \in 0..(Len(t) - 1) : At(u, k) = At(t, k)
      <3>1. \A k \in 0..(Len(t) - 1) : k + 1 \in 1..Len(t) BY <1>2
      <3>. QED BY <1>2, <3>1 DEF At
    <2>5. Line(t, a, b)
      <3>1. a = 0 \/ At(t, a - 1) = "\n"
        <4>1. a # 0 => a - 1 \in 0..(Len(t) - 1) BY <1>2, <2>1
        <4>. QED BY <1>3, <2>4, <4>1 DEF Line
      <3>2. b = Len(t) \/ At(t, b) = "\n"
        <4>1. b # Len(t) => b \in 0..(Len(t) - 1) BY <1>2, <2>3
        <4>. QED BY <1>3, <2>2, <2>4, <4>1 DEF Line
      <3>3. \A k \in a..(b - 1) : k \in 0..(Len(t) - 1) BY <1>2, <2>1, <2>3
      <3>. QED BY <1>3, <2>1, <2>4, <3>1, <3>2, <3>3 DEF Line
    <2>6. Slice(u, a, b) = Slice(t, a, b)
      <3>1. \A k \in (a + 1)..b : k \in 1..Len(t) /\ k \in 1..Len(u)
        BY <1>2, <2>1, <2>3
      <3>0. a + 1 \in Nat /\ b \in Nat BY <1>2, <2>1, <2>3
      <3>2. SubSeq(u, a + 1, b) = [k \in 1..(b - (a + 1) + 1) |-> u[k + (a + 1) - 1]]
        BY <3>0, SubSeqIs
      <3>3. SubSeq(t, a + 1, b) = [k \in 1..(b - (a + 1) + 1) |-> t[k + (a + 1) - 1]]
        BY <3>0, SubSeqIs
      <3>4. \A k \in 1..(b - (a + 1) + 1) : k + (a + 1) - 1 \in 1..Len(t)
        BY <1>2, <2>1, <2>3
      <3>. QED BY <1>2, <3>2, <3>3, <3>4 DEF Slice
    <2>. QED BY <2>1, <2>3, <2>5, <2>6 DEF Lines
  <1>4. u # <<>> BY <1>2
  <1>. QED BY <1>2, <1>3, <1>4 DEF Complete, Lines, u, nl

\* A value after complete lines is a line.
LEMMA ValueIsLine ==
    ASSUME NEW t, Complete(t), NEW v, Reads("value", v, 0)
    PROVE  t \o v \in Seq(Bytes) /\ Lines(t \o v)
  <1> DEFINE u == t \o v
  <1>1. t \in Seq(Bytes) /\ v \in Seq(Ink) /\ v \in Seq(Bytes) /\ v # <<>> /\ Len(t) \in Nat /\ Len(v) \in Nat /\ Len(v) > 0
    BY InkTexts DEF Complete, Reads
  <1>2. /\ u \in Seq(Bytes) /\ Len(u) = Len(t) + Len(v)
        /\ \A k \in 1..Len(u) : u[k] = IF k <= Len(t) THEN t[k] ELSE v[k - Len(t)]
    BY <1>1, ConcatProperties
  <1> HIDE DEF u
  <1>3. \A k \in 0..(Len(t) - 1) : At(u, k) = At(t, k)
    <2>1. \A k \in 0..(Len(t) - 1) : k + 1 \in 1..Len(u) /\ k + 1 <= Len(t)
      BY <1>1, <1>2
    <2>. QED BY <1>2, <2>1 DEF At
  <1>4. \A k \in Len(t)..(Len(u) - 1) : At(u, k) # "\n"
    <2>1. ASSUME NEW k \in Len(t)..(Len(u) - 1) PROVE At(u, k) # "\n"
      <3>1. k + 1 \in 1..Len(u) /\ ~(k + 1 <= Len(t)) /\ k + 1 - Len(t) \in 1..Len(v)
        BY <1>1, <1>2
      <3>2. At(u, k) = v[k + 1 - Len(t)] BY <1>2, <3>1 DEF At
      <3>3. v[k + 1 - Len(t)] \in Ink BY <1>1, <3>1
      <3>. QED BY <3>2, <3>3 DEF Ink
    <2>. QED BY <2>1
  <1>5. ASSUME NEW a \in 0..Len(u), NEW b \in 0..Len(u), Line(u, a, b)
        PROVE  Reads("value", Slice(u, a, b), 0)
    <2>1. a < b /\ a \in Nat /\ b \in Nat /\ Len(u) \in Nat
      BY <1>1, <1>2, <1>5 DEF Line
    <2>2. CASE b < Len(t)
      <3>1. Line(t, a, b)
        <4>1. a \in 0..(Len(t) - 1) /\ b \in 0..(Len(t) - 1) /\ b # Len(u) /\ (a # 0 => a - 1 \in 0..(Len(t) - 1))
          BY <1>1, <1>2, <2>1, <2>2
        <4>2. \A k \in a..(b - 1) : k \in 0..(Len(t) - 1) BY <1>1, <2>1, <2>2
        <4>. QED BY <1>3, <1>5, <4>1, <4>2 DEF Line
      <3>2. Slice(u, a, b) = Slice(t, a, b)
        <4>0. a + 1 \in Nat /\ b \in Nat BY <2>1
        <4>1. SubSeq(u, a + 1, b) = [k \in 1..(b - (a + 1) + 1) |-> u[k + (a + 1) - 1]]
          BY <4>0, SubSeqIs
        <4>2. SubSeq(t, a + 1, b) = [k \in 1..(b - (a + 1) + 1) |-> t[k + (a + 1) - 1]]
          BY <4>0, SubSeqIs
        <4>3. \A k \in 1..(b - (a + 1) + 1) : k + (a + 1) - 1 \in 1..Len(u) /\ k + (a + 1) - 1 <= Len(t)
          BY <1>1, <1>2, <2>1, <2>2
        <4>. QED BY <1>2, <4>1, <4>2, <4>3 DEF Slice
      <3>3. a \in 0..Len(t) /\ b \in 0..Len(t) BY <1>1, <2>1, <2>2
      <3>. QED BY <3>1, <3>2, <3>3 DEF Complete, Lines
    <2>3. CASE b = Len(t)
      <3>1. b # Len(u) /\ b \in Len(t)..(Len(u) - 1) BY <1>1, <1>2, <2>1, <2>3
      <3>. QED BY <1>4, <1>5, <3>1 DEF Line
    <2>4. CASE b > Len(t) /\ a < Len(t)
      <3>1. Len(t) - 1 \in 0..(Len(t) - 1) /\ Len(t) - 1 \in a..(b - 1) /\ Len(t) - 1 + 1 = Len(t) /\ t # <<>>
        BY <1>1, <2>1, <2>4
      <3>2. At(u, Len(t) - 1) = "\n" BY <1>3, <3>1 DEF At, Complete
      <3>. QED BY <1>5, <3>1, <3>2 DEF Line
    <2>5. CASE b > Len(t) /\ a > Len(t)
      <3>1. a - 1 \in Len(t)..(Len(u) - 1) /\ a # 0 BY <1>1, <2>1, <2>5
      <3>. QED BY <1>4, <1>5, <3>1 DEF Line
    <2>6. CASE b > Len(t) /\ a = Len(t)
      <3>1. b = Len(u)
        <4>1. b # Len(u) => b \in Len(t)..(Len(u) - 1) BY <1>1, <2>1, <2>6
        <4>. QED BY <1>4, <1>5, <4>1 DEF Line
      <3>2. Slice(u, a, b) = v
        <4>0. a + 1 \in Nat /\ b \in Nat BY <2>1
        <4>1. SubSeq(u, a + 1, b) = [k \in 1..(b - (a + 1) + 1) |-> u[k + (a + 1) - 1]]
          BY <4>0, SubSeqIs
        <4>2. b - (a + 1) + 1 = Len(v) BY <1>1, <1>2, <2>6, <3>1
        <4>3. \A k \in 1..Len(v) : /\ k + (a + 1) - 1 \in 1..Len(u)
                                   /\ ~(k + (a + 1) - 1 <= Len(t)) /\ k + (a + 1) - 1 - Len(t) = k
          BY <1>1, <1>2, <2>1, <2>6
        <4>6. \A k \in 1..Len(v) : u[k + (a + 1) - 1] = v[k]
          <5>1. ASSUME NEW k \in 1..Len(v) PROVE u[k + (a + 1) - 1] = v[k]
            <6> DEFINE x == k + (a + 1) - 1
            <6>1. x \in 1..Len(u) /\ ~(x <= Len(t)) /\ x - Len(t) = k BY <4>3
            <6> HIDE DEF x
            <6>2. u[x] = v[k] BY <1>2, <6>1
            <6>. QED BY <6>2 DEF x
          <5>. QED BY <5>1
        <4>4. SubSeq(u, a + 1, b) = [k \in 1..Len(v) |-> v[k]]
          BY <4>1, <4>2, <4>6
        <4>5. v = [k \in 1..Len(v) |-> v[k]] BY <1>1
        <4>. QED BY <4>4, <4>5 DEF Slice
      <3>. QED BY <3>2
    <2>. QED BY <1>1, <2>1, <2>2, <2>3, <2>4, <2>5, <2>6
  <1>. QED BY <1>2, <1>5 DEF Lines, u

-----------------------------------------------------------------------------
(***************************************************************************)
(* What an open container holds.                                           *)
(***************************************************************************)

\* The items of a container so far, d deep.
Items(f, q, d) == IF f.members = 0 THEN q = <<>> ELSE Run(f.kind, q, d)

\* The items so far and the comma after them.
Separated(f, q, d) ==
    IF f.members = 0 THEN q = <<>> ELSE \E u : Run(f.kind, u, d) /\ q = u \o CommaText

\* A value is due: in an object the name is there.
Pending(f, q, d) ==
    IF f.kind = "[" THEN Separated(f, q, d)
    ELSE \E r : Separated(f, r, d) /\ q = r \o KeyText

\* What a container holds up to the Writer's position in it.
Holding(f, q, d) == IF f.afterKey THEN Pending(f, q, d) ELSE Items(f, q, d)

\* The frames of a stack, without the byte that breaks the solver.
LEMMA FramesAre ==
    Frames = [kind : {"[", LBrace}, members : Nat, afterKey : BOOLEAN]
  <1>1. {"{", "["} = {"[", LBrace} BY Zenon DEF LBrace
  <1>. QED BY <1>1, Zenon DEF Frames

\* What a container holds has no newline.
LEMMA HeldText ==
    ASSUME NEW f \in Frames, NEW q, NEW d
    PROVE  /\ Items(f, q, d) => q \in Seq(Ink)
           /\ Separated(f, q, d) => q \in Seq(Ink)
           /\ Pending(f, q, d) => q \in Seq(Ink)
  <1>1. Items(f, q, d) => q \in Seq(Ink)
    <2>1. <<>> \in Seq(Ink) OBVIOUS
    <2>2. Run(f.kind, q, d) => q \in Seq(Ink) BY DEF Run, Reads
    <2>. QED BY <2>1, <2>2 DEF Items
  <1>2. ASSUME NEW r, Separated(f, r, d) PROVE r \in Seq(Ink)
    <2>1. CASE f.members = 0 BY <1>2, <2>1 DEF Separated
    <2>2. CASE f.members # 0
      <3>1. PICK u : Run(f.kind, u, d) /\ r = u \o CommaText
        BY <1>2, <2>2 DEF Separated
      <3>. QED BY <3>1, CommaIsInk, InkConcat DEF Run, Reads
    <2>. QED BY <2>1, <2>2
  <1>3. ASSUME Pending(f, q, d) PROVE q \in Seq(Ink)
    <2>1. CASE f.kind = "[" BY <1>2, <1>3, <2>1 DEF Pending
    <2>2. CASE f.kind # "[" BY <1>2, <1>3, <2>2, InkTexts, InkConcat DEF Pending
    <2>. QED BY <2>1, <2>2
  <1>. QED BY <1>1, <1>2, <1>3

\* The value that was due makes the container's text a run.
LEMMA ValueAdded ==
    ASSUME NEW f \in Frames, NEW d \in 0..MaxDepth, NEW q, Pending(f, q, d), NEW v, Reads("value", v, d)
    PROVE  Run(f.kind, q \o v, d)
  <1>1. f.kind \in {"[", LBrace} /\ v \in Seq(Ink) /\ v # <<>>
    BY FramesAre DEF Reads
  <1>2. ASSUME NEW r, Separated(f, r, d), NEW x, Item(f.kind, x, d), x \in Seq(Ink)
        PROVE  Run(f.kind, r \o x, d)
    <2>1. CASE f.members = 0
      <3>1. r = <<>> /\ r \o x = x BY <1>2, <2>1, ConcatEmptySeq DEF Separated
      <3>. QED BY <1>1, <1>2, <3>1, ItemIsRun
    <2>2. CASE f.members # 0 BY <1>1, <1>2, <2>2, RunGrows DEF Separated
    <2>. QED BY <2>1, <2>2
  <1>3. CASE f.kind = "[" BY <1>1, <1>2, <1>3 DEF Pending, Item
  <1>4. CASE f.kind # "["
    <2>1. PICK r : Separated(f, r, d) /\ q = r \o KeyText BY <1>4 DEF Pending
    <2>2. Item(f.kind, KeyText \o v, d) /\ KeyText \o v \in Seq(Ink)
      BY <1>1, <1>4, InkTexts, InkConcat DEF Item
    <2>3. r \o (KeyText \o v) = q \o v
      BY <1>1, <2>1, HeldText, InkTexts, InkAssociative
    <2>. QED BY <1>2, <2>1, <2>2, <2>3
  <1>. QED BY <1>3, <1>4

\* A container closed where it may be closed is a value.
LEMMA ClosedIsValue ==
    ASSUME NEW f \in Frames, NEW d \in 0..MaxDepth, d < MaxDepth, NEW q,
           \/ Run(f.kind, q, d + 1)
           \/ Items(f, q, d + 1)
    PROVE  Reads("value", <<f.kind>> \o q \o <<CloserOf(f.kind)>>, d)
  <1>1. f.kind \in {"[", LBrace} /\ f.kind \in Ink /\ CloserOf(f.kind) \in Ink
    BY Kinds, FramesAre
  <1>2. CASE Run(f.kind, q, d + 1) BY <1>1, <1>2, ContainerReads DEF Run
  <1>3. CASE q = <<>>
    <2>1. <<f.kind>> \o q = <<f.kind>>
      <3>1. <<f.kind>> \in Seq(Ink) BY <1>1
      <3>. QED BY <1>3, <3>1, ConcatEmptySeq
    <2>. QED BY <1>1, <2>1, EmptyContainerReads
  <1>. QED BY <1>2, <1>3 DEF Items

-----------------------------------------------------------------------------
(***************************************************************************)
(* The output and the stack.  p[k] is the output in front of the bracket   *)
(* of level k, q[k] what follows that bracket up to the bracket of the     *)
(* next level, or up to the end.                                           *)
(***************************************************************************)
Levels(s, e, p, q) ==
    /\ \A k \in 1..(Len(s) + 1) : p[k] \in Seq(Bytes)
    /\ Complete(p[1]) /\ p[Len(s) + 1] = e
    /\ \A k \in 1..Len(s) : p[k + 1] = p[k] \o (<<s[k].kind>> \o q[k])

\* A value is due at every level.
Hanging(s, e, p, q) ==
    /\ Levels(s, e, p, q)
    /\ \A k \in 1..Len(s) : Pending(s[k], q[k], k)

\* A value is due at every level but the innermost.
Nest(s, e, p, q) ==
    /\ Levels(s, e, p, q)
    /\ \A k \in 1..Len(s) : IF k = Len(s) THEN Holding(s[k], q[k], k) ELSE Pending(s[k], q[k], k)

\* What the Writer puts before a value or a name.
Comma0(f) == IF f.members > 0 THEN CommaText ELSE <<>>

\* The comma after the items so far is where the grammar wants it.
LEMMA SeparatorHolds ==
    ASSUME NEW f \in Frames, NEW q, NEW d, Items(f, q, d)
    PROVE  /\ Separated(f, q \o Comma0(f), d)
           /\ Comma0(f) \in Seq(Ink)
  <1>1. Comma0(f) \in Seq(Ink) /\ f.members \in Nat
    BY CommaIsInk, FramesAre DEF Comma0
  <1>2. CASE f.members = 0
    <2>1. q = <<>> /\ Comma0(f) = <<>> BY <1>2 DEF Items, Comma0
    <2>2. q \o Comma0(f) = <<>> BY <1>1, <2>1, ConcatEmptySeq
    <2>. QED BY <1>1, <1>2, <2>2 DEF Separated
  <1>3. CASE f.members # 0
    <2>1. Comma0(f) = CommaText /\ Run(f.kind, q, d)
      BY <1>1, <1>3 DEF Comma0, Items
    <2>. QED BY <1>1, <1>3, <2>1 DEF Separated
  <1>. QED BY <1>2, <1>3

\* More text at the end, at the innermost level; the frames may have changed.
Grown(s, t, e, q, x) ==
    \E p2, q2 : /\ Levels(t, e \o x, p2, q2)
                /\ q2[Len(s)] = q[Len(s)] \o x
                /\ \A k \in 1..(Len(s) - 1) : q2[k] = q[k]

\* Text at the end belongs to the innermost level.
LEMMA LevelsGrow ==
    ASSUME NEW s \in Seq(Frames), NEW e, NEW p, NEW q, Levels(s, e, p, q), NEW x \in Seq(Ink), s # <<>>,
           q[Len(s)] \in Seq(Ink),
           NEW t \in Seq(Frames), Len(t) = Len(s), \A k \in 1..Len(s) : t[k].kind = s[k].kind
    PROVE  Grown(s, t, e, q, x)
  <1> DEFINE n == Len(s)
             p2 == [k \in 1..(n + 1) |-> IF k = n + 1 THEN e \o x ELSE p[k]]
             q2 == [k \in 1..n |-> IF k = n THEN q[n] \o x ELSE q[k]]
  <1>1. n \in Nat /\ n > 0 /\ Len(t) = n OBVIOUS
  <1> HIDE DEF n
  <1>2. /\ n + 1 \in 1..(n + 1) /\ n \in 1..n /\ 1 \in 1..(n + 1) /\ 1 # n + 1
        /\ \A k \in 1..(n - 1) : k \in 1..n /\ k # n /\ k + 1 \in 1..(n + 1) /\ k + 1 # n + 1
        /\ \A k \in 1..n : k \in 1..(n + 1) /\ k # n + 1
    BY <1>1
  <1>3. e \in Seq(Bytes) /\ x \in Seq(Bytes) /\ e \o x \in Seq(Bytes)
    BY <1>2, InkTexts, ConcatProperties DEF Levels, n
  <1>4. \A k \in 1..(n + 1) : p2[k] \in Seq(Bytes) BY <1>3 DEF Levels, n
  <1>5. p2[1] = p[1] /\ p2[n + 1] = e \o x /\ q2[n] = q[n] \o x /\ \A k \in 1..(n - 1) : q2[k] = q[k]
    BY <1>2
  <1>6. ASSUME NEW k \in 1..n PROVE p2[k + 1] = p2[k] \o (<<t[k].kind>> \o q2[k])
    <2>1. p2[k] = p[k] /\ p[k] \in Seq(Bytes) /\ p[k + 1] = p[k] \o (<<s[k].kind>> \o q[k]) /\ t[k].kind = s[k].kind
      BY <1>2 DEF Levels, n
    <2>2. CASE k # n
      <3>1. k \in 1..(n - 1) BY <1>1, <2>2
      <3>2. p2[k + 1] = p[k + 1] /\ q2[k] = q[k] BY <1>2, <1>5, <3>1
      <3>. QED BY <2>1, <3>2
    <2>3. CASE k = n
      <3>1. s[n] \in Frames BY <1>2 DEF n
      <3>2. <<s[n].kind>> \in Seq(Bytes) /\ q[n] \in Seq(Bytes)
        BY <3>1, Kinds, FramesAre, InkTexts, InkBytes, SMTT(60) DEF n
      <3> DEFINE o == <<s[n].kind>>
      <3>3. o \in Seq(Bytes) /\ o \o q[n] \in Seq(Bytes)
        BY <3>2, ConcatProperties
      <3> HIDE DEF o
      <3>4. (p[n] \o (o \o q[n])) \o x = p[n] \o ((o \o q[n]) \o x)
        BY <1>3, <2>1, <2>3, <3>3, Associative, ZenonT(30)
      <3>5. (o \o q[n]) \o x = o \o (q[n] \o x)
        <4> DEFINE r == q[n]
        <4>1. o \in Seq(Bytes) /\ r \in Seq(Bytes) /\ x \in Seq(Bytes)
          BY <1>3, <3>2, <3>3
        <4> HIDE DEF r
        <4>2. (o \o r) \o x = o \o (r \o x) BY ONLY <4>1, Associative
        <4>. QED BY <4>2 DEF r
      <3>6. p[n + 1] = e BY DEF Levels, n
      <3>. QED BY <1>5, <2>1, <2>3, <3>4, <3>5, <3>6 DEF o
    <2>. QED BY <2>2, <2>3
  <1>7. Levels(t, e \o x, p2, q2)
    <2> HIDE DEF p2, q2
    <2>. QED BY <1>1, <1>4, <1>5, <1>6 DEF Levels
  <1>. QED BY <1>5, <1>7, ZenonT(30) DEF Grown, n

\* Facts of a stack that is not empty.
LEMMA TopOfStack ==
    ASSUME NEW s \in Seq(Frames), s # <<>>
    PROVE  /\ Len(s) \in Nat /\ Len(s) > 0 /\ Len(s) \in 1..Len(s) /\ s[Len(s)] \in Frames
           /\ s[Len(s)].kind \in {"[", LBrace} /\ s[Len(s)].members \in Nat /\ s[Len(s)].afterKey \in BOOLEAN
           /\ \A k \in 1..Len(s) : k \in Nat /\ (k # Len(s) => k \in 1..(Len(s) - 1))
           /\ \A k \in 1..(Len(s) - 1) : k \in 1..Len(s) /\ k # Len(s)
  <1>1. Len(s) \in Nat /\ Len(s) > 0 /\ Len(s) \in 1..Len(s) /\ s[Len(s)] \in Frames
    OBVIOUS
  <1>. QED BY <1>1, FramesAre

\* Before an element comes the comma, if it has an elder sibling.
LEMMA ElementDue ==
    ASSUME NEW s \in Seq(Frames), s # <<>>, NEW e, NEW p, NEW q, Nest(s, e, p, q),
           s[Len(s)].kind = "[", ~s[Len(s)].afterKey
    PROVE  \E p2, q2 : Hanging(s, e \o Comma0(s[Len(s)]), p2, q2)
  <1> DEFINE n == Len(s)
             f == s[n]
             x == Comma0(f)
  <1>1. Items(f, q[n], n) BY TopOfStack DEF Nest, Holding
  <1>2. x \in Seq(Ink) /\ q[n] \in Seq(Ink) /\ Separated(f, q[n] \o x, n)
    BY <1>1, TopOfStack, SeparatorHolds, HeldText
  <1>3. PICK p2, q2 : /\ Levels(s, e \o x, p2, q2) /\ q2[n] = q[n] \o x
                      /\ \A k \in 1..(n - 1) : q2[k] = q[k]
    <2>1. Levels(s, e, p, q) BY DEF Nest
    <2> HIDE DEF x
    <2>2. Grown(s, s, e, q, x) BY <1>2, <2>1, LevelsGrow
    <2>. QED BY <2>2 DEF Grown
  <1>4. ASSUME NEW k \in 1..n PROVE Pending(s[k], q2[k], k)
    <2>1. CASE k = n BY <1>2, <1>3, <2>1 DEF Pending
    <2>2. CASE k # n BY <1>3, <2>2, TopOfStack DEF Nest
    <2>. QED BY <2>1, <2>2
  <1>. QED BY <1>3, <1>4 DEF Hanging

\* After its name the value of a member is due.
LEMMA MemberDue ==
    ASSUME NEW s \in Seq(Frames), s # <<>>, NEW e, NEW p, NEW q, Nest(s, e, p, q), s[Len(s)].afterKey
    PROVE  Hanging(s, e, p, q)
  BY DEF Nest, Hanging, Holding

\* The value that was due: the innermost container has a member more.
LEMMA ValueFollows ==
    ASSUME NEW s \in Seq(Frames), s # <<>>, NEW e, NEW p, NEW q, Hanging(s, e, p, q), Len(s) <= MaxDepth,
           NEW v, Reads("value", v, Len(s)),
           NEW t \in Seq(Frames), Len(t) = Len(s), \A k \in 1..(Len(s) - 1) : t[k] = s[k],
           t[Len(s)].kind = s[Len(s)].kind, t[Len(s)].members = s[Len(s)].members + 1, ~t[Len(s)].afterKey
    PROVE  \E p2, q2 : Nest(t, e \o v, p2, q2)
  <1> DEFINE n == Len(s)
             f == s[n]
  <1>1. Pending(f, q[n], n) /\ n \in 0..MaxDepth /\ v \in Seq(Ink)
    BY TopOfStack, MaxDepthAssumption DEF Hanging, Reads
  <1>2. Run(f.kind, q[n] \o v, n) /\ q[n] \in Seq(Ink)
    BY <1>1, TopOfStack, ValueAdded, HeldText
  <1>3. \A k \in 1..n : t[k].kind = s[k].kind BY TopOfStack
  <1>4. PICK p2, q2 : /\ Levels(t, e \o v, p2, q2) /\ q2[n] = q[n] \o v
                      /\ \A k \in 1..(n - 1) : q2[k] = q[k]
    <2>1. Levels(s, e, p, q) BY DEF Hanging
    <2>2. Grown(s, t, e, q, v) BY <1>1, <1>2, <1>3, <2>1, LevelsGrow
    <2>. QED BY <2>2 DEF Grown
  <1>5. ASSUME NEW k \in 1..n
        PROVE  IF k = n THEN Holding(t[k], q2[k], k) ELSE Pending(t[k], q2[k], k)
    <2>1. CASE k = n
      <3>1. t[n].members # 0 BY TopOfStack, SMTT(30)
      <3>2. Items(t[n], q2[n], n) BY <1>2, <1>4, <3>1 DEF Items
      <3>. QED BY <2>1, <3>2 DEF Holding
    <2>2. CASE k # n BY <1>4, <2>2, TopOfStack DEF Hanging
    <2>. QED BY <2>1, <2>2
  <1>. QED BY <1>4, <1>5 DEF Nest

\* A name, after the comma if the object has a member.
LEMMA NameFollows ==
    ASSUME NEW s \in Seq(Frames), s # <<>>, NEW e, NEW p, NEW q, Nest(s, e, p, q),
           s[Len(s)].kind = LBrace, ~s[Len(s)].afterKey,
           NEW t \in Seq(Frames), Len(t) = Len(s), \A k \in 1..(Len(s) - 1) : t[k] = s[k],
           t[Len(s)].kind = LBrace, t[Len(s)].members = s[Len(s)].members, t[Len(s)].afterKey
    PROVE  \E p2, q2 : Nest(t, e \o (Comma0(s[Len(s)]) \o KeyText), p2, q2)
  <1> DEFINE n == Len(s)
             f == s[n]
             x == Comma0(f) \o KeyText
  <1>1. Items(f, q[n], n) BY TopOfStack DEF Nest, Holding
  <1>2. Comma0(f) \in Seq(Ink) /\ q[n] \in Seq(Ink) /\ Separated(f, q[n] \o Comma0(f), n)
    BY <1>1, TopOfStack, SeparatorHolds, HeldText
  <1>3. x \in Seq(Ink) /\ q[n] \o x = (q[n] \o Comma0(f)) \o KeyText
    BY <1>2, InkTexts, InkConcat, InkAssociative, ZenonT(30)
  <1>4. \A k \in 1..n : t[k].kind = s[k].kind BY TopOfStack
  <1>5. PICK p2, q2 : /\ Levels(t, e \o x, p2, q2) /\ q2[n] = q[n] \o x
                      /\ \A k \in 1..(n - 1) : q2[k] = q[k]
    <2>1. Levels(s, e, p, q) BY DEF Nest
    <2> HIDE DEF x
    <2>2. Grown(s, t, e, q, x) BY <1>2, <1>3, <1>4, <2>1, LevelsGrow
    <2>. QED BY <2>2 DEF Grown
  <1>6. ASSUME NEW k \in 1..n
        PROVE  IF k = n THEN Holding(t[k], q2[k], k) ELSE Pending(t[k], q2[k], k)
    <2>1. CASE k = n
      <3>1. Separated(t[n], q[n] \o Comma0(f), n) BY <1>2 DEF Separated
      <3>2. LBrace # "[" BY Zenon DEF LBrace
      <3>3. Pending(t[n], q2[n], n) BY <1>3, <1>5, <3>1, <3>2 DEF Pending
      <3>. QED BY <2>1, <3>3 DEF Holding
    <2>2. CASE k # n BY <1>5, <2>2, TopOfStack DEF Nest
    <2>. QED BY <2>1, <2>2
  <1>. QED BY <1>5, <1>6 DEF Nest

\* A container that was due is opened.
LEMMA ContainerFollows ==
    ASSUME NEW s \in Seq(Frames), NEW e, NEW p, NEW q, Hanging(s, e, p, q),
           NEW kind \in {"[", LBrace}, NEW t \in Seq(Frames), Len(t) = Len(s) + 1,
           \A k \in 1..Len(s) : t[k] = s[k],
           t[Len(t)].kind = kind, t[Len(t)].members = 0, ~t[Len(t)].afterKey
    PROVE  \E p2, q2 : Nest(t, e \o <<kind>>, p2, q2)
  <1> DEFINE n == Len(s)
             o == <<kind>>
             p2 == [k \in 1..(n + 2) |-> IF k = n + 2 THEN e \o o ELSE p[k]]
             q2 == [k \in 1..(n + 1) |-> IF k = n + 1 THEN <<>> ELSE q[k]]
  <1>1. n \in Nat /\ Len(t) = n + 1 /\ o \in Seq(Ink) /\ o \in Seq(Bytes)
    <2>1. o \in Seq(Ink) BY Kinds
    <2>2. o \in Seq(Bytes) BY <2>1, InkTexts
    <2>. QED BY <2>1, <2>2
  <1>2. /\ p[n + 1] = e /\ e \in Seq(Bytes) /\ Complete(p[1])
        /\ \A k \in 1..(n + 1) : p[k] \in Seq(Bytes)
        /\ \A k \in 1..n : p[k + 1] = p[k] \o (<<s[k].kind>> \o q[k])
    <2>1. Levels(s, e, p, q) BY DEF Hanging
    <2>2. n + 1 \in 1..(n + 1) BY <1>1
    <2>. QED BY <2>1, <2>2 DEF Levels
  <1>3. \A k \in 1..n : t[k] = s[k] /\ Pending(s[k], q[k], k) BY DEF Hanging
  <1>4. e \o o \in Seq(Bytes) /\ o \o <<>> = o
    BY <1>1, <1>2, Concat, ConcatEmptySeq
  <1>5. t[n + 1].kind = kind /\ t[n + 1].members = 0 /\ ~t[n + 1].afterKey
    BY <1>1
  <1> HIDE DEF n
  <1>6. /\ n + 2 \in 1..(n + 2) /\ 1 \in 1..(n + 2) /\ 1 # n + 2 /\ n + 1 \in 1..(n + 1) /\ n + 1 # n + 2
        /\ n + 1 \in 1..(n + 2) /\ (n + 1) + 1 = n + 2
        /\ \A k \in 1..(n + 2) : k # n + 2 => k \in 1..(n + 1)
        /\ \A k \in 1..(n + 1) : k \in 1..(n + 2) /\ k # n + 2 /\ (k # n + 1 => k \in 1..n)
        /\ \A k \in 1..n : k \in 1..(n + 1) /\ k \in 1..(n + 2) /\ k # n + 1 /\ k + 1 \in 1..(n + 2) /\ k + 1 # n + 2
                           /\ k # n + 2
    BY <1>1
  <1>7. /\ p2[1] = p[1] /\ p2[n + 2] = e \o o /\ p2[n + 1] = e /\ q2[n + 1] = <<>>
        /\ \A k \in 1..n : p2[k] = p[k] /\ p2[k + 1] = p[k + 1] /\ q2[k] = q[k]
        /\ \A k \in 1..(n + 2) : p2[k] \in Seq(Bytes)
    BY <1>2, <1>4, <1>6
  <1> HIDE DEF p2, q2
  <1>8. ASSUME NEW k \in 1..(n + 1) PROVE p2[k + 1] = p2[k] \o (<<t[k].kind>> \o q2[k])
    <2>1. CASE k = n + 1
      <3>1. <<t[k].kind>> \o q2[k] = o BY <1>4, <1>5, <1>7, <2>1
      <3>2. p2[k + 1] = e \o o /\ p2[k] = e BY <1>6, <1>7, <2>1
      <3>. QED BY <3>1, <3>2
    <2>2. CASE k # n + 1
      <3>1. k \in 1..n BY <1>6, <2>2
      <3>. QED BY <1>2, <1>3, <1>7, <3>1
    <2>. QED BY <2>1, <2>2
  <1>9. Levels(t, e \o o, p2, q2)
    <2>1. Len(t) + 1 = n + 2 /\ Len(t) = n + 1 BY <1>1
    <2>. QED BY <1>2, <1>7, <1>8, <2>1 DEF Levels
  <1>10. ASSUME NEW k \in 1..Len(t)
         PROVE  IF k = Len(t) THEN Holding(t[k], q2[k], k) ELSE Pending(t[k], q2[k], k)
    <2>1. CASE k = n + 1 BY <1>1, <1>5, <1>7, <2>1 DEF Holding, Items
    <2>2. CASE k # n + 1
      <3>1. k \in 1..n BY <1>1, <1>6, <2>2
      <3>. QED BY <1>1, <1>3, <1>7, <2>2, <3>1
    <2>. QED BY <2>1, <2>2
  <1>11. Nest(t, e \o o, p2, q2) BY <1>9, <1>10 DEF Nest
  <1>. QED BY <1>11 DEF o

\* A container that may be closed is a value that was due where it was opened.
Closes(e, cl, p, q, t) ==
    \E h, v : Hanging(t, h, p, q) /\ Reads("value", v, Len(t)) /\ e \o cl = h \o v

LEMMA ContainerCloses ==
    ASSUME NEW s \in Seq(Frames), s # <<>>, NEW e, NEW p, NEW q, Nest(s, e, p, q), Len(s) <= MaxDepth,
           ~s[Len(s)].afterKey,
           NEW t \in Seq(Frames), Len(t) = Len(s) - 1, \A k \in 1..Len(t) : t[k] = s[k]
    PROVE  Closes(e, <<CloserOf(s[Len(s)].kind)>>, p, q, t)
  <1> DEFINE n == Len(s)
             f == s[n]
             h == p[n]
             o == <<f.kind>>
             c == <<CloserOf(f.kind)>>
             v == o \o q[n] \o c
  <1>1. n \in Nat /\ n > 0 /\ n \in 1..n /\ n \in 1..(n + 1) /\ Len(t) = n - 1 /\ f \in Frames
        /\ f.kind \in {"[", LBrace} /\ n - 1 \in 0..MaxDepth /\ n - 1 < MaxDepth /\ (n - 1) + 1 = n
        /\ (Len(t) + 1 = n)
    BY TopOfStack, MaxDepthAssumption, SMTT(30)
  <1>2. Items(f, q[n], n) /\ q[n] \in Seq(Ink)
    BY <1>1, HeldText DEF Nest, Holding
  <1>3. Reads("value", v, n - 1) BY <1>1, <1>2, ClosedIsValue
  <1>4. /\ h \in Seq(Bytes) /\ e = h \o (o \o q[n]) /\ Complete(p[1])
    <2>1. Levels(s, e, p, q) BY DEF Nest
    <2>. QED BY <1>1, <2>1 DEF Levels
  <1>5. Levels(t, h, p, q)
    <2>1. Levels(s, e, p, q) BY DEF Nest
    <2>2. /\ \A k \in 1..(Len(t) + 1) : k \in 1..(n + 1)
          /\ \A k \in 1..Len(t) : k \in 1..n /\ t[k] = s[k]
      BY <1>1
    <2>. QED BY <1>1, <2>1, <2>2 DEF Levels
  <1>6. Hanging(t, h, p, q)
    <2>1. \A k \in 1..Len(t) : k \in 1..n /\ k # n /\ t[k] = s[k] BY <1>1
    <2>. QED BY <1>5, <2>1 DEF Hanging, Nest
  <1>7. e \o c = h \o v
    <2>1. o \in Seq(Bytes) /\ c \in Seq(Bytes) /\ q[n] \in Seq(Bytes)
      <3>1. o \in Seq(Ink) /\ c \in Seq(Ink) BY <1>1, Kinds
      <3>. QED BY <1>2, <3>1, InkTexts
    <2> DEFINE r == o \o q[n]
    <2>2. r \in Seq(Bytes) BY <2>1, Concat
    <2> HIDE DEF r, c, h
    <2>3. (h \o r) \o c = h \o (r \o c) BY <1>4, <2>1, <2>2, Associative
    <2>. QED BY <1>4, <2>3 DEF r
  <1>8. Len(t) = n - 1 BY <1>1
  <1> HIDE DEF h, v, c
  <1>9. Closes(e, c, p, q, t)
    <2> HIDE DEF n
    <2>. QED BY ONLY <1>3, <1>6, <1>7, <1>8 DEF Closes
  <1>. QED BY <1>9 DEF c

-----------------------------------------------------------------------------
(***************************************************************************)
(* Closing the open containers.                                            *)
(***************************************************************************)

\* The texts that close d containers, as Closers computes them.
CloserText(s, d) ==
    IF s[d].kind = "[" THEN <<"]">>
    ELSE IF s[d].afterKey /\ d = Len(s) THEN Scalar \o <<"}">> ELSE <<"}">>

CloseAll(s, f) == [d \in 0..Len(s) |-> IF d = 0 THEN <<>> ELSE CloserText(s, d) \o f[d - 1]]

\* The text that closes a level is its bracket, after a value if one is due.
LEMMA CloserTextIs ==
    ASSUME NEW s \in Seq(Frames), NEW d \in 1..Len(s)
    PROVE  /\ CloserText(s, d) \in Seq(Bytes)
           /\ (s[d].kind = "[" \/ ~s[d].afterKey \/ d # Len(s)) => CloserText(s, d) = <<CloserOf(s[d].kind)>>
           /\ (s[d].kind # "[" /\ s[d].afterKey /\ d = Len(s)) => CloserText(s, d) = Scalar \o <<CloserOf(s[d].kind)>>
  <1>1. CASE s[d].kind = "["
    <2>1. CloserText(s, d) = <<"]">> /\ CloserOf(s[d].kind) = "]"
      BY <1>1, Zenon DEF CloserText, CloserOf
    <2>2. <<"]">> \in Seq(Bytes) BY InkBytes
    <2>. QED BY <1>1, <2>1, <2>2
  <1>2. CASE s[d].kind # "["
    <2>1. CloserOf(s[d].kind) = RBrace BY <1>2 DEF CloserOf
    <2>2. CloserText(s, d) = IF s[d].afterKey /\ d = Len(s) THEN Scalar \o <<RBrace>> ELSE <<RBrace>>
      BY <1>2, Zenon DEF CloserText, RBrace
    <2>3. <<RBrace>> \in Seq(Bytes) BY InkBytes
    <2>4. Scalar \o <<RBrace>> \in Seq(Bytes) BY <2>3, Texts, Concat
    <2>. QED BY <1>2, <2>1, <2>2, <2>3, <2>4
  <1>. QED BY <1>1, <1>2

\* Closers satisfies its recursion.
LEMMA ClosersAre ==
    ASSUME NEW s \in Seq(Frames)
    PROVE  \E f \in [0..Len(s) -> Seq(Bytes)] : f = CloseAll(s, f)
  <1> DEFINE n == Len(s)
             D == 0..n
             V == Seq(Bytes)
             F == [f \in [D -> V] |-> CloseAll(s, f)]
             rank == [d \in D |-> d]
             f0 == [d \in D |-> <<>>]
  <1>1. n \in Nat /\ rank \in [D -> 0..n] /\ f0 \in [D -> V] OBVIOUS
  <1>2. \A d \in D : d # 0 => d - 1 \in D /\ d \in 1..n /\ d - 1 < d BY <1>1
  <1>3. ASSUME NEW f \in [D -> V] PROVE CloseAll(s, f) \in [D -> V]
    <2>1. ASSUME NEW d \in D, d # 0 PROVE CloserText(s, d) \o f[d - 1] \in V
      <3>1. f[d - 1] \in V /\ CloserText(s, d) \in V BY <1>2, <2>1, CloserTextIs
      <3>. QED BY <3>1, Concat
    <2>2. <<>> \in V OBVIOUS
    <2> HIDE DEF V
    <2>. QED BY <2>1, <2>2 DEF CloseAll
  <1>4. ASSUME NEW f \in [D -> V], NEW h \in [D -> V], NEW d \in D,
               \A x \in D : rank[x] < rank[d] => f[x] = h[x]
        PROVE  F[f][d] = F[h][d]
    <2>1. d # 0 => f[d - 1] = h[d - 1] BY <1>2, <1>4
    <2>2. CloseAll(s, f)[d] = CloseAll(s, h)[d] BY <2>1 DEF CloseAll
    <2>. QED BY <2>2
  <1>5. Recursion(F, D, V, rank) BY <1>3, <1>4 DEF Recursion
  <1>6. IsMet(F, D, V)
    <2> HIDE DEF n, D, V, F, rank, f0
    <2>. QED BY <1>1, <1>5, RecursionIsMet
  <1>7. PICK f \in [D -> V] : F[f] = f BY <1>6 DEF IsMet
  <1>. QED BY <1>7

\* Closers, by its recursion.
ClosedBy(s, c) ==
    /\ c[0] = <<>>
    /\ \A d \in 0..Len(s) : c[d] \in Seq(Bytes)
    /\ \A d \in 1..Len(s) : c[d] = CloserText(s, d) \o c[d - 1]

\* Closers is the last of the texts its recursion computes.
LEMMA ClosersBy ==
    ASSUME stack \in Seq(Frames)
    PROVE  \E c : ClosedBy(stack, c) /\ Closers = c[Len(stack)]
  <1> DEFINE n == Len(stack)
             c == CHOOSE f : f = CloseAll(stack, f)
             T == {d \in 0..n : c[d] \notin Seq(Bytes)}
  <1>1. Closers = c[n] BY Zenon DEF Closers, CloseAll, CloserText
  <1>2. c = CloseAll(stack, c) BY ClosersAre
  <1> HIDE DEF c
  <1>3. n \in Nat /\ 0 \in 0..n /\ \A d \in 1..n : d \in 0..n /\ d # 0 /\ d - 1 \in 0..n
    OBVIOUS
  <1>4. c[0] = <<>> /\ \A d \in 1..n : c[d] = CloserText(stack, d) \o c[d - 1]
    BY <1>2, <1>3 DEF CloseAll
  <1>5. T = {}
    <2> SUFFICES ASSUME T # {} PROVE FALSE
      OBVIOUS
    <2>1. T \subseteq Nat OBVIOUS
    <2>2. PICK d \in T : \A y \in T : d <= y BY <2>1, LeastNumber
    <2>3. d # 0
      <3>1. <<>> \in Seq(Bytes) OBVIOUS
      <3>. QED BY <1>4, <2>2, <3>1
    <2>4. d \in 1..n /\ d - 1 \in 0..n /\ ~(d <= d - 1) BY <1>3, <2>2, <2>3
    <2>5. c[d - 1] \in Seq(Bytes) BY <2>2, <2>4
    <2>6. CloserText(stack, d) \o c[d - 1] \in Seq(Bytes)
      BY <2>4, <2>5, CloserTextIs, Concat
    <2>. QED BY <1>4, <2>2, <2>4, <2>6
  <1>6. ClosedBy(stack, c) BY <1>4, <1>5 DEF ClosedBy
  <1>. QED BY <1>1, <1>6

\* Concatenations, regrouped: three texts, four, and six.
Trio(y1, y2, y3) == (y1 \o y2) \o y3 = y1 \o (y2 \o y3)

Quad(y1, y2, y3, y4) == (y1 \o y2) \o (y3 \o y4) = y1 \o ((y2 \o y3) \o y4)

Sextet(y1, y2, y3, y4, y5, y6) ==
    (y1 \o (y2 \o y3)) \o (y4 \o (y5 \o y6)) = y1 \o ((y2 \o (y3 \o y4) \o y5) \o y6)

\* Three texts.
LEMMA TrioHolds ==
    ASSUME NEW y1 \in Seq(Bytes), NEW y2 \in Seq(Bytes), NEW y3 \in Seq(Bytes)
    PROVE  Trio(y1, y2, y3)
  BY Associative DEF Trio

\* Four texts.
LEMMA QuadHolds ==
    ASSUME NEW y1 \in Seq(Bytes), NEW y2 \in Seq(Bytes), NEW y3 \in Seq(Bytes), NEW y4 \in Seq(Bytes)
    PROVE  Quad(y1, y2, y3, y4)
  <1>1. y3 \o y4 \in Seq(Bytes) BY Concat
  <1>2. (y1 \o y2) \o (y3 \o y4) = y1 \o (y2 \o (y3 \o y4))
    BY <1>1, TrioHolds, SMTT(30) DEF Trio
  <1>3. y2 \o (y3 \o y4) = (y2 \o y3) \o y4 BY TrioHolds, SMTT(30) DEF Trio
  <1>. QED BY <1>2, <1>3, Zenon DEF Quad

\* Six texts.
LEMMA SextetHolds ==
    ASSUME NEW y1 \in Seq(Bytes), NEW y2 \in Seq(Bytes), NEW y3 \in Seq(Bytes), NEW y4 \in Seq(Bytes),
           NEW y5 \in Seq(Bytes), NEW y6 \in Seq(Bytes)
    PROVE  Sextet(y1, y2, y3, y4, y5, y6)
  <1> DEFINE a == y2 \o y3
             b == y5 \o y6
             d == y2 \o (y3 \o y4)
  <1>1. a \in Seq(Bytes) /\ b \in Seq(Bytes) BY Concat
  <1>2. Quad(y1, a, y4, b)
    <2> HIDE DEF a, b
    <2>. QED BY <1>1, QuadHolds
  <1>3. a \o y4 = d
    <2>1. Trio(y2, y3, y4) BY TrioHolds
    <2>. QED BY <2>1, Zenon DEF Trio
  <1>4. d \in Seq(Bytes) BY <1>1, <1>3, Concat
  <1>5. (d \o y5) \o y6 = d \o b
    <2> HIDE DEF d
    <2>. QED BY <1>4, Associative, ZenonT(30)
  <1> HIDE DEF a, b, d
  <1>6. (y1 \o a) \o (y4 \o b) = y1 \o ((a \o y4) \o b) BY <1>2, Zenon DEF Quad
  <1>7. (y1 \o a) \o (y4 \o b) = y1 \o ((d \o y5) \o y6)
    BY <1>3, <1>5, <1>6, Zenon
  <1>. QED BY <1>7, Zenon DEF Sextet, a, b, d

\* Closed from the innermost level to level k, the output is what precedes the
\* bracket of level k, one value, and what closes the levels around it.
Closing(s, e, p, c, k) ==
    \E v : Reads("value", v, k - 1) /\ e \o c[Len(s)] = p[k] \o (v \o c[k - 1])

\* A level whose text is completed by x closes into one value.
LEMMA ClosingLevel ==
    ASSUME NEW s \in Seq(Frames), s # <<>>, NEW e, NEW p, NEW q, Nest(s, e, p, q), Len(s) <= MaxDepth,
           NEW c, ClosedBy(s, c), NEW k \in 1..Len(s),
           NEW x \in Seq(Ink), \/ Run(s[k].kind, q[k] \o x, k)
                               \/ Items(s[k], q[k], k) /\ x = <<>>,
           q[k] \in Seq(Ink),
           e \o c[Len(s)] = p[k + 1] \o (x \o (<<CloserOf(s[k].kind)>> \o c[k - 1]))
    PROVE  Closing(s, e, p, c, k)
  <1> DEFINE o == <<s[k].kind>>
             cl == <<CloserOf(s[k].kind)>>
             v == o \o (q[k] \o x) \o cl
  <1>1. /\ Len(s) \in Nat /\ k \in Nat /\ k - 1 \in 0..MaxDepth /\ k - 1 < MaxDepth /\ (k - 1) + 1 = k
        /\ s[k] \in Frames /\ s[k].kind \in {"[", LBrace} /\ k \in 1..(Len(s) + 1) /\ k - 1 \in 0..Len(s)
    <2>1. Len(s) \in Nat /\ k \in Nat /\ k >= 1 /\ k <= Len(s) /\ s[k] \in Frames
      OBVIOUS
    <2>2. s[k].kind \in {"[", LBrace} BY <2>1, FramesAre
    <2>. QED BY <2>1, <2>2, MaxDepthAssumption
  <1>2. Reads("value", v, k - 1)
    <2>1. CASE Run(s[k].kind, q[k] \o x, k) BY <1>1, <2>1, ClosedIsValue
    <2>2. CASE Items(s[k], q[k], k) /\ x = <<>>
      <3>1. q[k] \o x = q[k] BY <2>2, ConcatEmptySeq
      <3>. QED BY <1>1, <2>2, <3>1, ClosedIsValue
    <2>. QED BY <2>1, <2>2
  <1>3. p[k + 1] = p[k] \o (o \o q[k]) /\ p[k] \in Seq(Bytes)
    BY <1>1 DEF Nest, Levels
  <1>4. o \in Seq(Bytes) /\ cl \in Seq(Bytes) /\ q[k] \in Seq(Bytes) /\ x \in Seq(Bytes) /\ c[k - 1] \in Seq(Bytes)
    <2>1. o \in Seq(Ink) /\ cl \in Seq(Ink) BY <1>1, Kinds
    <2>2. c[k - 1] \in Seq(Bytes) BY <1>1 DEF ClosedBy
    <2>. QED BY <2>1, <2>2, InkTexts
  <1>5. (p[k] \o (o \o q[k])) \o (x \o (cl \o c[k - 1])) = p[k] \o (v \o c[k - 1])
    <2> HIDE DEF o, cl
    <2>1. Sextet(p[k], o, q[k], x, cl, c[k - 1]) BY ONLY <1>3, <1>4, SextetHolds
    <2>. QED BY <2>1, Zenon DEF Sextet
  <1> HIDE DEF v
  <1>. QED BY <1>2, <1>3, <1>5 DEF Closing

\* A name waits for its value in an object only.
KeysInObjects(s) == \A k \in 1..Len(s) : s[k].afterKey => s[k].kind # "["

\* The innermost level closes by its bracket, after a value if one is due.
LEMMA InnermostCloses ==
    ASSUME NEW s \in Seq(Frames), s # <<>>, KeysInObjects(s), NEW e, NEW p, NEW q, Nest(s, e, p, q),
           Len(s) <= MaxDepth, NEW c, ClosedBy(s, c)
    PROVE  Closing(s, e, p, c, Len(s))
  <1> DEFINE n == Len(s)
             f == s[n]
             cl == <<CloserOf(f.kind)>>
  <1>1. /\ n \in 1..n /\ f \in Frames /\ n \in Nat /\ n \in 0..MaxDepth /\ p[n + 1] = e /\ n - 1 \in 0..n
        /\ c[n] = CloserText(s, n) \o c[n - 1] /\ c[n - 1] \in Seq(Bytes) /\ Holding(f, q[n], n)
        /\ f.kind \in {"[", LBrace} /\ f.afterKey \in BOOLEAN
    <2>1. n \in 1..n /\ f \in Frames /\ n \in Nat /\ n \in 0..MaxDepth /\ n - 1 \in 0..n
      BY TopOfStack, MaxDepthAssumption
    <2>. QED BY <2>1, FramesAre DEF Nest, Levels, ClosedBy
  <1>2. cl \in Seq(Bytes) /\ Scalar \in Seq(Ink) /\ Scalar \in Seq(Bytes)
    <2>1. cl \in Seq(Ink) BY <1>1, Kinds
    <2>2. Scalar \in Seq(Ink) BY <1>1, ScalarReads DEF Reads
    <2>. QED BY <2>1, <2>2, InkTexts
  <1>3. CASE ~f.afterKey
    <2>1. Items(f, q[n], n) /\ CloserText(s, n) = cl
      BY <1>1, <1>3, CloserTextIs DEF Holding
    <2>2. <<>> \in Seq(Ink) /\ q[n] \in Seq(Ink) BY <1>1, <2>1, HeldText
    <2>3. <<>> \o (cl \o c[n - 1]) = c[n]
      <3>1. cl \o c[n - 1] \in Seq(Bytes) BY <1>1, <1>2, Concat
      <3>. QED BY <1>1, <2>1, <3>1, ConcatEmptySeq
    <2>4. e \o c[n] = p[n + 1] \o (<<>> \o (cl \o c[n - 1])) BY <1>1, <2>3
    <2>. QED BY <1>1, <2>1, <2>2, <2>4, ClosingLevel
  <1>4. CASE f.afterKey
    <2>1. Pending(f, q[n], n) /\ CloserText(s, n) = Scalar \o cl
      BY <1>1, <1>4, CloserTextIs DEF Holding, KeysInObjects
    <2>2. q[n] \in Seq(Ink) /\ Run(f.kind, q[n] \o Scalar, n)
      BY <1>1, <2>1, HeldText, ValueAdded, ScalarReads
    <2>3. e \o c[n] = p[n + 1] \o (Scalar \o (cl \o c[n - 1]))
      <3> HIDE DEF cl
      <3>1. (Scalar \o cl) \o c[n - 1] = Scalar \o (cl \o c[n - 1])
        BY <1>1, <1>2, Associative
      <3>. QED BY <1>1, <2>1, <3>1
    <2>. QED BY <1>1, <1>2, <2>2, <2>3, ClosingLevel
  <1>. QED BY <1>1, <1>3, <1>4

\* What closes level k + 1 is the value that was due at level k.
LEMMA OuterCloses ==
    ASSUME NEW s \in Seq(Frames), s # <<>>, KeysInObjects(s), NEW e, NEW p, NEW q, Nest(s, e, p, q),
           Len(s) <= MaxDepth, NEW c, ClosedBy(s, c),
           NEW k \in 1..(Len(s) - 1), Closing(s, e, p, c, k + 1)
    PROVE  Closing(s, e, p, c, k)
  <1> DEFINE f == s[k]
             cl == <<CloserOf(f.kind)>>
  <1>1. /\ Len(s) \in Nat /\ k \in Nat /\ k \in 1..Len(s) /\ k # Len(s) /\ k \in 0..MaxDepth /\ (k + 1) - 1 = k
        /\ f \in Frames
    <2>1. Len(s) \in Nat /\ k \in Nat /\ k >= 1 /\ k <= Len(s) - 1 OBVIOUS
    <2>2. k \in 1..Len(s) BY <2>1
    <2>. QED BY <2>1, <2>2, MaxDepthAssumption
  <1>2. PICK x : Reads("value", x, k) /\ e \o c[Len(s)] = p[k + 1] \o (x \o c[k])
    BY <1>1 DEF Closing
  <1>3. Pending(f, q[k], k) BY <1>1 DEF Nest
  <1>4. Run(f.kind, q[k] \o x, k) /\ q[k] \in Seq(Ink) /\ x \in Seq(Ink)
    BY <1>1, <1>2, <1>3, ValueAdded, HeldText DEF Reads
  <1>5. c[k] = cl \o c[k - 1]
    <2>1. CloserText(s, k) = cl BY <1>1, CloserTextIs
    <2>. QED BY <1>1, <2>1 DEF ClosedBy
  <1>6. e \o c[Len(s)] = p[k + 1] \o (x \o (cl \o c[k - 1]))
    BY <1>2, <1>5, Zenon
  <1>. QED BY <1>1, <1>4, <1>6, ClosingLevel

\* From the innermost level outwards, every level closes.
LEMMA AllClose ==
    ASSUME NEW s \in Seq(Frames), s # <<>>, KeysInObjects(s), NEW e, NEW p, NEW q, Nest(s, e, p, q),
           Len(s) <= MaxDepth, NEW c, ClosedBy(s, c)
    PROVE  Closing(s, e, p, c, 1)
  <1> DEFINE n == Len(s)
             T == {m \in 0..(n - 1) : ~Closing(s, e, p, c, n - m)}
  <1>1. n \in Nat /\ n > 0 BY TopOfStack
  <1>2. T = {}
    <2> SUFFICES ASSUME T # {} PROVE FALSE
      OBVIOUS
    <2>1. T \subseteq Nat OBVIOUS
    <2>2. PICK m \in T : \A y \in T : m <= y BY <2>1, LeastNumber
    <2>3. m \in 0..(n - 1) /\ ~Closing(s, e, p, c, n - m) BY <2>2
    <2>4. m # 0
      <3>1. Closing(s, e, p, c, n) BY InnermostCloses
      <3>2. n - 0 = n BY <1>1
      <3>. QED BY <2>3, <3>1, <3>2
    <2>5. m - 1 \in 0..(n - 1) /\ ~(m <= m - 1) /\ n - m \in 1..(n - 1) /\ n - (m - 1) = (n - m) + 1
      BY <1>1, <2>3, <2>4
    <2>6. Closing(s, e, p, c, (n - m) + 1)
      <3>1. m - 1 \notin T BY <2>2, <2>5
      <3>. QED BY <2>5, <3>1
    <2>7. Closing(s, e, p, c, n - m) BY <2>5, <2>6, OuterCloses
    <2>. QED BY <2>3, <2>7
  <1>3. n - 1 \in 0..(n - 1) /\ n - (n - 1) = 1 BY <1>1
  <1>. QED BY <1>2, <1>3

-----------------------------------------------------------------------------
(***************************************************************************)
(* The invariant.                                                          *)
(***************************************************************************)

\* The containers that are open are no deeper than a reader follows.
Followed == Len(stack) <= MaxDepth

\* While no method failed, the output is lines of values, complete but for the
\* value that is being written.
OutputNested ==
    /\ KeysInObjects(stack)
    /\ IF stack # <<>> THEN \E p, q : Nest(stack, emitted, p, q)
       ELSE IF started THEN \E h, v : Complete(h) /\ Reads("value", v, 0) /\ emitted = h \o v
       ELSE Complete(emitted)

\* Between values the output is lines of values.
LEMMA EmittedLines ==
    ASSUME OutputNested, stack = <<>>
    PROVE  emitted \in Seq(Bytes) /\ Lines(emitted)
  <1>1. CASE started BY <1>1, ValueIsLine DEF OutputNested
  <1>2. CASE ~started BY <1>2 DEF OutputNested, Complete
  <1>. QED BY <1>1, <1>2

\* Closing the open containers completes the output.
LEMMA NestedCompletes ==
    ASSUME OutputNested, Followed, stack \in Seq(Frames), emitted \in Seq(Bytes)
    PROVE  IsStream(emitted \o Closers)
  <1>1. PICK c : ClosedBy(stack, c) /\ Closers = c[Len(stack)] BY ClosersBy
  <1>2. CASE stack = <<>>
    <2>1. Closers = <<>> BY <1>1, <1>2 DEF ClosedBy
    <2>2. emitted \o Closers = emitted BY <2>1, ConcatEmptySeq
    <2>. QED BY <1>2, <2>2, EmittedLines, LinesAreStream
  <1>3. CASE stack # <<>>
    <2>1. PICK p, q : Nest(stack, emitted, p, q) BY <1>3 DEF OutputNested
    <2>2. Closing(stack, emitted, p, c, 1)
      BY <1>1, <1>3, <2>1, AllClose DEF OutputNested, Followed
    <2>3. PICK v : Reads("value", v, 0) /\ emitted \o c[Len(stack)] = p[1] \o (v \o c[0])
      <3>1. 1 - 1 = 0 OBVIOUS
      <3>. QED BY <2>2, <3>1 DEF Closing
    <2>4. v \o c[0] = v
      <3>1. v \in Seq(Ink) /\ c[0] = <<>> BY <1>1, <2>3 DEF Reads, ClosedBy
      <3>. QED BY <3>1, ConcatEmptySeq
    <2>5. Complete(p[1]) BY <2>1 DEF Nest, Levels
    <2>6. emitted \o Closers = p[1] \o v BY <1>1, <2>3, <2>4
    <2>. QED BY <2>3, <2>5, <2>6, ValueIsLine, LinesAreStream
  <1>. QED BY <1>2, <1>3

-----------------------------------------------------------------------------
(***************************************************************************)
(* What a method does to the stack, and what it needs of the output.       *)
(***************************************************************************)

\* t is s with a member more in the innermost container.
Counted(s, t) ==
    /\ t \in Seq(Frames) /\ Len(t) = Len(s) /\ t # <<>>
    /\ \A k \in 1..(Len(s) - 1) : t[k] = s[k]
    /\ t[Len(s)].kind = s[Len(s)].kind /\ t[Len(s)].members = s[Len(s)].members + 1
    /\ ~t[Len(s)].afterKey

\* One field of a frame changes.
LEMMA FieldsChange ==
    ASSUME NEW K, NEW g \in [kind : K, members : Nat, afterKey : BOOLEAN]
    PROVE  /\ g.members \in Nat
           /\ \A m \in Nat : /\ [g EXCEPT !.members = m] \in [kind : K, members : Nat, afterKey : BOOLEAN]
                            /\ [g EXCEPT !.members = m].kind = g.kind /\ [g EXCEPT !.members = m].members = m
           /\ \A b \in BOOLEAN : /\ [g EXCEPT !.afterKey = b] \in [kind : K, members : Nat, afterKey : BOOLEAN]
                            /\ [g EXCEPT !.afterKey = b].kind = g.kind
                            /\ [g EXCEPT !.afterKey = b].members = g.members
                            /\ [g EXCEPT !.afterKey = b].afterKey = b
  <1>1. g.members \in Nat OBVIOUS
  <1>2. ASSUME NEW m \in Nat
        PROVE  /\ [g EXCEPT !.members = m] \in [kind : K, members : Nat, afterKey : BOOLEAN]
               /\ [g EXCEPT !.members = m].kind = g.kind /\ [g EXCEPT !.members = m].members = m
    OBVIOUS
  <1>3. ASSUME NEW b \in BOOLEAN
        PROVE  /\ [g EXCEPT !.afterKey = b] \in [kind : K, members : Nat, afterKey : BOOLEAN]
               /\ [g EXCEPT !.afterKey = b].kind = g.kind
               /\ [g EXCEPT !.afterKey = b].members = g.members
               /\ [g EXCEPT !.afterKey = b].afterKey = b
    OBVIOUS
  <1>. QED BY <1>1, <1>2, <1>3

\* The frame of a container with a member more.
LEMMA FrameCounted ==
    ASSUME NEW g \in Frames
    PROVE  \E f \in Frames : /\ f = [g EXCEPT !.members = @ + 1, !.afterKey = FALSE]
                            /\ f.kind = g.kind /\ f.members = g.members + 1 /\ ~f.afterKey
  <1> DEFINE m == g.members + 1
             h == [g EXCEPT !.members = m]
             f == [h EXCEPT !.afterKey = FALSE]
  <1>1. m \in Nat
    <2>1. g.members \in Nat BY FramesAre, FieldsChange
    <2>. QED BY <2>1
  <1> HIDE DEF m
  <1>2. h \in Frames /\ h.kind = g.kind /\ h.members = m
    BY <1>1, FramesAre, FieldsChange
  <1> HIDE DEF h
  <1>3. f \in Frames /\ f.kind = h.kind /\ f.members = h.members /\ f.afterKey = FALSE
    BY <1>2, FramesAre, FieldsChange
  <1>4. f = [g EXCEPT !.members = @ + 1, !.afterKey = FALSE] BY DEF f, h, m
  <1> HIDE DEF f
  <1>. QED BY <1>2, <1>3, <1>4 DEF m

\* One element of a sequence changes.
LEMMA FrameChanged ==
    ASSUME NEW s \in Seq(Frames), NEW n \in 1..Len(s), NEW f \in Frames,
           NEW t, t = [s EXCEPT ![n] = f]
    PROVE  /\ t \in Seq(Frames) /\ Len(t) = Len(s) /\ t[n] = f
           /\ \A k \in 1..Len(s) : k # n => t[k] = s[k]
  BY ExceptSeq

\* afterValue counts a member of the innermost container.
LEMMA MemberCounted ==
    ASSUME NEW s \in Seq(Frames), s # <<>>, NEW t,
           t = [s EXCEPT ![Len(s)].members = @ + 1, ![Len(s)].afterKey = FALSE]
    PROVE  Counted(s, t)
  <1> DEFINE n == Len(s)
  <1>1. n \in 1..Len(s) /\ s[n] \in Frames /\ n \in Nat /\ \A k \in 1..(n - 1) : k \in 1..Len(s) /\ k # n
    BY TopOfStack
  <1>2. PICK f \in Frames : /\ f = [s[n] EXCEPT !.members = @ + 1, !.afterKey = FALSE]
                            /\ f.kind = s[n].kind /\ f.members = s[n].members + 1 /\ ~f.afterKey
    BY <1>1, FrameCounted
  <1>3. t = [s EXCEPT ![n] = f] BY <1>1, <1>2
  <1>4. /\ t \in Seq(Frames) /\ Len(t) = Len(s) /\ t[n] = f
        /\ \A k \in 1..Len(s) : k # n => t[k] = s[k]
    <2> HIDE DEF n
    <2>1. n \in 1..Len(s) BY <1>1
    <2>. QED BY ONLY s \in Seq(Frames), f \in Frames, <2>1, <1>3, FrameChanged
  <1>5. t # <<>> BY <1>1, <1>4
  <1>. QED BY <1>1, <1>2, <1>4, <1>5 DEF Counted

\* Where a value is due on an empty stack.
LEMMA NothingOpen ==
    ASSUME NEW e \in Seq(Bytes), Complete(e)
    PROVE  Hanging(<<>>, e, <<e>>, <<>>)
  <1>1. Len(<<>>) = 0 /\ <<e>>[1] = e /\ 0 + 1 = 1 /\ \A k \in 1..(0 + 1) : k = 1
    OBVIOUS
  <1>2. \A k \in 1..0 : FALSE OBVIOUS
  <1>. QED BY <1>1, <1>2 DEF Hanging, Levels

\* beforeValue writes what the grammar wants in front of a value.
LEMMA SeparatorDue ==
    ASSUME OutputNested, stack \in Seq(Frames), emitted \in Seq(Bytes), ValuePosition
    PROVE  Separator \in Seq(Ink) /\ \E p, q : Hanging(stack, emitted \o Separator, p, q)
  <1>1. CASE stack = <<>>
    <2>1. Separator = <<>> /\ ~started
      BY <1>1 DEF Separator, InArray, ValuePosition
    <2>2. Complete(emitted) BY <1>1, <2>1 DEF OutputNested
    <2>3. emitted \o Separator = emitted /\ Separator \in Seq(Ink)
      BY <2>1, ConcatEmptySeq
    <2>. QED BY <1>1, <2>2, <2>3, NothingOpen
  <1>2. CASE stack # <<>>
    <2>1. PICK p, q : Nest(stack, emitted, p, q) BY <1>2 DEF OutputNested
    <2>2. Top \in Frames /\ Top = stack[Len(stack)] /\ Top.kind \in {"[", LBrace} /\ Len(stack) \in 1..Len(stack)
      BY <1>2, TopOfStack DEF Top
    <2>3. CASE Top.kind = "["
      <3>1. ~Top.afterKey BY <2>2, <2>3 DEF OutputNested, KeysInObjects
      <3>2. Separator = Comma0(Top)
        BY <1>2, <2>3, Zenon DEF Separator, InArray, Comma0, CommaText, Comma
      <3>3. Comma0(Top) \in Seq(Ink) BY CommaIsInk DEF Comma0
      <3>. QED BY <1>2, <2>1, <2>2, <2>3, <3>1, <3>2, <3>3, ElementDue
    <2>4. CASE Top.kind # "["
      <3>1. Top.kind = LBrace BY <2>2, <2>4
      <3>2. InObject /\ ~InArray
        BY <1>2, <2>4, <3>1, Zenon DEF InObject, InArray, LBrace
      <3>3. Top.afterKey /\ Separator = <<>>
        BY <3>2 DEF ValuePosition, Separator
      <3>4. emitted \o Separator = emitted /\ Separator \in Seq(Ink)
        BY <3>3, ConcatEmptySeq
      <3>. QED BY <1>2, <2>1, <2>2, <3>3, <3>4, MemberDue
    <2>. QED BY <2>3, <2>4
  <1>. QED BY <1>1, <1>2

\* A value ends: between values the output is complete lines and this value,
\* else the container around it holds a member more.
LEMMA ValueEnds ==
    ASSUME NEW outer \in Seq(Frames), KeysInObjects(outer), Len(outer) <= MaxDepth,
           NEW h, NEW p, NEW q, Hanging(outer, h, p, q), NEW v, Reads("value", v, Len(outer)),
           emitted' = h \o v, NEW out, afterValue(outer, out), started'
    PROVE  OutputNested'
  <1>1. CASE outer = <<>>
    <2>1. stack' = <<>> /\ Len(outer) = 0 /\ 0 + 1 = 1 BY <1>1 DEF afterValue
    <2>2. Complete(h) BY <2>1 DEF Hanging, Levels
    <2>3. KeysInObjects(stack')
      <3>1. Len(stack') = 0 /\ \A k \in 1..0 : FALSE BY <2>1
      <3>. QED BY <3>1 DEF KeysInObjects
    <2>4. Reads("value", v, 0) BY <2>1
    <2>. QED BY <2>1, <2>2, <2>3, <2>4 DEF OutputNested
  <1>2. CASE outer # <<>>
    <2>1. stack' = [outer EXCEPT ![Len(outer)].members = @ + 1, ![Len(outer)].afterKey = FALSE]
      BY <1>2 DEF afterValue
    <2> DEFINE t == stack'
    <2>2. t = [outer EXCEPT ![Len(outer)].members = @ + 1, ![Len(outer)].afterKey = FALSE]
      BY <2>1
    <2> HIDE DEF t
    <2>3. Counted(outer, t) BY <1>2, <2>2, MemberCounted
    <2>4. \E p2, q2 : Nest(t, h \o v, p2, q2)
      BY <1>2, <2>3, ValueFollows DEF Counted
    <2>5. KeysInObjects(t)
      <3>1. \A k \in 1..Len(outer) : k = Len(outer) \/ k \in 1..(Len(outer) - 1)
        BY <1>2, TopOfStack
      <3>. QED BY <2>3, <3>1 DEF KeysInObjects, Counted
    <2>. QED BY <2>3, <2>4, <2>5 DEF OutputNested, t, Counted
  <1>. QED BY <1>1, <1>2

-----------------------------------------------------------------------------
(***************************************************************************)
(* One lemma per method: what it writes keeps the output nested.           *)
(***************************************************************************)

\* The state every method starts from.
Ready == Inv /\ Followed /\ OutputNested /\ err = "none"

\* What that state is.
LEMMA ReadyTypes ==
    ASSUME Ready
    PROVE  /\ stack \in Seq(Frames) /\ emitted \in Seq(Bytes) /\ KeysInObjects(stack)
           /\ Len(stack) <= MaxDepth /\ Len(stack) \in 0..MaxDepth
           /\ stack # <<>> => started
  <1>1. stack \in Seq(Frames) /\ emitted \in Seq(Bytes) BY Types DEF Ready
  <1>2. KeysInObjects(stack) /\ Len(stack) <= MaxDepth /\ (stack # <<>> => started)
    BY DEF Ready, OutputNested, Followed, Inv, BufferBounded
  <1>3. Len(stack) \in Nat BY <1>1
  <1>. QED BY <1>1, <1>2, <1>3, MaxDepthAssumption

\* A text of two parts is appended part by part.
LEMMA EmittedInParts ==
    ASSUME emitted \in Seq(Bytes), NEW x \in Seq(Ink), NEW y \in Seq(Ink), Emit(x \o y)
    PROVE  emitted' = (emitted \o x) \o y
  <1>1. x \in Seq(Bytes) /\ y \in Seq(Bytes) BY InkTexts
  <1>2. emitted' = emitted \o (x \o y) BY DEF Emit
  <1>. QED BY <1>1, <1>2, Associative

\* String, Int and the other scalars, where they succeed.
LEMMA ValueNested ==
    ASSUME Ready, Value, err' = "none"
    PROVE  OutputNested'
  <1>1. /\ ValuePosition /\ Emit(Separator \o Scalar) /\ afterValue(stack, buf \o Separator \o Scalar)
        /\ started'
    BY ReadyTypes DEF Value
  <1>2. Separator \in Seq(Ink) /\ \E p, q : Hanging(stack, emitted \o Separator, p, q)
    BY <1>1, ReadyTypes, SeparatorDue DEF Ready
  <1>3. Reads("value", Scalar, Len(stack)) /\ Scalar \in Seq(Ink)
    BY ReadyTypes, ScalarReads DEF Reads
  <1>4. emitted' = (emitted \o Separator) \o Scalar
    BY <1>1, <1>2, <1>3, ReadyTypes, EmittedInParts
  <1> DEFINE h == emitted \o Separator
             out == buf \o Separator \o Scalar
  <1>5. emitted' = h \o Scalar /\ afterValue(stack, out) /\ \E p, q : Hanging(stack, h, p, q)
    BY <1>1, <1>2, <1>4
  <1> HIDE DEF h, out
  <1>. QED BY <1>1, <1>3, <1>5, ReadyTypes, ValueEnds

\* BeginObject and BeginArray.
LEMMA BeginNested ==
    ASSUME Ready, NEW open \in {"[", LBrace}, Begin(open)
    PROVE  OutputNested'
  <1>1. /\ ValuePosition /\ Emit(Separator \o <<open>>) /\ stack' = Append(stack, streamFrame(open))
    BY DEF Begin
  <1>2. Separator \in Seq(Ink) /\ \E p, q : Hanging(stack, emitted \o Separator, p, q)
    BY <1>1, ReadyTypes, SeparatorDue DEF Ready
  <1>3. <<open>> \in Seq(Ink) BY Kinds
  <1>4. emitted' = (emitted \o Separator) \o <<open>>
    BY <1>1, <1>2, <1>3, ReadyTypes, EmittedInParts
  <1> DEFINE h == emitted \o Separator
             f == streamFrame(open)
             t == stack'
  <1>5. f \in Frames /\ f.kind = open /\ f.members = 0 /\ ~f.afterKey
    BY FramesAre DEF streamFrame
  <1>6. emitted' = h \o <<open>> /\ t = Append(stack, f) /\ \E p, q : Hanging(stack, h, p, q)
    BY <1>1, <1>2, <1>4
  <1> HIDE DEF h, f, t
  <1>7. /\ t \in Seq(Frames) /\ Len(t) = Len(stack) + 1 /\ t[Len(t)] = f /\ t # <<>>
        /\ \A k \in 1..Len(stack) : t[k] = stack[k]
    BY <1>5, <1>6, ReadyTypes, AppendProperties
  <1>8. \E p, q : Nest(t, h \o <<open>>, p, q)
    BY <1>5, <1>6, <1>7, ReadyTypes, ContainerFollows
  <1>9. KeysInObjects(t)
    <2>1. \A k \in 1..Len(t) : k = Len(t) \/ k \in 1..Len(stack)
      BY <1>7, ReadyTypes
    <2>. QED BY <1>5, <1>7, <2>1, ReadyTypes DEF KeysInObjects
  <1>. QED BY <1>6, <1>7, <1>8, <1>9 DEF OutputNested, t

\* An outer part of a stack.
LEMMA KeysCut ==
    ASSUME NEW s \in Seq(Frames), KeysInObjects(s), NEW t \in Seq(Frames), Len(t) <= Len(s),
           \A k \in 1..Len(t) : t[k] = s[k]
    PROVE  KeysInObjects(t)
  <1>1. \A k \in 1..Len(t) : k \in 1..Len(s) OBVIOUS
  <1>. QED BY <1>1 DEF KeysInObjects

\* The closing byte completes a value of the container around it.
LEMMA EndNested ==
    ASSUME Ready, stack # <<>>, ~Top.afterKey, Emit(<<CloserOf(Top.kind)>>), UNCHANGED started,
           NEW out, afterValue(SubSeq(stack, 1, Len(stack) - 1), out)
    PROVE  OutputNested'
  <1> DEFINE n == Len(stack)
             t == SubSeq(stack, 1, n - 1)
             c == <<CloserOf(Top.kind)>>
  <1>1. /\ stack \in Seq(Frames) /\ n \in Nat /\ n > 0 /\ n <= MaxDepth /\ Top = stack[n] /\ started'
    BY ReadyTypes, TopOfStack DEF Top
  <1>2. PICK p, q : Nest(stack, emitted, p, q) BY DEF Ready, OutputNested
  <1>3. t \in Seq(Frames) /\ Len(t) = n - 1 /\ \A k \in 1..Len(t) : t[k] = stack[k]
    BY <1>1
  <1>4. emitted' = emitted \o c /\ afterValue(t, out) BY DEF Emit
  <1> HIDE DEF t
  <1>5. KeysInObjects(t) /\ Len(t) <= MaxDepth
    <2>1. Len(t) <= Len(stack) /\ Len(t) <= MaxDepth
      BY <1>1, <1>3, MaxDepthAssumption
    <2>2. KeysInObjects(t) BY ONLY <1>1, <1>3, <2>1, ReadyTypes, Ready, KeysCut
    <2>. QED BY <2>1, <2>2
  <1>6. PICK h, v : /\ Hanging(t, h, p, q) /\ Reads("value", v, Len(t))
                    /\ emitted \o c = h \o v
    <2>1. c = <<CloserOf(stack[Len(stack)].kind)>> /\ ~stack[Len(stack)].afterKey
      BY <1>1
    <2>2. Len(t) = Len(stack) - 1 /\ Len(stack) <= MaxDepth /\ stack \in Seq(Frames)
      BY <1>1, <1>3
    <2>3. Closes(emitted, <<CloserOf(stack[Len(stack)].kind)>>, p, q, t)
      <3> HIDE DEF c, n
      <3>. QED BY ONLY stack # <<>>, <1>2, <1>3, <2>1, <2>2, ContainerCloses
    <2> HIDE DEF c
    <2>. QED BY <2>1, <2>3 DEF Closes
  <1> HIDE DEF c
  <1>7. emitted' = h \o v BY <1>4, <1>6
  <1>. QED BY <1>1, <1>3, <1>4, <1>5, <1>6, <1>7, ValueEnds

\* t is s with a name in the innermost container.
Named(s, t) ==
    /\ t \in Seq(Frames) /\ Len(t) = Len(s) /\ t # <<>>
    /\ \A k \in 1..(Len(s) - 1) : t[k] = s[k]
    /\ t[Len(s)].kind = s[Len(s)].kind /\ t[Len(s)].members = s[Len(s)].members
    /\ t[Len(s)].afterKey

\* Key marks the innermost container.
LEMMA NameNoted ==
    ASSUME NEW s \in Seq(Frames), s # <<>>, NEW t, t = [s EXCEPT ![Len(s)].afterKey = TRUE]
    PROVE  Named(s, t)
  <1> DEFINE n == Len(s)
             g == s[n]
             f == [g EXCEPT !.afterKey = TRUE]
  <1>1. n \in 1..Len(s) /\ g \in Frames /\ n \in Nat /\ \A k \in 1..(n - 1) : k \in 1..Len(s) /\ k # n
    BY TopOfStack
  <1>2. f \in Frames /\ f.kind = g.kind /\ f.members = g.members /\ f.afterKey = TRUE
    <2> HIDE DEF g
    <2>. QED BY <1>1, FramesAre, FieldsChange
  <1>3. t = [s EXCEPT ![n] = f] BY <1>1
  <1>4. /\ t \in Seq(Frames) /\ Len(t) = Len(s) /\ t[n] = f
        /\ \A k \in 1..Len(s) : k # n => t[k] = s[k]
    <2> HIDE DEF n, f
    <2>1. n \in 1..Len(s) /\ f \in Frames BY <1>1, <1>2
    <2>. QED BY ONLY s \in Seq(Frames), <2>1, <1>3, FrameChanged
  <1>5. t # <<>> BY <1>1, <1>4
  <1> HIDE DEF f
  <1>. QED BY <1>1, <1>2, <1>4, <1>5 DEF Named

\* Key, where it succeeds.
LEMMA KeyNested ==
    ASSUME Ready, Key, err' = "none"
    PROVE  OutputNested'
  <1> DEFINE text == Comma0(Top) \o KeyText
             t == stack'
  <1>1. /\ InObject /\ ~Top.afterKey /\ stack' = [stack EXCEPT ![Len(stack)].afterKey = TRUE]
        /\ emitted' = emitted \o ((IF Top.members > 0 THEN <<",">> ELSE <<>>) \o KeyText)
    BY DEF Key, Emit, fail, Ready
  <1>2. emitted' = emitted \o text BY <1>1, Zenon DEF Comma0, CommaText, Comma
  <1>3. /\ stack # <<>> /\ Top.kind = LBrace BY <1>1, Zenon DEF InObject, LBrace
  <1>4. Top = stack[Len(stack)] /\ stack \in Seq(Frames) /\ KeysInObjects(stack)
    BY ReadyTypes DEF Top
  <1>5. PICK p, q : Nest(stack, emitted, p, q) BY <1>3 DEF Ready, OutputNested
  <1>6. t = [stack EXCEPT ![Len(stack)].afterKey = TRUE] BY <1>1
  <1> HIDE DEF t
  <1>7. Named(stack, t) BY <1>3, <1>4, <1>6, NameNoted
  <1>8. \E p2, q2 : Nest(t, emitted \o text, p2, q2)
    <2>1. stack[Len(stack)].kind = LBrace /\ ~stack[Len(stack)].afterKey /\ text = Comma0(stack[Len(stack)]) \o KeyText
      BY <1>1, <1>3, <1>4
    <2> HIDE DEF text
    <2>. QED BY <1>3, <1>4, <1>5, <1>7, <2>1, NameFollows DEF Named
  <1>9. KeysInObjects(t)
    <2>1. LBrace # "[" BY Zenon DEF LBrace
    <2>2. \A k \in 1..Len(t) : k = Len(stack) \/ k \in 1..(Len(stack) - 1)
      BY <1>3, <1>4, <1>7, TopOfStack DEF Named
    <2>3. \A k \in 1..(Len(stack) - 1) : k \in 1..Len(stack)
      BY <1>3, <1>4, TopOfStack
    <2>. QED BY <1>3, <1>4, <1>7, <2>1, <2>2, <2>3 DEF KeysInObjects, Named
  <1> HIDE DEF text
  <1>. QED BY <1>2, <1>7, <1>8, <1>9 DEF OutputNested, t, Named

\* EncodeTo, where it succeeds: a line of its own.
LEMMA EncodeToNested ==
    ASSUME Ready, EncodeTo, err' = "none"
    PROVE  OutputNested'
  <1>1. stack = <<>> /\ ~started /\ emitted' = emitted \o Scalar /\ started' /\ stack' = stack
    BY DEF EncodeTo, Emit, fail, Ready
  <1>2. Complete(emitted) /\ KeysInObjects(stack)
    BY <1>1 DEF Ready, OutputNested
  <1>3. Reads("value", Scalar, 0) BY ScalarReads, MaxDepthAssumption
  <1>. QED BY <1>1, <1>2, <1>3 DEF OutputNested

\* Newline ends the line of the value.
LEMMA NewlineNested ==
    ASSUME Ready, Newline, err' = "none"
    PROVE  OutputNested'
  <1>1. stack = <<>> /\ emitted' = emitted \o <<"\n">> /\ ~started' /\ stack' = stack
    BY DEF Newline, Emit, fail, Ready
  <1>2. emitted \in Seq(Bytes) /\ Lines(emitted) /\ KeysInObjects(stack)
    BY <1>1, EmittedLines DEF Ready, OutputNested
  <1>3. Complete(emitted \o <<"\n">>) BY <1>2, NewlineCompletes
  <1>. QED BY <1>1, <1>2, <1>3 DEF OutputNested

\* EndObject, where it succeeds.
LEMMA EndObjectNested ==
    ASSUME Ready, EndObject, err' = "none"
    PROVE  OutputNested'
  <1> DEFINE out == buf \o <<"}">>
             c == <<"}">>
  <1>1. /\ InObject /\ ~Top.afterKey /\ Emit(c) /\ UNCHANGED started
        /\ afterValue(SubSeq(stack, 1, Len(stack) - 1), out)
    BY DEF EndObject, fail, Ready
  <1>2. stack # <<>> /\ c = <<CloserOf(Top.kind)>>
    BY <1>1, Zenon DEF InObject, CloserOf, RBrace
  <1> HIDE DEF out, c
  <1>. QED BY <1>1, <1>2, EndNested

\* EndArray, where it succeeds: an array never waits for a value after a name.
LEMMA EndArrayNested ==
    ASSUME Ready, EndArray, err' = "none"
    PROVE  OutputNested'
  <1> DEFINE out == buf \o <<"]">>
             c == <<"]">>
  <1>1. /\ InArray /\ Emit(c) /\ UNCHANGED started
        /\ afterValue(SubSeq(stack, 1, Len(stack) - 1), out)
    BY DEF EndArray, fail, Ready
  <1>2. stack # <<>> /\ Top.kind = "[" BY <1>1 DEF InArray
  <1>3. c = <<CloserOf(Top.kind)>> BY <1>2, Zenon DEF CloserOf
  <1>4. ~Top.afterKey
    <2>1. Len(stack) \in 1..Len(stack) BY <1>2, ReadyTypes, TopOfStack
    <2>. QED BY <1>2, <2>1, ReadyTypes DEF KeysInObjects, Top
  <1> HIDE DEF out, c
  <1>. QED BY <1>1, <1>2, <1>3, <1>4, EndNested

\* Every step that does not fail keeps the output nested.
LEMMA NextNested ==
    ASSUME Inv, Followed, err = "none" => OutputNested, [Next]_vars, err' = "none"
    PROVE  OutputNested'
  <1>1. CASE UNCHANGED <<stack, started, emitted, err>> BY <1>1 DEF OutputNested
  <1>2. CASE err # "none"
    BY <1>2 DEF Next, vars, Value, ValueMisplaced, Begin, EndObject, EndArray, Key, EncodeTo,
                Newline, Flush, Refused
  <1>3. CASE err = "none" /\ Next
    <2>1. Ready BY <1>3 DEF Ready
    <2>2. CASE ValueMisplaced \/ Flush \/ Refused
      BY <1>1, <1>3, <2>2 DEF ValueMisplaced, Flush, Refused, fail, vars
    <2>3. CASE Begin("{")
      <3>1. Begin(LBrace) BY <2>3, Zenon DEF LBrace
      <3>. QED BY <2>1, <3>1, BeginNested
    <2>4. CASE Begin("[") BY <2>1, <2>4, BeginNested
    <2>. QED
      BY <1>3, <2>1, <2>2, <2>3, <2>4, ValueNested, EndObjectNested, EndArrayNested, KeyNested,
         EncodeToNested, NewlineNested DEF Next
  <1>. QED BY <1>1, <1>2, <1>3 DEF vars

-----------------------------------------------------------------------------
(***************************************************************************)
(* The sink.                                                               *)
(***************************************************************************)

\* A step that does not fail in the sink leaves it alone, or drains the whole
\* output into it between two values.
Drained == \/ err' = "sink" \/ sink' = sink
           \/ err' = "none" /\ stack' = <<>> /\ buf' = <<>>

\* flush and maybeFlush.
LEMMA FlushDrains ==
    ASSUME err = "none", NEW out, flush(out) \/ maybeFlush(out)
    PROVE  err' = "sink" \/ sink' = sink \/ (err' = "none" /\ buf' = <<>>)
  <1>1. CASE flush(out)
    <2>1. CASE out = <<>> BY <1>1, <2>1 DEF flush
    <2>2. CASE out # <<>>
      <3>1. PICK n \in 0..Len(out), failed \in BOOLEAN :
               IF failed \/ n # Len(out) THEN buf' = out /\ err' = "sink"
                                          ELSE buf' = <<>> /\ err' = err
        BY <1>1, <2>2 DEF flush
      <3>. QED BY <3>1
    <2>. QED BY <2>1, <2>2
  <1>2. CASE maybeFlush(out) /\ ~flush(out) BY <1>2 DEF maybeFlush
  <1>. QED BY <1>1, <1>2

\* afterValue.
LEMMA AfterValueDrains ==
    ASSUME err = "none", NEW out, NEW outer, afterValue(outer, out)
    PROVE  Drained
  <1>1. CASE outer = <<>> BY <1>1, FlushDrains DEF afterValue, Drained
  <1>2. CASE outer # <<>> BY <1>2 DEF afterValue, Drained
  <1>. QED BY <1>1, <1>2

\* Every step.
LEMMA NextDrains ==
    ASSUME [Next]_vars
    PROVE  Drained
  <1>1. CASE UNCHANGED sink BY <1>1 DEF Drained
  <1>2. ASSUME Value PROVE Drained
    <2>1. CASE afterValue(stack, buf \o Separator \o Scalar)
      <3> DEFINE out == buf \o Separator \o Scalar
      <3>1. afterValue(stack, out) /\ err = "none" BY <1>2, <2>1 DEF Value
      <3> HIDE DEF out
      <3>. QED BY <3>1, AfterValueDrains
    <2>. QED BY <1>1, <1>2, <2>1 DEF Value
  <1>3. ASSUME NEW c, err = "none", afterValue(SubSeq(stack, 1, Len(stack) - 1), buf \o c)
        PROVE  Drained
    <2> DEFINE out == buf \o c
               outer == SubSeq(stack, 1, Len(stack) - 1)
    <2>1. afterValue(outer, out) BY <1>3
    <2> HIDE DEF out, outer
    <2>. QED BY <1>3, <2>1, AfterValueDrains
  <1>4. ASSUME NEW c, err = "none", stack = <<>>, stack' = stack, maybeFlush(c) \/ flush(c)
        PROVE  Drained
    BY <1>4, FlushDrains DEF Drained
  <1>5. CASE EndObject BY <1>1, <1>3, <1>5 DEF EndObject, fail
  <1>6. CASE EndArray BY <1>1, <1>3, <1>6 DEF EndArray, fail
  <1>7. CASE EncodeTo BY <1>1, <1>4, <1>7 DEF EncodeTo, fail
  <1>8. CASE Newline BY <1>1, <1>4, <1>8 DEF Newline, fail
  <1>9. CASE Flush BY <1>1, <1>4, <1>9 DEF Flush, fail
  <1>10. CASE ValueMisplaced \/ Begin("{") \/ Begin("[") \/ Key \/ Refused \/ UNCHANGED vars
    BY <1>1, <1>10 DEF ValueMisplaced, Begin, Key, Refused, fail, vars
  <1>. QED BY <1>2, <1>5, <1>6, <1>7, <1>8, <1>9, <1>10 DEF Next

\* A sink that did not fail holds lines of values.
SinkLines == err # "sink" => sink \in Seq(Bytes) /\ Lines(sink)

\* When the sink moves it holds the whole output, between two values.
LEMMA NextSinkLines ==
    ASSUME SinkLines, Inv', err' = "none" => OutputNested', [Next]_vars
    PROVE  SinkLines'
  <1>1. SUFFICES ASSUME err' # "sink" PROVE sink' \in Seq(Bytes) /\ Lines(sink')
    BY DEF SinkLines
  <1>2. err # "sink"
    BY <1>1 DEF Next, vars, Value, ValueMisplaced, Begin, EndObject, EndArray, Key, EncodeTo,
                Newline, Flush, Refused
  <1>3. CASE sink' = sink BY <1>2, <1>3 DEF SinkLines
  <1>4. CASE err' = "none" /\ stack' = <<>> /\ buf' = <<>>
    <2>1. emitted' \in Seq(Bytes) /\ Lines(emitted')
      <3>1. CASE started' BY <1>4, <3>1, ValueIsLine DEF OutputNested
      <3>2. CASE ~started' BY <1>4, <3>2 DEF OutputNested, Complete
      <3>. QED BY <3>1, <3>2
    <2>2. sink' \o buf' = emitted' /\ sink' \in Seq(Bytes)
      BY <1>1 DEF Inv, TypeOK, NothingLost
    <2>3. sink' \o <<>> = sink' BY <2>2, ConcatEmptySeq
    <2>. QED BY <1>4, <2>1, <2>2, <2>3
  <1>. QED BY <1>1, <1>3, <1>4, NextDrains DEF Drained

\* The strengthened invariant.
OutputInv == (err = "none" => OutputNested) /\ SinkLines

\* NewWriter.
LEMMA InitOutputInv == NewWriter => OutputInv
  <1>1. <<>> \in Seq(Bytes) /\ Len(<<>>) = 0 /\ \A k \in 1..0 : FALSE OBVIOUS
  <1>. QED BY <1>1, NoLines DEF NewWriter, OutputInv, OutputNested, SinkLines, KeysInObjects, Complete

\* Every step, within the depth a reader follows.
LEMMA NextOutputInv == Inv /\ Inv' /\ Followed /\ OutputInv /\ [Next]_vars => OutputInv'
  BY NextNested, NextSinkLines DEF OutputInv

\* What the invariant says of the output,
LEMMA OutputInvCompletes == Inv /\ Followed /\ OutputInv => OutputCompletes
  BY Types, NestedCompletes DEF OutputInv, OutputCompletes

\* and of the sink.
LEMMA OutputInvBoundary == OutputInv => SinkAtBoundary
  BY LinesAreStream DEF OutputInv, SinkLines, SinkAtBoundary

\* Whatever sequence of methods succeeds, closing the open containers makes the
\* output a stream of strict values, for every threshold, every sink and every
\* number of calls, as long as the nesting stays within the depth the grammar
\* follows: the Writer itself has no limit, a reader has one.
THEOREM WriterOutputCompletes == Spec /\ []Followed => []OutputCompletes
  <1>1. Spec /\ []Followed => []OutputInv
    BY WriterInvariance, InitOutputInv, NextOutputInv, PTL DEF Spec
  <1>. QED BY <1>1, WriterInvariance, OutputInvCompletes, PTL

\* Unless the sink failed it holds whole top-level values only: an automatic
\* flush cuts no value, and a refused call leaks no half-written one.
THEOREM WriterSinkAtBoundary == Spec /\ []Followed => []SinkAtBoundary
  <1>1. Spec /\ []Followed => []OutputInv
    BY WriterInvariance, InitOutputInv, NextOutputInv, PTL DEF Spec
  <1>. QED BY <1>1, OutputInvBoundary, PTL

-----------------------------------------------------------------------------
(***************************************************************************)
(* The depth the Writer reaches.                                           *)
(***************************************************************************)

\* Every open container has written its bracket, and the output is bounded.
DepthBounded == Len(stack) <= Len(emitted) /\ Len(emitted) <= MaxBytes

\* Emit makes the output longer by its text, within the bound.
LEMMA EmitLengthens ==
    ASSUME Inv, NEW text \in Seq(Bytes), Emit(text)
    PROVE  Len(emitted') = Len(emitted) + Len(text) /\ Len(emitted') <= MaxBytes
  BY Types, Concat DEF Emit

\* What ends a value leaves the stack around it as deep as it was.
LEMMA AfterValueDepth ==
    ASSUME NEW outer \in Seq(Frames), NEW out, afterValue(outer, out)
    PROVE  Len(stack') = Len(outer)
  <1>1. CASE outer = <<>> BY <1>1 DEF afterValue
  <1>2. CASE outer # <<>>
    <2> DEFINE t == stack'
    <2>1. t = [outer EXCEPT ![Len(outer)].members = @ + 1, ![Len(outer)].afterKey = FALSE]
      BY <1>2 DEF afterValue
    <2> HIDE DEF t
    <2>2. Counted(outer, t) BY <1>2, <2>1, MemberCounted
    <2>. QED BY <2>2 DEF Counted, t
  <1>. QED BY <1>1, <1>2

\* A level costs a byte.
LEMMA DepthKept ==
    ASSUME Inv, DepthBounded, NEW text \in Seq(Bytes), Emit(text), stack' \in Seq(Frames),
           Len(stack') <= Len(stack) \/ (Len(stack') = Len(stack) + 1 /\ Len(text) > 0)
    PROVE  DepthBounded'
  <1>1. Len(emitted') = Len(emitted) + Len(text) /\ Len(emitted') <= MaxBytes
    BY EmitLengthens
  <1>2. Len(stack) \in Nat /\ Len(emitted) \in Nat /\ Len(text) \in Nat /\ Len(stack') \in Nat
    BY Types
  <1>. QED BY <1>1, <1>2 DEF DepthBounded

\* EndObject and EndArray.
LEMMA EndDepth ==
    ASSUME Inv, Inv', DepthBounded, stack # <<>>, NEW text \in Seq(Bytes), Emit(text),
           NEW out, afterValue(SubSeq(stack, 1, Len(stack) - 1), out)
    PROVE  DepthBounded'
  <1> DEFINE outer == SubSeq(stack, 1, Len(stack) - 1)
  <1>1. outer \in Seq(Frames) /\ Len(outer) <= Len(stack) BY Types
  <1> HIDE DEF outer
  <1>2. Len(stack') <= Len(stack) BY <1>1, AfterValueDepth DEF outer
  <1>3. stack' \in Seq(Frames) BY DEF Inv, TypeOK, Frames
  <1>. QED BY <1>2, <1>3, DepthKept

\* Every step.
LEMMA NextDepth == Inv /\ Inv' /\ DepthBounded /\ [Next]_vars => DepthBounded'
  <1> SUFFICES ASSUME Inv, Inv', DepthBounded, [Next]_vars PROVE DepthBounded'
    OBVIOUS
  <1>1. stack \in Seq(Frames) /\ stack' \in Seq(Frames) /\ Len(stack) \in Nat
    <2>1. stack \in Seq(Frames) /\ stack' \in Seq(Frames)
      BY DEF Inv, TypeOK, Frames
    <2>. QED BY <2>1
  <1>2. CASE UNCHANGED <<stack, emitted>> BY <1>2 DEF DepthBounded
  <1>3. ASSUME NEW text \in Seq(Bytes), Emit(text), stack' = stack PROVE DepthBounded'
    BY <1>1, <1>3, DepthKept
  <1>4. CASE Value
    <2>1. CASE /\ Emit(Separator \o Scalar) /\ afterValue(stack, buf \o Separator \o Scalar)
      <3>1. Separator \o Scalar \in Seq(Bytes) BY Texts, Concat
      <3> DEFINE out == buf \o Separator \o Scalar
      <3>2. afterValue(stack, out) BY <2>1
      <3> HIDE DEF out
      <3>3. Len(stack') <= Len(stack) BY <1>1, <3>2, AfterValueDepth
      <3>. QED BY <1>1, <2>1, <3>1, <3>3, DepthKept
    <2>2. CASE Emit(Separator) /\ stack' = stack BY <1>3, <2>2, Texts
    <2>. QED BY <1>4, <2>1, <2>2 DEF Value
  <1>5. ASSUME NEW open \in Bytes, Begin(open) PROVE DepthBounded'
    <2> DEFINE text == Separator \o <<open>>
    <2>1. text \in Seq(Bytes) /\ Len(text) > 0
      <3>1. Separator \in Seq(Bytes) /\ <<open>> \in Seq(Bytes) /\ Len(<<open>>) = 1
        BY Texts
      <3>. QED BY <3>1, Concat
    <2>2. Emit(text) BY <1>5 DEF Begin
    <2> HIDE DEF text
    <2>3. Len(stack') = Len(stack) + 1 BY <1>1, <1>5, AppendProperties DEF Begin
    <2>. QED BY <1>1, <2>1, <2>2, <2>3, DepthKept
  <1>6. CASE EndObject
    <2>1. CASE fail("usage") BY <1>2, <2>1 DEF fail
    <2>2. CASE /\ InObject /\ Emit(<<"}">>)
               /\ afterValue(SubSeq(stack, 1, Len(stack) - 1), buf \o <<"}">>)
      <3>1. <<"}">> \in Seq(Bytes) BY "}" \in Bytes, Texts DEF Bytes
      <3>. QED BY <2>2, <3>1, EndDepth DEF InObject
    <2>. QED BY <1>6, <2>1, <2>2 DEF EndObject
  <1>7. CASE EndArray
    <2>1. CASE fail("usage") BY <1>2, <2>1 DEF fail
    <2>2. CASE /\ InArray /\ Emit(<<"]">>)
               /\ afterValue(SubSeq(stack, 1, Len(stack) - 1), buf \o <<"]">>)
      <3>1. <<"]">> \in Seq(Bytes) BY "]" \in Bytes, Texts DEF Bytes
      <3>. QED BY <2>2, <3>1, EndDepth DEF InArray
    <2>. QED BY <1>7, <2>1, <2>2 DEF EndArray
  <1>8. CASE Key
    <2>1. CASE fail("usage") BY <1>2, <2>1 DEF fail
    <2> DEFINE text == (IF Top.members > 0 THEN <<",">> ELSE <<>>) \o KeyText
    <2>2. CASE Emit(text) /\ stack' = [stack EXCEPT ![Len(stack)].afterKey = TRUE]
      <3>1. text \in Seq(Bytes)
        <4>1. PICK comma \in Seq(Bytes) : comma = IF Top.members > 0 THEN <<",">> ELSE <<>>
          <5>1. "," \in Bytes /\ <<>> \in Seq(Bytes) BY DEF Bytes
          <5>2. <<",">> \in Seq(Bytes) BY <5>1, Texts
          <5>. QED BY <5>1, <5>2
        <4>2. comma \o KeyText \in Seq(Bytes) BY Texts, Concat
        <4>. QED BY <4>1, <4>2
      <3> HIDE DEF text
      <3>2. Len(stack') = Len(stack) BY <1>1, <2>2
      <3>3. Emit(text) /\ Len(stack') <= Len(stack) BY <1>1, <2>2, <3>2
      <3>. QED BY <1>1, <3>1, <3>3, DepthKept
    <2>. QED BY <1>8, <2>1, <2>2 DEF Key
  <1>9. CASE EncodeTo BY <1>2, <1>3, <1>9, Texts DEF EncodeTo, fail
  <1>10. CASE Newline
    <2>1. <<"\n">> \in Seq(Bytes) BY "\n" \in Bytes, Texts DEF Bytes
    <2>. QED BY <1>2, <1>3, <1>10, <2>1 DEF Newline, fail
  <1>11. CASE ValueMisplaced \/ Flush \/ Refused \/ UNCHANGED vars
    BY <1>2, <1>11 DEF ValueMisplaced, Flush, Refused, fail, vars
  <1>12. "{" \in Bytes /\ "[" \in Bytes BY DEF Bytes
  <1>. QED BY <1>4, <1>5, <1>6, <1>7, <1>8, <1>9, <1>10, <1>11, <1>12 DEF Next

\* NewWriter.
LEMMA InitDepth == NewWriter => DepthBounded
  <1>1. Len(<<>>) = 0 OBVIOUS
  <1>. QED BY <1>1, WriterAssumption DEF NewWriter, DepthBounded

\* A Writer that produces no more bytes than a reader follows levels stays
\* within that depth: the hypothesis of the two theorems above is met.
Shallow == DepthBounded /\ MaxBytes <= MaxDepth

\* The depth is then followed.
LEMMA ShallowIsFollowed == Inv /\ Shallow => Followed
  <1> SUFFICES ASSUME Inv, Shallow PROVE Followed
    OBVIOUS
  <1>1. Len(stack) \in Nat /\ Len(emitted) \in Nat /\ MaxDepth \in Nat /\ MaxBytes \in Nat
    BY Types, MaxDepthAssumption, WriterAssumption
  <1>. QED BY <1>1 DEF Shallow, DepthBounded, Followed

\* The hypothesis of the two theorems above is met whenever the output has no
\* more bytes than a reader follows levels.
THEOREM WriterStaysFollowed == MaxBytes <= MaxDepth /\ Spec => []Followed
  <1>1. MaxBytes <= MaxDepth /\ NewWriter => Shallow BY InitDepth DEF Shallow
  <1>2. Inv /\ Inv' /\ Shallow /\ [Next]_vars => Shallow'
    BY NextDepth DEF Shallow
  <1>. QED BY <1>1, <1>2, WriterInvariance, ShallowIsFollowed, PTL DEF Spec

=============================================================================
