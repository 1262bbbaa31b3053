------------------------------- MODULE Writer -------------------------------
(***************************************************************************)
(* The streaming Writer of stream_writer.go: token methods that maintain a *)
(* stack of open containers, one reused buffer, and a sink that may fail   *)
(* or take only part of what it is given.                                  *)
(*                                                                         *)
(* The output is a sequence of bytes of JsonText.  A scalar, whichever     *)
(* method writes it, is the one-byte value "1" and a member name is the    *)
(* empty string: the properties are about separators, nesting, flushing    *)
(* and errors, not about how a scalar is spelled.  RawUnchecked trusts its *)
(* caller, so its argument is such a value too.                            *)
(***************************************************************************)
EXTENDS JsonText

CONSTANTS FlushAt,      \* the automatic-flush threshold, in bytes
          MaxBytes      \* bound on the bytes a behaviour produces

ASSUME WriterAssumption == FlushAt \in Nat \ {0} /\ MaxBytes \in Nat

VARIABLES buf,          \* bytes not yet handed to the sink
          sink,         \* bytes the sink has taken
          stack,        \* open containers, innermost last
          started,      \* the current top-level value has begun
          err,          \* "none", or the kind of the first error
          emitted       \* every byte the methods produced (history)

vars == <<buf, sink, stack, started, err, emitted>>

\* The bytes of the output; Scalar stands for every scalar.
Bytes     == {"{", "}", "[", "]", ",", ":", "\"", "1", "\n"}
Scalar    == <<"1">>
KeyText   == <<"\"", "\"", ":">>
streamFrame(k)  == [kind |-> k, members |-> 0, afterKey |-> FALSE]

NewWriter ==
    /\ buf = <<>> /\ sink = <<>> /\ stack = <<>> /\ emitted = <<>>
    /\ started = FALSE /\ err = "none"

Top == stack[Len(stack)]
InObject == stack # <<>> /\ Top.kind = "{"
InArray  == stack # <<>> /\ Top.kind = "["

-----------------------------------------------------------------------------
(***************************************************************************)
(* The helpers every method shares.                                        *)
(***************************************************************************)

\* fail: the first error sticks and nothing else happens.
fail(e) ==
    /\ err' = IF err = "none" THEN e ELSE err
    /\ UNCHANGED <<buf, sink, stack, started, emitted>>

\* A method called after an error returns that error.
Refused == err # "none" /\ UNCHANGED vars

\* beforeValue: is this a value position, and what separates the value from
\* its elder sibling?
ValuePosition ==
    /\ stack = <<>> => ~started
    /\ InObject => Top.afterKey

Separator == IF InArray /\ Top.members > 0 THEN <<",">> ELSE <<>>

\* Mutant: a short Write without an error passes for a complete one.
flushIgnoresShortWrite(out) ==
    IF out = <<>> THEN buf' = out /\ UNCHANGED <<sink, err>>
    ELSE \E n \in 0..Len(out), failed \in BOOLEAN :
            /\ sink' = sink \o SubSeq(out, 1, n)
            /\ IF failed THEN buf' = out /\ err' = "sink" ELSE buf' = <<>> /\ UNCHANGED err

\* flush hands out to the sink, which takes n bytes of it; anything but a
\* complete and successful Write is an error and keeps the buffer.
flush(out) ==
    IF out = <<>> THEN buf' = out /\ UNCHANGED <<sink, err>>
    ELSE \E n \in 0..Len(out), failed \in BOOLEAN :
            /\ sink' = sink \o SubSeq(out, 1, n)
            /\ IF failed \/ n # Len(out)
               THEN buf' = out /\ err' = "sink"
               ELSE buf' = <<>> /\ UNCHANGED err

maybeFlush(out) ==
    IF Len(out) < FlushAt THEN buf' = out /\ UNCHANGED <<sink, err>> ELSE flush(out)

\* Mutant: the buffer is flushed inside containers too.
afterValueFlushesInside(outer, out) ==
    /\ stack' = IF outer = <<>> THEN outer
                ELSE [outer EXCEPT ![Len(outer)].members = @ + 1, ![Len(outer)].afterKey = FALSE]
    /\ maybeFlush(out)

\* afterValue, with the stack around the value and the buffer that ends in it.
afterValue(outer, out) ==
    IF outer # <<>>
    THEN /\ stack' = [outer EXCEPT ![Len(outer)].members = @ + 1,
                                   ![Len(outer)].afterKey = FALSE]
         /\ buf' = out /\ UNCHANGED <<sink, err>>
    ELSE stack' = outer /\ maybeFlush(out)

\* The method produces text, within the bound.
Emit(text) ==
    /\ Len(emitted) + Len(text) <= MaxBytes
    /\ emitted' = emitted \o text

-----------------------------------------------------------------------------
(***************************************************************************)
(* The methods.                                                            *)
(***************************************************************************)

\* String, Int, Uint, Float64, Bool, Null, Time, RawUnchecked.  The error of
\* a number or a time that cannot be encoded comes after the separator was
\* buffered and the top-level value was marked as begun.
Value ==
    /\ err = "none" /\ ValuePosition
    /\ started' = (started \/ stack = <<>>)
    /\ \/ /\ Emit(Separator \o Scalar)
          /\ afterValue(stack, buf \o Separator \o Scalar)
       \/ /\ Emit(Separator)
          /\ buf' = buf \o Separator /\ err' = "encode"
          /\ UNCHANGED <<sink, stack>>

ValueMisplaced == err = "none" /\ ~ValuePosition /\ fail("usage")

\* BeginObject and BeginArray.
Begin(open) ==
    /\ err = "none" /\ ValuePosition
    /\ started' = (started \/ stack = <<>>)
    /\ Emit(Separator \o <<open>>)
    /\ buf' = buf \o Separator \o <<open>>
    /\ stack' = Append(stack, streamFrame(open))
    /\ UNCHANGED <<sink, err>>

\* Mutant: an object may end after a member name.
EndObjectAfterKey ==
    /\ err = "none"
    /\ \/ /\ InObject
          /\ Emit(<<"}">>)
          /\ afterValue(SubSeq(stack, 1, Len(stack) - 1), buf \o <<"}">>)
          /\ UNCHANGED started
       \/ ~InObject /\ fail("usage")

EndObject ==
    /\ err = "none"
    /\ \/ /\ InObject /\ ~Top.afterKey
          /\ Emit(<<"}">>)
          /\ afterValue(SubSeq(stack, 1, Len(stack) - 1), buf \o <<"}">>)
          /\ UNCHANGED started
       \/ ~(InObject /\ ~Top.afterKey) /\ fail("usage")

EndArray ==
    /\ err = "none"
    /\ \/ /\ InArray
          /\ Emit(<<"]">>)
          /\ afterValue(SubSeq(stack, 1, Len(stack) - 1), buf \o <<"]">>)
          /\ UNCHANGED started
       \/ ~InArray /\ fail("usage")

Key ==
    LET text == (IF Top.members > 0 THEN <<",">> ELSE <<>>) \o KeyText
    IN  /\ err = "none"
        /\ \/ /\ InObject /\ ~Top.afterKey
              /\ Emit(text)
              /\ buf' = buf \o text
              /\ stack' = [stack EXCEPT ![Len(stack)].afterKey = TRUE]
              /\ UNCHANGED <<sink, started, err>>
           \/ ~(InObject /\ ~Top.afterKey) /\ fail("usage")

\* EncodeTo: a whole value through a compiled encoder, which may fail.
EncodeTo ==
    /\ err = "none"
    /\ \/ /\ stack = <<>> /\ ~started
          /\ Emit(Scalar)
          /\ started' = (started \/ stack = <<>>)
          /\ maybeFlush(buf \o Scalar)
          /\ UNCHANGED stack
       \/ stack = <<>> /\ ~started /\ fail("encode")
       \/ (stack # <<>> \/ started) /\ fail("usage")

Newline ==
    /\ err = "none"
    /\ \/ /\ stack = <<>>
          /\ Emit(<<"\n">>)
          /\ started' = FALSE
          /\ maybeFlush(buf \o <<"\n">>)
          /\ UNCHANGED stack
       \/ stack # <<>> /\ fail("usage")

\* Flush and Close.
Flush ==
    /\ err = "none"
    /\ \/ stack = <<>> /\ flush(buf) /\ UNCHANGED <<stack, started, emitted>>
       \/ stack # <<>> /\ fail("usage")

Next == \/ Value \/ ValueMisplaced \/ Begin("{") \/ Begin("[") \/ EndObject \/ EndArray
        \/ Key \/ EncodeTo \/ Newline \/ Flush \/ Refused

Spec == NewWriter /\ [][Next]_vars

-----------------------------------------------------------------------------
(***************************************************************************)
(* Properties.                                                             *)
(***************************************************************************)

\* What still has to be written to close the open containers.
Closers ==
    LET n == Len(stack)
        close[d \in 0..n] ==
            IF d = 0 THEN <<>>
            ELSE (IF stack[d].kind = "[" THEN <<"]">>
                  ELSE IF stack[d].afterKey /\ d = n THEN Scalar \o <<"}">> ELSE <<"}">>)
                 \o close[d - 1]
    IN  close[n]

\* A text is a stream when each of its lines is empty or one strict value.
IsStream(t) ==
    \A a \in 0..Len(t), b \in 0..Len(t) :
        (/\ a < b
         /\ a = 0 \/ At(t, a - 1) = "\n"
         /\ b = Len(t) \/ At(t, b) = "\n"
         /\ \A k \in a..(b - 1) : At(t, k) # "\n")
        => IsValue(t, a, b)

\* Type invariant.
TypeOK ==
    /\ buf \in Seq(Bytes) /\ sink \in Seq(Bytes) /\ emitted \in Seq(Bytes)
    /\ stack \in Seq([kind : {"{", "["}, members : Nat, afterKey : BOOLEAN])
    /\ started \in BOOLEAN /\ err \in {"none", "usage", "encode", "sink"}

\* Whatever sequence of methods succeeds, closing the open containers makes
\* the output a stream of strict values: commas, colons and brackets are
\* where the grammar wants them.
OutputCompletes == err = "none" => IsStream(emitted \o Closers)

\* Unless the sink itself failed, it holds whole top-level values only: no
\* automatic flush cuts a value, and no misuse leaks a half-written one.
SinkAtBoundary == err # "sink" => IsStream(sink)

\* Nothing is lost, repeated or reordered on the way to the sink: what it
\* took, followed by what is buffered, is what the methods produced; a sink
\* that failed holds a prefix of it.
NothingLost ==
    IF err = "sink"
    THEN Len(sink) <= Len(emitted) /\ sink = SubSeq(emitted, 1, Len(sink))
    ELSE sink \o buf = emitted

\* Between top-level values less than the flush threshold is buffered, and
\* open containers belong to a top-level value that has begun.
BufferBounded ==
    /\ (err = "none" /\ stack = <<>>) => Len(buf) < FlushAt
    /\ stack # <<>> => started

\* The buffer in front of the sink is sound: it holds back less than the
\* threshold between values, and it loses, repeats and reorders nothing.
BufferSound == NothingLost /\ BufferBounded

\* After the first error the Writer is inert: the error stays, and nothing
\* reaches the sink, so a failed Write is never repeated.
ErrorSticks == [][err # "none" => UNCHANGED <<err, sink, buf>>]_vars
=============================================================================
