------------------------------- MODULE Reader -------------------------------
(***************************************************************************)
(* The streaming Reader of stream_reader.go over an io.Reader that may cut *)
(* the input anywhere, hand over bytes together with its final error, or   *)
(* return an impossible count.                                             *)
(*                                                                         *)
(* Next and DecodeNext are loops around fill, the only call that leaves    *)
(* the program, so one step of the model is one turn of such a loop up to  *)
(* and including its Read.  buf is the filled part r.buf[:r.end] and cap   *)
(* is len(r.buf); i is the local variable of the loop, which fill may      *)
(* move.  A Read that returns (0, nil) is repeated by fill and is a        *)
(* stuttering step.                                                        *)
(*                                                                         *)
(* The caches validLen and decodedN of the two loops have no variable: a   *)
(* loop that has computed one returns in the same turn, because a frame is *)
(* complete only when the byte after a number is buffered.  Conclude and   *)
(* DecodeDeliver carry the loop's boundary condition as their guard, so a  *)
(* turn that had to go on would be a deadlock.                             *)
(***************************************************************************)
EXTENDS ValueFrame

CONSTANTS Inputs,     \* the texts sources hold
          Tails,      \* how a source ends: "EOF", "ERR" (any other error)
          Limits,     \* the values of MaxValueBytes
          BufferSizes \* initial sizes of the rolling buffer

ASSUME ReaderAssumption ==
    /\ Inputs \subseteq Seq(STRING)
    /\ Tails \subseteq {"EOF", "ERR"}
    /\ Limits \subseteq Nat
    /\ BufferSizes \subseteq Nat \ {0}

VARIABLES
    input, tail, maxValue,       \* the source and the option; never change
    sent,                        \* bytes the source has handed over
    buf, cap,                    \* r.buf[:r.end] and len(r.buf)
    initCap,                     \* the size the buffer was made with
    pos, valStart, valEnd,       \* as in the struct
    readErr, eof,                \* a non-EOF source error is pending; source is done
    consumed,                    \* bytes discarded before buf[0]
    hasValue, err, closed,
    phase,                       \* "idle", "space" or "frame": where the call is
    op, i, fr,                   \* the call, its offset and its frame
    ret                          \* what the last call returned

source == <<input, tail, maxValue, initCap>>
window == <<sent, buf, cap, consumed, eof, readErr>>
value  == <<valStart, valEnd, hasValue>>
vars   == <<source, window, value, pos, err, closed, phase, op, i, fr, ret>>

NoErr == [kind |-> "none", at |-> 0, why |-> Done(0)]
Error(kind, at) == [kind |-> kind, at |-> at, why |-> Done(0)]
SyntaxError(at, v) == [kind |-> "syntax", at |-> at, why |-> v]

TooLong(len) == maxValue > 0 /\ len > maxValue

NewReader ==
    /\ input \in Inputs /\ tail \in Tails /\ maxValue \in Limits
    /\ initCap \in BufferSizes /\ cap = initCap
    /\ sent = 0 /\ buf = <<>> /\ consumed = 0
    /\ pos = 0 /\ valStart = 0 /\ valEnd = 0
    /\ readErr = FALSE /\ eof = FALSE /\ hasValue = FALSE
    /\ err = NoErr /\ closed = FALSE
    /\ phase = "idle" /\ op = "Next" /\ i = 0 /\ fr = Frame("number", 0, 0)
    /\ ret = "none"

-----------------------------------------------------------------------------
(***************************************************************************)
(* The helpers of the two loops.                                           *)
(***************************************************************************)

\* A source error right after a number: nothing confirms where it ends.
terminalScalarSourceError(start, length) ==
    /\ readErr
    /\ start + length = Len(buf)
    /\ terminalValueNeedsSourceBoundary(At(buf, start))

\* Mutant: every frame waits for the byte after the value.
scanFrameNeedsFollower(f, start) ==
    LET scan == Scan(f, buf, start, Len(buf))
    IN  [scan EXCEPT !.done = @ /\ start + scan.fr.framed < Len(buf)]

\* Mutant: numbers that share a lexical run are framed as one.
scanFrameCoarse(f, start) == Scan(f, buf, start, Len(buf))

\* The scan of a number's frame, cut to the value that ends at end when the
\* frame first exceeds the size limit and before a source error.
splitNumber(f, start, scan, end) ==
    IF /\ \/ ~TooLong(f.framed) /\ TooLong(scan.fr.framed)
          \/ terminalScalarSourceError(start, scan.fr.framed)
       /\ end # NoValue /\ end < start + scan.fr.framed
    THEN [fr |-> [scan.fr EXCEPT !.framed = end - start], done |-> TRUE]
    ELSE scan

\* One turn of framing: [fr, done].  Numbers that share a lexical run are
\* told apart by the zero rule and by splitNumber.
scanFrame(f, start) ==
    LET z    == IF At(buf, start) = "-" THEN start + 1 ELSE start
        scan == Scan(f, buf, start, Len(buf))
    IN  IF f.mode # "number" THEN scan
        ELSE IF Has(buf, z, {"0"}) /\ Has(buf, z + 1, Digit)
        THEN [fr |-> [f EXCEPT !.framed = z + 1 - start], done |-> TRUE]
        ELSE splitNumber(f, start, scan, validRootValueFast(buf, start))

\* The call returns false and records e (nil is NoErr).
ReturnFalse(e) ==
    /\ phase' = "idle" /\ ret' = "false" /\ err' = e

\* The call returns true: the value is [i, end).
ReturnValue(start, end) ==
    /\ valStart' = start /\ valEnd' = end /\ pos' = end /\ hasValue' = TRUE
    /\ phase' = "idle" /\ ret' = "true"
    /\ UNCHANGED err

\* fill refuses a full buffer whose kept bytes already exceed the limit.
FillRefused(keep) == ~eof /\ Len(buf) = cap /\ TooLong(Len(buf) - keep)

\* Mutant: discarded bytes are not counted.
MakeRoomUncounted(keep) ==
    LET full  == Len(buf) = cap
        shift == IF full THEN keep ELSE 0
    IN  /\ ~eof /\ ~FillRefused(keep)
        /\ cap' = IF full /\ keep = 0 THEN 2 * cap ELSE cap
        /\ UNCHANGED consumed
        /\ pos' = keep - shift /\ i' = keep - shift
        /\ valStart' = valStart - shift /\ valEnd' = valEnd - shift
        /\ UNCHANGED hasValue

\* fill up to its Read: a full buffer drops what precedes keep, or doubles.
\* The value extents and the loop's offset move with the bytes.
MakeRoom(keep) ==
    LET full  == Len(buf) = cap
        shift == IF full THEN keep ELSE 0
    IN  /\ ~eof /\ ~FillRefused(keep)
        /\ cap' = IF full /\ keep = 0 THEN 2 * cap ELSE cap
        /\ consumed' = consumed + shift
        /\ pos' = keep - shift /\ i' = keep - shift
        /\ valStart' = valStart - shift /\ valEnd' = valEnd - shift
        /\ UNCHANGED hasValue

\* The bytes fill keeps.
Kept(keep) == IF Len(buf) = cap THEN SubSeq(buf, keep + 1, Len(buf)) ELSE buf

\* Mutant: a final error that comes without bytes is read past.
fillForgetsEnd(keep, n, last) ==
    /\ MakeRoom(keep)
    /\ Len(Kept(keep)) + n <= cap'
    /\ sent + n <= Len(input)
    /\ IF last THEN sent + n = Len(input) ELSE n > 0
    /\ buf' = Kept(keep) \o Slice(input, sent, sent + n)
    /\ sent' = sent + n
    /\ eof' = (last /\ n > 0)
    /\ readErr' = (last /\ n > 0 /\ tail = "ERR")

\* fill with a Read of n bytes; the last one carries the source's final error.
fill(keep, n, last) ==
    /\ MakeRoom(keep)
    /\ Len(Kept(keep)) + n <= cap'
    /\ sent + n <= Len(input)
    /\ IF last THEN sent + n = Len(input) ELSE n > 0
    /\ buf' = Kept(keep) \o Slice(input, sent, sent + n)
    /\ sent' = sent + n
    /\ eof' = last
    /\ readErr' = (last /\ tail = "ERR")

\* fill with a Read whose count is negative or larger than the buffer.
fillBadCount(keep) ==
    /\ MakeRoom(keep)
    /\ buf' = Kept(keep) /\ eof' = TRUE
    /\ UNCHANGED <<sent, readErr>>

-----------------------------------------------------------------------------
(***************************************************************************)
(* The calls.                                                              *)
(***************************************************************************)

\* Entry of Next or DecodeNext.
Call(o) ==
    /\ phase = "idle" /\ ~closed /\ err = NoErr
    /\ phase' = "space" /\ op' = o /\ i' = pos /\ hasValue' = FALSE
    /\ UNCHANGED <<source, window, valStart, valEnd, pos, err, closed, fr, ret>>

\* A call on a closed or failed Reader.
CallRefused ==
    /\ phase = "idle" /\ (closed \/ err # NoErr)
    /\ ret' = "false"
    /\ UNCHANGED <<source, window, value, pos, err, closed, phase, op, i, fr>>

Close ==
    /\ phase = "idle" /\ ~closed
    /\ closed' = TRUE /\ hasValue' = FALSE /\ buf' = <<>> /\ cap' = 0
    /\ UNCHANGED <<source, sent, consumed, eof, readErr, valStart, valEnd, pos, err,
                   phase, op, i, fr, ret>>

AtSpace == phase = "space" /\ SkipSpace(buf, i) = Len(buf)
AtValue == phase = "space" /\ SkipSpace(buf, i) < Len(buf)

\* Only white space is buffered: read on.
SpaceFill ==
    /\ AtSpace
    /\ \E n \in 0..Len(input), last \in BOOLEAN :
          /\ fill(Len(buf), n, last)
          /\ IF n > 0 THEN UNCHANGED <<err, phase, ret>>
             ELSE ReturnFalse(IF readErr' THEN Error("source", NoValue) ELSE err)
    /\ UNCHANGED <<source, closed, op, fr>>

\* Only white space is buffered and the source has ended.
SpaceEnd ==
    /\ AtSpace /\ eof
    /\ pos' = Len(buf) /\ i' = Len(buf)
    /\ ReturnFalse(IF readErr THEN Error("source", NoValue) ELSE err)
    /\ UNCHANGED <<source, window, value, closed, op, fr>>

\* The value [start, end) is complete: report a source error or the limit,
\* or deliver it.
Conclude(start, end) ==
    /\ end < Len(buf) \/ eof \/ ~terminalValueNeedsSourceBoundary(At(buf, start))
    /\ IF terminalScalarSourceError(start, end - start)
       THEN ReturnFalse(Error("source", consumed + start)) /\ UNCHANGED <<value, pos>>
       ELSE IF TooLong(end - start)
       THEN ReturnFalse(Error("limit", consumed + start)) /\ UNCHANGED <<value, pos>>
       ELSE ReturnValue(start, end)

\* Next tries the buffered window before it frames anything.
BufferedEnd(start, end) ==
    /\ validRootValueFast(buf, start) = end
    /\ end < Len(buf) \/ eof \/ ~terminalValueNeedsSourceBoundary(At(buf, start))

NextBuffered ==
    /\ AtValue /\ op = "Next"
    /\ \E start \in i..(Len(buf) - 1) : \E end \in (start + 1)..Len(buf) :
          /\ start = SkipSpace(buf, i)
          /\ BufferedEnd(start, end)
          /\ Conclude(start, end)
          /\ i' = start
    /\ UNCHANGED <<source, window, closed, op, fr>>

\* Otherwise frame the value from its first byte.
StartFrame ==
    /\ AtValue
    /\ \E start \in i..(Len(buf) - 1) :
          /\ start = SkipSpace(buf, i)
          /\ op = "Next" => \A end \in (start + 1)..Len(buf) : ~BufferedEnd(start, end)
          /\ i' = start
          /\ fr' = FrameInit(At(buf, start))
    /\ phase' = "frame"
    /\ UNCHANGED <<source, window, value, pos, err, closed, op, ret>>

Framing  == phase = "frame" /\ ~(scanFrame(fr, i).done \/ eof)
Resolved == phase = "frame" /\ (scanFrame(fr, i).done \/ eof)
Extent   == Slice(buf, i, i + scanFrame(fr, i).fr.framed)

\* Mutant: an escape that the refill cuts off is forgotten.
FrameFillForgetsEscape ==
    /\ Framing
    /\ \E n \in 0..Len(input), last \in BOOLEAN : fill(i, n, last)
    /\ fr' = [scanFrame(fr, i).fr EXCEPT !.esc = FALSE]
    /\ UNCHANGED <<source, err, closed, phase, op, ret>>

\* The frame is not complete: keep it and read on from the value's start.
FrameFill ==
    /\ Framing
    /\ \E n \in 0..Len(input), last \in BOOLEAN : fill(i, n, last)
    /\ fr' = scanFrame(fr, i).fr
    /\ UNCHANGED <<source, err, closed, phase, op, ret>>

FrameLimit ==
    /\ Framing /\ FillRefused(i)
    /\ pos' = i /\ fr' = scanFrame(fr, i).fr
    /\ ReturnFalse(Error("limit", consumed + i))
    /\ UNCHANGED <<source, window, value, closed, op, i>>

\* The source breaks the io.Reader contract.
BadCount ==
    /\ \/ AtSpace /\ fillBadCount(Len(buf)) /\ UNCHANGED fr
       \/ Framing /\ fillBadCount(i) /\ fr' = scanFrame(fr, i).fr
    /\ ReturnFalse(Error("count", NoValue))
    /\ UNCHANGED <<source, closed, op>>

\* The error of a malformed extent: the source's own when the value was right
\* up to where the source failed.
Diagnose(extent, v) ==
    IF readErr /\ incompleteFramedValue(extent, v, scanFrame(fr, i).done)
    THEN Error("source", consumed + i)
    ELSE SyntaxError(consumed + i, v)

NextResolve ==
    LET verdict == Validate(Extent)
        reason  == IF IsError(verdict) THEN verdict ELSE Fail(Len(Extent), "unexpected EOF")
    IN  /\ Resolved /\ op = "Next"
        /\ \/ \E end \in (i + 1)..Len(buf) :
                 validRootValueFast(buf, i) = end /\ Conclude(i, end)
           \/ /\ validRootValueFast(buf, i) = NoValue
              /\ ReturnFalse(Diagnose(Extent, reason))
              /\ UNCHANGED <<value, pos>>
        /\ fr' = scanFrame(fr, i).fr
        /\ UNCHANGED <<source, window, closed, op, i>>

\* DecodeNext checks a source error at a number and the limit on the frame,
\* before it decodes.
DecodeCheck ==
    LET verdict == Validate(Extent)
        scalar  == terminalScalarSourceError(i, Len(Extent))
    IN  /\ Resolved /\ op = "DecodeNext"
        /\ scalar \/ TooLong(Len(Extent))
        /\ ReturnFalse(IF ~scalar THEN Error("limit", consumed + i)
                       ELSE IF IsError(verdict) THEN Diagnose(Extent, verdict)
                       ELSE Error("source", consumed + i))
        /\ fr' = scanFrame(fr, i).fr
        /\ UNCHANGED <<source, window, value, pos, closed, op, i>>

DecodeReady ==
    /\ Resolved /\ op = "DecodeNext"
    /\ ~terminalScalarSourceError(i, Len(Extent)) /\ ~TooLong(Len(Extent))

\* DecodePrefix, the compiled decoder, accepts the value at the head of the
\* extent.
DecodeDeliver ==
    /\ DecodeReady
    /\ \E end \in (i + 1)..Len(buf) :
          /\ validRootValueFast(Extent, 0) = end - i
          /\ end < Len(buf) \/ eof \/ ~terminalValueNeedsSourceBoundary(At(buf, i))
          /\ ReturnValue(i, end)
    /\ fr' = scanFrame(fr, i).fr
    /\ UNCHANGED <<source, window, closed, op, i>>

\* DecodePrefix fails: the text is malformed, or valid but not of the
\* destination's type.  A number's coarse extent is cut to its value first.
DecodeFail ==
    LET end     == validRootValueFast(Extent, 0)
        extent  == IF fr.mode = "number" /\ end # NoValue THEN SubSeq(Extent, 1, end) ELSE Extent
        verdict == Validate(extent)
    IN  /\ DecodeReady
        /\ ReturnFalse(IF IsError(verdict) THEN Diagnose(extent, verdict)
                       ELSE Error("decode", consumed + i))
        /\ fr' = scanFrame(fr, i).fr
        /\ UNCHANGED <<source, window, value, pos, closed, op, i>>

\* A turn of the call, with a source that keeps the io.Reader contract.
Turn == \/ SpaceFill \/ SpaceEnd \/ NextBuffered \/ StartFrame \/ FrameFill \/ FrameLimit
        \/ NextResolve \/ DecodeCheck \/ DecodeDeliver \/ DecodeFail

Step == Turn \/ BadCount

Next == (\E o \in {"Next", "DecodeNext"} : Call(o)) \/ CallRefused \/ Close \/ Step

Spec == NewReader /\ [][Next]_vars

\* A call in progress is not abandoned, and a source that is read answers;
\* that it breaks its contract is never needed to make progress.
FairSpec == Spec /\ WF_vars(Turn)

-----------------------------------------------------------------------------
(***************************************************************************)
(* Properties.                                                             *)
(***************************************************************************)

\* InputOffset of the Reader: the input offset after the current value.
InputOffset == consumed + valEnd

ErrorKinds == {"none", "source", "limit", "count", "decode", "syntax"}

\* Type invariant: counters, offsets and flags of the struct and of the call.
\* valStart and valEnd run behind the buffer, below zero, when compaction has
\* dropped the value they point to.
TypeOK ==
    /\ input \in Seq(STRING) /\ tail \in {"EOF", "ERR"} /\ maxValue \in Nat
    /\ sent \in 0..Len(input) /\ consumed \in Nat
    /\ buf \in Seq(STRING) /\ cap \in Nat /\ initCap \in Nat \ {0}
    /\ valStart \in Int /\ valEnd \in Int /\ pos \in Nat /\ i \in Nat
    /\ hasValue \in BOOLEAN /\ eof \in BOOLEAN /\ readErr \in BOOLEAN /\ closed \in BOOLEAN
    /\ phase \in {"idle", "space", "frame"} /\ op \in {"Next", "DecodeNext"}
    /\ ret \in {"none", "true", "false"} /\ err.kind \in ErrorKinds

\* The rolling buffer is exactly the part of the input that was read and not
\* yet discarded: no refill, compaction or growth loses, repeats or reorders a
\* byte, whatever the sizes of the reads.
WindowFaithful ==
    ~closed => /\ sent = consumed + Len(buf)
               /\ Len(buf) <= cap
               /\ buf = Slice(input, consumed, sent)

\* What Bytes returns lies in the buffer and is the text of the input that
\* ends at InputOffset; no read can have moved it while it is current.
BytesFaithful ==
    hasValue =>
        /\ 0 <= valStart /\ valStart < valEnd /\ valEnd <= Len(buf)
        /\ Slice(buf, valStart, valEnd) = Slice(input, consumed + valStart, consumed + valEnd)

\* The offsets of the struct stay in order and inside the buffer, across every
\* compaction: the last value lies before the scan position, and a call works
\* on bytes that follow it and that Bytes no longer exposes.
OffsetsOrdered ==
    /\ ~closed => valEnd <= pos /\ pos <= Len(buf)
    /\ phase # "idle" => /\ ~closed /\ ~hasValue
                         /\ valEnd <= i /\ i <= Len(buf)

\* With a value limit the buffer is bounded: it never exceeds twice the limit,
\* unless it was made larger.
MemoryBounded ==
    maxValue > 0 => cap <= initCap \/ cap <= 2 * maxValue

\* The rolling window is sound: its bytes are the input's, the current value
\* lies in it where InputOffset says, and it stays within its bound.
WindowSound == WindowFaithful /\ BytesFaithful /\ MemoryBounded

\* Framing does not see the buffer: from what the frame kept across the refills,
\* wherever they fell and however they moved the value, Scan finds what one
\* scan of the input from the value's first byte would have found.
FramesWhole ==
    phase = "frame" =>
        Scan(fr, buf, i, Len(buf)) =
            Scan(FrameInit(At(input, consumed + i)), input, consumed + i, sent)

\* InputOffset moves only when a call delivers a value, and then forward:
\* compaction, which shifts every offset of the struct, never shows.
OffsetAdvances ==
    [][IF phase # "idle" /\ ret' = "true" /\ phase' = "idle" /\ hasValue'
       THEN InputOffset' > InputOffset
       ELSE InputOffset' = InputOffset]_vars

\* A container, string or literal that is completely buffered is delivered
\* without another, possibly blocking, Read.
CompleteBuffered ==
    LET s == SkipSpace(buf, i)
    IN  /\ phase # "idle" /\ s < Len(buf)
        /\ ~terminalValueNeedsSourceBoundary(At(buf, s))
        /\ RefEnd(buf, s) # NoValue

NoNeedlessRead ==
    [][(sent' # sent \/ eof' # eof) => ~CompleteBuffered]_vars

\* Every call returns, provided the source keeps answering.
CallsReturn == (phase # "idle") ~> (phase = "idle")

\* The Reader implements the value stream: the values, their order, the end of
\* the stream and every error are those of the whole input, so they do not
\* depend on chunking, buffer size, compaction or growth.
Stream == INSTANCE ValueStream WITH
              at  <- InputOffset,
              ret <- IF phase = "idle" THEN ret ELSE "pending"

ImplementsValueStream == Stream!Spec
=============================================================================
