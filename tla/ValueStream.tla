---------------------------- MODULE ValueStream -----------------------------
(***************************************************************************)
(* What a Reader promises, without buffers, refills or frames: the calls   *)
(* walk the values of the whole input one after the other, and a call that *)
(* returns false says why.  What a call may return depends on the input,   *)
(* on how the source ends and on the size limit, never on how the source   *)
(* cuts the input into reads.                                              *)
(***************************************************************************)
EXTENDS ValueFrame

VARIABLES input,      \* every byte the source will hand over
          tail,       \* how it ends: "EOF" or "ERR"
          maxValue,   \* the value-size limit, 0 for none
          at,         \* the offset after the last value delivered
          err,        \* the sticky error
          ret,        \* "none", "pending", or what the last call returned
          closed

vars == <<input, tail, maxValue, at, err, ret, closed>>

NoErr == [kind |-> "none", at |-> 0, why |-> Done(0)]

Init ==
    /\ input \in Seq(STRING) /\ tail \in {"EOF", "ERR"} /\ maxValue \in Nat
    /\ at = 0 /\ err = NoErr /\ ret = "none" /\ closed = FALSE

\* The next value of the input: where it starts, where it ends, and the text
\* from its start on.
Start == SkipSpace(input, at)
Stop  == RefEnd(input, Start)
Rest  == Slice(input, Start, Len(input))

TooLong(len) == maxValue > 0 /\ len > maxValue

\* A number that runs up to a source error could have gone on.
Unconfirmed ==
    /\ tail = "ERR" /\ Stop = Len(input)
    /\ terminalValueNeedsSourceBoundary(At(input, Start))

\* The input ends in the middle of a value that is right so far.
CutOff == Stop = NoValue /\ incompleteFramedValue(Rest, Validate(Rest), FALSE)

\* The errors the next call may report.
Explains(e) ==
    \/ /\ e.kind = "source" /\ tail = "ERR"
       /\ Start = Len(input) \/ Unconfirmed \/ CutOff
    \/ /\ e.kind = "syntax" /\ e.at = Start
       /\ Start < Len(input) /\ Stop = NoValue
       /\ ~(tail = "ERR" /\ CutOff)
       /\ SameError(Validate(Rest), e.why)
    \/ /\ e.kind = "limit" /\ e.at = Start
       /\ TooLong(IF Stop = NoValue THEN Len(Rest) ELSE Stop - Start)
    \/ /\ e.kind = "decode" /\ e.at = Start          \* valid, but not of the type asked for
       /\ Stop # NoValue /\ ~TooLong(Stop - Start) /\ ~Unconfirmed
    \/ e.kind = "count"                              \* the source broke its contract

Call == ~closed /\ err = NoErr /\ ret # "pending" /\ ret' = "pending"
        /\ UNCHANGED <<input, tail, maxValue, at, err, closed>>

Deliver ==
    /\ ret = "pending" /\ Start < Len(input)
    /\ Stop # NoValue /\ ~Unconfirmed /\ ~TooLong(Stop - Start)
    /\ at' = Stop /\ ret' = "true"
    /\ UNCHANGED <<input, tail, maxValue, err, closed>>

End ==
    /\ ret = "pending" /\ Start = Len(input) /\ tail = "EOF"
    /\ ret' = "false"
    /\ UNCHANGED <<input, tail, maxValue, at, err, closed>>

Stuck ==
    /\ ret = "pending"
    /\ err' # NoErr /\ Explains(err') /\ ret' = "false"
    /\ UNCHANGED <<input, tail, maxValue, at, closed>>

Refuse ==
    /\ ret # "pending" /\ (closed \/ err # NoErr) /\ ret' = "false"
    /\ UNCHANGED <<input, tail, maxValue, at, err, closed>>

Close ==
    /\ ret # "pending" /\ closed' = TRUE
    /\ UNCHANGED <<input, tail, maxValue, at, err, ret>>

Next == Call \/ Deliver \/ End \/ Stuck \/ Refuse \/ Close

Spec == Init /\ [][Next]_vars
=============================================================================
