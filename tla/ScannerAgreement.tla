-------------------------- MODULE ScannerAgreement --------------------------
(***************************************************************************)
(* The scanners of the library side by side on every text of a bounded     *)
(* family.  docs/architecture.md asks that all paths agree on what one     *)
(* strict JSON value is; the code has several independent answers: the     *)
(* scalar validator, the fast validator, the resumable frame, the cursor's *)
(* skipper and the classification of cut-off extents.                      *)
(*                                                                         *)
(* A behaviour types a text: it starts with the first bytes of a family    *)
(* and appends pieces.  Texts the validator has rejected for good are      *)
(* extended by at most MaxSlack further pieces, all others up to the       *)
(* length the family names.                                                *)
(***************************************************************************)
EXTENDS ValueFrame

CONSTANTS Families,      \* a set of [start, pieces, max]: the texts to enumerate
          Completions,   \* suffixes that can complete a cut-off construct
          MaxSlack       \* bound on the pieces appended after a final error

ASSUME AgreementAssumption ==
    \A f \in Families : f.start \in Seq(STRING) /\ f.pieces \subseteq Seq(STRING)

VARIABLES src,           \* the text
          family,        \* its family
          slack          \* pieces appended since the text was rejected

textVars == <<src, family, slack>>

\* The validator has found an error that no further byte can cure.
Rejected(text) ==
    LET v == Validate(text)
    IN  Len(text) > 0 /\ IsError(v) /\ ~incompleteFramedValue(text, v, FALSE)

NewText == family \in Families /\ src = family.start /\ slack = 0

Type(p) ==
    /\ Len(src) + Len(p) <= family.max
    /\ src' = src \o p
    /\ slack' = IF Rejected(src) THEN slack + 1 ELSE slack
    /\ slack' <= MaxSlack
    /\ UNCHANGED family

TypeMore == \E p \in family.pieces : Type(p)

TypingSpec == NewText /\ [][TypeMore]_textVars

-----------------------------------------------------------------------------
\* Offset of the value in the text, and the one-shot frame that starts there.
ValueStart == SkipSpace(src, 0)
HasStart   == ValueStart < Len(src)
OneShot(n) == Scan(FrameInit(At(src, ValueStart)), src, ValueStart, n)

\* Validate and Valid accept exactly the documents of the reference grammar:
\* the two hand-written recursive descents agree with each other and with
\* RFC 8259, nesting limit, surrogate pairs and UTF-8 included.
VerdictsAgree ==
    /\ ~IsError(Validate(src)) <=> IsDocument(src)
    /\ validFast(src) <=> IsDocument(src)

\* The value a Reader finds in a window is the value of the grammar, wherever
\* more input follows it: validRootValueFast ends where the reference does.
ExtentsAgree ==
    HasStart => validRootValueFast(src, ValueStart) = RefEnd(src, ValueStart)

\* The frame never cuts a value: for a valid container, string or literal it
\* ends exactly at the value's last byte, and a number's coarse frame never
\* ends before the number does.  The cursor's skipper lands on the same byte
\* when the text is that value alone.
FramesCoverValues ==
    LET end == RefEnd(src, ValueStart)
        f   == OneShot(Len(src))
    IN  (HasStart /\ end # NoValue) =>
           /\ IF terminalValueNeedsSourceBoundary(At(src, ValueStart))
              THEN ValueStart + f.fr.framed >= end
              ELSE f.done /\ ValueStart + f.fr.framed = end
           /\ IsDocument(src) => skipValidValue(src, ValueStart) = end

\* Framing does not depend on where the refills fall: a frame suspended at any
\* byte and resumed gives the frame of one uninterrupted scan.
FrameResumable ==
    HasStart =>
        \A n \in (ValueStart + 1)..Len(src) :
            LET first == OneShot(n)
            IN  IF first.done
                THEN OneShot(Len(src)).done /\ OneShot(Len(src)).fr.framed = first.fr.framed
                ELSE Scan(first.fr, src, ValueStart, Len(src)) = OneShot(Len(src))

\* The scanners of the package are one: the two validators accept the same
\* documents, the Reader's descent and its frame end values where the grammar
\* does, and neither a refill nor the route taken can tell them apart.
ScannersAgree == VerdictsAgree /\ ExtentsAgree /\ FramesCoverValues /\ FrameResumable

\* An extent classified as cut off by the end of the input really is: some
\* continuation leaves no error, or an error of another kind.
CutOffIsCurable ==
    LET v == Validate(src)
    IN  (Len(src) > 0 /\ IsError(v) /\ incompleteFramedValue(src, v, FALSE)) =>
            \E s \in Completions : Validate(src \o s).msg # v.msg

\* An error that is not classified as cut off stands: no further input makes
\* the text valid or moves the error the Reader reports.
RejectionKept == Rejected(src) => Rejected(src') /\ SameError(Validate(src), Validate(src'))

RejectionStands == [][RejectionKept]_textVars
=============================================================================
