--------------------------- MODULE AgreementProofs ---------------------------
(***************************************************************************)
(* ScannersAgree for every family of texts, every nesting limit and every  *)
(* word size: what the two validators, the Reader's descent, its frame and *)
(* the cursor's skipper answer was proved text by text, and a behaviour    *)
(* never holds anything but a text.                                        *)
(***************************************************************************)
EXTENDS ScannerAgreement, FrameProofs

IsText == src \in Seq(STRING) /\ family \in Families

LEMMA TypesTexts == TypingSpec => []IsText
  <1>1. ASSUME NewText PROVE IsText
    BY <1>1, AgreementAssumption DEF NewText, IsText
  <1>2. ASSUME IsText, [TypeMore]_textVars PROVE IsText'
    <2>1. CASE UNCHANGED textVars
      BY <1>2, <2>1 DEF IsText, textVars
    <2>2. ASSUME NEW p \in family.pieces, Type(p) PROVE IsText'
      <3>1. p \in Seq(STRING) /\ src \in Seq(STRING) /\ family' = family /\ src' = src \o p
        BY <1>2, <2>2, AgreementAssumption DEF IsText, Type
      <3>2. src' \in Seq(STRING) BY <3>1
      <3>. QED BY <1>2, <3>1, <3>2 DEF IsText
    <2>. QED BY <1>2, <2>1, <2>2 DEF TypeMore
  <1>. QED BY <1>1, <1>2, PTL DEF TypingSpec

\* Where the value of a text starts.
LEMMA StartOfText ==
    ASSUME IsText
    PROVE  /\ Len(src) \in Nat
           /\ ValueStart \in 0..Len(src) /\ (HasStart => ValueStart \in 0..(Len(src) - 1))
  <1>1. Len(src) \in Nat BY DEF IsText
  <1>2. 0 \in 0..Len(src) BY <1>1
  <1>3. SpanEnd(src, 0, Space) \in 0..Len(src) BY <1>1, <1>2, SpanEndIs
  <1>4. ValueStart = SpanEnd(src, 0, Space) BY DEF ValueStart, SkipSpace
  <1>. QED BY <1>1, <1>3, <1>4 DEF HasStart

\* Validate and Valid accept exactly the documents of the grammar, and the Reader's
\* descent ends a value where the grammar does.
LEMMA TextDecided == ASSUME IsText PROVE VerdictsAgree /\ ExtentsAgree
  <1>1. Len(src) \in Nat BY StartOfText
  <1>2. VerdictsAgree BY <1>1, ValidatorsAgree DEF VerdictsAgree
  <1>3. ASSUME HasStart PROVE validRootValueFast(src, ValueStart) = RefEnd(src, ValueStart)
    <2>1. ValueStart \in 0..(Len(src) - 1) BY <1>3, StartOfText
    <2>. QED BY <1>1, <2>1, RootValueExact
  <1>. QED BY <1>2, <1>3 DEF ExtentsAgree

\* The frame of a value covers it, and the skipper ends the value of a document there.
LEMMA TextFramed == ASSUME IsText PROVE FramesCoverValues
  <1> DEFINE v == ValueStart
             end == RefEnd(src, v)
             f == OneShot(Len(src))
  <1>1. Len(src) \in Nat BY StartOfText
  <1>2. ASSUME HasStart, end # NoValue
        PROVE  /\ IF terminalValueNeedsSourceBoundary(At(src, v))
                  THEN v + f.fr.framed >= end
                  ELSE f.done /\ v + f.fr.framed = end
               /\ IsDocument(src) => skipValidValue(src, v) = end
    <2>1. v \in 0..(Len(src) - 1) BY <1>2, StartOfText
    <2>2. Covers(src, v, end, Scan(FrameInit(At(src, v)), src, v, Len(src)))
      <3> HIDE DEF v
      <3>. QED BY <1>1, <1>2, <2>1, FramesCover
    <2>3. f = Scan(FrameInit(At(src, v)), src, v, Len(src)) BY DEF OneShot
    <2>4. IsDocument(src) => skipValidValue(src, v) = end BY <1>1, DocumentSkipped DEF ValueStart
    <2> HIDE DEF v, end, f
    <2>5. Covers(src, v, end, f) BY <2>2, <2>3
    <2>. QED BY <2>4, <2>5 DEF Covers
  <1>. QED BY <1>2 DEF FramesCoverValues

\* A frame suspended at any byte and resumed is the frame of one scan.
LEMMA TextResumable == ASSUME IsText PROVE FrameResumable
  <1> DEFINE v == ValueStart
             b == FrameInit(At(src, v))
  <1>1. Len(src) \in Nat BY StartOfText
  <1>2. ASSUME HasStart, NEW n \in (v + 1)..Len(src)
        PROVE  IF OneShot(n).done
               THEN OneShot(Len(src)).done /\ OneShot(Len(src)).fr.framed = OneShot(n).fr.framed
               ELSE Scan(OneShot(n).fr, src, v, Len(src)) = OneShot(Len(src))
    <2>1. v \in 0..(Len(src) - 1) BY <1>2, StartOfText
    <2>2. \A k : OneShot(k) = Scan(b, src, v, k) BY DEF OneShot
    <2> HIDE DEF v
    <2>3. v \in Nat /\ n \in 0..Len(src) /\ v \in 0..n /\ Len(src) \in 0..Len(src) /\ v + 1 \in 0..n
      BY <1>1, <1>2, <2>1
    <2>4. Suspended(b, v, n)
      <3>1. Suspended(b, v, v + 1) BY <2>3, FrameInitIs
      <3> HIDE DEF b
      <3>. QED BY <2>3, <3>1 DEF Suspended, FrameFields
    <2> HIDE DEF b
    <2>5. FrameResumed(src, v, n, Len(src), Scan(b, src, v, n), Scan(b, src, v, Len(src)))
      BY <1>1, <2>3, <2>4, FramesResume
    <2>6. FrameResumed(src, v, n, Len(src), OneShot(n), OneShot(Len(src)))
      BY <2>2, <2>5
    <2>. QED BY <2>6 DEF FrameResumed
  <1>. QED BY <1>2 DEF FrameResumable

\* The scanners of the package are one, on every text that can be typed: the two
\* validators accept the same documents, the Reader's descent and its frame end
\* values where the grammar does, and neither a refill nor the route taken can
\* tell them apart.
THEOREM TextsAgree == TypingSpec => []ScannersAgree
  <1>1. IsText => ScannersAgree
    BY TextDecided, TextFramed, TextResumable DEF ScannersAgree
  <1>. QED BY <1>1, TypesTexts, PTL
=============================================================================
