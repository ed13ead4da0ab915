---------------------------- MODULE ExpansionProofs ----------------------------
(****************************************************************************)
(* What the expansion rules make of a derivation, for every sentence        *)
(* length, phrase length, distortion limit d and reordering constraint.     *)
(*                                                                          *)
(* A derivation is seen at its end: b is what it has translated, prev its   *)
(* last span.  OnPath(rc, b, prev, d) holds of the seed, and of every       *)
(* extension that ProcessOneHypothesis lets through; all that is said of    *)
(* derivations elsewhere follows from it.                                   *)
(****************************************************************************)
EXTENDS Expansion, WellFoundedInduction, FiniteSetTheorems, TLAPS

\* What ProcessOneHypothesis asks of a span, apart from its options.
Extends(rc, b, prev, r, d) ==
  /\ r \in PhraseSpans
  /\ ~Overlap(b, r)
  /\ Check(rc, b, r, d)
  /\ NormalDistortionOK(b, prev, r, d)

IsLimit(d) == d \in Nat \cup {-1}

Typed(b, prev) ==
  /\ b \in Bitmaps
  /\ prev \in PhraseSpans \cup {NoSpan}
  /\ b = {} <=> prev = NoSpan

\* The open window.
Window(b, d) ==
  d >= 0 =>
    \/ b = {}
    \/ GetFirstGapPos(b) > GetLastPos(b)
    \/ GetLastPos(b) + 1 - GetFirstGapPos(b) <= d

\* The last span is translated, and its end is behind the first gap or less
\* than the limit in front of it.
LastSpanNear(b, prev, d) ==
  /\ b # {} => SpanPositions(prev) \subseteq b
  /\ b # {} /\ ~IsComplete(b) /\ d >= 0 =>
       GetFirstGapPos(b) - prev[2] - 1 <= d

\* A wall is not left with an open word before it and a translated one behind.
WallsKept(rc, b) ==
  \A w \in rc.wall : (\E p \in b : p > w) => 0 .. w \subseteq b

\* The same for a local wall, in each zone that has it.
LocalWallsKept(rc, b) ==
  \A z \in rc.zones : \A w \in rc.localWall :
    z[1] <= w /\ w < z[2] /\ (\E p \in b : w < p /\ p <= z[2])
      => z[1] .. w \subseteq b

\* The zone is entered and not finished.
Partly(b, z) == InZone(b, z) # {} /\ InZone(b, z) # SpanPositions(z)

\* What is said of the zones that are entered: no two of them lie apart, the
\* last span touches all of them, and those with a translated word behind the
\* first gap end within the limit.
ZonesEntered(rc, b, prev, d) ==
  /\ \A y, z \in rc.zones : Partly(b, y) /\ Partly(b, z) => ~(y[2] < z[1])
  /\ \A z \in rc.zones : Partly(b, z) => SpanPositions(prev) \cap SpanPositions(z) # {}
  /\ \A z \in rc.zones :
       Partly(b, z) /\ d >= 0 /\ (\E p \in InZone(b, z) : p > GetFirstGapPos(b))
         => z[2] - GetFirstGapPos(b) < d

OnPath(rc, b, prev, d) ==
  /\ Typed(b, prev)
  /\ Window(b, d)
  /\ LastSpanNear(b, prev, d)
  /\ WallsKept(rc, b)
  /\ LocalWallsKept(rc, b)
  /\ ZonesEntered(rc, b, prev, d)

------------------------------------------------------------------------------
(****************************************************************************)
(* The first gap and the last position.                                     *)
(****************************************************************************)

\* A non-empty set of naturals has a least element.
LEMMA LeastNatural ==
  ASSUME NEW T, T \subseteq Nat, T # {}
  PROVE  \E x \in T : \A y \in T : x <= y
<1>1. PICK x \in T : \A y \in T : <<y, x>> \notin OpToRel(<, Nat)
  BY NatLessThanWellFounded, WFMin
<1>2. \A y \in T : ~(y < x)
  <2>1. SUFFICES ASSUME NEW y \in T, y < x
                 PROVE  FALSE
    OBVIOUS
  <2>2. <<y, x>> \in OpToRel(<, Nat)
    BY <2>1 DEF OpToRel
  <2>3. QED
    BY <1>1, <2>2
<1>3. QED
  BY <1>2

\* A non-empty bitmap has a greatest element, the least one seen from the end.
LEMMA GreatestPosition ==
  ASSUME NEW b \in Bitmaps, b # {}
  PROVE  \E x \in b : \A y \in b : y <= x
<1> DEFINE T == {SourceSize - p : p \in b}
<1>1. T \subseteq Nat /\ T # {}
  <2>1. \A p \in b : SourceSize - p \in Nat
    BY SourceSizeAssumption DEF Bitmaps, Positions
  <2>2. T \subseteq Nat
    BY <2>1
  <2>3. QED
    BY <2>2
<1> HIDE DEF T
<1>2. PICK t \in T : \A y \in T : t <= y
  BY <1>1, LeastNatural
<1>3. PICK x \in b : t = SourceSize - x
  BY <1>2 DEF T
<1>4. \A y \in b : SourceSize - x <= SourceSize - y
  BY <1>2, <1>3 DEF T
<1>5. \A y \in b : y <= x
  BY <1>4, SourceSizeAssumption DEF Bitmaps, Positions
<1>6. QED
  BY <1>5

\* GetFirstGapPos returns the first open word of a bitmap that is not full.
LEMMA FirstGap ==
  ASSUME NEW b \in Bitmaps, ~IsComplete(b)
  PROVE  /\ GetFirstGapPos(b) \in Positions
         /\ GetFirstGapPos(b) \notin b
         /\ \A q \in Positions : q \notin b => GetFirstGapPos(b) <= q
<1>1. Gaps(b) # {} /\ Gaps(b) \subseteq Nat
  BY SourceSizeAssumption DEF IsComplete, Gaps, Positions
<1>2. \E x \in Gaps(b) : \A y \in Gaps(b) : x <= y
  BY <1>1, LeastNatural
<1>3. GetFirstGapPos(b) = CHOOSE x \in Gaps(b) : \A y \in Gaps(b) : x <= y
  BY <1>1 DEF GetFirstGapPos
<1>4. GetFirstGapPos(b) \in Gaps(b) /\ \A y \in Gaps(b) : GetFirstGapPos(b) <= y
  BY <1>2, <1>3
<1>5. QED
  BY <1>4 DEF Gaps

\* All that lies before the first gap is translated.
LEMMA BeforeFirstGap ==
  ASSUME NEW b \in Bitmaps, ~IsComplete(b), NEW q \in Positions,
         q < GetFirstGapPos(b)
  PROVE  q \in b
<1> DEFINE g == GetFirstGapPos(b)
<1>1. g \in Positions /\ (q \notin b => g <= q)
  BY FirstGap
<1> HIDE DEF g
<1>2. q < g
  BY DEF g
<1>3. QED
  BY <1>1, <1>2, SourceSizeAssumption DEF Positions

\* GetLastPos returns the last translated word of a bitmap that is not empty.
LEMMA LastPos ==
  ASSUME NEW b \in Bitmaps, b # {}
  PROVE  GetLastPos(b) \in b /\ \A q \in b : q <= GetLastPos(b)
<1>1. \E x \in b : \A y \in b : y <= x
  BY GreatestPosition
<1>2. GetLastPos(b) = CHOOSE x \in b : \A y \in b : y <= x
  BY DEF GetLastPos
<1>3. QED
  BY <1>1, <1>2

\* A bitmap that is full has its first gap at NOT_FOUND, above every position.
LEMMA FullBitmap ==
  ASSUME NEW b \in Bitmaps, IsComplete(b)
  PROVE  GetFirstGapPos(b) = SourceSize + 1 /\ b = Positions
  BY DEF GetFirstGapPos, IsComplete, NOT_FOUND, Gaps, Bitmaps

------------------------------------------------------------------------------
(****************************************************************************)
(* What the guard of an extension says, in arithmetic.                      *)
(****************************************************************************)

\* A span the loops visit lies inside the sentence.
LEMMA SpanInside ==
  ASSUME NEW r \in PhraseSpans
  PROVE  /\ r[1] \in Positions /\ r[2] \in Positions /\ r[1] <= r[2]
         /\ SpanPositions(r) \subseteq Positions
         /\ r[1] \in SpanPositions(r) /\ r[2] \in SpanPositions(r)
         /\ r[1] # NOT_FOUND /\ r # NoSpan
<1>1. r[1] \in Positions /\ r[2] \in Positions /\ r[1] <= r[2]
  BY DEF PhraseSpans, Spans
<1>2. SpanPositions(r) \subseteq Positions
  BY <1>1, SourceSizeAssumption DEF SpanPositions, Positions
<1>3. r[1] \in SpanPositions(r) /\ r[2] \in SpanPositions(r)
  BY <1>1, SourceSizeAssumption DEF SpanPositions, Positions
<1>4. r[1] # NOT_FOUND
  BY <1>1, SourceSizeAssumption DEF NOT_FOUND, Positions
<1>5. r # NoSpan
  BY <1>4 DEF NoSpan
<1>6. QED
  BY <1>1, <1>2, <1>3, <1>4, <1>5

\* An extension starts at the first gap or behind it, on an open word.
LEMMA ExtensionFillsGap ==
  ASSUME NEW b \in Bitmaps, NEW r \in PhraseSpans, ~Overlap(b, r)
  PROVE  /\ ~IsComplete(b)
         /\ GetFirstGapPos(b) \in Positions
         /\ GetFirstGapPos(b) <= r[1]
<1>1. r[1] \in Positions /\ r[1] \notin b
  BY SpanInside DEF Overlap
<1>2. ~IsComplete(b)
  BY <1>1 DEF IsComplete, Gaps
<1>3. QED
  BY <1>1, <1>2, FirstGap

\* A span off the first gap that passes the limit ends near enough to it.
LEMMA RequiredDistortionBound ==
  ASSUME NEW b \in Bitmaps, NEW r \in PhraseSpans, ~Overlap(b, r)
  PROVE  RequiredDistortion(b, r) = r[2] + 1 - GetFirstGapPos(b)
<1> DEFINE g == GetFirstGapPos(b)
<1>1. g \in Positions /\ g <= r[1] /\ r[1] <= r[2] /\ r[2] \in Positions
      /\ r[1] \in Positions /\ r[1] # NOT_FOUND
  BY ExtensionFillsGap, SpanInside
<1>2. RequiredDistortion(b, r) = Abs(r[2] - g + 1)
  BY <1>1 DEF RequiredDistortion, ComputeDistortionDistance
<1> HIDE DEF g
<1>3. Abs(r[2] - g + 1) = r[2] + 1 - g
  BY <1>1, SourceSizeAssumption DEF Abs, Positions
<1>4. QED
  BY <1>2, <1>3 DEF g

\* Where the last span lies: inside the bitmap once anything is translated.
LEMMA LastSpanInside ==
  ASSUME NEW b, NEW prev, NEW d, Typed(b, prev), LastSpanNear(b, prev, d), b # {}
  PROVE  /\ prev \in PhraseSpans
         /\ prev[2] \in b /\ prev[2] \in Positions
         /\ prev[1] # NOT_FOUND /\ ToInt(prev[2]) = prev[2]
<1>1. prev \in PhraseSpans
  BY DEF Typed
<1>2. prev[2] \in b /\ prev[2] \in Positions
      /\ prev[1] # NOT_FOUND
  BY <1>1, SpanInside DEF LastSpanNear
<1>3. prev[2] # NOT_FOUND
  BY <1>2, SourceSizeAssumption DEF NOT_FOUND, Positions
<1>4. QED
  BY <1>1, <1>2, <1>3 DEF ToInt

\* The seed has translated nothing and jumps from before the first word.
LEMMA SeedSpan ==
  ASSUME NEW b, NEW prev, Typed(b, prev), b = {}
  PROVE  prev[1] = NOT_FOUND /\ ToInt(prev[2]) = -1
  BY DEF Typed, NoSpan, ToInt

------------------------------------------------------------------------------
(****************************************************************************)
(* One extension: types, window, last span and walls.                       *)
(****************************************************************************)

\* The words of the span are translated, and nothing else.
LEMMA StepTyped ==
  ASSUME NEW b, NEW prev, Typed(b, prev), NEW r \in PhraseSpans
  PROVE  /\ Typed(b \cup SpanPositions(r), r)
         /\ b \cup SpanPositions(r) \in Bitmaps /\ b \cup SpanPositions(r) # {}
<1>1. SpanPositions(r) \subseteq Positions /\ r[2] \in SpanPositions(r) /\ r # NoSpan
  BY SpanInside
<1>2. QED
  BY <1>1 DEF Typed, Bitmaps

\* Translating a span moves the first gap forward only, past the span if the
\* span starts there, and leaves it alone otherwise.
LEMMA GapMoves ==
  ASSUME NEW b \in Bitmaps, NEW r \in PhraseSpans, ~Overlap(b, r),
         ~IsComplete(b \cup SpanPositions(r))
  PROVE  LET g == GetFirstGapPos(b)
             c == b \cup SpanPositions(r)
             h == GetFirstGapPos(c)
         IN  /\ h \in Positions /\ h \notin c /\ g <= h
             /\ \A q \in Positions : q < h => q \in c
             /\ r[1] = g => h > r[2]
             /\ r[1] # g => h = g
<1> DEFINE g == GetFirstGapPos(b)
           c == b \cup SpanPositions(r)
           h == GetFirstGapPos(c)
<1>1. c \in Bitmaps
  BY SpanInside DEF Bitmaps
<1>2. /\ h \in Positions /\ h \notin c
      /\ \A q \in Positions : q \notin c => h <= q
  BY <1>1, FirstGap
<1>3. /\ g \in Positions /\ g <= r[1] /\ g \notin b
      /\ \A q \in Positions : q \notin b => g <= q
  BY ExtensionFillsGap, FirstGap
<1>4. r[1] \in Positions /\ r[2] \in Positions /\ r[1] <= r[2]
      /\ SpanPositions(r) = r[1] .. r[2]
  BY SpanInside DEF SpanPositions
<1>5. c = b \cup SpanPositions(r)
  OBVIOUS
<1> HIDE DEF g, h, c
<1>6. g <= h
  BY <1>2, <1>3, <1>5
<1>7. \A q \in Positions : q < h => q \in c
  BY <1>2, SourceSizeAssumption DEF Positions
<1>8. ASSUME r[1] = g PROVE h > r[2]
  BY <1>2, <1>4, <1>5, <1>6, <1>8, SourceSizeAssumption DEF Positions
<1>9. ASSUME r[1] # g PROVE h = g
  <2>1. g < r[1]
    BY <1>3, <1>4, <1>9, SourceSizeAssumption DEF Positions
  <2>2. g \notin c
    BY <1>3, <1>4, <1>5, <2>1, SourceSizeAssumption DEF Positions
  <2>3. QED
    BY <1>2, <1>3, <1>6, <2>2, SourceSizeAssumption DEF Positions
<1>10. QED
  BY <1>2, <1>6, <1>7, <1>8, <1>9 DEF g, h, c

\* With a limit: a phrase off the first gap ends less than the limit behind it.
LEMMA ExtensionEndsNear ==
  ASSUME NEW b \in Bitmaps, NEW prev, NEW d, IsLimit(d), d >= 0,
         NEW r \in PhraseSpans, ~Overlap(b, r),
         NormalDistortionOK(b, prev, r, d)
  PROVE  /\ r[1] # GetFirstGapPos(b) => r[2] + 1 - GetFirstGapPos(b) <= d
         /\ r[1] = 0 \/ r[1] - ToInt(prev[2]) - 1 <= d
<1>1. d \in Int
  BY DEF IsLimit
<1>2. /\ r[1] = 0 \/ r[1] - ToInt(prev[2]) - 1 <= d
      /\ \/ GetFirstGapPos(b) = r[1]
         \/ RequiredDistortion(b, r) <= d
  BY <1>1 DEF NormalDistortionOK
<1>3. QED
  BY <1>2, RequiredDistortionBound

\* An extension keeps the window: the last word it leaves translated is the
\* old one or the end of the phrase, and both are near the new first gap.
LEMMA StepWindow ==
  ASSUME NEW b \in Bitmaps, NEW prev, NEW d, IsLimit(d), Window(b, d),
         NEW r \in PhraseSpans, ~Overlap(b, r), NormalDistortionOK(b, prev, r, d)
  PROVE  Window(b \cup SpanPositions(r), d)
<1> DEFINE c == b \cup SpanPositions(r)
<1>0. c \in Bitmaps /\ c # {}
  BY SpanInside DEF Bitmaps
<1> SUFFICES ASSUME d >= 0, ~IsComplete(c),
                    GetFirstGapPos(c) <= GetLastPos(c)
             PROVE  GetLastPos(c) + 1 - GetFirstGapPos(c) <= d
  <2>1. GetLastPos(c) \in Positions
    BY <1>0, LastPos DEF Bitmaps
  <2>2. IsComplete(c) => GetFirstGapPos(c) > GetLastPos(c)
    BY <1>0, <2>1, FullBitmap, SourceSizeAssumption DEF Positions
  <2>3. ~IsComplete(c) => GetFirstGapPos(c) \in Positions
    BY <1>0, FirstGap
  <2>4. QED
    BY <2>1, <2>2, <2>3, SourceSizeAssumption DEF Window, Positions
<1> DEFINE g == GetFirstGapPos(b)
           h == GetFirstGapPos(c)
           k == GetLastPos(b)
           l == GetLastPos(c)
<1>1. d \in Int
  BY DEF IsLimit
<1>2. l \in c /\ l \in Positions
  BY <1>0, LastPos DEF Bitmaps
<1>3. h \in Positions /\ g <= h /\ (r[1] = g => h > r[2]) /\ (r[1] # g => h = g)
  BY GapMoves
<1>4. g \in Positions
  BY ExtensionFillsGap
<1>5. r[2] \in Positions
  BY SpanInside
<1>6. r[1] # g => r[2] + 1 - g <= d
  BY ExtensionEndsNear
<1>7. CASE l \in b
  <2>1. k \in Positions /\ l <= k
    BY <1>7, LastPos DEF Bitmaps
  <2>2. g > k \/ k + 1 - g <= d
    BY <1>7 DEF Window
  <2>3. h <= l
    OBVIOUS
  <2> HIDE DEF g, h, k, l
  <2>4. l + 1 - h <= d
    BY <1>1, <1>2, <1>3, <1>4, <2>1, <2>2, <2>3, SourceSizeAssumption DEF Positions
  <2>5. QED
    BY <2>4 DEF h, l
<1>8. CASE l \in SpanPositions(r)
  <2>1. l <= r[2]
    BY <1>2, <1>5, <1>8, SpanInside, SourceSizeAssumption DEF SpanPositions, Positions
  <2>2. h <= l
    OBVIOUS
  <2> HIDE DEF g, h, k, l
  <2>3. l + 1 - h <= d
    BY <1>1, <1>2, <1>3, <1>4, <1>5, <1>6, <2>1, <2>2, SourceSizeAssumption
       DEF Positions
  <2>4. QED
    BY <2>3 DEF h, l
<1>9. QED
  BY <1>2, <1>7, <1>8

\* An extension leaves the last span near the first gap.
LEMMA StepLastSpan ==
  ASSUME NEW b \in Bitmaps, NEW prev, NEW d, IsLimit(d), Window(b, d),
         NEW r \in PhraseSpans, ~Overlap(b, r), NormalDistortionOK(b, prev, r, d)
  PROVE  LastSpanNear(b \cup SpanPositions(r), r, d)
<1> DEFINE c == b \cup SpanPositions(r)
<1>1. SpanPositions(r) \subseteq c /\ d \in Int
  BY DEF IsLimit
<1>2. ASSUME d >= 0, ~IsComplete(c)
      PROVE  GetFirstGapPos(c) - r[2] - 1 <= d
  <2> DEFINE g == GetFirstGapPos(b)
             h == GetFirstGapPos(c)
             k == GetLastPos(b)
  <2>1. /\ h \in Positions /\ g <= h /\ (r[1] # g => h = g)
        /\ \A q \in Positions : q < h => q \in c
    BY <1>2, GapMoves
  <2>2. g \in Positions /\ g <= r[1] /\ r[2] \in Positions /\ r[1] \in Positions
        /\ r[1] <= r[2]
    BY ExtensionFillsGap, SpanInside
  <2>3. CASE h <= r[2] + 1
    <3> HIDE DEF g, h
    <3>1. h - r[2] - 1 <= d
      BY <1>1, <1>2, <2>1, <2>2, <2>3, SourceSizeAssumption DEF Positions
    <3>2. QED
      BY <3>1 DEF h
  <2>4. CASE h > r[2] + 1
    <3>1. h - 1 \in Positions /\ h - 1 > r[2]
      BY <2>1, <2>2, <2>4, SourceSizeAssumption DEF Positions
    <3>2. h - 1 \in b
      <4>1. h - 1 \in c
        <5> HIDE DEF c, g, h
        <5>1. QED
          BY <2>1, <3>1, SourceSizeAssumption DEF Positions
      <4>2. h - 1 \notin SpanPositions(r)
        BY <2>2, <3>1, SourceSizeAssumption DEF SpanPositions, Positions
      <4>3. QED
        BY <4>1, <4>2
    <3>3. k \in Positions /\ h - 1 <= k
      BY <3>2, LastPos DEF Bitmaps
    <3>4. g > k \/ k + 1 - g <= d
      BY <1>2, <3>2 DEF Window
    <3> HIDE DEF g, h, k
    <3>5. h - r[2] - 1 <= d
      BY <1>1, <1>2, <2>1, <2>2, <3>1, <3>3, <3>4, SourceSizeAssumption DEF Positions
    <3>6. QED
      BY <3>5 DEF h
  <2>5. QED
    BY <2>1, <2>2, <2>3, <2>4, SourceSizeAssumption DEF Positions
<1>3. QED
  BY <1>1, <1>2 DEF LastSpanNear

\* Any span ProcessOneHypothesis lets through is within the limit of the last
\* one: forwards by the guard, backwards by the window.
LEMMA JumpWithinLimit ==
  ASSUME NEW b, NEW prev, NEW d, IsLimit(d), Typed(b, prev), Window(b, d),
         LastSpanNear(b, prev, d), d >= 0, NEW r \in PhraseSpans,
         ~Overlap(b, r), NormalDistortionOK(b, prev, r, d)
  PROVE  ComputeDistortionDistance(prev, r) <= d
<1>1. b \in Bitmaps
  BY DEF Typed
<1>2. r[1] = 0 \/ r[1] - ToInt(prev[2]) - 1 <= d
  BY <1>1, ExtensionEndsNear
<1>3. r[1] \in Positions /\ d \in Int
  BY SpanInside DEF IsLimit
<1>4. CASE b = {}
  <2>1. prev[1] = NOT_FOUND /\ ToInt(prev[2]) = -1
    BY <1>4, SeedSpan
  <2>2. r[1] <= d
    BY <1>2, <1>3, <2>1, SourceSizeAssumption DEF Positions
  <2>3. QED
    BY <2>1, <2>2 DEF ComputeDistortionDistance
<1>5. CASE b # {}
  <2> DEFINE g == GetFirstGapPos(b)
             k == GetLastPos(b)
             e == prev[2]
  <2>1. /\ e \in b /\ e \in Positions /\ ToInt(prev[2]) = e
        /\ prev[1] # NOT_FOUND
    BY <1>5, LastSpanInside
  <2>2. g \in Positions /\ g <= r[1]
    BY <1>1, ExtensionFillsGap
  <2>3. k \in Positions /\ e <= k
    BY <1>1, <1>5, <2>1, LastPos DEF Bitmaps
  <2>4. g > k \/ k + 1 - g <= d
    BY <1>5 DEF Window
  <2>5. ComputeDistortionDistance(prev, r) = Abs(e - r[1] + 1)
    BY <2>1 DEF ComputeDistortionDistance
  <2>6. r[1] = 0 \/ r[1] - e - 1 <= d
    BY <1>2, <2>1
  <2> HIDE DEF g, k, e
  <2>7. Abs(e - r[1] + 1) <= d
    BY <1>3, <2>1, <2>2, <2>3, <2>4, <2>6, SourceSizeAssumption
       DEF Abs, Positions
  <2>8. QED
    BY <2>5, <2>7
<1>6. QED
  BY <1>4, <1>5

\* The edge of cube pruning takes the hypothesis exactly if stack decoding
\* would extend it, once the checks they share have passed.
LEMMA EdgeAgrees ==
  ASSUME NEW b, NEW prev, NEW d, IsLimit(d), Typed(b, prev), Window(b, d),
         LastSpanNear(b, prev, d), NEW r \in PhraseSpans, ~Overlap(b, r)
  PROVE  NormalDistortionOK(b, prev, r, d)
           <=> /\ EdgeTakes(b, prev, r, d)
               /\ \/ d < 0
                  \/ GetFirstGapPos(b) = r[1]
                  \/ RequiredDistortion(b, r) <= d
<1>1. d \in Nat \cup {-1}
  BY DEF IsLimit
<1>2. CASE d = -1
  BY <1>2 DEF NormalDistortionOK, EdgeTakes
<1>3. CASE d >= 0
  <2>1. ASSUME NormalDistortionOK(b, prev, r, d)
        PROVE  EdgeTakes(b, prev, r, d)
    <3>1. ComputeDistortionDistance(prev, r) <= d
      BY <1>3, <2>1, JumpWithinLimit
    <3>2. b = {} => ComputeDistortionDistance(prev, r) = r[1]
      BY SeedSpan DEF ComputeDistortionDistance
    <3>3. QED
      BY <3>1, <3>2 DEF EdgeTakes
  <2>2. ASSUME EdgeTakes(b, prev, r, d)
        PROVE  r[1] = 0 \/ r[1] - ToInt(prev[2]) - 1 <= d
    <3>1. r[1] \in Positions
      BY SpanInside
    <3>2. CASE b = {}
      <4>1. ToInt(prev[2]) = -1
        BY <3>2, SeedSpan
      <4>2. r[1] <= d
        BY <1>1, <1>3, <2>2, <3>2 DEF EdgeTakes
      <4>3. QED
        BY <1>1, <3>1, <4>1, <4>2, SourceSizeAssumption DEF Positions
    <3>3. CASE b # {}
      <4> DEFINE e == prev[2]
      <4>1. /\ e \in Positions /\ ToInt(prev[2]) = e
            /\ prev[1] # NOT_FOUND
        BY <3>3, LastSpanInside
      <4>2. Abs(e - r[1] + 1) <= d
        BY <1>1, <1>3, <2>2, <3>3, <4>1 DEF EdgeTakes, ComputeDistortionDistance
      <4> HIDE DEF e
      <4>3. r[1] - e - 1 <= d
        BY <1>1, <3>1, <4>1, <4>2, SourceSizeAssumption DEF Abs, Positions
      <4>4. QED
        BY <4>1, <4>3
    <3>4. QED
      BY <3>2, <3>3
  <2>3. QED
    BY <1>1, <1>3, <2>1, <2>2 DEF NormalDistortionOK
<1>4. QED
  BY <1>1, <1>2, <1>3

\* An extension that translates a word behind a wall leaves nothing open
\* before it.
LEMMA StepWalls ==
  ASSUME NEW b \in Bitmaps, NEW rc, IsConstraint(rc), WallsKept(rc, b),
         NEW r \in PhraseSpans, ~Overlap(b, r), PassesWalls(rc, b, r)
  PROVE  WallsKept(rc, b \cup SpanPositions(r))
<1> DEFINE c == b \cup SpanPositions(r)
<1>1. c \in Bitmaps
  BY SpanInside DEF Bitmaps
<1>2. SUFFICES ASSUME NEW w \in rc.wall, NEW p \in c, p > w
               PROVE  0 .. w \subseteq c
  BY DEF WallsKept
<1>3. w \in Positions /\ p \in Positions
  BY <1>1 DEF Bitmaps, IsConstraint
<1>4. CASE p \in b
  BY <1>2, <1>4 DEF WallsKept
<1>5. CASE p \in SpanPositions(r)
  <2> DEFINE g == GetFirstGapPos(b)
  <2>1. /\ g \in Positions /\ g <= r[1]
        /\ r[1] \in Positions /\ r[2] \in Positions /\ r[1] <= r[2]
        /\ SpanPositions(r) = r[1] .. r[2]
    BY ExtensionFillsGap, SpanInside DEF SpanPositions
  <2>2. \A q \in Positions : q \notin b => g <= q
    BY ExtensionFillsGap, FirstGap
  <2>3. \/ g = r[1]
        \/ (g .. r[2] - 1) \cap rc.wall = {}
    BY DEF PassesWalls
  <2> HIDE DEF g
  <2>4. SUFFICES ASSUME NEW q \in 0 .. w, q \notin b
                 PROVE  q \in SpanPositions(r)
    OBVIOUS
  <2>5. q \in Positions /\ g <= q
    BY <1>3, <2>2, <2>4, SourceSizeAssumption DEF Positions
  <2>6. w <= r[2] - 1 /\ w \in g .. r[2] - 1
    BY <1>2, <1>3, <1>5, <2>1, <2>4, <2>5, SourceSizeAssumption DEF Positions
  <2>7. g = r[1]
    BY <2>3, <2>6
  <2>8. QED
    BY <1>3, <2>1, <2>4, <2>5, <2>6, <2>7, SourceSizeAssumption DEF Positions
<1>6. QED
  BY <1>4, <1>5

------------------------------------------------------------------------------
(****************************************************************************)
(* One extension: the zones.                                                *)
(****************************************************************************)

\* An interval has as many elements as its ends say.
LEMMA IntervalSize ==
  ASSUME NEW a \in Int, NEW c \in Int, a <= c
  PROVE  IsFiniteSet(a .. c) /\ Cardinality(a .. c) = c - a + 1
<1>1. ~(a > c)
  OBVIOUS
<1>2. QED
  BY <1>1, FS_Interval

\* The count Check makes of a phrase that runs over the end of a zone is
\* right: if the words from its start to the end of the zone are as many as
\* the zone has open, they are the open ones.
LEMMA CountFillsZone ==
  ASSUME NEW b \in Bitmaps, NEW z \in Spans, NEW s \in Positions,
         z[1] <= s, s <= z[2], (s .. z[2]) \cap b = {},
         z[2] - s + 1 >= z[2] - z[1] + 1 - Cardinality(InZone(b, z))
  PROVE  SpanPositions(z) \subseteq b \cup (s .. z[2])
<1> DEFINE zone == SpanPositions(z)
           done == InZone(b, z)
           rest == s .. z[2]
<1>1. z[1] \in Int /\ z[2] \in Int /\ s \in Int /\ z[1] <= z[2]
  BY SourceSizeAssumption DEF Spans, Positions
<1>2. IsFiniteSet(zone) /\ Cardinality(zone) = z[2] - z[1] + 1
  <2>1. /\ IsFiniteSet(z[1] .. z[2])
        /\ Cardinality(z[1] .. z[2]) = z[2] - z[1] + 1
    BY <1>1, IntervalSize
  <2>2. QED
    BY <2>1 DEF SpanPositions
<1>3. IsFiniteSet(rest) /\ Cardinality(rest) = z[2] - s + 1
  BY <1>1, IntervalSize
<1>4. done \subseteq zone /\ rest \subseteq zone /\ done \cap rest = {}
  BY <1>1 DEF InZone, SpanPositions
<1>5. IsFiniteSet(done)
  BY <1>2, <1>4, FS_Subset
<1>6. Cardinality(done \cup rest)
        = Cardinality(done) + Cardinality(rest) - Cardinality(done \cap rest)
  BY <1>3, <1>5, FS_Union
<1>7. Cardinality(done \cap rest) = 0
  BY <1>4, FS_EmptySet
<1>8. /\ IsFiniteSet(done \cup rest) /\ Cardinality(done \cup rest) <= Cardinality(zone)
      /\ done \cup rest \subseteq zone
  <2>1. done \cup rest \subseteq zone
    BY <1>4
  <2> HIDE DEF done, rest, zone
  <2>2. IsFiniteSet(done \cup rest) /\ Cardinality(done \cup rest) <= Cardinality(zone)
    BY <1>2, <2>1, FS_Subset
  <2>3. QED
    BY <2>1, <2>2
<1>9. Cardinality(done) \in Nat
  BY <1>5, FS_CardinalityType
<1>10. Cardinality(done \cup rest) = Cardinality(zone)
  <2>1. PICK n \in Int : n = z[2] - z[1] + 1
    BY <1>1
  <2>2. PICK m \in Int : m = z[2] - s + 1
    BY <1>1
  <2>3. m >= n - Cardinality(done)
    BY <1>1, <1>9, <2>1, <2>2
  <2>4. Cardinality(zone) = n /\ Cardinality(rest) = m
    BY <1>2, <1>3, <2>1, <2>2
  <2> HIDE DEF done, rest, zone
  <2>5. Cardinality(done \cup rest) = Cardinality(done) + m
    BY <1>6, <1>7, <1>9, <2>4
  <2>6. Cardinality(done \cup rest) <= n
    BY <1>8, <2>4
  <2>7. Cardinality(done \cup rest) = n
    BY <1>9, <2>3, <2>5, <2>6
  <2>8. QED
    BY <2>4, <2>7
<1>11. done \cup rest = zone
  BY <1>2, <1>8, <1>10, FS_Subset
<1>12. QED
  BY <1>11 DEF InZone

\* A phrase with nothing translated behind it starts at the first gap.
LEMMA MonotoneAtGap ==
  ASSUME NEW b \in Bitmaps, NEW r \in PhraseSpans, ~Overlap(b, r), IsMonotone(b, r)
  PROVE  r[1] = GetFirstGapPos(b)
<1>1. CASE GetFirstGapPos(b) > GetLastPos(b) /\ GetFirstGapPos(b) = r[1]
  BY <1>1
<1>2. CASE GetLastPos(b) = NOT_FOUND /\ r[1] = 0
  <2>1. b = {}
    <3>1. b # {} => GetLastPos(b) \in Positions
      BY LastPos DEF Bitmaps
    <3>2. QED
      BY <1>2, <3>1, SourceSizeAssumption DEF NOT_FOUND, Positions
  <2>2. 0 \in Positions
    BY <1>2, SpanInside
  <2>3. ~IsComplete(b)
    BY ExtensionFillsGap
  <2> DEFINE g == GetFirstGapPos(b)
  <2>4. g \in Positions /\ g <= 0
    BY <2>1, <2>2, <2>3, FirstGap
  <2> HIDE DEF g
  <2>5. g = 0
    BY <2>4, SourceSizeAssumption DEF Positions
  <2>6. QED
    BY <1>2, <2>5 DEF g
<1>3. QED
  BY <1>1, <1>2 DEF IsMonotone

\* What Check asks about one zone.
PassesMonotoneOrZone(rc, b, z, r, d) == IsMonotone(b, r) \/ PassesZone(rc, b, z, r, d)

\* A phrase that touches a zone and ends behind it leaves no word of it open.
LEMMA LeavesZoneFull ==
  ASSUME NEW b \in Bitmaps, NEW rc, NEW d, NEW z \in Spans, NEW r \in PhraseSpans,
         ~Overlap(b, r), PassesMonotoneOrZone(rc, b, z, r, d),
         SpanPositions(r) \cap SpanPositions(z) # {}, r[2] > z[2]
  PROVE  SpanPositions(z) \subseteq b \cup SpanPositions(r)
<1> DEFINE g == GetFirstGapPos(b)
<1>1. /\ z[1] \in Positions /\ z[2] \in Positions /\ z[1] <= z[2]
      /\ SpanPositions(z) = z[1] .. z[2]
  BY DEF Spans, SpanPositions
<1>2. /\ r[1] \in Positions /\ r[2] \in Positions /\ r[1] <= r[2]
      /\ SpanPositions(r) = r[1] .. r[2]
      /\ ~IsComplete(b) /\ g \in Positions /\ g <= r[1]
  BY SpanInside, ExtensionFillsGap DEF SpanPositions
<1>3. \A q \in Positions : q < g => q \in b
  BY <1>2, BeforeFirstGap
<1>4. r[1] <= z[2] /\ z[1] <= r[2]
  BY <1>1, <1>2, SourceSizeAssumption DEF Positions
<1>5. CASE IsMonotone(b, r)
  <2>1. r[1] = g
    BY <1>5, MonotoneAtGap
  <2> HIDE DEF g
  <2>2. QED
    BY <1>1, <1>2, <1>3, <2>1, SourceSizeAssumption DEF Positions
<1>6. CASE PassesZone(rc, b, z, r, d)
  <2>1. CASE g > z[2]
    <3> HIDE DEF g
    <3>1. QED
      BY <1>1, <1>2, <1>3, <2>1, SourceSizeAssumption DEF Positions
  <2>2. CASE InZone(b, z) = SpanPositions(z)
    BY <2>2 DEF InZone
  <2>3. CASE r[2] < z[1] \/ r[1] > z[2]
    BY <1>1, <1>2, <1>4, <2>3, SourceSizeAssumption DEF Positions
  <2>4. CASE PassesInsideZone(rc, b, z, r, d)
    <3>1. CASE r[1] <= z[1]
      BY <1>1, <1>2, <3>1, SourceSizeAssumption DEF Positions
    <3>2. CASE r[1] > z[1]
      <4>1. z[2] - r[1] + 1 >= z[2] - z[1] + 1 - Cardinality(InZone(b, z))
        BY <1>1, <1>2, <2>4, <3>2, SourceSizeAssumption
           DEF PassesInsideZone, Positions
      <4>2. (r[1] .. z[2]) \subseteq SpanPositions(r)
        BY <1>1, <1>2, SourceSizeAssumption DEF Positions
      <4>3. (r[1] .. z[2]) \cap b = {}
        BY <4>2 DEF Overlap
      <4>4. z[1] <= r[1]
        BY <1>1, <1>2, <3>2, SourceSizeAssumption DEF Positions
      <4>5. SpanPositions(z) \subseteq b \cup (r[1] .. z[2])
        BY <1>2, <1>4, <4>1, <4>3, <4>4, CountFillsZone
      <4>6. QED
        BY <4>2, <4>5
    <3>3. QED
      BY <1>1, <1>2, <3>1, <3>2, SourceSizeAssumption DEF Positions
  <2>5. QED
    BY <1>6, <2>1, <2>2, <2>3, <2>4 DEF PassesZone
<1>7. QED
  BY <1>5, <1>6 DEF PassesMonotoneOrZone

\* A phrase that may follow a partly translated zone touches it.
LEMMA StaysInZone ==
  ASSUME NEW b \in Bitmaps, NEW rc, NEW d, NEW z \in Spans, NEW r \in PhraseSpans,
         ~Overlap(b, r), PassesMonotoneOrZone(rc, b, z, r, d), Partly(b, z)
  PROVE  SpanPositions(r) \cap SpanPositions(z) # {}
<1> DEFINE g == GetFirstGapPos(b)
<1>1. /\ z[1] \in Positions /\ z[2] \in Positions /\ z[1] <= z[2]
      /\ SpanPositions(z) = z[1] .. z[2]
  BY DEF Spans, SpanPositions
<1>2. /\ r[1] \in Positions /\ r[2] \in Positions /\ r[1] <= r[2]
      /\ SpanPositions(r) = r[1] .. r[2]
      /\ ~IsComplete(b) /\ g \in Positions /\ g <= r[1]
  BY SpanInside, ExtensionFillsGap DEF SpanPositions
<1>3. g <= z[2]
  <2>1. g > z[2] => SpanPositions(z) \subseteq b
    <3>1. \A q \in Positions : q < g => q \in b
      BY <1>2, BeforeFirstGap
    <3> HIDE DEF g
    <3>2. QED
      BY <1>1, <1>2, <3>1, SourceSizeAssumption DEF Positions
  <2>2. ~(SpanPositions(z) \subseteq b)
    BY DEF Partly, InZone
  <2> HIDE DEF g
  <2>3. QED
    BY <1>1, <1>2, <2>1, <2>2, SourceSizeAssumption DEF Positions
<1>4. PICK p \in b : p \in SpanPositions(z)
  BY DEF Partly, InZone
<1>5. CASE IsMonotone(b, r)
  <2>1. g = r[1]
    BY <1>5, MonotoneAtGap
  <2>2. p < g
    <3>1. GetLastPos(b) \in Positions /\ p <= GetLastPos(b)
      BY <1>4, LastPos DEF Bitmaps
    <3>2. GetLastPos(b) # NOT_FOUND
      BY <3>1, SourceSizeAssumption DEF NOT_FOUND, Positions
    <3>3. g > GetLastPos(b)
      BY <1>5, <3>2 DEF IsMonotone
    <3> HIDE DEF g
    <3>4. QED
      BY <1>1, <1>2, <1>4, <3>1, <3>3, SourceSizeAssumption DEF Positions
  <2> HIDE DEF g
  <2>3. r[1] \in SpanPositions(r) \cap SpanPositions(z)
    BY <1>1, <1>2, <1>3, <1>4, <2>1, <2>2, SourceSizeAssumption DEF Positions
  <2>4. QED
    BY <2>3
<1>6. CASE PassesZone(rc, b, z, r, d)
  <2>1. ~(g > z[2])
    <3> HIDE DEF g
    <3>1. QED
      BY <1>1, <1>2, <1>3, SourceSizeAssumption DEF Positions
  <2>2. ~(r[2] < z[1] \/ r[1] > z[2])
    BY <1>6, <2>1 DEF PassesZone, Partly
  <2>3. r[1] \in SpanPositions(z) \/ z[1] \in SpanPositions(r)
    BY <1>1, <1>2, <2>2, SourceSizeAssumption DEF Positions
  <2>4. QED
    BY <1>1, <1>2, <2>3, SourceSizeAssumption DEF Positions
<1>7. QED
  BY <1>5, <1>6 DEF PassesMonotoneOrZone

\* An extension touches every zone it leaves entered and not finished, and
\* does not run over its end.
LEMMA ZoneAfterStep ==
  ASSUME NEW b \in Bitmaps, NEW rc, NEW d, NEW z \in Spans, NEW r \in PhraseSpans,
         ~Overlap(b, r), PassesMonotoneOrZone(rc, b, z, r, d),
         Partly(b \cup SpanPositions(r), z)
  PROVE  SpanPositions(r) \cap SpanPositions(z) # {} /\ ~(r[2] > z[2])
<1> DEFINE c == b \cup SpanPositions(r)
<1>1. SpanPositions(r) \cap SpanPositions(z) # {}
  <2>1. SUFFICES ASSUME SpanPositions(r) \cap SpanPositions(z) = {} PROVE FALSE
    OBVIOUS
  <2>2. InZone(c, z) = InZone(b, z)
    BY <2>1 DEF InZone
  <2>3. Partly(b, z)
    BY <2>2 DEF Partly
  <2>4. QED
    BY <2>1, <2>3, StaysInZone
<1>2. ~(SpanPositions(z) \subseteq c)
  BY DEF Partly, InZone
<1>3. QED
  BY <1>1, <1>2, LeavesZoneFull

\* An extension leaves no open word before a local wall of a zone with a word
\* of the zone translated behind it.
LEMMA StepLocalWalls ==
  ASSUME NEW b \in Bitmaps, NEW rc, IsConstraint(rc), NEW d, LocalWallsKept(rc, b),
         NEW r \in PhraseSpans, ~Overlap(b, r),
         \A z \in rc.zones : PassesMonotoneOrZone(rc, b, z, r, d)
  PROVE  LocalWallsKept(rc, b \cup SpanPositions(r))
<1> DEFINE c == b \cup SpanPositions(r)
           g == GetFirstGapPos(b)
<1>1. SUFFICES ASSUME NEW z \in rc.zones, NEW w \in rc.localWall, z[1] <= w, w < z[2],
                      NEW p \in c, w < p, p <= z[2]
               PROVE  z[1] .. w \subseteq c
  BY DEF LocalWallsKept
<1>2. /\ w \in Positions /\ z \in Spans /\ z[1] \in Positions /\ z[2] \in Positions
      /\ SpanPositions(z) = z[1] .. z[2]
  BY DEF IsConstraint, Spans, SpanPositions
<1>3. /\ r[1] \in Positions /\ r[2] \in Positions /\ r[1] <= r[2]
      /\ SpanPositions(r) = r[1] .. r[2]
      /\ ~IsComplete(b) /\ g \in Positions /\ g <= r[1]
      /\ p \in Positions
  BY SpanInside, ExtensionFillsGap DEF SpanPositions, Bitmaps
<1>4. CASE p \in b
  BY <1>1, <1>4 DEF LocalWallsKept
<1>5. CASE p \in SpanPositions(r)
  <2>1. p \in SpanPositions(z)
    BY <1>1, <1>2, <1>3, SourceSizeAssumption DEF Positions
  <2>2. CASE r[2] > z[2]
    <3>1. SpanPositions(z) \subseteq c
      BY <1>2, <1>5, <2>1, <2>2, LeavesZoneFull
    <3>2. z[1] .. w \subseteq SpanPositions(z)
      BY <1>1, <1>2, SourceSizeAssumption DEF Positions
    <3>3. QED
      BY <3>1, <3>2
  <2>3. CASE r[1] <= z[1]
    BY <1>1, <1>2, <1>3, <1>5, <2>3, SourceSizeAssumption DEF Positions
  <2>4. CASE r[2] <= z[2] /\ r[1] > z[1]
    <3>1. SUFFICES ASSUME NEW q \in z[1] .. w, q \notin b PROVE q \in SpanPositions(r)
      OBVIOUS
    <3>2. q \in Positions /\ w < r[2] /\ q <= w
      BY <1>1, <1>2, <1>3, <1>5, <3>1, SourceSizeAssumption DEF Positions
    <3>3. ~(q < g)
      BY <1>3, <3>1, <3>2, BeforeFirstGap
    <3>4. ~(q < r[1])
      <4>1. CASE IsMonotone(b, r)
        BY <3>3, <4>1, MonotoneAtGap
      <4>2. CASE PassesZone(rc, b, z, r, d)
        <5>1. ~(g > z[2])
          <6> HIDE DEF g
          <6>1. QED
            BY <1>1, <1>2, <1>3, <3>2, <3>3, SourceSizeAssumption DEF Positions
        <5>2. InZone(b, z) # SpanPositions(z)
          BY <1>1, <1>2, <3>1, <3>2, SourceSizeAssumption DEF InZone, Positions
        <5>3. ~(r[2] < z[1] \/ r[1] > z[2])
          BY <1>1, <1>2, <1>3, <1>5, <2>1, <2>4, SourceSizeAssumption DEF Positions
        <5>4. PassesInsideZone(rc, b, z, r, d)
          BY <4>2, <5>1, <5>2, <5>3 DEF PassesZone
        <5>5. PassesLocalWalls(rc, b, z, r)
          BY <1>2, <1>3, <2>4, <5>4, SourceSizeAssumption
             DEF PassesInsideZone, Positions
        <5>6. ~GapBeforePhrase(b, z, r, w)
          BY <1>1, <3>2, <5>5 DEF PassesLocalWalls
        <5>7. QED
          BY <3>1, <5>6 DEF GapBeforePhrase
      <4>3. QED
        BY <1>1, <4>1, <4>2 DEF PassesMonotoneOrZone
    <3>5. QED
      BY <1>2, <1>3, <3>2, <3>4, SourceSizeAssumption DEF Positions
  <2>5. QED
    BY <1>2, <1>3, <2>2, <2>3, <2>4, SourceSizeAssumption DEF Positions
<1>6. QED
  BY <1>4, <1>5

\* What is said of the zones that are entered stays true.
LEMMA StepZones ==
  ASSUME NEW b \in Bitmaps, NEW prev, NEW rc, IsConstraint(rc), NEW d, IsLimit(d),
         ZonesEntered(rc, b, prev, d), NEW r \in PhraseSpans, ~Overlap(b, r),
         \A z \in rc.zones : PassesMonotoneOrZone(rc, b, z, r, d)
  PROVE  ZonesEntered(rc, b \cup SpanPositions(r), r, d)
<1> DEFINE c == b \cup SpanPositions(r)
           g == GetFirstGapPos(b)
           h == GetFirstGapPos(c)
<1>1. \A z \in rc.zones :
        /\ z \in Spans /\ z[1] \in Positions /\ z[2] \in Positions
        /\ SpanPositions(z) = z[1] .. z[2]
  BY DEF IsConstraint, Spans, SpanPositions
<1>2. /\ r[1] \in Positions /\ r[2] \in Positions /\ r[1] <= r[2]
      /\ SpanPositions(r) = r[1] .. r[2]
  BY SpanInside DEF SpanPositions
<1>3. ASSUME NEW z \in rc.zones, Partly(c, z)
      PROVE  SpanPositions(r) \cap SpanPositions(z) # {} /\ ~(r[2] > z[2])
  BY <1>1, <1>3, ZoneAfterStep
<1>4. ASSUME NEW y \in rc.zones, NEW z \in rc.zones, Partly(c, y), Partly(c, z)
      PROVE  ~(y[2] < z[1])
  <2>1. PICK p \in SpanPositions(r) : p \in SpanPositions(z)
    BY <1>3, <1>4
  <2>2. ~(r[2] > y[2])
    BY <1>3, <1>4
  <2>3. QED
    BY <1>1, <1>2, <2>1, <2>2, SourceSizeAssumption DEF Positions
<1>5. ASSUME NEW z \in rc.zones, Partly(c, z), d >= 0, NEW p \in InZone(c, z), p > h
      PROVE  z[2] - h < d
  <2>1. /\ z[1] \in Positions /\ z[2] \in Positions /\ z \in Spans
        /\ SpanPositions(z) = z[1] .. z[2]
    BY <1>1
  <2>2. p \in c /\ p \in Positions /\ z[1] <= p /\ p <= z[2]
    BY <2>1, SourceSizeAssumption DEF InZone, Positions
  <2>3. ~IsComplete(c)
    <3>1. PICK q \in SpanPositions(z) : q \notin c
      BY <1>5 DEF Partly, InZone
    <3>2. q \in Positions
      BY <2>1, <3>1, SourceSizeAssumption DEF Positions
    <3>3. QED
      BY <3>1, <3>2 DEF IsComplete, Gaps
  <2>4. /\ h \in Positions /\ g <= h /\ (r[1] = g => h > r[2]) /\ (r[1] # g => h = g)
    BY <2>3, GapMoves
  <2>5. g \in Positions
    BY ExtensionFillsGap
  <2>6. d \in Int
    BY DEF IsLimit
  <2>7. CASE r[1] = g
    <3>1. p \in b
      <4>1. p \notin SpanPositions(r)
        <5> HIDE DEF h
        <5>1. QED
          BY <1>2, <1>5, <2>2, <2>4, <2>7, SourceSizeAssumption DEF Positions
      <4>2. QED
        BY <2>2, <4>1
    <3>2. p > g
      <4> HIDE DEF g, h
      <4>1. QED
        BY <1>5, <2>2, <2>4, <2>5, SourceSizeAssumption DEF Positions
    <3>3. Partly(b, z) /\ p \in InZone(b, z)
      <4>1. p \in InZone(b, z)
        BY <3>1 DEF InZone
      <4>2. InZone(b, z) # SpanPositions(z)
        BY <1>5 DEF Partly, InZone
      <4>3. QED
        BY <4>1, <4>2 DEF Partly
    <3>4. z[2] - g < d
      BY <1>5, <3>2, <3>3 DEF ZonesEntered
    <3> HIDE DEF g, h
    <3>5. z[2] - h < d
      BY <2>1, <2>4, <2>5, <2>6, <3>4, SourceSizeAssumption DEF Positions
    <3>6. QED
      BY <3>5
  <2>8. CASE r[1] # g
    <3>1. ~IsMonotone(b, r)
      BY <2>8, MonotoneAtGap
    <3>2. PassesZone(rc, b, z, r, d)
      BY <3>1 DEF PassesMonotoneOrZone
    <3>3. ~(g > z[2])
      <4> HIDE DEF g, h
      <4>1. QED
        BY <1>5, <2>1, <2>2, <2>4, <2>5, <2>8, SourceSizeAssumption DEF Positions
    <3>4. InZone(b, z) # SpanPositions(z)
      BY <1>5 DEF Partly, InZone
    <3>5. ~(r[2] < z[1] \/ r[1] > z[2])
      <4>1. PICK q \in SpanPositions(r) : q \in SpanPositions(z)
        BY <1>3, <1>5
      <4>2. QED
        BY <1>2, <2>1, <4>1, SourceSizeAssumption DEF Positions
    <3>6. PassesInsideZone(rc, b, z, r, d)
      BY <3>2, <3>3, <3>4, <3>5 DEF PassesZone
    <3>7. z[2] - g < d
      BY <1>5, <2>6, <2>8, <3>6 DEF PassesInsideZone
    <3>8. QED
      BY <2>4, <2>8, <3>7
  <2>9. QED
    BY <2>7, <2>8
<1>6. QED
  BY <1>3, <1>4, <1>5 DEF ZonesEntered

------------------------------------------------------------------------------
(****************************************************************************)
(* The seed is on a path, every extension stays on one, and no path is a    *)
(* dead end.                                                                *)
(****************************************************************************)

LEMMA PathSeed ==
  ASSUME NEW rc, NEW d
  PROVE  OnPath(rc, {}, NoSpan, d)
<1>1. Typed({}, NoSpan) /\ Window({}, d) /\ LastSpanNear({}, NoSpan, d)
  BY DEF Typed, Bitmaps, Window, LastSpanNear
<1>2. WallsKept(rc, {}) /\ LocalWallsKept(rc, {})
  BY DEF WallsKept, LocalWallsKept
<1>3. ZonesEntered(rc, {}, NoSpan, d)
  BY DEF ZonesEntered, Partly, InZone
<1>4. QED
  BY <1>1, <1>2, <1>3 DEF OnPath

LEMMA PathStep ==
  ASSUME NEW rc, IsConstraint(rc), NEW d, IsLimit(d), NEW b, NEW prev,
         OnPath(rc, b, prev, d), NEW r, Extends(rc, b, prev, r, d)
  PROVE  OnPath(rc, b \cup SpanPositions(r), r, d)
<1> DEFINE c == b \cup SpanPositions(r)
<1>1. /\ Typed(b, prev) /\ b \in Bitmaps /\ r \in PhraseSpans /\ ~Overlap(b, r)
      /\ PassesWalls(rc, b, r) /\ NormalDistortionOK(b, prev, r, d)
      /\ \A z \in rc.zones : PassesMonotoneOrZone(rc, b, z, r, d)
  BY DEF OnPath, Typed, Extends, Check, PassesMonotoneOrZone
<1>2. Typed(c, r)
  BY <1>1, StepTyped
<1>3. Window(c, d)
  BY <1>1, StepWindow DEF OnPath
<1>4. LastSpanNear(c, r, d)
  BY <1>1, StepLastSpan DEF OnPath
<1>5. WallsKept(rc, c)
  BY <1>1, StepWalls DEF OnPath
<1>6. LocalWallsKept(rc, c)
  BY <1>1, StepLocalWalls DEF OnPath
<1>7. ZonesEntered(rc, c, r, d)
  BY <1>1, StepZones DEF OnPath
<1>8. QED
  BY <1>2, <1>3, <1>4, <1>5, <1>6, <1>7 DEF OnPath

\* A zone that was jumped into: entered, and the first gap lies before it.
Pending(b, z) == Partly(b, z) /\ GetFirstGapPos(b) < z[1]

\* A single word is a phrase.
LEMMA WordIsPhrase ==
  ASSUME NEW p \in Positions
  PROVE  <<p, p>> \in PhraseSpans /\ SpanPositions(<<p, p>>) = {p}
<1>1. <<p, p>> \in Spans
  BY SourceSizeAssumption DEF Spans, Positions
<1>2. p - p < MaxPhraseLength
  BY SourceSizeAssumption, MaxPhraseLengthAssumption DEF Positions
<1>3. p .. p = {p}
  BY SourceSizeAssumption DEF Positions
<1>4. QED
  BY <1>1, <1>2, <1>3 DEF PhraseSpans, SpanPositions

\* With no such zone, the first gap may be translated.
LEMMA GapMayFollow ==
  ASSUME NEW rc, IsConstraint(rc), NEW d, IsLimit(d), NEW b, NEW prev,
         OnPath(rc, b, prev, d), ~IsComplete(b),
         \A z \in rc.zones : ~Pending(b, z)
  PROVE  LET g == GetFirstGapPos(b) IN Extends(rc, b, prev, <<g, g>>, d)
<1> DEFINE g == GetFirstGapPos(b)
           r == <<g, g>>
<1>1. b \in Bitmaps
  BY DEF OnPath, Typed
<1>2. g \in Positions /\ g \notin b /\ \A q \in Positions : q < g => q \in b
  BY <1>1, FirstGap, BeforeFirstGap
<1>3. r \in PhraseSpans /\ SpanPositions(r) = {g} /\ r[1] = g /\ r[2] = g
  BY <1>2, WordIsPhrase
<1>4. ~Overlap(b, r)
  BY <1>2, <1>3 DEF Overlap
<1>5. PassesWalls(rc, b, r)
  BY DEF PassesWalls
<1>6. ASSUME NEW z \in rc.zones PROVE PassesZone(rc, b, z, r, d)
  <2>1. /\ z[1] \in Positions /\ z[2] \in Positions /\ z[1] <= z[2]
        /\ SpanPositions(z) = z[1] .. z[2]
    BY DEF IsConstraint, Spans, SpanPositions
  <2>2. CASE g > z[2]
    BY <2>2 DEF PassesZone
  <2>3. CASE InZone(b, z) = SpanPositions(z)
    BY <2>3 DEF PassesZone
  <2>4. CASE g < z[1] /\ InZone(b, z) # SpanPositions(z)
    <3>1. InZone(b, z) = {}
      BY <2>4 DEF Pending, Partly
    <3>2. QED
      BY <1>3, <2>4, <3>1 DEF PassesZone
  <2>5. CASE z[1] <= g /\ g <= z[2]
    <3>1. ~(r[2] < z[1] \/ r[1] > z[2])
      <4> HIDE DEF g
      <4>1. QED
        BY <1>2, <1>3, <2>1, <2>5, SourceSizeAssumption DEF Positions
    <3>2. \A pos : ~GapBeforePhrase(b, z, r, pos) \/ ~(pos \in Positions)
      <4>1. SUFFICES ASSUME NEW pos \in Positions, NEW q \in z[1] .. pos,
                            q \notin b, q < r[1]
                     PROVE  FALSE
        BY DEF GapBeforePhrase
      <4>2. q \in Positions
        BY <2>1, <4>1, SourceSizeAssumption DEF Positions
      <4>3. QED
        BY <1>2, <1>3, <4>1, <4>2
    <3>3. PassesLocalWalls(rc, b, z, r)
      BY <3>2 DEF PassesLocalWalls, IsConstraint
    <3>4. PassesInsideZone(rc, b, z, r, d)
      BY <1>3, <2>5, <3>3 DEF PassesInsideZone
    <3>5. QED
      BY <3>1, <3>4 DEF PassesZone
  <2>6. QED
    <3> HIDE DEF g
    <3>1. QED
      BY <1>2, <2>1, <2>2, <2>3, <2>4, <2>5, SourceSizeAssumption DEF Positions
<1>7. NormalDistortionOK(b, prev, r, d)
  <2>1. CASE d < 0
    BY <2>1 DEF NormalDistortionOK
  <2>2. CASE b = {}
    <3>1. 0 \in Positions
      BY <1>2, SourceSizeAssumption DEF Positions
    <3>2. g = 0
      <4>1. g <= 0
        BY <1>1, <2>2, <3>1, FirstGap
      <4> HIDE DEF g
      <4>2. QED
        BY <1>2, <4>1, SourceSizeAssumption DEF Positions
    <3>3. QED
      BY <1>3, <3>2 DEF NormalDistortionOK
  <2>3. CASE b # {} /\ ~(d < 0)
    <3>1. d \in Int /\ d >= 0
      BY <2>3 DEF IsLimit
    <3>2. g - prev[2] - 1 <= d
      BY <2>3, <3>1 DEF OnPath, LastSpanNear
    <3>3. ToInt(prev[2]) = prev[2]
      BY <2>3, LastSpanInside DEF OnPath
    <3>4. QED
      BY <1>3, <3>2, <3>3 DEF NormalDistortionOK
  <2>4. QED
    BY <2>1, <2>2, <2>3
<1>8. QED
  BY <1>3, <1>4, <1>5, <1>6, <1>7 DEF Extends, Check

\* Of the zones that were jumped into, one is shortest.
LEMMA ShortestPending ==
  ASSUME NEW rc, IsConstraint(rc), NEW b, \E z \in rc.zones : Pending(b, z)
  PROVE  \E m \in rc.zones :
           /\ Pending(b, m)
           /\ \A z \in rc.zones : Pending(b, z) => m[2] - m[1] <= z[2] - z[1]
<1> DEFINE P == {z \in rc.zones : Pending(b, z)}
           T == {z[2] - z[1] : z \in P}
<1>1. \A z \in P : z[2] - z[1] \in Nat
  BY SourceSizeAssumption DEF IsConstraint, Spans, Positions
<1>2. T \subseteq Nat /\ T # {}
  BY <1>1
<1> HIDE DEF T
<1>3. PICK t \in T : \A y \in T : t <= y
  BY <1>2, LeastNatural
<1>4. PICK m \in P : t = m[2] - m[1]
  BY <1>3 DEF T
<1>5. \A z \in P : m[2] - m[1] <= z[2] - z[1]
  BY <1>3, <1>4 DEF T
<1>6. QED
  BY <1>4, <1>5

\* In a zone that was entered and is not finished, one open word is first.
LEMMA FirstOpenInZone ==
  ASSUME NEW b, NEW z \in Spans, Partly(b, z)
  PROVE  \E p \in SpanPositions(z) :
           p \notin b /\ \A q \in SpanPositions(z) : q < p => q \in b
<1> DEFINE T == SpanPositions(z) \ b
<1>1. SpanPositions(z) \subseteq Nat
  BY SourceSizeAssumption DEF Spans, SpanPositions, Positions
<1>2. T \subseteq Nat /\ T # {}
  BY <1>1 DEF Partly, InZone
<1> HIDE DEF T
<1>3. PICK p \in T : \A q \in T : p <= q
  BY <1>2, LeastNatural
<1>4. p \in SpanPositions(z) /\ p \notin b
  BY <1>3 DEF T
<1>5. ASSUME NEW q \in SpanPositions(z), q < p PROVE q \in b
  <2>1. q \notin b => p <= q
    BY <1>3 DEF T
  <2>2. QED
    BY <1>1, <1>4, <1>5, <2>1
<1>6. QED
  BY <1>4, <1>5

\* The first open word of the shortest zone that was jumped into may be
\* translated: it stays in every zone that is entered, and enters none but at
\* its first word.
LEMMA ZoneMayFollow ==
  ASSUME NEW rc, IsConstraint(rc), Consistent(rc),
         NEW d, IsLimit(d), NEW b, NEW prev,
         OnPath(rc, b, prev, d), ~IsComplete(b),
         NEW m \in rc.zones, Pending(b, m),
         \A z \in rc.zones : Pending(b, z) => m[2] - m[1] <= z[2] - z[1]
  PROVE  \E p \in Positions :
           p >= GetFirstGapPos(b) /\ Extends(rc, b, prev, <<p, p>>, d)
<1> DEFINE g == GetFirstGapPos(b)
<1>1. b \in Bitmaps
  BY DEF OnPath, Typed
<1>2. g \in Positions /\ g \notin b
  BY <1>1, FirstGap
<1>3. \A z \in rc.zones :
        /\ z \in Spans /\ z[1] \in Positions /\ z[2] \in Positions /\ z[1] <= z[2]
        /\ SpanPositions(z) = z[1] .. z[2]
  BY DEF IsConstraint, Spans, SpanPositions
<1>4. Partly(b, m) /\ g < m[1]
  BY DEF Pending
<1>5. PICK p \in SpanPositions(m) :
        p \notin b /\ \A q \in SpanPositions(m) : q < p => q \in b
  BY <1>3, <1>4, FirstOpenInZone
<1>6. PICK x \in b : x \in SpanPositions(m)
  BY <1>4 DEF Partly, InZone
<1> DEFINE r == <<p, p>>
<1>7. /\ p \in Positions /\ m[1] <= p /\ p <= m[2] /\ g < p
      /\ x \in Positions /\ m[1] <= x /\ x <= m[2] /\ g < x
  <2> HIDE DEF g
  <2>1. QED
    BY <1>2, <1>3, <1>4, <1>5, <1>6, SourceSizeAssumption DEF Positions
<1>8. r \in PhraseSpans /\ SpanPositions(r) = {p} /\ r[1] = p /\ r[2] = p
  BY <1>7, WordIsPhrase
<1>9. ~Overlap(b, r)
  BY <1>5, <1>8 DEF Overlap
<1>10. d >= 0 => m[2] - g < d
  BY <1>4, <1>6, <1>7 DEF OnPath, ZonesEntered, InZone
<1>11. PassesWalls(rc, b, r)
  <2>1. SUFFICES ASSUME NEW w \in rc.wall, w \in g .. p - 1
                 PROVE  FALSE
    BY <1>8 DEF PassesWalls
  <2>2. w \in Positions
    BY DEF IsConstraint
  <2>3. CASE w < m[1]
    <3>1. x > w /\ g \in 0 .. w
      <4> HIDE DEF g
      <4>1. QED
        BY <1>2, <1>3, <1>7, <2>1, <2>2, <2>3, SourceSizeAssumption DEF Positions
    <3>2. 0 .. w \subseteq b
      BY <3>1 DEF OnPath, WallsKept
    <3>3. QED
      BY <1>2, <3>1, <3>2
  <2>4. CASE w >= m[1]
    <3>1. m[1] <= w /\ w < m[2]
      <4> HIDE DEF g
      <4>1. QED
        BY <1>2, <1>3, <1>7, <2>1, <2>2, <2>4, SourceSizeAssumption DEF Positions
    <3>2. QED
      BY <3>1 DEF IsConstraint
  <2>5. QED
    BY <1>3, <2>2, <2>3, <2>4, SourceSizeAssumption DEF Positions
<1>12. ASSUME NEW y \in rc.zones PROVE PassesZone(rc, b, y, r, d)
  <2>1. /\ y[1] \in Positions /\ y[2] \in Positions /\ y[1] <= y[2]
        /\ SpanPositions(y) = y[1] .. y[2]
    BY <1>3
  <2>2. /\ m[1] \in Positions /\ m[2] \in Positions /\ m[1] <= m[2]
        /\ SpanPositions(m) = m[1] .. m[2]
    BY <1>3
  <2>3. CASE g > y[2]
    BY <2>3 DEF PassesZone
  <2>4. CASE InZone(b, y) = SpanPositions(y)
    BY <2>4 DEF PassesZone
  <2>5. CASE InZone(b, y) = {} /\ (r[2] < y[1] \/ r[1] > y[2])
    BY <2>5 DEF PassesZone
  <2>6. CASE InZone(b, y) = {} /\ ~(r[2] < y[1] \/ r[1] > y[2])
    <3>1. y[1] <= p /\ p <= y[2]
      BY <1>7, <1>8, <2>1, <2>6, SourceSizeAssumption DEF Positions
    <3>2. ~(x \in SpanPositions(y))
      BY <2>6 DEF InZone
    <3>3. m[1] <= y[1] /\ y[2] <= m[2]
      <4>1. \/ y[1] <= m[1] /\ m[2] <= y[2]
            \/ m[1] <= y[1] /\ y[2] <= m[2]
            \/ y[2] < m[1]
            \/ m[2] < y[1]
        BY DEF Consistent, ZonesNest
      <4>2. QED
        BY <1>7, <2>1, <2>2, <3>1, <3>2, <4>1, SourceSizeAssumption DEF Positions
    <3>4. p <= y[1]
      <4>1. y[1] \in SpanPositions(m) /\ y[1] \in SpanPositions(y)
        BY <2>1, <2>2, <3>3, SourceSizeAssumption DEF Positions
      <4>2. y[1] \notin b
        BY <2>6, <4>1 DEF InZone
      <4>3. ~(y[1] < p)
        BY <1>5, <4>1, <4>2
      <4>4. QED
        BY <1>7, <2>1, <4>3, SourceSizeAssumption DEF Positions
    <3>5. d < 0 \/ y[2] - g < d
      <4>1. d \in Int
        BY DEF IsLimit
      <4> HIDE DEF g
      <4>2. QED
        BY <1>2, <1>10, <2>1, <2>2, <3>3, <4>1, SourceSizeAssumption
           DEF Positions, g
    <3>6. PassesInsideZone(rc, b, y, r, d)
      BY <1>8, <3>4, <3>5 DEF PassesInsideZone
    <3>7. QED
      BY <2>6, <3>6 DEF PassesZone
  <2>7. CASE Partly(b, y) /\ ~(g > y[2])
    <3>1. y[1] <= m[1] /\ m[2] <= y[2]
      <4>1. ~(y[2] < m[1]) /\ ~(m[2] < y[1])
        BY <1>4, <2>7 DEF OnPath, ZonesEntered
      <4>2. CASE m[1] <= y[1] /\ y[2] <= m[2]
        <5>1. g < y[1]
          <6> HIDE DEF g
          <6>1. QED
            BY <1>2, <1>4, <2>1, <2>2, <4>2, SourceSizeAssumption DEF Positions
        <5>2. m[2] - m[1] <= y[2] - y[1]
          BY <2>7, <5>1 DEF Pending
        <5>3. QED
          BY <2>1, <2>2, <4>2, <5>2, SourceSizeAssumption DEF Positions
      <4>3. QED
        BY <4>1, <4>2 DEF Consistent, ZonesNest
    <3>2. /\ y[1] <= p /\ p <= y[2] /\ x \in SpanPositions(y)
      BY <1>7, <2>1, <2>2, <3>1, SourceSizeAssumption DEF Positions
    <3>3. d < 0 \/ y[2] - g < d
      <4>1. x \in InZone(b, y)
        BY <3>2 DEF InZone
      <4>2. d >= 0 => y[2] - g < d
        BY <1>7, <2>7, <4>1 DEF OnPath, ZonesEntered
      <4>3. d \in Int
        BY DEF IsLimit
      <4>4. QED
        BY <4>2, <4>3
    <3>4. PassesLocalWalls(rc, b, y, r)
      <4>1. SUFFICES ASSUME NEW pos \in rc.localWall, y[1] <= pos, pos < y[2], pos < p,
                            NEW q \in y[1] .. pos, q \notin b, q < p
                     PROVE  FALSE
        BY <1>8 DEF PassesLocalWalls, GapBeforePhrase
      <4>2. pos \in Positions /\ q \in Positions
        BY <2>1, <4>1, SourceSizeAssumption DEF IsConstraint, Positions
      <4>3. CASE x > pos
        <5>1. x <= y[2]
          BY <2>1, <3>2, SourceSizeAssumption DEF Positions
        <5>2. y[1] .. pos \subseteq b
          BY <4>1, <4>3, <5>1 DEF OnPath, LocalWallsKept
        <5>3. QED
          BY <4>1, <5>2
      <4>4. CASE ~(x > pos)
        <5>1. pos \in m[1] .. m[2] - 1 /\ pos \in y[1] .. y[2] - 1
          BY <1>7, <2>1, <2>2, <4>1, <4>2, <4>4, SourceSizeAssumption DEF Positions
        <5>2. y = m
          BY <4>1, <5>1 DEF Consistent, LocalWallsApart
        <5>3. q \in SpanPositions(m)
          BY <1>7, <2>2, <4>1, <4>2, <5>2, SourceSizeAssumption DEF Positions
        <5>4. QED
          BY <1>5, <4>1, <5>3
      <4>5. QED
        BY <4>3, <4>4
    <3>5. ~(r[2] < y[1] \/ r[1] > y[2])
      BY <1>7, <1>8, <2>1, <3>2, SourceSizeAssumption DEF Positions
    <3>6. PassesInsideZone(rc, b, y, r, d)
      BY <1>8, <3>2, <3>3, <3>4 DEF PassesInsideZone
    <3>7. QED
      BY <3>5, <3>6 DEF PassesZone
  <2>8. QED
    BY <2>3, <2>4, <2>5, <2>6, <2>7 DEF Partly
<1>13. NormalDistortionOK(b, prev, r, d)
  <2>1. CASE d < 0
    BY <2>1 DEF NormalDistortionOK
  <2>2. CASE ~(d < 0)
    <3>1. d \in Int /\ d >= 0 /\ m[2] - g < d
      BY <1>10, <2>2 DEF IsLimit
    <3>2. /\ prev \in PhraseSpans /\ prev[2] \in Positions
          /\ ToInt(prev[2]) = prev[2]
      BY <1>6, LastSpanInside DEF OnPath
    <3>3. SpanPositions(prev) \cap SpanPositions(m) # {}
      BY <1>4 DEF OnPath, ZonesEntered
    <3>4. SpanPositions(prev) = prev[1] .. prev[2] /\ prev[1] \in Positions
      BY <3>2, SpanInside DEF SpanPositions
    <3>5. prev[2] >= m[1]
      BY <1>3, <3>2, <3>3, <3>4, SourceSizeAssumption DEF Positions
    <3>6. RequiredDistortion(b, r) = p + 1 - g
      BY <1>1, <1>8, <1>9, RequiredDistortionBound
    <3> HIDE DEF g
    <3>7. p - prev[2] - 1 <= d /\ p + 1 - g <= d
      <4>1. g \in Int /\ p \in Int /\ prev[2] \in Int /\ m[1] \in Int /\ m[2] \in Int
        BY <1>2, <1>3, <1>7, <3>2, SourceSizeAssumption DEF Positions
      <4>2. p <= m[2] /\ g < m[1] /\ m[1] <= prev[2] /\ m[2] - g < d
        BY <1>4, <1>7, <3>1, <3>5, <4>1
      <4>3. QED
        BY <3>1, <4>1, <4>2
    <3>8. QED
      BY <1>8, <3>2, <3>6, <3>7 DEF NormalDistortionOK
  <2>3. QED
    BY <2>1, <2>2
<1>14. Extends(rc, b, prev, r, d)
  BY <1>8, <1>9, <1>11, <1>12, <1>13 DEF Extends, Check
<1>15. p >= g
  <2> HIDE DEF g
  <2>1. QED
    BY <1>2, <1>7, SourceSizeAssumption DEF Positions
<1>16. QED
  BY <1>7, <1>14, <1>15

\* No dead end: whatever was translated, some single word may come next.
LEMMA NotStuck ==
  ASSUME NEW rc, IsConstraint(rc), Consistent(rc),
         NEW d, IsLimit(d), NEW b, NEW prev,
         OnPath(rc, b, prev, d), ~IsComplete(b)
  PROVE  \E p \in Positions :
           p >= GetFirstGapPos(b) /\ Extends(rc, b, prev, <<p, p>>, d)
<1>1. CASE \A z \in rc.zones : ~Pending(b, z)
  <2> DEFINE g == GetFirstGapPos(b)
  <2>1. Extends(rc, b, prev, <<g, g>>, d)
    BY <1>1, GapMayFollow
  <2>2. g \in Positions
    BY FirstGap DEF OnPath, Typed
  <2>3. g >= g
    <3> HIDE DEF g
    <3>1. QED
      BY <2>2, SourceSizeAssumption DEF Positions
  <2>4. QED
    BY <2>1, <2>2, <2>3
<1>2. CASE \E z \in rc.zones : Pending(b, z)
  <2>1. PICK m \in rc.zones :
          /\ Pending(b, m)
          /\ \A z \in rc.zones : Pending(b, z) => m[2] - m[1] <= z[2] - z[1]
    BY <1>2, ShortestPending
  <2>2. QED
    BY <2>1, ZoneMayFollow
<1>3. QED
  BY <1>1, <1>2
===============================================================================
