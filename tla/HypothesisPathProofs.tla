------------------------- MODULE HypothesisPathProofs -------------------------
(****************************************************************************)
(* What holds of every derivation for every sentence length, phrase length, *)
(* distortion limit, set of options, walls and zones.                       *)
(*                                                                          *)
(* The inductive invariant is IInv: the types, that the constraint is one   *)
(* FinalizeWalls can leave, and OnPath of ExpansionProofs, which says how   *)
(* the bitmap and the last span lie to the gap, the walls and the zones.    *)
(****************************************************************************)
EXTENDS HypothesisPath, ExpansionProofs

IInv == TypeOK /\ IsConstraint(rc) /\ OnPath(rc, bitmap, currRange, maxDistortion)

------------------------------------------------------------------------------
(****************************************************************************)
(* The inductive invariant.                                                 *)
(****************************************************************************)

\* What Sentence::Read builds is a constraint: FinalizeWalls takes every wall
\* that lies inside a zone out of the walls.
LEMMA ConstraintRead ==
  ASSUME Init
  PROVE  /\ IsConstraint(rc)
         /\ rc \in [wall : SUBSET Positions, localWall : SUBSET Positions,
                    zones : ZoneSets]
<1>1. ASSUME NEW P, P \subseteq Positions
      PROVE  PunctuationWalls(P) \subseteq Positions
  <2>1. \A i \in {j \in P : j > 1} : i - 1 \in Positions
    BY <1>1, SourceSizeAssumption DEF Positions
  <2>2. {i - 1 : i \in {j \in P : j > 1}} \subseteq Positions
    BY <2>1
  <2>3. QED
    BY <1>1, <2>2 DEF PunctuationWalls
<1>2. PICK xmlWalls \in WallSets, zones \in ZoneSets :
        rc = ReadConstraint(TRUE, punct, xmlWalls, zones)
  BY DEF Init, SentenceInit
<1>3. punct \subseteq Positions /\ xmlWalls \subseteq Positions /\ zones \subseteq Spans
  BY InputAssumption DEF Init, SentenceInit
<1> DEFINE all == PunctuationWalls(punct) \cup xmlWalls
           inZone == {p \in all : \E z \in zones : z[1] <= p /\ p < z[2]}
<1>4. all \subseteq Positions
  BY <1>1, <1>3
<1>5. rc = [wall |-> all \ inZone, localWall |-> inZone, zones |-> zones]
  BY <1>2 DEF ReadConstraint, FinalizeWalls
<1>6. \A w \in all \ inZone, z \in zones : ~(z[1] <= w /\ w < z[2])
  OBVIOUS
<1> HIDE DEF all
<1>7. inZone \subseteq all
  OBVIOUS
<1> HIDE DEF inZone
<1>8. QED
  BY <1>3, <1>4, <1>5, <1>6, <1>7 DEF IsConstraint

LEMMA InitIInv == Init => IInv
<1> SUFFICES ASSUME Init PROVE IInv
  OBVIOUS
<1>1. OnPath(rc, bitmap, currRange, maxDistortion)
  BY PathSeed DEF Init, SeedInit
<1>2. QED
  BY <1>1, ConstraintRead DEF Init, SentenceInit, SeedInit, TypeOK, Bitmaps, IInv

\* The limit of every sentence is a number, or -1 for none.
LEMMA LimitTyped == TypeOK => IsLimit(maxDistortion)
BY DistortionLimitsAssumption DEF TypeOK, IsLimit

\* A span the loops let through extends the derivation.
LEMMA AllowedExtends ==
  ASSUME NEW r \in PhraseSpans,
         NormalMayExtend(rc, bitmap, currRange, r, options, maxDistortion)
  PROVE  Extends(rc, bitmap, currRange, r, maxDistortion)
BY DEF NormalMayExtend, Extends

\* A step keeps the invariant.
LEMMA StepIInv == IInv /\ [Next]_vars => IInv'
<1>1. ASSUME IInv, NEW r \in PhraseSpans, Extend(r) PROVE IInv'
  <2>1. /\ bitmap' = bitmap \cup SpanPositions(r) /\ currRange' = r
        /\ UNCHANGED <<maxDistortion, options, punct, rc>>
        /\ Extends(rc, bitmap, currRange, r, maxDistortion)
    BY <1>1, AllowedExtends DEF Extend, sentence
  <2>2. OnPath(rc, bitmap', r, maxDistortion)
    BY <1>1, <2>1, PathStep, LimitTyped DEF IInv
  <2>3. bitmap' \in Bitmaps /\ bitmap' # {} /\ r # NoSpan
    BY <1>1, <2>1, StepTyped, SpanInside DEF IInv, OnPath
  <2>4. TypeOK'
    BY <1>1, <2>1, <2>3 DEF IInv, TypeOK
  <2>5. QED
    BY <1>1, <2>1, <2>2, <2>4 DEF IInv
<1>2. ASSUME IInv, UNCHANGED vars PROVE IInv'
  BY <1>2 DEF vars, IInv, TypeOK
<1>3. QED
  BY <1>1, <1>2 DEF Next

LEMMA Invariant == Spec => []IInv
BY InitIInv, StepIInv, PTL DEF Spec

------------------------------------------------------------------------------
(****************************************************************************)
(* Types, the window and the ids.                                           *)
(****************************************************************************)

\* The types hold of every hypothesis of every sentence (the chain of
\* Hypothesis::CreateNext calls).
THEOREM TypeCorrect == Spec => []TypeOK
<1>1. IInv => TypeOK
  BY DEF IInv
<1>2. QED
  BY <1>1, Invariant, PTL

\* The window of ProcessOneHypothesis: with a limit, the open words and the
\* translated words never overlap by more than the limit.
THEOREM OpenWindow == Spec => []GapWindow
<1>1. IInv => GapWindow
  BY DEF IInv, OnPath, Window, GapWindow
<1>2. QED
  BY <1>1, Invariant, PTL

\* The assertion of WordsBitmap::GetID cannot fail as long as the limit is no
\* larger than the bits the id has for the pattern.
THEOREM AssertionOfGetID ==
  Spec => [](maxDistortion \in 0 .. PatternBits
               => IDAssertion(IDStart(bitmap), IDEnd(bitmap)))
<1>1. ASSUME IInv, maxDistortion \in 0 .. PatternBits
      PROVE  IDAssertion(IDStart(bitmap), IDEnd(bitmap))
  <2> DEFINE g == GetFirstGapPos(bitmap)
             k == GetLastPos(bitmap)
  <2>1. bitmap \in Bitmaps
    BY <1>1 DEF IInv, TypeOK
  <2>2. /\ ~IsComplete(bitmap) => g \in Positions
        /\ IsComplete(bitmap) => g = NOT_FOUND
    BY <2>1, FirstGap, FullBitmap DEF NOT_FOUND
  <2>3. /\ bitmap # {} => k \in Positions
        /\ bitmap = {} => k = NOT_FOUND
    BY <2>1, LastPos DEF GetLastPos, Bitmaps
  <2>4. /\ IDStart(bitmap) = IF g = NOT_FOUND THEN SourceSize ELSE g
        /\ IDEnd(bitmap) = IF k = NOT_FOUND THEN 0 ELSE k
    BY DEF IDStart, IDEnd
  <2>5. bitmap = {} \/ g > k \/ k + 1 - g <= maxDistortion
    BY <1>1 DEF IInv, OnPath, Window
  <2> HIDE DEF g, k
  <2>6. \/ IDEnd(bitmap) < IDStart(bitmap)
        \/ IDEnd(bitmap) - IDStart(bitmap) <= PatternBits
    <3>1. CASE bitmap = {}
      BY <2>2, <2>3, <2>4, <3>1, PatternBitsAssumption, SourceSizeAssumption
         DEF Positions, NOT_FOUND
    <3>2. CASE bitmap # {}
      <4>1. k \in 0 .. SourceSize - 1 /\ IDEnd(bitmap) = k
        BY <2>3, <2>4, <3>2, SourceSizeAssumption DEF Positions, NOT_FOUND
      <4>2. CASE IsComplete(bitmap)
        BY <2>2, <2>4, <4>1, <4>2, SourceSizeAssumption
      <4>3. CASE ~IsComplete(bitmap)
        <5>1. g \in 0 .. SourceSize - 1 /\ IDStart(bitmap) = g
          BY <2>2, <2>4, <4>3, SourceSizeAssumption DEF Positions, NOT_FOUND
        <5>2. maxDistortion \in Int /\ maxDistortion <= PatternBits
          BY <1>1, PatternBitsAssumption
        <5>3. QED
          BY <2>5, <3>2, <4>1, <5>1, <5>2, PatternBitsAssumption, SourceSizeAssumption
      <4>4. QED
        BY <4>2, <4>3
    <3>3. QED
      BY <3>1, <3>2
  <2>7. QED
    BY <2>6 DEF IDAssertion
<1>2. QED
  BY <1>1, Invariant, PTL

------------------------------------------------------------------------------
(****************************************************************************)
(* Powers of two.                                                           *)
(****************************************************************************)

LEMMA Power ==
  ASSUME NEW n \in Nat
  PROVE  /\ IsFiniteSet(1 .. n) /\ IsFiniteSet(SUBSET (1 .. n))
         /\ Cardinality(SUBSET (1 .. n)) = 2 ^ n /\ 2 ^ n \in Nat
<1>1. IsFiniteSet(1 .. n) /\ Cardinality(1 .. n) = n
  <2>1. Cardinality(1 .. n) = IF 1 > n THEN 0 ELSE n - 1 + 1
    BY FS_Interval
  <2>2. QED
    BY <2>1, FS_Interval
<1>2. QED
  BY <1>1, FS_SUBSET, FS_CardinalityType

LEMMA PowerZero == 2 ^ 0 = 1
<1>1. SUBSET (1 .. 0) = {{}}
  OBVIOUS
<1>2. Cardinality({{}}) = 1
  BY FS_Singleton
<1>3. QED
  BY <1>1, <1>2, Power

LEMMA PowerDoubles ==
  ASSUME NEW n \in Nat
  PROVE  2 ^ (n + 1) = 2 * 2 ^ n
<1> DEFINE m == n + 1
           S == SUBSET (1 .. n)
           T == {t \in SUBSET (1 .. m) : m \in t}
           f == [s \in S |-> s \cup {m}]
<1>1. m \in Nat /\ m \notin 1 .. n /\ 1 .. m = (1 .. n) \cup {m}
  OBVIOUS
<1> HIDE DEF m
<1>2. S \cup T = SUBSET (1 .. m) /\ S \cap T = {}
  BY <1>1
<1>3. IsFiniteSet(S) /\ Cardinality(S) = 2 ^ n /\ 2 ^ n \in Nat
  BY Power
<1>4. IsFiniteSet(SUBSET (1 .. m)) /\ Cardinality(SUBSET (1 .. m)) = 2 ^ m
  BY <1>1, Power
<1>5. f \in [S -> T]
  BY <1>1
<1>6. \A s, t \in S : f[s] = f[t] => s = t
  <2>1. TAKE s \in S, t \in S
  <2>2. HAVE f[s] = f[t]
  <2>3. s \cup {m} = t \cup {m} /\ m \notin s /\ m \notin t
    BY <1>1, <2>2
  <2>4. QED
    BY <2>3
<1>7. \A t \in T : \E s \in S : f[s] = t
  <2>1. TAKE t \in T
  <2>2. t \ {m} \in S /\ (t \ {m}) \cup {m} = t
    BY <1>1
  <2>3. QED
    BY <2>2
<1>8. ExistsBijection(S, T)
  <2>1. f \in Bijection(S, T)
    BY <1>5, <1>6, <1>7 DEF Bijection, Injection, Surjection, IsInjective
  <2>2. QED
    BY <2>1 DEF ExistsBijection
<1> HIDE DEF S, T, f
<1>9. IsFiniteSet(T) /\ Cardinality(T) = 2 ^ n
  BY <1>3, <1>8, FS_Bijection
<1>10. Cardinality(S \cup T) = Cardinality(S) + Cardinality(T) - Cardinality(S \cap T)
  BY <1>3, <1>9, FS_Union
<1>11. Cardinality({}) = 0
  BY FS_EmptySet
<1>12. 2 ^ m = 2 * 2 ^ n
  <2>1. Cardinality(S \cup T) = 2 ^ m /\ Cardinality(S \cap T) = 0
    BY <1>2, <1>4, <1>11
  <2>2. PICK a, b : a = 2 ^ m /\ b = 2 ^ n /\ b \in Nat
    BY <1>3
  <2>3. a = b + b - 0
    BY <1>3, <1>9, <1>10, <2>1, <2>2
  <2>4. a = 2 * b
    BY <2>2, <2>3
  <2>5. QED
    BY <2>2, <2>4
<1>13. QED
  BY <1>12 DEF m

LEMMA PowerGrows ==
  ASSUME NEW m \in Nat, NEW n \in Nat, m <= n
  PROVE  2 ^ m <= 2 ^ n
<1>1. SUBSET (1 .. m) \subseteq SUBSET (1 .. n)
  OBVIOUS
<1>2. PICK S, T : S = SUBSET (1 .. m) /\ T = SUBSET (1 .. n)
  OBVIOUS
<1>3. IsFiniteSet(T) /\ Cardinality(S) = 2 ^ m /\ Cardinality(T) = 2 ^ n
  BY <1>2, Power
<1>4. Cardinality(S) <= Cardinality(T)
  BY <1>1, <1>2, <1>3, FS_Subset
<1>5. QED
  BY <1>3, <1>4

------------------------------------------------------------------------------
(****************************************************************************)
(* The loop of GetID.                                                       *)
(****************************************************************************)

Bit(covered, p) == IF p \in covered THEN 1 ELSE 0

IsPatterns(covered, end, n, f) ==
  f = [m \in 0 .. n |-> IF m = 0 THEN 0
                        ELSE f[m - 1] * 2 + (IF end + 1 - m \in covered THEN 1 ELSE 0)]

\* The recursion is well defined.
LEMMA PatternsExist ==
  ASSUME NEW covered, NEW end \in Nat, NEW n \in Nat
  PROVE  \E f : IsPatterns(covered, end, n, f)
<1> DEFINE Missing == {m \in Nat : ~\E f : IsPatterns(covered, end, m, f)}
           next(x, m) == x * 2 + (IF end + 1 - m \in covered THEN 1 ELSE 0)
<1>1. SUFFICES ASSUME Missing # {} PROVE FALSE
  OBVIOUS
<1>2. PICK m \in Missing : \A k \in Missing : m <= k
  BY <1>1, LeastNatural
<1>3. CASE m = 0
  <2> DEFINE f == [k \in 0 .. 0 |-> 0]
  <2>1. IsPatterns(covered, end, 0, f)
    BY DEF IsPatterns
  <2>2. QED
    BY <1>2, <1>3, <2>1
<1>4. CASE m # 0
  <2>1. m \in Nat /\ m - 1 \in Nat /\ ~(m <= m - 1)
    BY <1>2, <1>4
  <2>2. PICK f : IsPatterns(covered, end, m - 1, f)
    BY <1>2, <2>1
  <2>3. f = [k \in 0 .. m - 1 |-> IF k = 0 THEN 0 ELSE next(f[k - 1], k)]
    BY <2>2 DEF IsPatterns
  <2> HIDE DEF next
  <2> DEFINE g == [k \in 0 .. m |-> IF k = m THEN next(f[m - 1], m) ELSE f[k]]
  <2>4. \A k \in 0 .. m - 1 : f[k] = IF k = 0 THEN 0 ELSE next(f[k - 1], k)
    BY <2>3
  <2>5. \A k \in 0 .. m : g[k] = IF k = 0 THEN 0 ELSE next(g[k - 1], k)
    <3>1. TAKE k \in 0 .. m
    <3>2. CASE k = m
      <4>1. m - 1 \in 0 .. m /\ m - 1 # m
        BY <2>1
      <4>2. g[m - 1] = f[m - 1]
        BY <4>1
      <4>3. QED
        BY <1>4, <3>2, <4>2
    <3>3. CASE k # m /\ k = 0
      BY <2>1, <2>4, <3>3
    <3>4. CASE k # m /\ k # 0
      <4>1. k \in 0 .. m - 1 /\ k - 1 \in 0 .. m /\ k - 1 # m
        BY <2>1, <3>4
      <4>2. g[k] = f[k] /\ g[k - 1] = f[k - 1]
        BY <3>4, <4>1
      <4>3. QED
        BY <2>4, <3>4, <4>1, <4>2
    <3>5. QED
      BY <3>2, <3>3, <3>4
  <2>6. g = [k \in 0 .. m |-> g[k]]
    OBVIOUS
  <2> HIDE DEF g
  <2>7. g = [k \in 0 .. m |-> IF k = 0 THEN 0 ELSE next(g[k - 1], k)]
    BY <2>5, <2>6
  <2>8. IsPatterns(covered, end, m, g)
    BY <2>7 DEF IsPatterns, next
  <2>9. QED
    BY <1>2, <2>8
<1>5. QED
  BY <1>3, <1>4

\* After n steps the n last positions have become a number of n bits.
LEMMA PatternsAre ==
  ASSUME NEW covered, NEW end \in Nat
  PROVE  /\ Patterns(covered, end)[0] = 0
         /\ \A n \in 0 .. end - 1 :
              Patterns(covered, end)[n + 1]
                = Patterns(covered, end)[n] * 2 + Bit(covered, end - n)
         /\ \A n \in 0 .. end : /\ Patterns(covered, end)[n] \in Nat
                                /\ Patterns(covered, end)[n] < 2 ^ n
<1> DEFINE D == Patterns(covered, end)
<1>1. \E f : IsPatterns(covered, end, end, f)
  BY PatternsExist
<1>2. D = CHOOSE f : IsPatterns(covered, end, end, f)
  BY DEF Patterns, IsPatterns
<1>3. IsPatterns(covered, end, end, D)
  BY <1>1, <1>2
<1>4. \A m \in 0 .. end : D[m] = IF m = 0 THEN 0 ELSE D[m - 1] * 2 + Bit(covered, end + 1 - m)
  BY <1>3 DEF IsPatterns, Bit
<1> HIDE DEF D
<1>5. \A n \in 0 .. end - 1 : /\ n + 1 \in 0 .. end /\ n + 1 # 0 /\ (n + 1) - 1 = n
                              /\ end + 1 - (n + 1) = end - n
  OBVIOUS
<1>6. D[0] = 0 /\ \A n \in 0 .. end - 1 : D[n + 1] = D[n] * 2 + Bit(covered, end - n)
  BY <1>4, <1>5
<1> DEFINE Fits(n) == D[n] \in Nat /\ D[n] < 2 ^ n
           Bad == {n \in 0 .. end : ~Fits(n)}
<1>7. Bad = {}
  <2>1. SUFFICES ASSUME Bad # {} PROVE FALSE
    OBVIOUS
  <2>2. PICK m \in Bad : \A k \in Bad : m <= k
    <3>1. Bad \subseteq Nat
      OBVIOUS
    <3> HIDE DEF Bad
    <3>2. QED
      BY <2>1, <3>1, LeastNatural
  <2>3. m # 0
    <3>1. Fits(0)
      BY <1>6, PowerZero
    <3>2. QED
      BY <2>2, <3>1
  <2>4. PICK n : n = m - 1 /\ n \in 0 .. end - 1 /\ n \in 0 .. end /\ n \in Nat /\ ~(m <= n)
                 /\ n + 1 = m
    BY <2>2, <2>3
  <2>5. Fits(n)
    BY <2>2, <2>4
  <2>6. D[m] = D[n] * 2 + Bit(covered, end - n)
    BY <1>6, <2>4
  <2>7. Bit(covered, end - n) \in {0, 1}
    BY DEF Bit
  <2>8. 2 ^ m = 2 * 2 ^ n /\ 2 ^ n \in Nat
    BY <2>4, Power, PowerDoubles
  <2>9. Fits(m)
    BY <2>5, <2>6, <2>7, <2>8
  <2>10. QED
    BY <2>2, <2>9
<1>8. QED
  BY <1>6, <1>7 DEF D

------------------------------------------------------------------------------
(****************************************************************************)
(* Ids tell bitmaps apart.                                                  *)
(****************************************************************************)

\* What the pattern is after the positions from p on.
From(b, e, p) == IF p > e THEN 0 ELSE Patterns(b, e)[e + 1 - p]

LEMMA FromStep ==
  ASSUME NEW b \in Bitmaps, NEW e \in Nat, \A q \in b : q <= e,
         NEW p \in Nat, p > 0
  PROVE  /\ From(b, e, p) \in Nat /\ From(b, e, p + 1) \in Nat
         /\ From(b, e, p) = From(b, e, p + 1) * 2 + Bit(b, p)
<1>1. CASE p > e
  <2>1. p \notin b /\ p + 1 > e
    BY <1>1
  <2>2. QED
    BY <1>1, <2>1 DEF From, Bit
<1>2. CASE p <= e
  <2>1. PICK n : n = e - p
    OBVIOUS
  <2>2. n \in 0 .. e - 1 /\ n \in 0 .. e /\ n + 1 \in 0 .. e /\ n + 1 = e + 1 - p /\ e - n = p
    BY <1>2, <2>1
  <2>3. /\ Patterns(b, e)[n + 1] = Patterns(b, e)[n] * 2 + Bit(b, e - n)
        /\ Patterns(b, e)[n] \in Nat /\ Patterns(b, e)[n + 1] \in Nat
    BY <2>2, PatternsAre
  <2>4. From(b, e, p) = Patterns(b, e)[n + 1]
    BY <1>2, <2>2 DEF From
  <2>5. From(b, e, p + 1) = Patterns(b, e)[n]
    <3>1. CASE p = e
      <4>1. n = 0 /\ p + 1 > e
        BY <2>1, <3>1
      <4>2. QED
        BY <4>1, PatternsAre DEF From
    <3>2. CASE p < e
      <4>1. ~(p + 1 > e) /\ e + 1 - (p + 1) = n
        BY <2>1, <3>2
      <4>2. QED
        BY <4>1 DEF From
    <3>3. QED
      BY <1>2, <3>1, <3>2
  <2>6. QED
    BY <2>2, <2>3, <2>4, <2>5
<1>3. QED
  BY <1>1, <1>2

\* Equal patterns have equal bits.
LEMMA SameBits ==
  ASSUME NEW b \in Bitmaps, NEW e \in Nat, \A q \in b : q <= e,
         NEW c \in Bitmaps, NEW f \in Nat, \A q \in c : q <= f,
         NEW g \in Nat, From(b, e, g + 1) = From(c, f, g + 1)
  PROVE  \A p \in Nat : p > g => (p \in b <=> p \in c)
<1>1. ASSUME NEW p \in Nat, p > 0, From(b, e, p) = From(c, f, p)
      PROVE  From(b, e, p + 1) = From(c, f, p + 1) /\ (p \in b <=> p \in c)
  <2>1. /\ From(b, e, p) = From(b, e, p + 1) * 2 + Bit(b, p) /\ From(b, e, p + 1) \in Nat
        /\ From(c, f, p) = From(c, f, p + 1) * 2 + Bit(c, p) /\ From(c, f, p + 1) \in Nat
    BY <1>1, FromStep
  <2>2. Bit(b, p) \in {0, 1} /\ Bit(c, p) \in {0, 1}
    BY DEF Bit
  <2>3. From(b, e, p + 1) = From(c, f, p + 1) /\ Bit(b, p) = Bit(c, p)
    <3>1. ASSUME NEW x \in Nat, NEW y \in Nat, NEW i \in {0, 1}, NEW j \in {0, 1},
                 x * 2 + i = y * 2 + j
          PROVE  x = y /\ i = j
      BY <3>1
    <3>2. From(b, e, p + 1) * 2 + Bit(b, p) = From(c, f, p + 1) * 2 + Bit(c, p)
      BY <1>1, <2>1
    <3>3. QED
      BY <2>1, <2>2, <3>1, <3>2
  <2>4. QED
    BY <2>3 DEF Bit
<1> DEFINE Bad == {p \in Nat : p > g /\ From(b, e, p) # From(c, f, p)}
<1>2. Bad = {}
  <2>1. SUFFICES ASSUME Bad # {} PROVE FALSE
    OBVIOUS
  <2>2. PICK m \in Bad : \A k \in Bad : m <= k
    BY <2>1, LeastNatural
  <2>3. PICK n : n = m - 1 /\ n \in Nat /\ n > g /\ n > 0 /\ ~(m <= n) /\ n + 1 = m
    BY <2>2
  <2>4. From(b, e, n) = From(c, f, n)
    BY <2>2, <2>3
  <2>5. QED
    BY <1>1, <2>2, <2>3, <2>4
<1>3. QED
  BY <1>1, <1>2

\* What GetID sees of a bitmap.
LEMMA IDIs ==
  ASSUME NEW b \in Bitmaps, IDAssertion(IDStart(b), IDEnd(b))
  PROVE  /\ IDStart(b) \in Nat /\ IDEnd(b) \in Nat
         /\ IDStart(b) <= SourceSize /\ IDStart(b) \notin b
         /\ \A q \in b : q <= IDEnd(b)
         /\ \A q \in Nat : q < IDStart(b) => q \in b
         /\ GetID(b) = From(b, IDEnd(b), IDStart(b) + 1) + 2 ^ PatternBits * IDStart(b)
         /\ From(b, IDEnd(b), IDStart(b) + 1) \in Nat
         /\ From(b, IDEnd(b), IDStart(b) + 1) < 2 ^ PatternBits
<1>1. /\ IDStart(b) \in Nat /\ IDStart(b) <= SourceSize /\ IDStart(b) \notin b
      /\ \A q \in Nat : q < IDStart(b) => q \in b
  <2>1. CASE IsComplete(b)
    BY <2>1, FullBitmap, SourceSizeAssumption DEF IDStart, NOT_FOUND, Positions
  <2>2. CASE ~IsComplete(b)
    <3>1. /\ GetFirstGapPos(b) \in Positions /\ GetFirstGapPos(b) \notin b
          /\ \A q \in Positions : q \notin b => GetFirstGapPos(b) <= q
      BY <2>2, FirstGap
    <3>2. IDStart(b) = GetFirstGapPos(b)
      BY <3>1, SourceSizeAssumption DEF IDStart, NOT_FOUND, Positions
    <3>3. QED
      BY <3>1, <3>2, SourceSizeAssumption DEF Positions
  <2>3. QED
    BY <2>1, <2>2
<1>2. IDEnd(b) \in Nat /\ \A q \in b : q <= IDEnd(b)
  <2>1. CASE b = {}
    BY <2>1, SourceSizeAssumption DEF IDEnd, GetLastPos, NOT_FOUND
  <2>2. CASE b # {}
    <3>1. GetLastPos(b) \in Positions /\ \A q \in b : q <= GetLastPos(b)
      BY <2>2, LastPos DEF Bitmaps
    <3>2. IDEnd(b) = GetLastPos(b)
      BY <3>1, SourceSizeAssumption DEF IDEnd, NOT_FOUND, Positions
    <3>3. QED
      BY <3>1, <3>2, SourceSizeAssumption DEF Positions
  <2>3. QED
    BY <2>1, <2>2
<1>3. PICK s, e, v : /\ s = IDStart(b) /\ e = IDEnd(b)
                     /\ v = From(b, e, s + 1)
  OBVIOUS
<1>4. Pattern(b, s, e) = v
  <2>1. CASE e > s
    <3>1. ~(s + 1 > e) /\ e + 1 - (s + 1) = e - s
      BY <1>1, <1>2, <1>3, <2>1
    <3>2. QED
      BY <1>3, <2>1, <3>1 DEF Pattern, From
  <2>2. CASE ~(e > s)
    <3>1. s + 1 > e
      BY <1>1, <1>2, <1>3, <2>2
    <3>2. QED
      BY <1>3, <2>2, <3>1 DEF Pattern, From
  <2>3. QED
    BY <2>1, <2>2
<1>5. 2 ^ PatternBits \in Nat /\ 2 ^ PatternBits >= 1
  <2>1. 0 \in Nat /\ 0 <= PatternBits
    BY PatternBitsAssumption
  <2>2. 2 ^ 0 <= 2 ^ PatternBits /\ 2 ^ PatternBits \in Nat
    BY <2>1, Power, PowerGrows, PatternBitsAssumption
  <2>3. QED
    BY <2>2, PowerZero
<1>6. v \in Nat /\ v < 2 ^ PatternBits
  <2>1. CASE s + 1 > e
    BY <1>3, <1>5, <2>1 DEF From
  <2>2. CASE ~(s + 1 > e)
    <3>1. PICK n : n = e - s /\ n \in 0 .. e /\ n \in Nat /\ e + 1 - (s + 1) = n
      BY <1>1, <1>2, <1>3, <2>2
    <3>2. v = Patterns(b, e)[n]
      BY <1>3, <2>2, <3>1 DEF From
    <3>3. v \in Nat /\ v < 2 ^ n
      BY <1>2, <1>3, <3>1, <3>2, PatternsAre
    <3>4. n <= PatternBits
      BY <1>1, <1>2, <1>3, <2>2, <3>1 DEF IDAssertion
    <3>5. 2 ^ n <= 2 ^ PatternBits /\ 2 ^ n \in Nat
      BY <3>1, <3>4, Power, PowerGrows, PatternBitsAssumption
    <3>6. QED
      BY <1>5, <3>3, <3>5
  <2>3. QED
    BY <2>1, <2>2
<1>7. GetID(b) = v + 2 ^ PatternBits * s
  BY <1>3, <1>4 DEF GetID, MakeID
<1>8. QED
  BY <1>1, <1>2, <1>3, <1>6, <1>7

\* A number below M and a multiple of M are known from their sum.
LEMMA Parts ==
  ASSUME NEW M \in Nat, NEW v \in Nat, NEW w \in Nat, v < M, w < M,
         NEW s \in Nat, NEW t \in Nat, v + M * s = w + M * t
  PROVE  s = t /\ v = w
<1>1. ASSUME NEW i \in Nat, NEW j \in Nat, i < j
      PROVE  M * j >= M * i + M
  <2>1. PICK k \in Nat : j = i + 1 + k
    <3>1. j - i - 1 \in Nat /\ j = i + 1 + (j - i - 1)
      BY <1>1
    <3>2. QED
      BY <3>1
  <2>2. M * j = M * i + M + M * k /\ M * k \in Nat /\ M * i \in Nat
    BY <2>1
  <2>3. QED
    BY <2>2
<1>2. M * s \in Nat /\ M * t \in Nat
  OBVIOUS
<1>3. ~(s < t) /\ ~(t < s)
  BY <1>1, <1>2
<1>4. s = t
  BY <1>3
<1>5. QED
  BY <1>2, <1>4

\* Bitmaps with one id are one bitmap.
LEMMA SameID ==
  ASSUME NEW b \in Bitmaps, IDAssertion(IDStart(b), IDEnd(b)),
         NEW c \in Bitmaps, IDAssertion(IDStart(c), IDEnd(c)), GetID(b) = GetID(c)
  PROVE  b = c
<1>1. PICK s, e, v : s = IDStart(b) /\ e = IDEnd(b) /\ v = From(b, e, s + 1)
  OBVIOUS
<1>2. PICK t, f, w : t = IDStart(c) /\ f = IDEnd(c) /\ w = From(c, f, t + 1)
  OBVIOUS
<1>3. PICK M : M = 2 ^ PatternBits /\ M \in Nat
  BY Power, PatternBitsAssumption
<1>4. /\ s \in Nat /\ e \in Nat /\ s \notin b /\ \A q \in b : q <= e
      /\ \A q \in Nat : q < s => q \in b
      /\ GetID(b) = v + M * s /\ v \in Nat /\ v < M
  BY <1>1, <1>3, IDIs
<1>5. /\ t \in Nat /\ f \in Nat /\ t \notin c /\ \A q \in c : q <= f
      /\ \A q \in Nat : q < t => q \in c
      /\ GetID(c) = w + M * t /\ w \in Nat /\ w < M
  BY <1>2, <1>3, IDIs
<1>6. s = t /\ v = w
  <2>1. v + M * s = w + M * t
    BY <1>4, <1>5
  <2>2. QED
    BY <1>3, <1>4, <1>5, <2>1, Parts
<1>7. \A p \in Nat : p > s => (p \in b <=> p \in c)
  BY <1>1, <1>2, <1>4, <1>5, <1>6, SameBits
<1>8. \A p \in Nat : p < s \/ p = s \/ p > s
  BY <1>4
<1>9. \A p \in Nat : p \in b <=> p \in c
  BY <1>4, <1>5, <1>6, <1>7, <1>8
<1>10. b \subseteq Nat /\ c \subseteq Nat
  BY SourceSizeAssumption DEF Bitmaps, Positions
<1>11. QED
  BY <1>9, <1>10

\* WordsBitmap::GetID tells all bitmaps apart that the search reaches: its
\* assertion holds of them, and what satisfies the assertion has its own id.
THEOREM IDsDiffer == Spec => []IDIdentifiesBitmap
<1>1. IInv => bitmap \in Bitmaps
  BY DEF IInv, TypeOK
<1>2. ASSUME bitmap \in Bitmaps,
             maxDistortion \in 0 .. PatternBits
               => IDAssertion(IDStart(bitmap), IDEnd(bitmap))
      PROVE  IDIdentifiesBitmap
  BY <1>2, SameID DEF IDIdentifiesBitmap
<1>3. QED
  BY <1>1, <1>2, Invariant, AssertionOfGetID, PTL

------------------------------------------------------------------------------
(****************************************************************************)
(* The distortion limit.                                                    *)
(****************************************************************************)

\* -distortion-limit bounds every jump of every derivation, though the guard
\* of ProcessOneHypothesis measures only jumps forward.
THEOREM JumpsBounded == Spec => DistortionWithinLimit
<1>1. IInv /\ [Next]_vars =>
        [maxDistortion >= 0 =>
           ComputeDistortionDistance(currRange, currRange') <= maxDistortion]_vars
  <2>1. ASSUME IInv, maxDistortion >= 0, NEW r \in PhraseSpans, Extend(r)
        PROVE  ComputeDistortionDistance(currRange, currRange') <= maxDistortion
    <3>1. currRange' = r /\ Extends(rc, bitmap, currRange, r, maxDistortion)
      BY <2>1, AllowedExtends DEF Extend
    <3>2. QED
      BY <2>1, <3>1, JumpWithinLimit, LimitTyped DEF IInv, OnPath, Extends
  <2>2. QED
    BY <2>1 DEF Next
<1>2. QED
  BY <1>1, Invariant, PTL DEF Spec, DistortionWithinLimit

\* ProcessOneHypothesis and the edges of cube pruning allow the same spans of
\* every hypothesis that either of them reaches.
THEOREM SameSearchSpace == Spec => []SearchesAgree
<1>1. IInv => SearchesAgree
  <2>1. SUFFICES ASSUME IInv, NEW r \in PhraseSpans
        PROVE  NormalMayExtend(rc, bitmap, currRange, r, options, maxDistortion)
               <=> CubeMayExtend(rc, bitmap, currRange, r, options, maxDistortion)
    BY DEF SearchesAgree
  <2>2. CASE Overlap(bitmap, r)
    BY <2>2 DEF NormalMayExtend, CubeMayExtend
  <2>3. CASE ~Overlap(bitmap, r)
    <3>1. r[1] >= GetFirstGapPos(bitmap)
      <4>1. /\ GetFirstGapPos(bitmap) \in Positions
            /\ GetFirstGapPos(bitmap) <= r[1] /\ r[1] \in Positions
        BY <2>1, <2>3, ExtensionFillsGap, SpanInside DEF IInv, TypeOK
      <4>2. QED
        BY <4>1, SourceSizeAssumption DEF Positions
    <3>2. NormalDistortionOK(bitmap, currRange, r, maxDistortion)
           <=> /\ EdgeTakes(bitmap, currRange, r, maxDistortion)
               /\ \/ maxDistortion < 0
                  \/ GetFirstGapPos(bitmap) = r[1]
                  \/ RequiredDistortion(bitmap, r) <= maxDistortion
      BY <2>1, <2>3, EdgeAgrees, LimitTyped DEF IInv, OnPath
    <3>3. QED
      BY <2>3, <3>1, <3>2 DEF NormalMayExtend, CubeMayExtend, CheckDistortion
  <2>4. QED
    BY <2>2, <2>3
<1>2. QED
  BY <1>1, Invariant, PTL

------------------------------------------------------------------------------
(****************************************************************************)
(* Walls and zones.                                                         *)
(****************************************************************************)

\* A wall that is not inside a zone separates the two sides of the sentence
\* in every derivation, whatever phrases ReorderingConstraint::Check lets run
\* across it from the first gap.
THEOREM WallsHold == Spec => []WallsRespected
<1>1. IInv => WallsRespected
  BY DEF IInv, OnPath, WallsKept, WallsRespected
<1>2. QED
  BY <1>1, Invariant, PTL

\* The same for a local wall and the words of each zone it lies in.
THEOREM LocalWallsHold == Spec => []LocalWallsKept(rc, bitmap)
<1>1. IInv => LocalWallsKept(rc, bitmap)
  BY DEF IInv, OnPath
<1>2. QED
  BY <1>1, Invariant, PTL

\* "once entered, need to finish": ReorderingConstraint::Check keeps every
\* derivation inside a zone that it entered, until the zone is translated.
THEOREM ZonesFinish == Spec => ZoneFinished
<1>1. IInv /\ [Next]_vars =>
        [\A z \in rc.zones :
           LET done == InZone(bitmap, z)
           IN  (done # {} /\ done # SpanPositions(z)) =>
                 /\ SpanPositions(currRange') \cap SpanPositions(z) # {}
                 /\ currRange'[2] > z[2] => SpanPositions(z) \subseteq bitmap']_vars
  <2>1. ASSUME IInv, NEW r \in PhraseSpans, Extend(r), NEW z \in rc.zones,
               InZone(bitmap, z) # {}, InZone(bitmap, z) # SpanPositions(z)
        PROVE  /\ SpanPositions(currRange') \cap SpanPositions(z) # {}
               /\ currRange'[2] > z[2] => SpanPositions(z) \subseteq bitmap'
    <3>1. /\ currRange' = r /\ bitmap' = bitmap \cup SpanPositions(r)
          /\ ~Overlap(bitmap, r) /\ bitmap \in Bitmaps /\ z \in Spans
          /\ Partly(bitmap, z)
          /\ PassesMonotoneOrZone(rc, bitmap, z, r, maxDistortion)
      BY <2>1 DEF Extend, NormalMayExtend, Check, PassesMonotoneOrZone, Partly,
                  IInv, TypeOK, IsConstraint
    <3>2. SpanPositions(r) \cap SpanPositions(z) # {}
      BY <3>1, StaysInZone
    <3>3. QED
      BY <3>1, <3>2, LeavesZoneFull
  <2>2. QED
    BY <2>1 DEF Next
<1>2. QED
  BY <1>1, Invariant, PTL DEF Spec, ZoneFinished

\* The limit, the walls and the zones together leave no derivation without a
\* next word, as long as no zones cross and no local wall lies in two.
THEOREM NeverStuck == Spec => []NoDeadEnd
<1>1. ASSUME IInv, ~IsComplete(bitmap), Consistent(rc)
      PROVE  \E p \in Positions :
               NormalMayExtend(rc, bitmap, currRange, <<p, p>>, options, maxDistortion)
  <2>1. PICK p \in Positions :
          /\ p >= GetFirstGapPos(bitmap)
          /\ Extends(rc, bitmap, currRange, <<p, p>>, maxDistortion)
    BY <1>1, NotStuck, LimitTyped DEF IInv
  <2>2. <<p, p>> \in options
    BY <1>1, OptionSpansAssumption DEF IInv, TypeOK, WordSpans
  <2>3. QED
    BY <2>1, <2>2 DEF NormalMayExtend, Extends
<1>2. IInv => NoDeadEnd
  BY <1>1 DEF NoDeadEnd
<1>3. QED
  BY <1>2, Invariant, PTL
===============================================================================
