---------------------------- MODULE HypothesisProofs ---------------------------
(****************************************************************************)
(* What a search proof needs to know of hypotheses and their stacks.        *)
(*                                                                          *)
(* Derivations.  Derivations(i)[n] is what n steps build, and a step of a   *)
(* search, seen without the back pointers, is a step of a derivation.       *)
(*                                                                          *)
(* Stacks.  What the operations of one stack do, whatever the hypotheses,   *)
(* the switches and the ties are, first for stack decoding, then for cube   *)
(* pruning.  I is the set of the ids of all hypotheses that ever came to    *)
(* the stack.  StackSound(H, conf, I, stk) says what a stack may have lost  *)
(* of them, CubeSound the same for cube pruning; a new hypothesis and       *)
(* pruning keep it.  Owned(S, arcs, G) says that of the living ones, G,     *)
(* each is in the stack S or in one arc list of it; the arc lists are       *)
(* handled so that this stays true.                                         *)
(*                                                                          *)
(* Searches.  What both of them say of the hypotheses they make.            *)
(****************************************************************************)
EXTENDS HypothesisStackCubePruning, ExpansionProofs

------------------------------------------------------------------------------
(****************************************************************************)
(* The recursion is well defined.                                           *)
(****************************************************************************)

IsBuilt(i, n, f) ==
  f = [m \in 0 .. n |-> IF m = 0 THEN {Seed} ELSE Steps(i, f[m - 1])]

\* A function is built up to every length.
LEMMA BuiltExists ==
  ASSUME NEW i, NEW n \in Nat
  PROVE  \E f : IsBuilt(i, n, f)
<1> DEFINE Missing == {m \in Nat : ~\E f : IsBuilt(i, m, f)}
<1>1. SUFFICES ASSUME Missing # {} PROVE FALSE
  OBVIOUS
<1>2. PICK m \in Missing : \A k \in Missing : m <= k
  BY <1>1, LeastNatural
<1>3. CASE m = 0
  <2> DEFINE f == [k \in 0 .. 0 |-> {Seed}]
  <2>1. IsBuilt(i, 0, f)
    BY DEF IsBuilt
  <2>2. QED
    BY <1>2, <1>3, <2>1
<1>4. CASE m # 0
  <2>1. m \in Nat /\ m - 1 \in Nat /\ ~(m <= m - 1)
    BY <1>2, <1>4
  <2>2. PICK f : IsBuilt(i, m - 1, f)
    BY <1>2, <2>1
  <2> DEFINE g == [k \in 0 .. m |-> IF k = m THEN Steps(i, f[m - 1]) ELSE f[k]]
  <2>3. \A k \in 0 .. m - 1 : f[k] = IF k = 0 THEN {Seed} ELSE Steps(i, f[k - 1])
    BY <2>2 DEF IsBuilt
  <2>4. \A k \in 0 .. m : g[k] = IF k = 0 THEN {Seed} ELSE Steps(i, g[k - 1])
    <3>1. TAKE k \in 0 .. m
    <3>2. CASE k = m
      <4>1. m - 1 \in 0 .. m /\ m - 1 # m
        BY <2>1
      <4>2. g[m - 1] = f[m - 1]
        BY <4>1
      <4>3. QED
        BY <1>4, <3>2, <4>2
    <3>3. CASE k # m /\ k = 0
      BY <2>1, <2>3, <3>3
    <3>4. CASE k # m /\ k # 0
      <4>1. k \in 0 .. m - 1 /\ k - 1 \in 0 .. m /\ k - 1 # m
        BY <2>1, <3>4
      <4>2. g[k] = f[k] /\ g[k - 1] = f[k - 1]
        BY <3>4, <4>1
      <4>3. QED
        BY <2>3, <3>4, <4>1, <4>2
    <3>5. QED
      BY <3>2, <3>3, <3>4
  <2>5. g = [k \in 0 .. m |-> g[k]]
    OBVIOUS
  <2> HIDE DEF g
  <2>6. IsBuilt(i, m, g)
    BY <2>4, <2>5 DEF IsBuilt
  <2>7. QED
    BY <1>2, <2>6
<1>5. QED
  BY <1>3, <1>4

\* The seed, and one step after the other.
LEMMA DerivationsAre ==
  ASSUME NEW i
  PROVE  /\ Derivations(i)[0] = {Seed}
         /\ \A n \in 0 .. SourceSize - 1 :
              Derivations(i)[n + 1] = Steps(i, Derivations(i)[n])
<1>1. \E f : IsBuilt(i, SourceSize, f)
  BY BuiltExists, SourceSizeAssumption
<1>2. Derivations(i) = CHOOSE f : IsBuilt(i, SourceSize, f)
  BY DEF Derivations, IsBuilt
<1>3. IsBuilt(i, SourceSize, Derivations(i))
  BY <1>1, <1>2
<1> DEFINE D == Derivations(i)
<1>4. \A m \in 0 .. SourceSize : D[m] = IF m = 0 THEN {Seed} ELSE Steps(i, D[m - 1])
  BY <1>3 DEF IsBuilt
<1> HIDE DEF D
<1>5. \A n \in 0 .. SourceSize - 1 : n + 1 \in 0 .. SourceSize /\ n + 1 # 0 /\ (n + 1) - 1 = n
  BY SourceSizeAssumption
<1>6. 0 \in 0 .. SourceSize
  BY SourceSizeAssumption
<1>7. D[0] = {Seed} /\ \A n \in 0 .. SourceSize - 1 : D[n + 1] = Steps(i, D[n])
  BY <1>4, <1>5, <1>6
<1>8. QED
  BY <1>7 DEF D


------------------------------------------------------------------------------
(****************************************************************************)
(* One step.                                                                *)
(****************************************************************************)

\* A jump has a length.
LEMMA DistanceTyped ==
  ASSUME NEW prev \in PhraseSpans \cup {NoSpan}, NEW r \in PhraseSpans
  PROVE  DistortionScore(prev, r) \in Int
<1>1. prev[1] \in Int /\ prev[2] \in Int
  <2>1. CASE prev \in PhraseSpans
    BY <2>1, SourceSizeAssumption DEF PhraseSpans, Spans, Positions
  <2>2. CASE prev = NoSpan
    BY <2>2, SourceSizeAssumption DEF NoSpan, NOT_FOUND
  <2>3. QED
    BY <2>1, <2>2
<1>2. r[1] \in Int
  BY SourceSizeAssumption DEF PhraseSpans, Spans, Positions
<1>3. Abs(prev[2] - r[1] + 1) \in Int
  BY <1>1, <1>2 DEF Abs
<1>4. ComputeDistortionDistance(prev, r) \in Int
  BY <1>2, <1>3 DEF ComputeDistortionDistance
<1>5. QED
  BY <1>4 DEF DistortionScore

\* The language model scores every option and remembers a word.
LEMMA LMTyped ==
  ASSUME NEW lm \in Words, NEW words \in Seq(Words), NEW complete \in BOOLEAN
  PROVE  LMScore(lm, words, complete) \in Int /\ LMState(lm, words, complete) \in Words
<1>1. CASE words = <<>>
  BY <1>1 DEF LMScore, LMState
<1>2. CASE words # <<>>
  <2>1. Head(words) \in Words /\ words[Len(words)] \in Words
    <3>1. Len(words) \in Nat \ {0} /\ Head(words) = words[1]
      BY <1>2
    <3>2. 1 \in 1 .. Len(words) /\ Len(words) \in 1 .. Len(words)
      BY <3>1
    <3>3. \A k \in 1 .. Len(words) : words[k] \in Words
      OBVIOUS
    <3>4. QED
      BY <3>1, <3>2, <3>3
  <2>2. Bigram(lm, Head(words)) \in Int /\ Bigram(words[Len(words)], EOS) \in Int
    BY <2>1, ScoreAssumption
  <2>3. CASE complete
    <3>1. LMScore(lm, words, complete) = Bigram(lm, Head(words)) + Bigram(words[Len(words)], EOS)
      BY <1>2, <2>3 DEF LMScore
    <3>2. LMState(lm, words, complete) = EOS
      BY <1>2, <2>3 DEF LMState
    <3>3. QED
      BY <2>2, <3>1, <3>2, ScoreAssumption
  <2>4. CASE ~complete
    <3>1. LMScore(lm, words, complete) = Bigram(lm, Head(words)) + 0
      BY <1>2, <2>4 DEF LMScore
    <3>2. LMState(lm, words, complete) = words[Len(words)]
      BY <1>2, <2>4 DEF LMState
    <3>3. QED
      BY <2>1, <2>2, <3>1, <3>2
  <2>5. QED
    BY <2>3, <2>4
<1>3. QED
  BY <1>1, <1>2

\* The orientation is one of the table.
LEMMA OrientationTyped ==
  ASSUME NEW prev, NEW r
  PROVE  GetOrientationType(prev, r) \in Orientations
<1>1. GetOrientationType(prev, r) \in {0, 1, 2}
  BY LexAssumption DEF GetOrientationType
<1>2. QED
  BY <1>1 DEF Orientations

\* Lexical reordering scores every option.
LEMMA LexTyped ==
  ASSUME NEW h \in Hypotheses, NEW opt \in TranslationOptions
  PROVE  LexicalScore(h, opt) \in Int
<1> DEFINE o == GetOrientationType(h.range, opt.span)
           back == opt.lex["Backward"][o]
           forth == h.lex["Forward"][o]
<1>1. o \in Orientations
  BY OrientationTyped
<1>2. opt.lex \in LexScores /\ h.lex \in LexScores
  BY DEF Hypotheses, TranslationOptions
<1> HIDE DEF o
<1>3. back \in Int /\ forth \in Int
  BY <1>1, <1>2 DEF LexScores
<1>4. \E a, b \in {back, forth, 0} : LexicalScore(h, opt) = a + b
  BY DEF LexicalScore, o
<1> HIDE DEF back, forth
<1>5. QED
  BY <1>3, <1>4

\* CreateNext makes a hypothesis: what it is made of.
LEMMA CreateNextTyped ==
  ASSUME NEW h \in Hypotheses, NEW opt \in TranslationOptions, NEW id \in Nat,
         NEW made, made = CreateNext(id, h, opt)
  PROVE  /\ made \in Hypotheses
         /\ made.prev = id
         /\ made.bitmap = h.bitmap \cup SpanPositions(opt.span)
         /\ made.range = opt.span
         /\ made.total = made.score + FutureScore(made.bitmap)
<1> DEFINE b == h.bitmap \cup SpanPositions(opt.span)
           sc == h.score + opt.score + DistortionScore(h.range, opt.span)
                   + LMScore(h.lm, opt.words, IsComplete(b)) + LexicalScore(h, opt)
           st == LMState(h.lm, opt.words, IsComplete(b))
           t == h.target \o opt.words
           tot == sc + FutureScore(b)
<1>1. made = [prev |-> id, bitmap |-> b, range |-> opt.span, target |-> t,
              lm |-> st, lex |-> opt.lex, score |-> sc, total |-> tot]
  BY DEF CreateNext
<1>2. /\ h.bitmap \in Bitmaps /\ h.range \in PhraseSpans \cup {NoSpan}
      /\ h.lm \in Words /\ h.score \in Int /\ h.target \in Seq(Words)
      /\ opt.span \in PhraseSpans /\ opt.words \in Seq(Words) /\ opt.score \in Int
      /\ opt.lex \in LexScores
  BY DEF Hypotheses, TranslationOptions
<1>3. b \in Bitmaps
  BY <1>2, SpanInside DEF Bitmaps
<1>4. IsComplete(b) \in BOOLEAN
  BY DEF IsComplete
<1>5. DistortionScore(h.range, opt.span) \in Int
  BY <1>2, DistanceTyped
<1>6. LMScore(h.lm, opt.words, IsComplete(b)) \in Int /\ st \in Words
  BY <1>2, <1>4, LMTyped
<1>7. sc \in Int
  BY <1>2, <1>5, <1>6, LexTyped
<1>8. FutureScore(b) \in Int
  BY <1>3, ScoreAssumption
<1>9. t \in Seq(Words)
  BY <1>2
<1> HIDE DEF b, sc, st, t
<1>10. tot \in Int
  BY <1>7, <1>8
<1> HIDE DEF tot
<1>11. made \in Hypotheses
  BY <1>1, <1>2, <1>3, <1>6, <1>7, <1>9, <1>10 DEF Hypotheses
<1>12. /\ made.prev = id /\ made.bitmap = b /\ made.range = opt.span
       /\ made.score = sc /\ made.total = tot
  BY <1>1
<1>13. QED
  BY <1>11, <1>12 DEF b, tot

\* What the content of a hypothesis is.
LEMMA ContentIs ==
  ASSUME NEW h \in Hypotheses
  PROVE  /\ Content(h) \in Hypotheses
         /\ Content(h).bitmap = h.bitmap /\ Content(h).range = h.range
         /\ Content(h).target = h.target /\ Content(h).lm = h.lm
         /\ Content(h).lex = h.lex
         /\ Content(h).score = h.score /\ Content(h).total = h.total
         /\ Content(h) = [prev |-> NoHypothesis, bitmap |-> h.bitmap,
                          range |-> h.range, target |-> h.target, lm |-> h.lm,
                          lex |-> h.lex, score |-> h.score, total |-> h.total]
BY DEF Content, Hypotheses, NoHypothesis

\* The content of what CreateNext makes follows from the content alone.
LEMMA ContentOfNext ==
  ASSUME NEW h \in Hypotheses, NEW opt \in TranslationOptions, NEW id \in Nat
  PROVE  Content(CreateNext(id, h, opt)) = CreateNext(NoHypothesis, Content(h), opt)
<1>1. CreateNext(id, h, opt) \in Hypotheses
  BY CreateNextTyped
<1>2. PICK made : made = CreateNext(id, h, opt)
  OBVIOUS
<1>3. Content(made) = [prev |-> NoHypothesis, bitmap |-> made.bitmap,
                       range |-> made.range, target |-> made.target, lm |-> made.lm,
                       lex |-> made.lex, score |-> made.score, total |-> made.total]
  BY <1>1, <1>2, ContentIs
<1>4. PICK c : c = Content(h)
  OBVIOUS
<1>5. /\ c.bitmap = h.bitmap /\ c.range = h.range /\ c.target = h.target
      /\ c.lm = h.lm /\ c.lex = h.lex /\ c.score = h.score
  BY <1>4, ContentIs
<1>6. CreateNext(NoHypothesis, c, opt) =
        [prev |-> NoHypothesis, bitmap |-> made.bitmap, range |-> made.range,
         target |-> made.target, lm |-> made.lm, lex |-> made.lex,
         score |-> made.score, total |-> made.total]
  BY <1>2, <1>5 DEF CreateNext, LexicalScore
<1>7. QED
  BY <1>2, <1>3, <1>4, <1>6

\* What may follow, too.
LEMMA SameFollow ==
  ASSUME NEW i, NEW h \in Hypotheses
  PROVE  MayFollow(i, Content(h)) = MayFollow(i, h)
<1>1. PICK c : c = Content(h)
  OBVIOUS
<1>2. c.bitmap = h.bitmap /\ c.range = h.range /\ c.target = h.target
  BY <1>1, ContentIs
<1>3. MayFollow(i, c) = MayFollow(i, h)
  BY <1>2 DEF MayFollow, FitsConstraint
<1>4. QED
  BY <1>1, <1>3

\* A hypothesis has no last span just if that has no end.
LEMMA EndTells ==
  ASSUME NEW r \in PhraseSpans \cup {NoSpan}
  PROVE  (r = NoSpan <=> r[2] = NOT_FOUND) /\ (r[1] = NOT_FOUND <=> r[2] = NOT_FOUND)
<1>1. CASE r \in PhraseSpans
  <2>1. r[1] \in Positions /\ r[2] \in Positions
    BY <1>1 DEF PhraseSpans, Spans
  <2>2. r[1] # NOT_FOUND /\ r[2] # NOT_FOUND
    BY <2>1, SourceSizeAssumption DEF Positions, NOT_FOUND
  <2>3. QED
    BY <2>2 DEF NoSpan
<1>2. CASE r = NoSpan
  BY <1>2 DEF NoSpan
<1>3. QED
  BY <1>1, <1>2

\* Hypotheses that recombine have the same bitmap, last end and last word.
LEMMA KeyTells ==
  ASSUME NEW g, NEW h, RecombineKey(g) = RecombineKey(h)
  PROVE  g.bitmap = h.bitmap /\ g.range[2] = h.range[2] /\ g.lm = h.lm
BY DEF RecombineKey

\* An option lies the same way to the last spans of both, if the model does not
\* tell swaps.
LEMMA SameOrientation ==
  ASSUME NEW p \in PhraseSpans \cup {NoSpan}, NEW q \in PhraseSpans \cup {NoSpan},
         p[2] = q[2], OrientationModel # "orientation", NEW r
  PROVE  GetOrientationType(p, r) = GetOrientationType(q, r)
<1>1. p = NoSpan <=> q = NoSpan
  BY EndTells
<1>2. /\ IsMonotoneStep(p, r) <=> IsMonotoneStep(q, r)
      /\ IsRight(p, r) <=> IsRight(q, r)
  BY <1>1 DEF IsMonotoneStep, IsRight
<1>3. QED
  BY <1>2 DEF GetOrientationType

\* Recombination loses nothing: what may follow one of two hypotheses that
\* recombine may follow the other, adds the same to its score, and leads to
\* hypotheses that recombine again (Hypothesis::RecombineCompare), if lexical
\* reordering looks no further than that comparison does.
THEOREM RecombinationSafe ==
  ASSUME ReorderingComparable,
         NEW i \in Inputs, i.constraint = <<>>,
         NEW g \in Hypotheses, NEW h \in Hypotheses, RecombineKey(g) = RecombineKey(h),
         NEW j \in MayFollow(i, g), i.options[j] \in TranslationOptions,
         NEW m \in Nat, NEW n \in Nat,
         NEW a, a = CreateNext(m, g, i.options[j]),
         NEW b, b = CreateNext(n, h, i.options[j])
  PROVE  /\ j \in MayFollow(i, h)
         /\ RecombineKey(a) = RecombineKey(b)
         /\ a.score - g.score = b.score - h.score
         /\ a.total - g.score = b.total - h.score
<1> DEFINE opt == i.options[j]
           c == g.bitmap \cup SpanPositions(opt.span)
           dist == DistortionScore(g.range, opt.span)
           lms == LMScore(g.lm, opt.words, IsComplete(c))
           lex == LexicalScore(g, opt)
           fut == FutureScore(c)
<1>1. g.bitmap = h.bitmap /\ g.range[2] = h.range[2] /\ g.lm = h.lm
  BY KeyTells
<1>2. /\ g.range \in PhraseSpans \cup {NoSpan} /\ h.range \in PhraseSpans \cup {NoSpan}
      /\ g.score \in Int /\ h.score \in Int /\ opt.score \in Int
      /\ g.bitmap \in Bitmaps /\ g.lm \in Words /\ opt.words \in Seq(Words)
      /\ opt.span \in PhraseSpans
  BY DEF Hypotheses, TranslationOptions
<1>3. (g.range = NoSpan <=> h.range = NoSpan)
      /\ (g.range[1] = NOT_FOUND <=> h.range[1] = NOT_FOUND)
  BY <1>1, <1>2, EndTells
<1>4. j \in MayFollow(i, h)
  <2>1. NormalMayExtend(i.rc, g.bitmap, g.range, opt.span, OptionSpans(i), i.maxDistortion)
          <=> NormalMayExtend(i.rc, h.bitmap, h.range, opt.span, OptionSpans(i), i.maxDistortion)
    BY <1>1 DEF NormalMayExtend, NormalDistortionOK
  <2>2. FitsConstraint(i.constraint, h, opt)
    BY DEF FitsConstraint
  <2>3. QED
    BY <2>1, <2>2 DEF MayFollow
<1>5. DistortionScore(h.range, opt.span) = dist
  BY <1>1, <1>3 DEF DistortionScore, ComputeDistortionDistance
<1>6. LexicalScore(h, opt) = lex
  <2>1. CASE OrientationModel = "none"
    BY <2>1 DEF LexicalScore
  <2>2. CASE OrientationModel # "none"
    <3>1. OrientationModel # "orientation" /\ LexDirection = "Backward"
      BY <2>2 DEF ReorderingComparable
    <3>2. GetOrientationType(g.range, opt.span) = GetOrientationType(h.range, opt.span)
      BY <1>1, <1>2, <3>1, SameOrientation
    <3>3. "Forward" \notin DecodeDirection
      BY <3>1 DEF DecodeDirection
    <3>4. QED
      BY <3>2, <3>3 DEF LexicalScore
  <2>3. QED
    BY <2>1, <2>2
<1>7. /\ a = [prev |-> m, bitmap |-> c, range |-> opt.span, target |-> g.target \o opt.words,
              lm |-> LMState(g.lm, opt.words, IsComplete(c)), lex |-> opt.lex,
              score |-> g.score + opt.score + dist + lms + lex,
              total |-> g.score + opt.score + dist + lms + lex + fut]
      /\ b = [prev |-> n, bitmap |-> c, range |-> opt.span, target |-> h.target \o opt.words,
              lm |-> LMState(g.lm, opt.words, IsComplete(c)), lex |-> opt.lex,
              score |-> h.score + opt.score + dist + lms + lex,
              total |-> h.score + opt.score + dist + lms + lex + fut]
  BY <1>1, <1>5, <1>6 DEF CreateNext
<1>8. dist \in Int /\ lms \in Int /\ lex \in Int /\ fut \in Int
  <2>1. c \in Bitmaps
    BY <1>2, SpanInside DEF Bitmaps
  <2>2. IsComplete(c) \in BOOLEAN
    BY DEF IsComplete
  <2>3. dist \in Int /\ lex \in Int
    BY <1>2, DistanceTyped, LexTyped
  <2>4. lms \in Int
    BY <1>2, <2>2, LMTyped
  <2>5. fut \in Int
    BY <2>1, ScoreAssumption
  <2>6. QED
    BY <2>3, <2>4, <2>5
<1> HIDE DEF dist, lms, lex, fut, c
<1>9. RecombineKey(a) = RecombineKey(b)
  BY <1>7 DEF RecombineKey
<1>10. /\ a.score = g.score + opt.score + dist + lms + lex
       /\ b.score = h.score + opt.score + dist + lms + lex
       /\ a.total = g.score + opt.score + dist + lms + lex + fut
       /\ b.total = h.score + opt.score + dist + lms + lex + fut
  BY <1>7
<1> HIDE DEF opt
<1>11. a.score - g.score = b.score - h.score
  <2>1. \A x, y, s, u, v, w \in Int : (x + s + u + v + w) - x = (y + s + u + v + w) - y
    BY ONLY SMT
  <2>2. g.score \in Int /\ h.score \in Int /\ opt.score \in Int
    BY ONLY <1>2
  <2>3. QED
    BY ONLY <1>8, <1>10, <2>1, <2>2
<1>12. a.total - g.score = b.total - h.score
  <2>1. \A x, y, s, u, v, w, f \in Int :
          (x + s + u + v + w + f) - x = (y + s + u + v + w + f) - y
    BY ONLY SMT
  <2>2. g.score \in Int /\ h.score \in Int /\ opt.score \in Int
    BY ONLY <1>2
  <2>3. QED
    BY ONLY <1>8, <1>10, <2>1, <2>2
<1>13. QED
  BY <1>4, <1>9, <1>11, <1>12 DEF opt

\* An option that may follow translates one to some new words, and the path
\* goes on.
LEMMA FollowExtends ==
  ASSUME NEW i \in Inputs, NEW h \in Hypotheses,
         OnPath(i.rc, h.bitmap, h.range, i.maxDistortion), NEW j \in MayFollow(i, h)
  PROVE  LET opt == i.options[j]
             b == h.bitmap \cup SpanPositions(opt.span)
         IN  /\ opt \in TranslationOptions
             /\ OnPath(i.rc, b, opt.span, i.maxDistortion)
             /\ Cardinality(h.bitmap) \in Nat /\ Cardinality(b) \in Nat
             /\ Cardinality(h.bitmap) < Cardinality(b) /\ Cardinality(b) <= SourceSize
<1> DEFINE opt == i.options[j]
           b == h.bitmap \cup SpanPositions(opt.span)
<1>1. j \in 1 .. Len(i.options) /\ i.options \in Seq(TranslationOptions)
  BY InputAssumption DEF MayFollow
<1>2. opt \in TranslationOptions /\ opt.span \in PhraseSpans
  <2>1. opt \in TranslationOptions
    <3> DEFINE s == i.options
    <3>1. s \in Seq(TranslationOptions) /\ j \in 1 .. Len(s)
      BY <1>1
    <3> HIDE DEF s
    <3>2. s[j] \in TranslationOptions
      BY <3>1
    <3>3. QED
      BY <3>2 DEF s
  <2>2. QED
    BY <2>1 DEF TranslationOptions
<1>3. Extends(i.rc, h.bitmap, h.range, opt.span, i.maxDistortion)
  BY <1>2 DEF MayFollow, NormalMayExtend, Extends
<1>4. IsConstraint(i.rc) /\ IsLimit(i.maxDistortion)
  BY InputAssumption DEF IsLimit
<1>5. OnPath(i.rc, b, opt.span, i.maxDistortion)
  BY <1>3, <1>4, PathStep
<1>6. b \subseteq Positions /\ h.bitmap \subseteq b
  BY <1>5 DEF OnPath, Typed, Bitmaps
<1>7. h.bitmap # b
  <2>1. SpanPositions(opt.span) # {}
    BY <1>2, SpanInside
  <2>2. ~Overlap(h.bitmap, opt.span)
    BY <1>3 DEF Extends
  <2>3. QED
    BY <2>1, <2>2 DEF Overlap
<1>8. IsFiniteSet(Positions) /\ Cardinality(Positions) = SourceSize
  BY SourceSizeAssumption, FS_Interval DEF Positions
<1>9. IsFiniteSet(b) /\ Cardinality(b) <= SourceSize
  BY <1>6, <1>8, FS_Subset
<1>10. IsFiniteSet(h.bitmap) /\ Cardinality(h.bitmap) < Cardinality(b)
  <2> DEFINE a == h.bitmap
  <2> HIDE DEF b, a
  <2>1. a \subseteq b /\ a # b /\ IsFiniteSet(b)
    BY <1>6, <1>7, <1>9 DEF a
  <2>2. IsFiniteSet(a) /\ Cardinality(a) <= Cardinality(b)
        /\ (Cardinality(a) = Cardinality(b) => a = b)
    BY <2>1, FS_Subset
  <2>3. Cardinality(a) \in Nat /\ Cardinality(b) \in Nat
    BY <2>1, <2>2, FS_CardinalityType
  <2>4. Cardinality(a) < Cardinality(b)
    BY <2>1, <2>2, <2>3
  <2>5. QED
    BY <2>2, <2>4 DEF a
<1>11. Cardinality(h.bitmap) \in Nat /\ Cardinality(b) \in Nat
  BY <1>9, <1>10, FS_CardinalityType
<1>12. QED
  BY <1>2, <1>5, <1>9, <1>10, <1>11

\* A step of a search, seen by content, is a step of a derivation.
LEMMA StepDerived ==
  ASSUME NEW i \in Inputs, NEW h \in Hypotheses, NEW j \in MayFollow(i, h),
         i.options[j] \in TranslationOptions, NEW id \in Nat,
         NEW n \in 0 .. SourceSize - 1, Content(h) \in Derivations(i)[n]
  PROVE  Content(CreateNext(id, h, i.options[j])) \in Derivations(i)[n + 1]
<1> DEFINE c == Content(h)
<1>1. Content(CreateNext(id, h, i.options[j])) = CreateNext(NoHypothesis, c, i.options[j])
  BY ContentOfNext
<1>2. j \in MayFollow(i, c)
  BY SameFollow
<1>3. CreateNext(NoHypothesis, c, i.options[j]) \in Steps(i, Derivations(i)[n])
  BY <1>2 DEF Steps
<1>4. QED
  BY <1>1, <1>3, DerivationsAre

\* The content of what n steps build is a derivation.
LEMMA DerivationKnown ==
  ASSUME NEW i, NEW n \in 0 .. SourceSize, NEW c \in Derivations(i)[n]
  PROVE  c \in AllDerivations(i)
BY DEF AllDerivations

------------------------------------------------------------------------------
(****************************************************************************)
(* The operations of one stack.                                             *)
(****************************************************************************)
IsConf(conf) ==
  /\ conf.stackSize \in Nat \ {0}
  /\ conf.diversity \in Nat
  /\ conf.beamWidth \in Int /\ conf.beamWidth < 0

IsStack(I, stk) ==
  stk \in [hypos : SUBSET I, best : Int, worst : Int, divWorst : [Bitmaps -> Int]]

\* H[x] is a hypothesis for each x of I, above -infinity.
AreHypotheses(H, I) ==
  /\ IsFiniteSet(I)
  /\ \A x \in I : H[x] \in Hypotheses /\ NegInf < H[x].total

------------------------------------------------------------------------------
(****************************************************************************)
(* The best of a set.                                                       *)
(****************************************************************************)

LEMMA MinOfTwo ==
  ASSUME NEW a \in Int, NEW c \in Int
  PROVE  Min({a, c}) = IF a <= c THEN a ELSE c
<1>1. \E x \in {a, c} : \A y \in {a, c} : x <= y
  OBVIOUS
<1>2. Min({a, c}) \in {a, c} /\ \A y \in {a, c} : Min({a, c}) <= y
  BY <1>1 DEF Min
<1>3. QED
  BY <1>2

LEMMA MaxOfTwo ==
  ASSUME NEW a \in Int, NEW c \in Int
  PROVE  Max({a, c}) = IF a >= c THEN a ELSE c
<1>1. \E x \in {a, c} : \A y \in {a, c} : x >= y
  OBVIOUS
<1>2. Max({a, c}) \in {a, c} /\ \A y \in {a, c} : Max({a, c}) >= y
  BY <1>1 DEF Max
<1>3. QED
  BY <1>2

\* Hypotheses at least as good as t, and those that are better.
AtLeast(H, S, t)  == {x \in S : H[x].total >= t}
MoreThan(H, S, t) == {x \in S : H[x].total > t}

LEMMA AtLeastFinite ==
  ASSUME NEW H, NEW S, IsFiniteSet(S), NEW t
  PROVE  /\ IsFiniteSet(AtLeast(H, S, t)) /\ Cardinality(AtLeast(H, S, t)) \in Nat
         /\ IsFiniteSet(MoreThan(H, S, t)) /\ Cardinality(MoreThan(H, S, t)) \in Nat
<1>1. AtLeast(H, S, t) \in SUBSET S /\ MoreThan(H, S, t) \in SUBSET S
  BY DEF AtLeast, MoreThan
<1>2. QED
  BY <1>1, FS_Subset, FS_CardinalityType

\* A finite set has a hypothesis with the lowest score.
LEMMA WorstOfSet ==
  ASSUME NEW H, NEW S, IsFiniteSet(S), S # {}, \A x \in S : H[x].total \in Int
  PROVE  \E x \in S : \A y \in S : H[x].total <= H[y].total
<1> DEFINE Below(x) == {y \in S : H[y].total < H[x].total}
           T == {Cardinality(Below(x)) : x \in S}
<1>1. \A x \in S : IsFiniteSet(Below(x)) /\ Cardinality(Below(x)) \in Nat
  <2>1. \A x \in S : Below(x) \in SUBSET S
    OBVIOUS
  <2> HIDE DEF Below
  <2>2. QED
    BY <2>1, FS_Subset, FS_CardinalityType
<1>2. T \subseteq Nat /\ T # {}
  BY <1>1
<1> HIDE DEF T
<1>3. PICK t \in T : \A y \in T : t <= y
  BY <1>2, LeastNatural
<1>4. PICK x \in S : t = Cardinality(Below(x))
  BY <1>3 DEF T
<1>5. SUFFICES ASSUME NEW y \in S, H[y].total < H[x].total PROVE FALSE
  <2>1. \A y \in S : ~(H[y].total < H[x].total) => H[x].total <= H[y].total
    OBVIOUS
  <2>2. QED
    BY <2>1
<1>6. Below(y) \subseteq Below(x) /\ y \in Below(x) /\ y \notin Below(y)
  BY <1>5
<1>7. Cardinality(Below(x)) <= Cardinality(Below(y))
  BY <1>3, <1>4 DEF T
<1> HIDE DEF Below
<1>8. Cardinality(Below(y)) <= Cardinality(Below(x))
  BY <1>1, <1>6, FS_Subset
<1>9. Cardinality(Below(y)) = Cardinality(Below(x))
  BY <1>1, <1>7, <1>8
<1>10. Below(x) = Below(y)
  BY <1>1, <1>6, <1>9, FS_Subset
<1>11. QED
  BY <1>6, <1>10

\* LowestScore returns it.
LEMMA LowestScoreIs ==
  ASSUME NEW H, NEW S, IsFiniteSet(S), S # {}, \A x \in S : H[x].total \in Int
  PROVE  /\ LowestScore(H, S) \in Int
         /\ \E x \in S : H[x].total = LowestScore(H, S)
         /\ \A x \in S : LowestScore(H, S) <= H[x].total
<1> DEFINE T == {H[x].total : x \in S}
<1>1. PICK x \in S : \A y \in S : H[x].total <= H[y].total
  BY WorstOfSet
<1>2. \E t \in T : \A u \in T : t <= u
  BY <1>1
<1>3. LowestScore(H, S) = CHOOSE t \in T : \A u \in T : t <= u
  BY DEF LowestScore, Min
<1>4. LowestScore(H, S) \in T /\ \A u \in T : LowestScore(H, S) <= u
  BY <1>2, <1>3
<1>5. QED
  BY <1>4

\* What Best returns: a part of the set, as large as it may be, and nothing
\* better is left out than what is in.
LEMMA BestIs ==
  ASSUME NEW H, NEW S, IsFiniteSet(S), \A x \in S : H[x].total \in Int,
         NEW n \in Nat, NEW K \in Best(H, n, S)
  PROVE  /\ K \subseteq S /\ IsFiniteSet(K)
         /\ Cardinality(K) = IF n <= Cardinality(S) THEN n ELSE Cardinality(S)
         /\ \A x \in K, y \in S \ K : H[y].total <= H[x].total
<1> DEFINE sure == Sure(H, n, S)
<1>1. Cardinality(S) \in Nat
  BY FS_CardinalityType
<1>2. PICK tied \in SUBSET (Candidates(H, n, S) \ sure) :
        K = sure \cup tied /\ Cardinality(K) = Min({n, Cardinality(S)})
  BY DEF Best
<1>3. sure \subseteq S /\ tied \subseteq S
  BY <1>2 DEF Sure, Candidates
<1>4. K \subseteq S /\ IsFiniteSet(K)
  BY <1>2, <1>3, FS_Subset
<1>5. Cardinality(K) = IF n <= Cardinality(S) THEN n ELSE Cardinality(S)
  BY <1>1, <1>2, MinOfTwo
<1>6. ASSUME NEW x \in K, NEW y \in S \ K, H[y].total > H[x].total PROVE FALSE
  <2>1. IsFiniteSet(AtLeast(H, S, H[y].total)) /\ IsFiniteSet(MoreThan(H, S, H[x].total))
        /\ Cardinality(AtLeast(H, S, H[y].total)) \in Nat
        /\ Cardinality(MoreThan(H, S, H[x].total)) \in Nat
        /\ IsFiniteSet(AtLeast(H, S, H[x].total))
        /\ Cardinality(AtLeast(H, S, H[x].total)) \in Nat
    BY AtLeastFinite
  <2>2. Cardinality(AtLeast(H, S, H[y].total)) > n
    <3>1. y \notin sure
      BY <1>2
    <3>2. ~(Cardinality(AtLeast(H, S, H[y].total)) <= n)
      BY <3>1 DEF Sure, AtLeast
    <3>3. QED
      BY <2>1, <3>2
  <2>3. AtLeast(H, S, H[y].total) \subseteq MoreThan(H, S, H[x].total)
    BY <1>4, <1>6 DEF AtLeast, MoreThan
  <2>4. Cardinality(AtLeast(H, S, H[y].total)) <= Cardinality(MoreThan(H, S, H[x].total))
    BY <2>1, <2>3, FS_Subset
  <2>5. CASE x \in sure
    <3>1. Cardinality(AtLeast(H, S, H[x].total)) <= n
      BY <2>5 DEF Sure, AtLeast
    <3>2. MoreThan(H, S, H[x].total) \subseteq AtLeast(H, S, H[x].total)
      BY <1>4 DEF AtLeast, MoreThan
    <3>3. Cardinality(MoreThan(H, S, H[x].total)) <= Cardinality(AtLeast(H, S, H[x].total))
      BY <2>1, <3>2, FS_Subset
    <3>4. QED
      BY <2>1, <2>2, <2>4, <3>1, <3>3
  <2>6. CASE x \in Candidates(H, n, S)
    <3>1. Cardinality(MoreThan(H, S, H[x].total)) < n
      BY <2>6 DEF Candidates, MoreThan
    <3>2. QED
      BY <2>1, <2>2, <2>4, <3>1
  <2>7. QED
    BY <1>2, <2>5, <2>6
<1>7. QED
  <2>1. \A x \in K, y \in S \ K : ~(H[y].total > H[x].total)
    BY <1>6
  <2>2. \A x \in K, y \in S \ K : H[x].total \in Int /\ H[y].total \in Int
    BY <1>4
  <2>3. QED
    BY <1>4, <1>5, <2>1, <2>2

\* If n hypotheses of the set have the score t, n of its best have it.
LEMMA BestKeepsGood ==
  ASSUME NEW H, NEW S, IsFiniteSet(S), \A x \in S : H[x].total \in Int,
         NEW n \in Nat, NEW K \in Best(H, n, S), NEW t \in Int,
         Cardinality(AtLeast(H, S, t)) >= n
  PROVE  Cardinality(AtLeast(H, K, t)) >= n
<1>1. /\ K \subseteq S /\ IsFiniteSet(K)
      /\ Cardinality(K) = IF n <= Cardinality(S) THEN n ELSE Cardinality(S)
      /\ \A x \in K, y \in S \ K : H[y].total <= H[x].total
  BY BestIs
<1>2. AtLeast(H, S, t) \subseteq S /\ AtLeast(H, K, t) \subseteq K
  BY DEF AtLeast
<1>3. Cardinality(S) \in Nat /\ Cardinality(K) \in Nat
      /\ Cardinality(AtLeast(H, S, t)) \in Nat
  BY <1>1, FS_CardinalityType, AtLeastFinite
<1>4. Cardinality(AtLeast(H, S, t)) <= Cardinality(S)
  BY <1>2, FS_Subset
<1>5. Cardinality(K) = n
  BY <1>1, <1>3, <1>4
<1>6. CASE AtLeast(H, K, t) = K
  BY <1>3, <1>5, <1>6
<1>7. CASE AtLeast(H, K, t) # K
  <2>1. PICK x \in K : ~(H[x].total >= t)
    BY <1>7 DEF AtLeast
  <2>2. H[x].total \in Int /\ H[x].total < t
    BY <1>1, <2>1
  <2>3. AtLeast(H, S, t) \subseteq K
    <3>1. SUFFICES ASSUME NEW y \in S, H[y].total >= t, y \notin K PROVE FALSE
      BY DEF AtLeast
    <3>2. H[y].total <= H[x].total
      BY <1>1, <3>1
    <3>3. QED
      BY <2>2, <3>1, <3>2
  <2>4. x \notin AtLeast(H, S, t)
    BY <2>1 DEF AtLeast
  <2>5. Cardinality(AtLeast(H, S, t)) <= Cardinality(K)
        /\ (Cardinality(K) = Cardinality(AtLeast(H, S, t)) => K = AtLeast(H, S, t))
    BY <1>1, <2>3, FS_Subset
  <2>6. QED
    BY <1>3, <1>5, <2>4, <2>5
<1>8. QED
  BY <1>6, <1>7

------------------------------------------------------------------------------
(****************************************************************************)
(* What a stack may lose.                                                   *)
(****************************************************************************)

\* The best score is that of a hypothesis in the stack, and the bounds are at
\* -infinity until one came.
BestSeen(H, I, stk) ==
  /\ \A x \in stk.hypos : H[x].total <= stk.best
  /\ I # {} => \E x \in stk.hypos : H[x].total = stk.best
  /\ I = {} => stk.best = NegInf /\ stk.worst = NegInf

\* A hypothesis with the score t may go.
MayGo(H, conf, stk, t) ==
  \/ Cardinality(AtLeast(H, stk.hypos, t)) >= conf.stackSize
  \/ t <= stk.best + conf.beamWidth

\* Without stack diversity: the worst score is right, and whatever came and
\* has no equal or better twin in the stack was allowed to go.
Justified(H, conf, I, stk) ==
  conf.diversity = 0 =>
    /\ \A t \in Int : NegInf < t /\ t < stk.worst => MayGo(H, conf, stk, t)
    /\ \A x \in I :
         \/ \E y \in stk.hypos : /\ RecombineKey(H[y]) = RecombineKey(H[x])
                                 /\ H[y].total >= H[x].total
         \/ MayGo(H, conf, stk, H[x].total)

Keys(H, I, b) == {RecombineKey(H[x]) : x \in {y \in I : H[y].bitmap = b}}

\* With stack diversity: each coverage has its share, or all that came, and
\* its worst score is set when the share is full.
Diverse(H, conf, I, stk) ==
  conf.diversity > 0 =>
    \A b \in Bitmaps :
      LET have == Cardinality(Covering(H, stk.hypos, b))
      IN  /\ have >= conf.diversity \/ have >= Cardinality(Keys(H, I, b))
          /\ stk.divWorst[b] # NegInf => have >= conf.diversity

StackSound(H, conf, I, stk) ==
  /\ IsStack(I, stk)
  /\ BestSeen(H, I, stk)
  /\ Justified(H, conf, I, stk)
  /\ Diverse(H, conf, I, stk)

------------------------------------------------------------------------------
(****************************************************************************)
(* A hypothesis comes and does not stay.                                    *)
(****************************************************************************)

LEMMA StackFinite ==
  ASSUME NEW H, NEW I, AreHypotheses(H, I), NEW stk, IsStack(I, stk)
  PROVE  /\ stk.hypos \subseteq I /\ IsFiniteSet(stk.hypos)
         /\ stk.best \in Int /\ stk.worst \in Int /\ stk.divWorst \in [Bitmaps -> Int]
         /\ \A x \in I : /\ H[x].total \in Int /\ H[x].bitmap \in Bitmaps
                         /\ NegInf < H[x].total
         /\ \A b : IsFiniteSet(Covering(H, stk.hypos, b))
                   /\ Cardinality(Covering(H, stk.hypos, b)) \in Nat
<1>1. stk.hypos \subseteq I /\ IsFiniteSet(stk.hypos)
  BY FS_Subset DEF IsStack, AreHypotheses
<1>2. ASSUME NEW b PROVE Covering(H, stk.hypos, b) \subseteq stk.hypos
  BY DEF Covering
<1>3. \A b : IsFiniteSet(Covering(H, stk.hypos, b))
             /\ Cardinality(Covering(H, stk.hypos, b)) \in Nat
  BY <1>1, <1>2, FS_Subset, FS_CardinalityType
<1>4. QED
  BY <1>1, <1>3 DEF IsStack, AreHypotheses, Hypotheses

LEMMA KeysFinite ==
  ASSUME NEW H, NEW I, IsFiniteSet(I), NEW b
  PROVE  IsFiniteSet(Keys(H, I, b)) /\ Cardinality(Keys(H, I, b)) \in Nat
<1> DEFINE J == {y \in I : H[y].bitmap = b}
           f == [x \in J |-> RecombineKey(H[x])]
<1>1. IsFiniteSet(J)
  BY FS_Subset
<1>2. f \in Surjection(J, Keys(H, I, b))
  BY DEF Surjection, Keys
<1>3. QED
  BY <1>1, <1>2, FS_Surjection, FS_CardinalityType

\* One more hypothesis brings no key that one with its key has brought, none
\* to another coverage, and at most one to its own.
LEMMA KeysGrow ==
  ASSUME NEW H, NEW I, IsFiniteSet(I), NEW h, NEW b
  PROVE  /\ H[h].bitmap # b => Keys(H, I \cup {h}, b) = Keys(H, I, b)
         /\ (\E x \in I : RecombineKey(H[x]) = RecombineKey(H[h]))
              => Keys(H, I \cup {h}, b) = Keys(H, I, b)
         /\ Cardinality(Keys(H, I \cup {h}, b)) <= Cardinality(Keys(H, I, b)) + 1
<1>1. H[h].bitmap # b => Keys(H, I \cup {h}, b) = Keys(H, I, b)
  BY DEF Keys
<1>2. ASSUME NEW x \in I, RecombineKey(H[x]) = RecombineKey(H[h])
      PROVE  Keys(H, I \cup {h}, b) = Keys(H, I, b)
  <2>1. H[x].bitmap = H[h].bitmap
    BY <1>2 DEF RecombineKey
  <2>2. QED
    BY <1>2, <2>1 DEF Keys
<1>3. H[h].bitmap = b => Keys(H, I \cup {h}, b) = Keys(H, I, b) \cup {RecombineKey(H[h])}
  BY DEF Keys
<1>4. Cardinality(Keys(H, I \cup {h}, b)) <= Cardinality(Keys(H, I, b)) + 1
  <2>1. IsFiniteSet(Keys(H, I, b)) /\ Cardinality(Keys(H, I, b)) \in Nat
    BY KeysFinite
  <2>2. CASE H[h].bitmap # b
    BY <1>1, <2>1, <2>2
  <2>3. CASE H[h].bitmap = b
    <3> DEFINE K == Keys(H, I, b)
               k == RecombineKey(H[h])
    <3>1. Cardinality(K \cup {k}) = IF k \in K THEN Cardinality(K) ELSE Cardinality(K) + 1
      BY <2>1, FS_AddElement
    <3>2. Keys(H, I \cup {h}, b) = K \cup {k}
      BY <1>3, <2>3
    <3> HIDE DEF K, k
    <3>3. Cardinality(K) \in Nat
      BY <2>1 DEF K
    <3>4. Cardinality(K \cup {k}) <= Cardinality(K) + 1
      BY <3>1, <3>3
    <3>5. QED
      BY <3>2, <3>4 DEF K
  <2>4. QED
    BY <2>2, <2>3
<1>5. QED
  BY <1>1, <1>2, <1>4

\* AddPrune discards a hypothesis that is too bad unseen.
LEMMA DiscardSound ==
  ASSUME NEW H, NEW conf, IsConf(conf), NEW I, NEW h, h \notin I,
         AreHypotheses(H, I \cup {h}), NEW stk, StackSound(H, conf, I, stk),
         TooBad(H, conf, stk, h)
  PROVE  StackSound(H, conf, I \cup {h}, stk)
<1>1. IsStack(I \cup {h}, stk)
  BY DEF StackSound, IsStack
<1>2. AreHypotheses(H, I)
  BY FS_Subset DEF AreHypotheses
<1>3. /\ H[h].total \in Int /\ H[h].bitmap \in Bitmaps /\ NegInf < H[h].total
      /\ H[h].total < stk.worst /\ stk.worst \in Int
  BY <1>1, StackFinite DEF TooBad
<1>4. BestSeen(H, I \cup {h}, stk)
  <2>1. I # {}
    BY <1>3, NegInfAssumption DEF StackSound, BestSeen
  <2>2. QED
    BY <2>1 DEF StackSound, BestSeen
<1>5. Justified(H, conf, I \cup {h}, stk)
  BY <1>3 DEF StackSound, Justified
<1>6. Diverse(H, conf, I \cup {h}, stk)
  <2>1. SUFFICES ASSUME conf.diversity > 0, NEW b \in Bitmaps
                 PROVE  LET have == Cardinality(Covering(H, stk.hypos, b))
                        IN  /\ \/ have >= conf.diversity
                               \/ have >= Cardinality(Keys(H, I \cup {h}, b))
                            /\ stk.divWorst[b] # NegInf => have >= conf.diversity
    BY DEF Diverse
  <2>2. CASE H[h].bitmap # b
    BY <1>2, <2>1, <2>2, KeysGrow DEF AreHypotheses, StackSound, Diverse
  <2>3. CASE H[h].bitmap = b
    <3>1. stk.divWorst[b] \in Int
      BY <1>1, StackFinite
    <3>2. ~(H[h].total >= stk.divWorst[b])
      BY <2>1, <2>3 DEF TooBad
    <3>3. stk.divWorst[b] # NegInf
      BY <1>3, <3>1, <3>2, NegInfAssumption
    <3>4. QED
      BY <2>1, <3>3 DEF StackSound, Diverse
  <2>4. QED
    BY <2>2, <2>3
<1>7. QED
  BY <1>1, <1>4, <1>5, <1>6 DEF StackSound

\* A hypothesis that recombines with a better or equal one does not stay.
LEMMA LoserSound ==
  ASSUME NEW H, NEW conf, IsConf(conf), NEW I, NEW h, h \notin I,
         AreHypotheses(H, I \cup {h}), NEW stk, StackSound(H, conf, I, stk),
         NEW x \in Twins(H, stk, h), H[h].total <= H[x].total
  PROVE  StackSound(H, conf, I \cup {h}, stk)
<1>1. IsStack(I \cup {h}, stk)
  BY DEF StackSound, IsStack
<1>2. /\ x \in stk.hypos /\ x \in I /\ RecombineKey(H[x]) = RecombineKey(H[h])
      /\ H[h].total \in Int /\ H[x].total \in Int /\ H[x].total >= H[h].total
  <2>1. x \in stk.hypos /\ RecombineKey(H[x]) = RecombineKey(H[h])
    BY DEF Twins
  <2>2. x \in I
    BY <2>1 DEF StackSound, IsStack
  <2>3. H[h].total \in Int /\ H[x].total \in Int
    BY <1>1, <2>2, StackFinite
  <2>4. QED
    BY <2>1, <2>2, <2>3
<1>3. BestSeen(H, I \cup {h}, stk)
  BY <1>2 DEF StackSound, BestSeen
<1>4. Justified(H, conf, I \cup {h}, stk)
  BY <1>2 DEF StackSound, Justified
<1>5. IsFiniteSet(I)
  BY FS_Subset DEF AreHypotheses
<1>6. \A b : Keys(H, I \cup {h}, b) = Keys(H, I, b)
  BY <1>2, <1>5, KeysGrow
<1>7. Diverse(H, conf, I \cup {h}, stk)
  BY <1>6 DEF StackSound, Diverse
<1>8. QED
  BY <1>1, <1>3, <1>4, <1>7 DEF StackSound

------------------------------------------------------------------------------
(****************************************************************************)
(* A hypothesis is inserted, maybe in the place of its twin.                *)
(****************************************************************************)

\* A finite set that has all of A, or h instead of x, is as large as A.
LEMMA SwapGrows ==
  ASSUME NEW A, IsFiniteSet(A), NEW B, IsFiniteSet(B), NEW x, NEW h, h \notin A,
         A \ {x} \subseteq B, x \in A => x \in B \/ h \in B
  PROVE  Cardinality(A) <= Cardinality(B)
<1>1. CASE x \notin A \/ x \in B
  <2>1. A \subseteq B
    BY <1>1
  <2>2. QED
    BY <2>1, FS_Subset
<1>2. CASE x \in A /\ x \notin B
  <2>1. Cardinality(A) \in Nat
    BY FS_CardinalityType
  <2>2. IsFiniteSet(A \ {x}) /\ Cardinality(A \ {x}) = Cardinality(A) - 1
    BY <1>2, FS_RemoveElement
  <2>3. h \notin A \ {x}
    OBVIOUS
  <2>4. Cardinality((A \ {x}) \cup {h}) = Cardinality(A)
    <3> DEFINE C == A \ {x}
    <3>1. IsFiniteSet(C) /\ Cardinality(C) = Cardinality(A) - 1 /\ h \notin C
      BY <2>2, <2>3
    <3> HIDE DEF C
    <3>2. Cardinality(C \cup {h}) = Cardinality(C) + 1
      BY <3>1, FS_AddElement
    <3>3. Cardinality(C \cup {h}) = Cardinality(A)
      BY <2>1, <3>1, <3>2
    <3>4. QED
      BY <3>3 DEF C
  <2>5. (A \ {x}) \cup {h} \subseteq B
    BY <1>2
  <2>6. Cardinality((A \ {x}) \cup {h}) <= Cardinality(B)
    BY <2>5, FS_Subset
  <2>7. QED
    BY <2>4, <2>6
<1>3. QED
  BY <1>1, <1>2

\* The place x that h takes: x is a worse twin, or not in the stack.
Yields(H, stk, h, x) ==
  x \in stk.hypos => /\ RecombineKey(H[x]) = RecombineKey(H[h])
                     /\ H[h].total > H[x].total

\* What Insert makes of a stack without x.
Inserted(H, conf, I, stk, h, x, added) ==
  /\ IsStack(I \cup {h}, added)
  /\ added.hypos = (stk.hypos \ {x}) \cup {h}
  /\ H[h].total > stk.best =>
       /\ added.best = H[h].total
       /\ added.worst = IF stk.worst >= H[h].total + conf.beamWidth
                        THEN stk.worst ELSE H[h].total + conf.beamWidth
  /\ ~(H[h].total > stk.best) => added.best = stk.best /\ added.worst = stk.worst
  /\ \A b \in Bitmaps :
       \/ added.divWorst[b] = stk.divWorst[b]
       \/ conf.diversity = 1 /\ b = H[h].bitmap

LEMMA InsertIs ==
  ASSUME NEW H, NEW conf, IsConf(conf), NEW I, NEW h, h \notin I,
         AreHypotheses(H, I \cup {h}), NEW stk, IsStack(I, stk), NEW x,
         NEW added, added = Insert(H, conf, Without(stk, x), h)
  PROVE  Inserted(H, conf, I, stk, h, x, added)
<1> DEFINE total == H[h].total
<1>1. /\ stk.hypos \subseteq I /\ stk.best \in Int /\ stk.worst \in Int
      /\ stk.divWorst \in [Bitmaps -> Int]
  BY DEF IsStack
<1>2. total \in Int /\ H[h].bitmap \in Bitmaps /\ conf.beamWidth \in Int
  BY DEF AreHypotheses, Hypotheses, IsConf
<1>3. /\ Without(stk, x).hypos = stk.hypos \ {x}
      /\ Without(stk, x).best = stk.best /\ Without(stk, x).worst = stk.worst
      /\ Without(stk, x).divWorst = stk.divWorst
  BY DEF Without, IsStack
<1>4. added =
        [hypos    |-> (stk.hypos \ {x}) \cup {h},
         best     |-> IF total > stk.best THEN total ELSE stk.best,
         worst    |-> IF total > stk.best THEN Max({stk.worst, total + conf.beamWidth})
                      ELSE stk.worst,
         divWorst |-> IF conf.diversity = 1 /\ total > stk.divWorst[H[h].bitmap]
                      THEN [stk.divWorst EXCEPT ![H[h].bitmap] = total]
                      ELSE stk.divWorst]
  BY <1>3 DEF Insert
<1>5. Max({stk.worst, total + conf.beamWidth})
        = IF stk.worst >= total + conf.beamWidth THEN stk.worst
          ELSE total + conf.beamWidth
  BY <1>1, <1>2, MaxOfTwo
<1>6. added.divWorst \in [Bitmaps -> Int]
      /\ \A b \in Bitmaps : \/ added.divWorst[b] = stk.divWorst[b]
                            \/ conf.diversity = 1 /\ b = H[h].bitmap
  BY <1>1, <1>2, <1>4
<1>7. added.hypos = (stk.hypos \ {x}) \cup {h} /\ added.hypos \subseteq I \cup {h}
  BY <1>1, <1>4
<1>8. total > stk.best =>
        /\ added.best = total
        /\ added.worst = IF stk.worst >= total + conf.beamWidth
                         THEN stk.worst ELSE total + conf.beamWidth
  BY <1>4, <1>5
<1>9. ~(total > stk.best) => added.best = stk.best /\ added.worst = stk.worst
  BY <1>4
<1>10. added.best \in Int /\ added.worst \in Int
  BY <1>1, <1>2, <1>8, <1>9
<1>11. added = [hypos |-> added.hypos, best |-> added.best, worst |-> added.worst,
                divWorst |-> added.divWorst]
  BY <1>4
<1>12. IsStack(I \cup {h}, added)
  BY <1>6, <1>7, <1>10, <1>11 DEF IsStack
<1>13. QED
  BY <1>6, <1>7, <1>8, <1>9, <1>12 DEF Inserted

LEMMA InsertSound ==
  ASSUME NEW H, NEW conf, IsConf(conf), NEW I, NEW h, h \notin I,
         AreHypotheses(H, I \cup {h}), NEW stk, StackSound(H, conf, I, stk),
         NEW x, Yields(H, stk, h, x)
  PROVE  StackSound(H, conf, I \cup {h}, Insert(H, conf, Without(stk, x), h))
<1> DEFINE added == Insert(H, conf, Without(stk, x), h)
           total == H[h].total
<1>1. IsStack(I, stk) /\ AreHypotheses(H, I)
  BY FS_Subset DEF StackSound, AreHypotheses
<1>2. /\ IsStack(I \cup {h}, added)
      /\ added.hypos = (stk.hypos \ {x}) \cup {h}
      /\ total > stk.best =>
           /\ added.best = total
           /\ added.worst = IF stk.worst >= total + conf.beamWidth
                            THEN stk.worst ELSE total + conf.beamWidth
      /\ ~(total > stk.best) => added.best = stk.best /\ added.worst = stk.worst
      /\ \A b \in Bitmaps :
           \/ added.divWorst[b] = stk.divWorst[b]
           \/ conf.diversity = 1 /\ b = H[h].bitmap
  <2>1. Inserted(H, conf, I, stk, h, x, added)
    BY <1>1, InsertIs
  <2>2. QED
    BY <2>1 DEF Inserted
<1> HIDE DEF added
<1>3. /\ stk.hypos \subseteq I /\ IsFiniteSet(stk.hypos) /\ IsFiniteSet(added.hypos)
      /\ stk.best \in Int /\ stk.worst \in Int
      /\ \A y \in I \cup {h} : H[y].total \in Int /\ NegInf < H[y].total
      /\ h \notin stk.hypos /\ h \in added.hypos
      /\ added.best \in Int
  BY <1>1, <1>2, StackFinite
<1>4. total \in Int /\ conf.beamWidth \in Int /\ added.best >= stk.best
  BY <1>2, <1>3 DEF IsConf
<1>5. BestSeen(H, I \cup {h}, added)
  <2>1. \A y \in added.hypos : H[y].total <= added.best
    <3>1. SUFFICES ASSUME NEW y \in stk.hypos PROVE H[y].total <= added.best
      BY <1>2, <1>3, <1>4
    <3>2. H[y].total <= stk.best /\ H[y].total \in Int
      BY <1>3 DEF StackSound, BestSeen
    <3>3. QED
      BY <1>3, <1>4, <3>2
  <2>2. \E y \in added.hypos : H[y].total = added.best
    <3>1. CASE total > stk.best
      BY <1>2, <1>3, <3>1
    <3>2. CASE ~(total > stk.best)
      <4>1. I # {}
        BY <1>3, <3>2, NegInfAssumption DEF StackSound, BestSeen
      <4>2. PICK y \in stk.hypos : H[y].total = stk.best
        BY <4>1 DEF StackSound, BestSeen
      <4>3. y # x
        BY <1>3, <3>2, <4>2 DEF Yields
      <4>4. QED
        BY <1>2, <3>2, <4>2, <4>3
    <3>3. QED
      BY <3>1, <3>2
  <2>3. QED
    BY <2>1, <2>2 DEF BestSeen
<1>6. ASSUME NEW t \in Int, MayGo(H, conf, stk, t) PROVE MayGo(H, conf, added, t)
  <2>1. CASE t <= stk.best + conf.beamWidth
    BY <1>3, <1>4, <2>1 DEF MayGo
  <2>2. CASE Cardinality(AtLeast(H, stk.hypos, t)) >= conf.stackSize
    <3> DEFINE A == AtLeast(H, stk.hypos, t)
               B == AtLeast(H, added.hypos, t)
    <3>1. IsFiniteSet(A) /\ IsFiniteSet(B) /\ Cardinality(A) \in Nat /\ Cardinality(B) \in Nat
      BY <1>3, AtLeastFinite
    <3>2. h \notin A /\ A \ {x} \subseteq B
      BY <1>2, <1>3 DEF AtLeast
    <3>3. x \in A => h \in B
      BY <1>3, <1>4 DEF AtLeast, Yields
    <3>4. Cardinality(A) <= Cardinality(B)
      BY <3>1, <3>2, <3>3, SwapGrows
    <3>5. QED
      BY <2>2, <3>1, <3>4 DEF MayGo, IsConf
  <2>3. QED
    BY <1>6, <2>1, <2>2 DEF MayGo
<1>7. Justified(H, conf, I \cup {h}, added)
  <2>1. SUFFICES ASSUME conf.diversity = 0
                 PROVE  /\ \A t \in Int : NegInf < t /\ t < added.worst => MayGo(H, conf, added, t)
                        /\ \A z \in I \cup {h} :
                             \/ \E y \in added.hypos : /\ RecombineKey(H[y]) = RecombineKey(H[z])
                                                       /\ H[y].total >= H[z].total
                             \/ MayGo(H, conf, added, H[z].total)
    BY DEF Justified
  <2>2. ASSUME NEW t \in Int, NegInf < t, t < added.worst PROVE MayGo(H, conf, added, t)
    <3>1. CASE t < stk.worst
      BY <1>6, <2>1, <2>2, <3>1 DEF StackSound, Justified
    <3>2. CASE ~(t < stk.worst)
      BY <1>2, <1>3, <1>4, <2>2, <3>2 DEF MayGo
    <3>3. QED
      BY <3>1, <3>2
  <2>3. ASSUME NEW z \in I \cup {h}
        PROVE  \/ \E y \in added.hypos : /\ RecombineKey(H[y]) = RecombineKey(H[z])
                                         /\ H[y].total >= H[z].total
               \/ MayGo(H, conf, added, H[z].total)
    <3>1. CASE z = h
      BY <1>3, <1>4, <3>1
    <3>2. CASE z \in I /\ MayGo(H, conf, stk, H[z].total)
      BY <1>3, <1>6, <3>2
    <3>3. ASSUME z \in I, NEW y \in stk.hypos, RecombineKey(H[y]) = RecombineKey(H[z]),
                 H[y].total >= H[z].total
          PROVE  \E u \in added.hypos : /\ RecombineKey(H[u]) = RecombineKey(H[z])
                                        /\ H[u].total >= H[z].total
      <4>1. CASE y # x
        BY <1>2, <3>3, <4>1
      <4>2. CASE y = x
        <5>1. RecombineKey(H[h]) = RecombineKey(H[z]) /\ H[h].total > H[y].total
          BY <3>3, <4>2 DEF Yields
        <5>2. H[h].total \in Int /\ H[y].total \in Int /\ H[z].total \in Int
          BY <1>3, <3>3
        <5>3. QED
          BY <1>3, <3>3, <5>1, <5>2
      <4>3. QED
        BY <4>1, <4>2
    <3>4. QED
      BY <2>1, <3>1, <3>2, <3>3 DEF StackSound, Justified
  <2>4. QED
    BY <2>2, <2>3
<1>8. Diverse(H, conf, I \cup {h}, added)
  <2>1. SUFFICES ASSUME conf.diversity > 0, NEW b \in Bitmaps
                 PROVE  LET have == Cardinality(Covering(H, added.hypos, b))
                        IN  /\ \/ have >= conf.diversity
                               \/ have >= Cardinality(Keys(H, I \cup {h}, b))
                            /\ added.divWorst[b] # NegInf => have >= conf.diversity
    BY DEF Diverse
  <2> DEFINE A == Covering(H, stk.hypos, b)
             B == Covering(H, added.hypos, b)
  <2>2. IsFiniteSet(A) /\ IsFiniteSet(B) /\ Cardinality(A) \in Nat /\ Cardinality(B) \in Nat
    BY <1>1, <1>2, StackFinite
  <2>3. h \notin A /\ A \ {x} \subseteq B
    BY <1>2, <1>3 DEF Covering
  <2>4. x \in A => H[h].bitmap = b
    BY DEF Covering, Yields, RecombineKey
  <2>5. H[h].bitmap = b => h \in B
    BY <1>3 DEF Covering
  <2>6. Cardinality(A) <= Cardinality(B)
    BY <2>2, <2>3, <2>4, <2>5, SwapGrows
  <2>7. /\ Cardinality(A) >= conf.diversity \/ Cardinality(A) >= Cardinality(Keys(H, I, b))
        /\ stk.divWorst[b] # NegInf => Cardinality(A) >= conf.diversity
    BY <2>1 DEF StackSound, Diverse
  <2>8. conf.diversity \in Nat
    BY DEF IsConf
  <2>9. IsFiniteSet(I)
    BY <1>1 DEF AreHypotheses
  <2>10. Cardinality(Keys(H, I, b)) \in Nat /\ Cardinality(Keys(H, I \cup {h}, b)) \in Nat
    BY <2>9, KeysFinite DEF AreHypotheses
  <2>11. CASE H[h].bitmap # b
    <3>1. Keys(H, I \cup {h}, b) = Keys(H, I, b)
      BY <2>9, <2>11, KeysGrow
    <3>2. added.divWorst[b] = stk.divWorst[b]
      BY <1>2, <2>11
    <3> HIDE DEF A, B
    <3>3. QED
      BY <2>2, <2>6, <2>7, <2>8, <2>10, <3>1, <3>2 DEF B
  <2>12. CASE H[h].bitmap = b
    <3>1. Cardinality(B) >= 1
      <4>1. B # {}
        BY <2>5, <2>12
      <4>2. QED
        BY <2>2, <4>1, FS_EmptySet
    <3>2. added.divWorst[b] # NegInf => Cardinality(B) >= conf.diversity
      <4> HIDE DEF A, B
      <4>1. CASE conf.diversity = 1
        BY <3>1, <4>1
      <4>2. CASE conf.diversity # 1
        BY <1>2, <2>2, <2>6, <2>7, <2>8, <4>2
      <4>3. QED
        BY <4>1, <4>2
    <3>3. Cardinality(B) >= conf.diversity \/ Cardinality(B) >= Cardinality(Keys(H, I \cup {h}, b))
      <4>1. CASE x \in stk.hypos
        <5>1. x \in I /\ RecombineKey(H[x]) = RecombineKey(H[h])
          BY <1>3, <4>1 DEF Yields
        <5>2. Keys(H, I \cup {h}, b) = Keys(H, I, b)
          BY <2>9, <5>1, KeysGrow
        <5> HIDE DEF A, B
        <5>3. QED
          BY <2>2, <2>6, <2>7, <2>8, <2>10, <5>2
      <4>2. CASE x \notin stk.hypos
        <5>1. A \cup {h} \subseteq B
          BY <2>3, <2>5, <2>12, <4>2 DEF Covering
        <5>2. Cardinality(A \cup {h}) = Cardinality(A) + 1
          BY <2>2, <2>3, FS_AddElement
        <5>3. Cardinality(A) + 1 <= Cardinality(B)
          BY <2>2, <5>1, <5>2, FS_Subset
        <5>4. Cardinality(Keys(H, I \cup {h}, b)) <= Cardinality(Keys(H, I, b)) + 1
          BY <2>9, KeysGrow
        <5> HIDE DEF A, B
        <5>5. QED
          BY <2>2, <2>7, <2>8, <2>10, <5>3, <5>4
      <4>3. QED
        BY <4>1, <4>2
    <3>4. QED
      BY <3>2, <3>3
  <2>13. QED
    BY <2>11, <2>12
<1>9. QED
  BY <1>2, <1>5, <1>7, <1>8 DEF StackSound, added


------------------------------------------------------------------------------
(****************************************************************************)
(* A stack is pruned.                                                       *)
(****************************************************************************)

\* What the diversity leaves in is a part of the stack, the best of each
\* coverage; without diversity it is nothing.
LEMMA ShareKept ==
  ASSUME NEW H, NEW conf, IsConf(conf), NEW S, IsFiniteSet(S),
         \A x \in S : H[x].total \in Int,
         NEW D \in DiversityChoices(H, conf, S)
  PROVE  /\ D \subseteq S /\ IsFiniteSet(D)
         /\ \A b : LET d == Covering(H, D, b)
                       s == Covering(H, S, b)
                   IN  /\ IsFiniteSet(d) /\ IsFiniteSet(s)
                       /\ Cardinality(d) \in Nat /\ Cardinality(s) \in Nat
                       /\ Cardinality(d) = IF conf.diversity <= Cardinality(s)
                                           THEN conf.diversity ELSE Cardinality(s)
                       /\ \A x \in d, y \in s \ d : H[y].total <= H[x].total
         /\ conf.diversity = 0 => D = {}
<1> DEFINE sure == UNION {Sure(H, conf.diversity, Covering(H, S, b)) : b \in Coverages(H, S)}
           most == UNION {Candidates(H, conf.diversity, Covering(H, S, b)) :
                            b \in Coverages(H, S)}
<1>1. PICK tied \in SUBSET (most \ sure) :
        /\ D = sure \cup tied
        /\ \A b \in Coverages(H, S) :
             Covering(H, D, b) \in Best(H, conf.diversity, Covering(H, S, b))
  BY DEF DiversityChoices
<1>2. D \subseteq S
  <2>1. \A b : /\ Sure(H, conf.diversity, Covering(H, S, b)) \subseteq S
               /\ Candidates(H, conf.diversity, Covering(H, S, b)) \subseteq S
    BY DEF Sure, Candidates, Covering
  <2>2. sure \subseteq S /\ most \subseteq S
    BY <2>1
  <2>3. QED
    BY <1>1, <2>2
<1> HIDE DEF sure, most
<1>3. IsFiniteSet(D)
  BY <1>2, FS_Subset
<1>4. ASSUME NEW b
      PROVE  LET d == Covering(H, D, b)
                 s == Covering(H, S, b)
             IN  /\ IsFiniteSet(d) /\ IsFiniteSet(s)
                 /\ Cardinality(d) \in Nat /\ Cardinality(s) \in Nat
                 /\ Cardinality(d) = IF conf.diversity <= Cardinality(s)
                                     THEN conf.diversity ELSE Cardinality(s)
                 /\ \A x \in d, y \in s \ d : H[y].total <= H[x].total
  <2> DEFINE d == Covering(H, D, b)
             s == Covering(H, S, b)
  <2>1. d \subseteq D /\ s \subseteq S /\ \A y \in s : H[y].total \in Int
    BY DEF Covering
  <2>2. IsFiniteSet(d) /\ IsFiniteSet(s) /\ Cardinality(d) \in Nat /\ Cardinality(s) \in Nat
    BY <1>3, <2>1, FS_Subset, FS_CardinalityType
  <2>3. conf.diversity \in Nat
    BY DEF IsConf
  <2>4. CASE b \in Coverages(H, S)
    <3>1. d \in Best(H, conf.diversity, s)
      BY <1>1, <2>4
    <3> HIDE DEF d, s
    <3>2. QED
      BY <2>1, <2>2, <2>3, <3>1, BestIs DEF d, s
  <2>5. CASE b \notin Coverages(H, S)
    <3>1. s = {} /\ d = {}
      BY <1>2, <2>5 DEF Covering, Coverages
    <3> HIDE DEF d, s
    <3>2. Cardinality(s) = 0 /\ Cardinality(d) = 0
      BY <3>1, FS_EmptySet
    <3>3. QED
      BY <2>2, <2>3, <3>1, <3>2 DEF d, s
  <2>6. QED
    BY <2>4, <2>5
<1>5. ASSUME conf.diversity = 0, NEW x \in D PROVE FALSE
  <2> DEFINE b == H[x].bitmap
             d == Covering(H, D, b)
  <2>1. x \in d
    BY DEF Covering
  <2>2. IsFiniteSet(d) /\ Cardinality(d) = 0
    <3>1. \A n \in Nat : (IF 0 <= n THEN 0 ELSE n) = 0
      OBVIOUS
    <3>2. QED
      BY <1>4, <1>5, <3>1
  <2>3. QED
    BY <2>1, <2>2, FS_EmptySet
<1>6. QED
  BY <1>2, <1>3, <1>4, <1>5

\* What PruneToSize makes of a stack that is too large: D for the diversity
\* and E of the rest.
LEMMA PruneIs ==
  ASSUME NEW H, NEW conf, NEW stk,
         NEW s \in PruneToSize(H, conf, stk, conf.stackSize),
         ~(Cardinality(stk.hypos) <= conf.stackSize)
  PROVE  \E D \in DiversityChoices(H, conf, stk.hypos) :
         \E E \in Remaining(H, conf, stk, D, conf.stackSize) :
           s = PrunedStack(H, conf, stk, conf.stackSize, D, E)
  BY DEF PruneToSize


Room(conf, D) ==
  IF Cardinality(D) < conf.stackSize THEN conf.stackSize - Cardinality(D) ELSE 0

\* What pruning keeps beside the diversity: hypotheses in the beam, as many as
\* there is room for unless it keeps them all, and none better goes.
LEMMA RestIs ==
  ASSUME NEW H, NEW conf, IsConf(conf), NEW I, AreHypotheses(H, I),
         NEW stk, IsStack(I, stk), NEW D, IsFiniteSet(D),
         NEW E \in Remaining(H, conf, stk, D, conf.stackSize)
  PROVE  /\ E \subseteq stk.hypos \ D /\ IsFiniteSet(E) /\ Cardinality(E) \in Nat
         /\ Room(conf, D) \in Nat /\ Cardinality(E) <= Room(conf, D)
         /\ \A e \in E : H[e].total > stk.best + conf.beamWidth
         /\ \A y \in stk.hypos \ (D \cup E) :
              H[y].total > stk.best + conf.beamWidth =>
                /\ Cardinality(E) = Room(conf, D)
                /\ \A e \in E : H[y].total <= H[e].total
<1> DEFINE inBeam == {x \in stk.hypos \ D : H[x].total > stk.best + conf.beamWidth}
           room == Room(conf, D)
<1>1. Cardinality(D) \in Nat /\ conf.stackSize \in Nat
  BY FS_CardinalityType DEF IsConf
<1>2. room \in Nat
  <2>1. \A c \in Nat, n \in Nat : (IF c < n THEN n - c ELSE 0) \in Nat
    OBVIOUS
  <2>2. QED
    BY <1>1, <2>1 DEF Room
<1>3. inBeam \subseteq stk.hypos \ D
  OBVIOUS
<1>4. IsFiniteSet(inBeam) /\ \A x \in inBeam : H[x].total \in Int
  BY <1>3, StackFinite, FS_Subset
<1>5. E \in Best(H, room, inBeam)
  BY DEF Remaining, Room
<1> HIDE DEF room, inBeam
<1>6. /\ E \subseteq inBeam /\ IsFiniteSet(E)
      /\ Cardinality(E) = IF room <= Cardinality(inBeam) THEN room ELSE Cardinality(inBeam)
      /\ \A x \in E, y \in inBeam \ E : H[y].total <= H[x].total
  BY <1>2, <1>4, <1>5, BestIs
<1>7. Cardinality(inBeam) \in Nat /\ Cardinality(E) \in Nat
  BY <1>4, <1>6, FS_CardinalityType
<1>8. Cardinality(E) <= room
  BY <1>2, <1>6, <1>7
<1>9. ASSUME NEW y \in inBeam \ E PROVE Cardinality(E) = room
  <2>1. E # inBeam
    BY <1>9
  <2>2. Cardinality(E) # Cardinality(inBeam)
    BY <1>4, <1>6, <2>1, FS_Subset
  <2>3. QED
    BY <1>2, <1>6, <1>7, <2>2
<1>10. ASSUME NEW y \in stk.hypos \ (D \cup E), H[y].total > stk.best + conf.beamWidth
       PROVE  y \in inBeam \ E
  BY <1>10 DEF inBeam
<1>11. \A e \in E : e \in stk.hypos \ D /\ H[e].total > stk.best + conf.beamWidth
  BY <1>6 DEF inBeam
<1>12. QED
  BY <1>2, <1>6, <1>7, <1>8, <1>9, <1>10, <1>11 DEF room

\* Pruning keeps the best hypothesis.
HasScore(H, K, t) == \E x \in K : H[x].total = t

LEMMA BestStays ==
  ASSUME NEW H, NEW conf, IsConf(conf), NEW I, AreHypotheses(H, I),
         NEW stk, StackSound(H, conf, I, stk), I # {},
         NEW D \in DiversityChoices(H, conf, stk.hypos),
         NEW E \in Remaining(H, conf, stk, D, conf.stackSize)
  PROVE  HasScore(H, D \cup E, stk.best)
<1> USE DEF HasScore
<1> DEFINE S == stk.hypos
<1>1. IsStack(I, stk)
  BY DEF StackSound
<1>2. /\ S \subseteq I /\ IsFiniteSet(S) /\ stk.best \in Int
      /\ \A x \in S : H[x].total \in Int /\ H[x].total <= stk.best
  BY <1>1, StackFinite DEF StackSound, BestSeen
<1>3. PICK x \in S : H[x].total = stk.best
  BY DEF StackSound, BestSeen
<1> DEFINE b == H[x].bitmap
           d == Covering(H, D, b)
           s == Covering(H, S, b)
<1>4. /\ D \subseteq S /\ IsFiniteSet(D)
      /\ IsFiniteSet(d) /\ IsFiniteSet(s) /\ Cardinality(d) \in Nat /\ Cardinality(s) \in Nat
      /\ Cardinality(d) = IF conf.diversity <= Cardinality(s)
                          THEN conf.diversity ELSE Cardinality(s)
      /\ \A y \in d, z \in s \ d : H[z].total <= H[y].total
      /\ conf.diversity = 0 => D = {}
  BY <1>2, ShareKept
<1>5. CASE x \in D
  BY <1>3, <1>5
<1>6. CASE x \notin D /\ conf.diversity > 0
  <2>1. x \in s \ d
    BY <1>6 DEF Covering
  <2>2. d # {}
    <3>1. Cardinality(s) # 0
      BY <1>4, <2>1, FS_EmptySet
    <3> HIDE DEF d, s
    <3>2. Cardinality(d) # 0
      BY <1>4, <1>6, <3>1 DEF IsConf
    <3>3. QED
      BY <3>2, FS_EmptySet
  <2>3. PICK y \in d : H[x].total <= H[y].total
    BY <1>4, <2>1, <2>2
  <2>4. y \in D /\ y \in S
    BY <1>4, <2>3 DEF Covering
  <2>5. H[y].total <= stk.best /\ H[y].total \in Int
    BY <1>2, <2>4
  <2>6. H[y].total = stk.best
    BY <1>2, <1>3, <2>3, <2>5
  <2>7. QED
    BY <2>4, <2>6
<1>7. CASE x \notin D /\ ~(conf.diversity > 0)
  <2>1. D = {} /\ conf.stackSize \in Nat \ {0} /\ conf.beamWidth \in Int /\ conf.beamWidth < 0
    BY <1>4, <1>7 DEF IsConf
  <2>2. Room(conf, D) = conf.stackSize
    BY <2>1, FS_EmptySet DEF Room
  <2>3. /\ E \subseteq S \ D /\ IsFiniteSet(E)
        /\ \A y \in S \ (D \cup E) :
             H[y].total > stk.best + conf.beamWidth =>
               /\ Cardinality(E) = Room(conf, D)
               /\ \A e \in E : H[y].total <= H[e].total
    BY <1>1, <1>4, RestIs
  <2>4. CASE x \in E
    BY <1>3, <2>4
  <2>5. CASE x \notin E
    <3>1. H[x].total > stk.best + conf.beamWidth
      BY <1>2, <1>3, <2>1
    <3>2. Cardinality(E) = conf.stackSize /\ \A e \in E : H[x].total <= H[e].total
      BY <1>7, <2>2, <2>3, <2>5, <3>1
    <3>3. PICK e \in E : TRUE
      BY <2>1, <3>2, FS_EmptySet
    <3>4. e \in S /\ H[x].total <= H[e].total
      BY <2>3, <3>2
    <3>5. H[e].total = stk.best
      BY <1>2, <1>3, <3>4
    <3>6. QED
      BY <3>5
  <2>6. QED
    BY <2>4, <2>5
<1>8. QED
  BY <1>5, <1>6, <1>7


LEMMA PruneIsStack ==
  ASSUME NEW H, NEW conf, IsConf(conf), NEW I, AreHypotheses(H, I),
         NEW stk, IsStack(I, stk),
         NEW D \in DiversityChoices(H, conf, stk.hypos),
         NEW E \in Remaining(H, conf, stk, D, conf.stackSize)
  PROVE  /\ IsStack(I, PrunedStack(H, conf, stk, conf.stackSize, D, E))
         /\ D \cup E \subseteq stk.hypos
<1> DEFINE s == PrunedStack(H, conf, stk, conf.stackSize, D, E)
<1>1. /\ stk.hypos \subseteq I /\ IsFiniteSet(stk.hypos)
      /\ stk.best \in Int /\ stk.worst \in Int /\ stk.divWorst \in [Bitmaps -> Int]
      /\ \A x \in I : H[x].total \in Int
  BY StackFinite
<1>2. /\ D \subseteq stk.hypos /\ IsFiniteSet(D)
      /\ \A b : /\ IsFiniteSet(Covering(H, D, b))
                /\ Covering(H, D, b) \subseteq D
  <2>1. D \subseteq stk.hypos /\ IsFiniteSet(D)
    BY <1>1, ShareKept
  <2>2. \A b : Covering(H, D, b) \subseteq D
    BY DEF Covering
  <2>3. QED
    BY <2>1, <2>2, FS_Subset
<1>3. E \subseteq stk.hypos /\ IsFiniteSet(E)
  BY <1>2, RestIs
<1>4. E # {} => LowestScore(H, E) \in Int
  BY <1>1, <1>3, LowestScoreIs
<1>5. s.worst \in Int
  BY <1>1, <1>4 DEF PrunedStack
<1>6. ASSUME NEW b \in Bitmaps
      PROVE  (IF conf.diversity > 0 /\ Cardinality(Covering(H, D, b)) = conf.diversity
                THEN LowestScore(H, Covering(H, D, b)) ELSE stk.divWorst[b]) \in Int
  <2>1. CASE conf.diversity > 0 /\ Cardinality(Covering(H, D, b)) = conf.diversity
    <3>1. Covering(H, D, b) # {}
      BY <2>1, FS_EmptySet DEF IsConf
    <3>2. LowestScore(H, Covering(H, D, b)) \in Int
      BY <1>1, <1>2, <3>1, LowestScoreIs
    <3>3. QED
      BY <2>1, <3>2
  <2>2. CASE ~(conf.diversity > 0 /\ Cardinality(Covering(H, D, b)) = conf.diversity)
    BY <1>1, <2>2
  <2>3. QED
    BY <2>1, <2>2
<1>7. s.divWorst \in [Bitmaps -> Int]
  BY <1>6 DEF PrunedStack, DiversityWorst
<1>8. s.hypos \subseteq I /\ s.best \in Int
  BY <1>1, <1>2, <1>3 DEF PrunedStack
<1>9. s = [hypos |-> s.hypos, best |-> s.best, worst |-> s.worst, divWorst |-> s.divWorst]
  BY DEF PrunedStack
<1> HIDE DEF s
<1>10. IsStack(I, s)
  BY <1>5, <1>7, <1>8, <1>9 DEF IsStack
<1>11. QED
  BY <1>2, <1>3, <1>10 DEF s

\* Without stack diversity.
LEMMA PruneJustified ==
  ASSUME NEW H, NEW conf, IsConf(conf), NEW I, AreHypotheses(H, I),
         NEW stk, StackSound(H, conf, I, stk),
         NEW D \in DiversityChoices(H, conf, stk.hypos),
         NEW E \in Remaining(H, conf, stk, D, conf.stackSize),
         NEW s, s = PrunedStack(H, conf, stk, conf.stackSize, D, E)
  PROVE  Justified(H, conf, I, s)
<1> DEFINE S == stk.hypos
<1>1. SUFFICES ASSUME conf.diversity = 0
               PROVE  /\ \A t \in Int : NegInf < t /\ t < s.worst => MayGo(H, conf, s, t)
                      /\ \A x \in I :
                           \/ \E y \in s.hypos : /\ RecombineKey(H[y]) = RecombineKey(H[x])
                                                 /\ H[y].total >= H[x].total
                           \/ MayGo(H, conf, s, H[x].total)
  BY DEF Justified
<1>2. IsStack(I, stk)
  BY DEF StackSound
<1>3. /\ S \subseteq I /\ IsFiniteSet(S) /\ stk.best \in Int /\ stk.worst \in Int
      /\ \A x \in I : H[x].total \in Int
      /\ conf.stackSize \in Nat \ {0} /\ conf.beamWidth \in Int
  BY <1>2, StackFinite DEF IsConf
<1>4. D = {} /\ IsFiniteSet(D)
  BY <1>1, <1>3, ShareKept
<1>5. Room(conf, D) = conf.stackSize
  BY <1>3, <1>4, FS_EmptySet DEF Room
<1>6. /\ E \subseteq S /\ IsFiniteSet(E) /\ Cardinality(E) \in Nat
      /\ Cardinality(E) <= conf.stackSize
      /\ \A e \in E : H[e].total > stk.best + conf.beamWidth
      /\ \A y \in S \ E : H[y].total > stk.best + conf.beamWidth =>
           /\ Cardinality(E) = conf.stackSize
           /\ \A e \in E : H[y].total <= H[e].total
  <2>1. /\ E \subseteq S \ D /\ IsFiniteSet(E) /\ Cardinality(E) \in Nat
        /\ Cardinality(E) <= Room(conf, D)
        /\ \A e \in E : H[e].total > stk.best + conf.beamWidth
        /\ \A y \in S \ (D \cup E) :
             H[y].total > stk.best + conf.beamWidth =>
               /\ Cardinality(E) = Room(conf, D)
               /\ \A e \in E : H[y].total <= H[e].total
    BY <1>2, <1>4, RestIs
  <2>2. S \ (D \cup E) = S \ E /\ E \subseteq S
    BY <1>4, <2>1
  <2>3. QED
    BY <1>5, <2>1, <2>2
<1>7. s.hypos = E /\ s.best = stk.best
      /\ s.worst = IF Cardinality(E) = conf.stackSize /\ E # {}
                   THEN LowestScore(H, E) ELSE stk.worst
  BY <1>4 DEF PrunedStack
<1>8. ASSUME NEW t \in Int, Cardinality(E) = conf.stackSize, \A e \in E : H[e].total >= t
      PROVE  MayGo(H, conf, s, t)
  <2>1. AtLeast(H, s.hypos, t) = E
    BY <1>7, <1>8 DEF AtLeast
  <2>2. QED
    BY <1>3, <1>8, <2>1 DEF MayGo
<1>9. ASSUME NEW t \in Int, MayGo(H, conf, stk, t) PROVE MayGo(H, conf, s, t)
  <2>1. CASE t <= stk.best + conf.beamWidth
    BY <1>7, <2>1 DEF MayGo
  <2>2. CASE ~(t <= stk.best + conf.beamWidth)
    <3>1. Cardinality(AtLeast(H, S, t)) >= conf.stackSize
      BY <1>9, <2>2 DEF MayGo
    <3>2. CASE E = S
      BY <1>7, <3>1, <3>2 DEF MayGo
    <3>3. CASE AtLeast(H, S, t) \subseteq E
      <4>1. AtLeast(H, S, t) = AtLeast(H, E, t)
        BY <1>6, <3>3 DEF AtLeast
      <4>2. QED
        BY <1>7, <3>1, <4>1 DEF MayGo
    <3>4. CASE ~(AtLeast(H, S, t) \subseteq E)
      <4>1. PICK y \in S \ E : H[y].total >= t
        BY <3>4 DEF AtLeast
      <4>2. H[y].total \in Int /\ H[y].total > stk.best + conf.beamWidth
        BY <1>3, <2>2, <4>1
      <4>3. Cardinality(E) = conf.stackSize /\ \A e \in E : H[y].total <= H[e].total
        BY <1>6, <4>2
      <4>4. \A e \in E : H[e].total >= t
        BY <1>3, <1>6, <4>1, <4>2, <4>3
      <4>5. QED
        BY <1>8, <4>3, <4>4
    <3>5. QED
      BY <3>3, <3>4
  <2>3. QED
    BY <2>1, <2>2
<1>10. ASSUME NEW t \in Int, NegInf < t, t < s.worst PROVE MayGo(H, conf, s, t)
  <2>1. CASE Cardinality(E) = conf.stackSize /\ E # {}
    <3>1. \A e \in E : H[e].total \in Int
      BY <1>3, <1>6
    <3>2. LowestScore(H, E) \in Int /\ \A e \in E : LowestScore(H, E) <= H[e].total
      BY <1>6, <2>1, <3>1, LowestScoreIs
    <3>3. t < LowestScore(H, E)
      BY <1>7, <1>10, <2>1
    <3>4. \A e \in E : H[e].total >= t
      BY <3>1, <3>2, <3>3
    <3>5. QED
      BY <1>8, <2>1, <3>4
  <2>2. CASE ~(Cardinality(E) = conf.stackSize /\ E # {})
    <3>1. t < stk.worst
      BY <1>7, <1>10, <2>2
    <3>2. MayGo(H, conf, stk, t)
      BY <1>1, <1>10, <3>1 DEF StackSound, Justified
    <3>3. QED
      BY <1>9, <3>2
  <2>3. QED
    BY <2>1, <2>2
<1>11. ASSUME NEW x \in I
       PROVE  \/ \E y \in s.hypos : /\ RecombineKey(H[y]) = RecombineKey(H[x])
                                    /\ H[y].total >= H[x].total
              \/ MayGo(H, conf, s, H[x].total)
  <2>1. H[x].total \in Int
    BY <1>3
  <2>2. CASE MayGo(H, conf, stk, H[x].total)
    BY <1>9, <2>1, <2>2
  <2>3. ASSUME NEW y \in S, RecombineKey(H[y]) = RecombineKey(H[x]),
               H[y].total >= H[x].total
        PROVE  \/ y \in s.hypos
               \/ MayGo(H, conf, s, H[x].total)
    <3>1. H[y].total \in Int
      BY <1>3
    <3>2. CASE y \in E
      BY <1>7, <3>2
    <3>3. CASE y \notin E /\ H[y].total > stk.best + conf.beamWidth
      <4>1. Cardinality(E) = conf.stackSize /\ \A e \in E : H[y].total <= H[e].total
        BY <1>6, <3>3
      <4>2. \A e \in E : H[e].total >= H[x].total
        BY <1>3, <1>6, <2>1, <2>3, <3>1, <4>1
      <4>3. QED
        BY <1>8, <2>1, <4>1, <4>2
    <3>4. CASE ~(H[y].total > stk.best + conf.beamWidth)
      <4>1. H[x].total <= stk.best + conf.beamWidth
        BY <1>3, <2>1, <2>3, <3>1, <3>4
      <4>2. QED
        BY <1>7, <4>1 DEF MayGo
    <3>5. QED
      BY <3>2, <3>3, <3>4
  <2>4. CASE \E y \in S : /\ RecombineKey(H[y]) = RecombineKey(H[x])
                          /\ H[y].total >= H[x].total
    BY <2>3, <2>4
  <2>5. QED
    BY <1>1, <2>2, <2>4 DEF StackSound, Justified
<1>12. QED
  BY <1>10, <1>11

\* With stack diversity.
LEMMA PruneDiverse ==
  ASSUME NEW H, NEW conf, IsConf(conf), NEW I, AreHypotheses(H, I),
         NEW stk, StackSound(H, conf, I, stk),
         NEW D \in DiversityChoices(H, conf, stk.hypos),
         NEW E \in Remaining(H, conf, stk, D, conf.stackSize),
         NEW s, s = PrunedStack(H, conf, stk, conf.stackSize, D, E)
  PROVE  Diverse(H, conf, I, s)
<1> DEFINE S == stk.hypos
<1>1. SUFFICES ASSUME conf.diversity > 0, NEW b \in Bitmaps
               PROVE  LET have == Cardinality(Covering(H, s.hypos, b))
                      IN  /\ have >= conf.diversity \/ have >= Cardinality(Keys(H, I, b))
                          /\ s.divWorst[b] # NegInf => have >= conf.diversity
  BY DEF Diverse
<1>2. IsStack(I, stk) /\ IsFiniteSet(I)
  BY DEF StackSound, AreHypotheses
<1>3. S \subseteq I /\ IsFiniteSet(S) /\ \A x \in S : H[x].total \in Int
  BY <1>2, StackFinite
<1> DEFINE had  == Cardinality(Covering(H, S, b))
           kept == Cardinality(Covering(H, D, b))
           have == Cardinality(Covering(H, s.hypos, b))
<1>4. /\ kept \in Nat /\ had \in Nat
      /\ kept = IF conf.diversity <= had THEN conf.diversity ELSE had
  BY <1>3, ShareKept
<1>5. have \in Nat /\ kept <= have
  <2>1. IsStack(I, s) /\ s.hypos = D \cup E
    BY <1>2, PruneIsStack DEF PrunedStack
  <2>2. Covering(H, D, b) \subseteq Covering(H, s.hypos, b)
    BY <2>1 DEF Covering
  <2>3. IsFiniteSet(Covering(H, s.hypos, b)) /\ have \in Nat
    <3>1. IsFiniteSet(s.hypos) /\ Covering(H, s.hypos, b) \subseteq s.hypos
      BY <2>1, StackFinite DEF Covering
    <3>2. QED
      BY <3>1, FS_Subset, FS_CardinalityType
  <2>4. QED
    BY <2>2, <2>3, FS_Subset
<1>6. /\ had >= conf.diversity \/ had >= Cardinality(Keys(H, I, b))
      /\ stk.divWorst[b] # NegInf => had >= conf.diversity
  BY <1>1 DEF StackSound, Diverse
<1>7. s.divWorst[b] = IF kept = conf.diversity
                      THEN LowestScore(H, Covering(H, D, b)) ELSE stk.divWorst[b]
  BY <1>1 DEF PrunedStack, DiversityWorst
<1>8. conf.diversity \in Nat /\ Cardinality(Keys(H, I, b)) \in Nat
  BY <1>2, KeysFinite DEF IsConf
<1> HIDE DEF had, kept, have
<1>9. have >= conf.diversity \/ have >= Cardinality(Keys(H, I, b))
  BY <1>4, <1>5, <1>6, <1>8
<1>10. s.divWorst[b] # NegInf => have >= conf.diversity
  BY <1>4, <1>5, <1>6, <1>7, <1>8
<1>11. QED
  BY <1>9, <1>10 DEF have

LEMMA PruneBestSeen ==
  ASSUME NEW H, NEW conf, IsConf(conf), NEW I, AreHypotheses(H, I),
         NEW stk, StackSound(H, conf, I, stk),
         NEW D \in DiversityChoices(H, conf, stk.hypos),
         NEW E \in Remaining(H, conf, stk, D, conf.stackSize),
         NEW s, s = PrunedStack(H, conf, stk, conf.stackSize, D, E),
         stk.hypos # {}
  PROVE  BestSeen(H, I, s)
<1>1. s.hypos = D \cup E /\ s.best = stk.best
  BY DEF PrunedStack
<1>2. IsStack(I, stk)
  BY DEF StackSound
<1>3. D \cup E \subseteq stk.hypos /\ I # {}
  BY <1>2, PruneIsStack DEF IsStack
<1>4. \A x \in s.hypos : H[x].total <= s.best
  BY <1>1, <1>3 DEF StackSound, BestSeen
<1>5. HasScore(H, D \cup E, stk.best)
  BY <1>3, BestStays
<1>6. QED
  BY <1>1, <1>3, <1>4, <1>5 DEF BestSeen, HasScore

LEMMA PruneSound ==
  ASSUME NEW H, NEW conf, IsConf(conf), NEW I, AreHypotheses(H, I),
         NEW stk, StackSound(H, conf, I, stk),
         NEW s \in PruneToSize(H, conf, stk, conf.stackSize)
  PROVE  StackSound(H, conf, I, s) /\ s.hypos \subseteq stk.hypos
<1>1. CASE Cardinality(stk.hypos) <= conf.stackSize
  BY <1>1 DEF PruneToSize
<1>2. CASE ~(Cardinality(stk.hypos) <= conf.stackSize)
  <2>1. PICK D \in DiversityChoices(H, conf, stk.hypos) :
          \E E \in Remaining(H, conf, stk, D, conf.stackSize) :
            s = PrunedStack(H, conf, stk, conf.stackSize, D, E)
    BY <1>2, PruneIs
  <2>2. PICK E \in Remaining(H, conf, stk, D, conf.stackSize) :
          s = PrunedStack(H, conf, stk, conf.stackSize, D, E)
    BY <2>1
  <2>3. IsStack(I, stk)
    BY DEF StackSound
  <2>4. IsStack(I, s) /\ s.hypos = D \cup E /\ s.hypos \subseteq stk.hypos
        /\ s.best = stk.best
    BY <2>2, <2>3, PruneIsStack DEF PrunedStack
  <2>5. Justified(H, conf, I, s) /\ Diverse(H, conf, I, s)
    BY <2>2, PruneJustified, PruneDiverse
  <2>6. BestSeen(H, I, s)
    <3>1. stk.hypos # {}
      BY <1>2, FS_EmptySet DEF IsConf
    <3>2. QED
      BY <2>2, <3>1, PruneBestSeen
  <2>7. QED
    BY <2>4, <2>5, <2>6 DEF StackSound
<1>3. QED
  BY <1>1, <1>2


------------------------------------------------------------------------------
(****************************************************************************)
(* How large a stack may get.                                               *)
(****************************************************************************)

\* A bitmap is its first words up to the gap, and the words behind the gap,
\* given by how far behind it they are.
Gap(b)     == IF IsComplete(b) THEN SourceSize ELSE GetFirstGapPos(b)
Behind(b)  == {p \in b : p > Gap(b)}
Tail0(b)   == {p - Gap(b) : p \in Behind(b)}

LEMMA BitmapParts ==
  ASSUME NEW b \in Bitmaps
  PROVE  /\ Gap(b) \in 0 .. SourceSize
         /\ b = (0 .. Gap(b) - 1) \cup Behind(b)
         /\ IsFiniteSet(b) /\ IsFiniteSet(Behind(b)) /\ Cardinality(Behind(b)) \in Nat
         /\ Cardinality(b) = Gap(b) + Cardinality(Behind(b))
<1> DEFINE g == Gap(b)
<1>1. g \in 0 .. SourceSize /\ g \notin b /\ \A q \in Positions : q < g => q \in b
  <2>1. CASE IsComplete(b)
    BY <2>1, FullBitmap, SourceSizeAssumption DEF Gap, Positions
  <2>2. CASE ~IsComplete(b)
    BY <2>2, FirstGap, BeforeFirstGap, SourceSizeAssumption DEF Gap, Positions
  <2>3. QED
    BY <2>1, <2>2
<1>2. b \subseteq Positions /\ IsFiniteSet(Positions)
  BY SourceSizeAssumption, FS_Interval DEF Bitmaps, Positions
<1>3. Behind(b) \subseteq b
  BY DEF Behind
<1>4. IsFiniteSet(b) /\ IsFiniteSet(Behind(b)) /\ Cardinality(Behind(b)) \in Nat
  BY <1>2, <1>3, FS_Subset, FS_CardinalityType
<1>5. b = (0 .. g - 1) \cup Behind(b) /\ (0 .. g - 1) \cap Behind(b) = {}
  <2>1. Behind(b) = {p \in b : p > g}
    BY DEF Behind
  <2> HIDE DEF g
  <2>2. \A p \in b : p \in 0 .. g - 1 \/ p > g
    BY <1>1, <1>2, SourceSizeAssumption DEF Positions
  <2>3. \A p \in 0 .. g - 1 : p \in b /\ ~(p > g)
    BY <1>1, SourceSizeAssumption DEF Positions
  <2>4. QED
    BY <2>1, <2>2, <2>3
<1> HIDE DEF g
<1>6. IsFiniteSet(0 .. g - 1) /\ Cardinality(0 .. g - 1) = g
  <2>1. g \in Int /\ g - 1 \in Int /\ g >= 0
    BY <1>1, SourceSizeAssumption
  <2>2. Cardinality(0 .. g - 1) = IF 0 > g - 1 THEN 0 ELSE (g - 1) - 0 + 1
    BY <2>1, FS_Interval
  <2>3. QED
    BY <2>1, <2>2, FS_Interval
<1>7. Cardinality(b) = Cardinality(0 .. g - 1) + Cardinality(Behind(b)) - Cardinality({})
  BY <1>4, <1>5, <1>6, FS_Union
<1>8. Cardinality(b) = g + Cardinality(Behind(b))
  BY <1>1, <1>4, <1>6, <1>7, FS_EmptySet, SourceSizeAssumption
<1>9. QED
  BY <1>1, <1>4, <1>5, <1>8 DEF g

\* As many words and the same tail: the same bitmap.
LEMMA TailTells ==
  ASSUME NEW b \in Bitmaps, NEW c \in Bitmaps, Cardinality(b) = Cardinality(c),
         Tail0(b) = Tail0(c)
  PROVE  b = c
<1> DEFINE g == Gap(b)
           h == Gap(c)
           f == [p \in Behind(b) |-> p - g + h]
<1>1. /\ g \in Int /\ h \in Int
      /\ b = (0 .. g - 1) \cup Behind(b) /\ c = (0 .. h - 1) \cup Behind(c)
      /\ IsFiniteSet(Behind(b)) /\ Cardinality(Behind(b)) \in Nat
      /\ Cardinality(b) = g + Cardinality(Behind(b))
      /\ Cardinality(c) = h + Cardinality(Behind(c))
  BY BitmapParts, SourceSizeAssumption
<1>2. Behind(b) \subseteq Int /\ Behind(c) \subseteq Int
  <2>1. Behind(b) \subseteq Positions /\ Behind(c) \subseteq Positions
    BY DEF Behind, Bitmaps
  <2>2. Positions \subseteq Int
    BY SourceSizeAssumption DEF Positions
  <2>3. QED
    BY <2>1, <2>2
<1>3. ASSUME NEW p \in Behind(b) PROVE p - g + h \in Behind(c)
  <2>1. p - g \in Tail0(c)
    BY DEF Tail0
  <2>2. PICK q \in Behind(c) : p - g = q - h
    BY <2>1 DEF Tail0
  <2>3. q = p - g + h
    BY <1>1, <1>2, <2>2
  <2>4. QED
    BY <2>3
<1>4. ASSUME NEW q \in Behind(c) PROVE \E p \in Behind(b) : p - g + h = q
  <2>1. q - h \in Tail0(b)
    BY DEF Tail0
  <2>2. PICK p \in Behind(b) : q - h = p - g
    BY <2>1 DEF Tail0
  <2>3. p - g + h = q
    BY <1>1, <1>2, <2>2
  <2>4. QED
    BY <2>3
<1>5. f \in Bijection(Behind(b), Behind(c))
  <2>1. f \in [Behind(b) -> Behind(c)]
    BY <1>3
  <2>2. \A p, q \in Behind(b) : f[p] = f[q] => p = q
    BY <1>1, <1>2
  <2>3. \A q \in Behind(c) : \E p \in Behind(b) : f[p] = q
    BY <1>4
  <2>4. QED
    BY <2>1, <2>2, <2>3 DEF Bijection, Injection, IsInjective, Surjection
<1>6. Cardinality(Behind(c)) = Cardinality(Behind(b))
  BY <1>1, <1>5, FS_Bijection DEF ExistsBijection
<1>7. g = h
  <2>1. \A n \in Nat : g + n = h + n => g = h
    BY <1>1
  <2>2. QED
    BY <1>1, <1>6, <2>1
<1>8. Behind(b) = Behind(c)
  <2>1. \A p \in Behind(b) : p - g + h = p
    BY <1>1, <1>2, <1>7
  <2>2. QED
    BY <1>3, <1>4, <2>1
<1>9. QED
  BY <1>1, <1>7, <1>8

\* The bitmaps of k words that a distortion limit of d leaves possible.
NearBitmaps(k, d) == {b \in Bitmaps : Cardinality(b) = k /\ Window(b, d)}

\* There are at most 2^d of them.
LEMMA FewBitmaps ==
  ASSUME NEW k, NEW d \in Nat
  PROVE  IsFiniteSet(NearBitmaps(k, d)) /\ Cardinality(NearBitmaps(k, d)) <= 2 ^ d
<1> DEFINE B == NearBitmaps(k, d)
           T == SUBSET (1 .. d)
           f == [b \in B |-> Tail0(b)]
<1>1. ASSUME NEW b \in B, NEW p \in Behind(b) PROVE p - Gap(b) \in 1 .. d
  <2>1. b \in Bitmaps /\ Window(b, d) /\ p \in b /\ p > Gap(b)
    BY DEF NearBitmaps, Behind
  <2>2. ~IsComplete(b)
    BY <2>1, SourceSizeAssumption DEF Gap, Bitmaps, Positions
  <2>3. Gap(b) = GetFirstGapPos(b) /\ Gap(b) \in Positions
    BY <2>1, <2>2, FirstGap DEF Gap
  <2>4. p \in Positions /\ p <= GetLastPos(b) /\ GetLastPos(b) \in Positions
    BY <2>1, LastPos DEF Bitmaps
  <2>5. GetLastPos(b) + 1 - Gap(b) <= d
    BY <2>1, <2>3, <2>4, SourceSizeAssumption DEF Window, Positions
  <2>6. QED
    BY <2>1, <2>3, <2>4, <2>5, SourceSizeAssumption DEF Positions
<1>2. \A b \in B : Tail0(b) \in T
  BY <1>1 DEF Tail0
<1>3. \A b, c \in B : Tail0(b) = Tail0(c) => b = c
  BY TailTells DEF NearBitmaps
<1>4. f \in Injection(B, T)
  BY <1>2, <1>3 DEF Injection, IsInjective
<1>5. IsFiniteSet(1 .. d) /\ Cardinality(1 .. d) = d
  <2>1. Cardinality(1 .. d) = IF 1 > d THEN 0 ELSE d - 1 + 1
    BY FS_Interval
  <2>2. QED
    BY <2>1, FS_Interval
<1>6. IsFiniteSet(T) /\ Cardinality(T) = 2 ^ d
  BY <1>5, FS_SUBSET
<1> HIDE DEF B, T, f
<1>7. IsFiniteSet(B) /\ Cardinality(B) <= Cardinality(T)
  BY <1>4, <1>6, FS_Injection
<1>8. QED
  BY <1>6, <1>7 DEF B


\* Hypotheses that cover m bitmaps, at most n of them each, are at most m * n.
LEMMA SharesFit ==
  ASSUME NEW H, NEW D, IsFiniteSet(D), NEW B, IsFiniteSet(B), NEW n \in Nat,
         \A x \in D : H[x].bitmap \in B,
         \A b \in B : Cardinality(Covering(H, D, b)) <= n
  PROVE  Cardinality(D) <= Cardinality(B) * n
<1> DEFINE number == [b \in B |-> CHOOSE f : f \in Injection(Covering(H, D, b), 1 .. n)]
           T == B \X (1 .. n)
           place == [x \in D |-> <<H[x].bitmap, number[H[x].bitmap][x]>>]
<1>1. ASSUME NEW b \in B PROVE number[b] \in Injection(Covering(H, D, b), 1 .. n)
  <2> DEFINE C == Covering(H, D, b)
             c == Cardinality(C)
  <2>1. C \subseteq D
    BY DEF Covering
  <2>2. IsFiniteSet(C) /\ c \in Nat /\ c <= n
    BY <2>1, FS_Subset, FS_CardinalityType
  <2>3. IsFiniteSet(1 .. c) /\ Cardinality(1 .. c) = c
    <3> HIDE DEF c
    <3>1. Cardinality(1 .. c) = IF 1 > c THEN 0 ELSE c - 1 + 1
      BY <2>2, FS_Interval
    <3>2. QED
      BY <2>2, <3>1, FS_Interval
  <2> HIDE DEF C
  <2>4. ExistsBijection(C, 1 .. c)
    BY <2>2, <2>3, FS_SameCardinalityBij
  <2>5. PICK f : f \in Bijection(C, 1 .. c)
    BY <2>4 DEF ExistsBijection
  <2>6. f \in [C -> 1 .. c] /\ \A x, y \in C : f[x] = f[y] => x = y
    BY <2>5 DEF Bijection, Injection, IsInjective
  <2>7. 1 .. c \subseteq 1 .. n
    BY <2>2
  <2> HIDE DEF c
  <2>8. f \in [C -> 1 .. n]
    BY <2>6, <2>7
  <2>9. f \in Injection(C, 1 .. n)
    BY <2>6, <2>8 DEF Injection, IsInjective
  <2>10. QED
    BY <2>9 DEF C
<1>2. ASSUME NEW x \in D
      PROVE  x \in Covering(H, D, H[x].bitmap) /\ number[H[x].bitmap][x] \in 1 .. n
  <2>1. x \in Covering(H, D, H[x].bitmap)
    BY DEF Covering
  <2>2. number[H[x].bitmap] \in [Covering(H, D, H[x].bitmap) -> 1 .. n]
    BY <1>1 DEF Injection
  <2> HIDE DEF number
  <2>3. QED
    BY <2>1, <2>2
<1> HIDE DEF number
<1>3. place \in [D -> T]
  BY <1>2
<1>4. ASSUME NEW x \in D, NEW y \in D, place[x] = place[y] PROVE x = y
  <2>1. H[x].bitmap = H[y].bitmap /\ number[H[x].bitmap][x] = number[H[x].bitmap][y]
    BY <1>4
  <2>2. \A u, v \in Covering(H, D, H[x].bitmap) :
          number[H[x].bitmap][u] = number[H[x].bitmap][v] => u = v
    BY <1>1 DEF Injection, IsInjective
  <2>3. y \in Covering(H, D, H[x].bitmap)
    BY <2>1 DEF Covering
  <2>4. QED
    BY <1>2, <2>1, <2>2, <2>3
<1>5. place \in Injection(D, T)
  BY <1>3, <1>4 DEF Injection, IsInjective
<1>6. IsFiniteSet(1 .. n) /\ Cardinality(1 .. n) = n
  <2>1. Cardinality(1 .. n) = IF 1 > n THEN 0 ELSE n - 1 + 1
    BY FS_Interval
  <2>2. QED
    BY <2>1, FS_Interval
<1>7. IsFiniteSet(T) /\ Cardinality(T) = Cardinality(B) * n
  BY <1>6, FS_Product
<1> HIDE DEF place, T
<1>8. QED
  BY <1>5, <1>7, FS_Injection

LEMMA PowerIsNatural ==
  ASSUME NEW d \in Nat
  PROVE  2 ^ d \in Nat
<1>1. IsFiniteSet(1 .. d) /\ Cardinality(1 .. d) = d
  <2>1. Cardinality(1 .. d) = IF 1 > d THEN 0 ELSE d - 1 + 1
    BY FS_Interval
  <2>2. QED
    BY <2>1, FS_Interval
<1>2. QED
  BY <1>1, FS_SUBSET, FS_CardinalityType

\* The hypotheses S have k words translated, in the open window.
Near(H, S, d, k) ==
  \A x \in S : Cardinality(H[x].bitmap) = k /\ Window(H[x].bitmap, d)

\* So do those of the stack, and there are no more of them than Add tolerates.
IsSized(H, conf, d, k, stk) ==
  /\ Near(H, stk.hypos, d, k)
  /\ Cardinality(stk.hypos) <= ToleratedSize(conf, d)

\* A stack that was pruned is no larger.
LEMMA PruneSize ==
  ASSUME NEW H, NEW conf, IsConf(conf), NEW I, AreHypotheses(H, I),
         NEW stk, IsStack(I, stk),
         NEW d, conf.diversity > 0 => d \in Nat, NEW k, Near(H, stk.hypos, d, k),
         NEW s \in PruneToSize(H, conf, stk, conf.stackSize)
  PROVE  Cardinality(s.hypos) <= ToleratedSize(conf, d)
<1>1. conf.stackSize \in Nat \ {0} /\ conf.diversity \in Nat
  BY DEF IsConf
<1> DEFINE more == IF conf.diversity > 0 THEN conf.diversity * 2 ^ d ELSE 0
<1>2. more \in Nat /\ ToleratedSize(conf, d) = 2 * conf.stackSize - 1 + more
  <2>1. \A m, n \in Nat : m * n \in Nat
    OBVIOUS
  <2>2. conf.diversity > 0 => 2 ^ d \in Nat
    BY PowerIsNatural
  <2>3. QED
    BY <1>1, <2>1, <2>2 DEF ToleratedSize
<1> HIDE DEF more
<1>3. conf.stackSize <= ToleratedSize(conf, d)
  BY <1>1, <1>2
<1>4. CASE Cardinality(stk.hypos) <= conf.stackSize
  <2>1. s = stk
    BY <1>4 DEF PruneToSize
  <2>2. Cardinality(stk.hypos) \in Nat
    BY StackFinite, FS_CardinalityType
  <2>3. QED
    BY <1>1, <1>2, <1>4, <2>1, <2>2
<1>5. CASE ~(Cardinality(stk.hypos) <= conf.stackSize)
  <2>1. PICK D \in DiversityChoices(H, conf, stk.hypos) :
          \E E \in Remaining(H, conf, stk, D, conf.stackSize) :
            s = PrunedStack(H, conf, stk, conf.stackSize, D, E)
    BY <1>5, PruneIs
  <2>2. PICK E \in Remaining(H, conf, stk, D, conf.stackSize) :
          s = PrunedStack(H, conf, stk, conf.stackSize, D, E)
    BY <2>1
  <2>3. s.hypos = D \cup E
    BY <2>2 DEF PrunedStack
  <2>4. /\ IsFiniteSet(stk.hypos) /\ stk.hypos \subseteq I
        /\ \A x \in I : H[x].total \in Int /\ H[x].bitmap \in Bitmaps
    BY StackFinite
  <2>5. D \subseteq stk.hypos /\ IsFiniteSet(D)
    BY <2>1, <2>4, ShareKept
  <2>6. /\ IsFiniteSet(E) /\ Cardinality(E) \in Nat
        /\ Room(conf, D) \in Nat /\ Cardinality(E) <= Room(conf, D)
    BY <2>2, <2>5, RestIs
  <2>7. Cardinality(D) \in Nat
    BY <2>5, FS_CardinalityType
  <2>8. /\ Cardinality(D \cup E) \in Nat
        /\ Cardinality(D \cup E) <= Cardinality(D) + Cardinality(E)
    <3>1. /\ IsFiniteSet(D \cup E)
          /\ Cardinality(D \cup E)
               = Cardinality(D) + Cardinality(E) - Cardinality(D \cap E)
      BY <2>5, <2>6, FS_Union
    <3>2. Cardinality(D \cap E) \in Nat
      BY <2>5, FS_Intersection, FS_CardinalityType
    <3>3. QED
      BY <2>6, <2>7, <3>1, <3>2, FS_CardinalityType
  <2>9. CASE Cardinality(D) < conf.stackSize
    <3>1. Cardinality(D \cup E) <= conf.stackSize
      BY <1>1, <2>6, <2>7, <2>8, <2>9 DEF Room
    <3>2. QED
      BY <1>1, <1>2, <1>3, <2>3, <2>8, <3>1
  <2>10. CASE ~(Cardinality(D) < conf.stackSize)
    <3>1. Cardinality(D \cup E) <= Cardinality(D)
      BY <1>1, <2>6, <2>7, <2>8, <2>10 DEF Room
    <3>2. conf.diversity > 0
      <4>1. D # {}
        BY <1>1, <2>10, FS_EmptySet
      <4>2. conf.diversity # 0
        BY <2>1, <2>4, <4>1, ShareKept
      <4>3. QED
        BY <1>1, <4>2
    <3> DEFINE B == NearBitmaps(k, d)
    <3>3. IsFiniteSet(B) /\ Cardinality(B) <= 2 ^ d /\ Cardinality(B) \in Nat
          /\ 2 ^ d \in Nat
      BY <3>2, FewBitmaps, FS_CardinalityType, PowerIsNatural
    <3>4. \A x \in D : H[x].bitmap \in B
      BY <2>4, <2>5 DEF Near, NearBitmaps
    <3>5. \A b \in B : Cardinality(Covering(H, D, b)) <= conf.diversity
      <4>1. ASSUME NEW b
            PROVE  /\ Cardinality(Covering(H, D, b)) \in Nat
                   /\ Cardinality(Covering(H, stk.hypos, b)) \in Nat
                   /\ Cardinality(Covering(H, D, b))
                        = IF conf.diversity <= Cardinality(Covering(H, stk.hypos, b))
                          THEN conf.diversity ELSE Cardinality(Covering(H, stk.hypos, b))
        BY <2>1, <2>4, ShareKept
      <4>2. QED
        BY <1>1, <4>1
    <3> HIDE DEF B
    <3>6. Cardinality(D) <= Cardinality(B) * conf.diversity
      BY <1>1, <2>5, <3>3, <3>4, <3>5, SharesFit
    <3>7. Cardinality(D) <= conf.diversity * 2 ^ d
      <4>1. \A m, n, c, t \in Nat : m <= n /\ t <= m * c => t <= c * n
        <5>1. SUFFICES ASSUME NEW m \in Nat, NEW n \in Nat, NEW c \in Nat, NEW t \in Nat,
                              m <= n, t <= m * c
                       PROVE  t <= c * n
          OBVIOUS
        <5>2. (n - m) * c >= 0 /\ (n - m) * c = n * c - m * c
          BY <5>1
        <5>3. QED
          BY <5>1, <5>2
      <4>2. QED
        BY <1>1, <2>7, <3>3, <3>6, <4>1
    <3>8. more = conf.diversity * 2 ^ d
      BY <3>2 DEF more
    <3>9. QED
      BY <1>1, <1>2, <2>3, <2>7, <2>8, <3>1, <3>7, <3>8
  <2>11. QED
    BY <2>9, <2>10
<1>6. QED
  BY <1>4, <1>5


------------------------------------------------------------------------------
(****************************************************************************)
(* Add and AddPrune, as far as the stack goes.                              *)
(****************************************************************************)

\* What Add leaves of a stack from which x was taken out.
Kept(H, conf, I, d, stk, x, h, s) ==
  /\ StackSound(H, conf, I \cup {h}, s)
  /\ Cardinality(s.hypos) <= ToleratedSize(conf, d)
  /\ s.hypos \subseteq (stk.hypos \ {x}) \cup {h}

\* Add, after the twin x was taken out, if there was one.
LEMMA AddSound ==
  ASSUME NEW H, NEW conf, IsConf(conf), NEW I, NEW h, h \notin I,
         AreHypotheses(H, I \cup {h}), NEW stk, StackSound(H, conf, I, stk),
         NEW d, conf.diversity > 0 => d \in Nat, NEW k, Near(H, stk.hypos \cup {h}, d, k),
         NEW x, Yields(H, stk, h, x), NEW s \in Add(H, conf, d, Without(stk, x), h)
  PROVE  Kept(H, conf, I, d, stk, x, h, s)
<1> USE DEF Kept
<1> DEFINE added == Insert(H, conf, Without(stk, x), h)
<1>1. IsStack(I, stk)
  BY DEF StackSound
<1>2. StackSound(H, conf, I \cup {h}, added)
  BY InsertSound
<1>3. IsStack(I \cup {h}, added) /\ added.hypos = (stk.hypos \ {x}) \cup {h}
  <2>1. Inserted(H, conf, I, stk, h, x, added)
    BY <1>1, InsertIs
  <2>2. QED
    BY <2>1 DEF Inserted
<1>4. s \in IF Cardinality(added.hypos) > ToleratedSize(conf, d)
            THEN PruneToSize(H, conf, added, conf.stackSize) ELSE {added}
  BY DEF Add
<1> HIDE DEF added
<1>5. CASE Cardinality(added.hypos) > ToleratedSize(conf, d)
  <2>1. s \in PruneToSize(H, conf, added, conf.stackSize)
    BY <1>4, <1>5
  <2>2. StackSound(H, conf, I \cup {h}, s) /\ s.hypos \subseteq added.hypos
    BY <1>2, <2>1, PruneSound
  <2>3. Near(H, added.hypos, d, k)
    BY <1>3 DEF Near
  <2>4. Cardinality(s.hypos) <= ToleratedSize(conf, d)
    BY <1>3, <2>1, <2>3, PruneSize
  <2>5. QED
    BY <1>3, <2>2, <2>4
<1>6. CASE ~(Cardinality(added.hypos) > ToleratedSize(conf, d))
  <2>1. s = added
    BY <1>4, <1>6
  <2>2. ToleratedSize(conf, d) \in Int
    <3>1. \A m, n \in Nat : m * n \in Nat
      OBVIOUS
    <3>2. conf.diversity > 0 => 2 ^ d \in Nat
      BY PowerIsNatural
    <3>3. conf.stackSize \in Nat /\ conf.diversity \in Nat
      BY DEF IsConf
    <3>4. 2 * conf.stackSize - 1 \in Int
      BY <3>3
    <3>5. (IF conf.diversity > 0 THEN conf.diversity * 2 ^ d ELSE 0) \in Nat
      BY <3>1, <3>2, <3>3
    <3>6. QED
      BY <3>4, <3>5 DEF ToleratedSize
  <2>3. Cardinality(added.hypos) \in Nat
    BY <1>3, StackFinite, FS_CardinalityType
  <2>4. Cardinality(s.hypos) <= ToleratedSize(conf, d)
    BY <1>6, <2>1, <2>2, <2>3
  <2>5. QED
    BY <1>2, <1>3, <2>1, <2>4
<1>7. QED
  BY <1>5, <1>6

\* Nothing is taken out for a hypothesis without a twin.
LEMMA NothingOut ==
  ASSUME NEW I, NEW h, h \notin I, NEW stk, IsStack(I, stk)
  PROVE  Without(stk, h) = stk
<1>1. stk \in [hypos : SUBSET I, best : Int, worst : Int, divWorst : [Bitmaps -> Int]]
  BY DEF IsStack
<1>2. stk.hypos \ {h} = stk.hypos
  BY <1>1
<1>3. [stk EXCEPT !.hypos = stk.hypos] = stk
  BY <1>1
<1>4. QED
  BY <1>2, <1>3 DEF Without

------------------------------------------------------------------------------
(****************************************************************************)
(* Owners.                                                                  *)
(****************************************************************************)

\* G are the living hypotheses that came to a stack, S those in it.
Owned(S, arcs, G) ==
  /\ S \subseteq G
  /\ \A x \in G \ S : \E y \in S : x \in arcs[y]
  /\ \A y \in S : arcs[y] \subseteq G \ S
  /\ \A y, z \in S : y # z => arcs[y] \cap arcs[z] = {}
  /\ \A x \in G \ S : arcs[x] = {}

\* An arc recombines with its owner and is not better.
Dominated(H, S, arcs) ==
  \A w \in S : \A a \in arcs[w] :
    RecombineKey(H[a]) = RecombineKey(H[w]) /\ H[a].total <= H[w].total

IsArcs(arcs) == arcs \in [DOMAIN arcs -> SUBSET DOMAIN arcs]

\* Of the living hypotheses J, the outcome keeps what it has not deleted, with
\* an owner each, and it does not touch the arc lists of others.
OutcomeOwned(H, J, arcs, out) ==
  /\ out.gone \subseteq J
  /\ Owned(out.stack.hypos, out.arcs, J \ out.gone)
  /\ Dominated(H, out.stack.hypos, out.arcs)
  /\ DOMAIN out.arcs = DOMAIN arcs
  /\ \A x \in DOMAIN arcs \ J : out.arcs[x] = arcs[x]
  /\ \A x \in out.gone : out.arcs[x] = {}

\* A hypothesis with no arcs comes into the stack.
LEMMA ComeOwned ==
  ASSUME NEW H, NEW S, NEW arcs, NEW G, Owned(S, arcs, G), Dominated(H, S, arcs),
         NEW h, h \notin G, arcs[h] = {}
  PROVE  Owned(S \cup {h}, arcs, G \cup {h}) /\ Dominated(H, S \cup {h}, arcs)
  BY DEF Owned, Dominated

\* new are the arc lists once h has come.
Took(H, S, arcs, G, h, new) ==
  /\ Owned(S, new, G \cup {h}) /\ Dominated(H, S, new)
  /\ DOMAIN new = DOMAIN arcs
  /\ \A y \in DOMAIN arcs \ (G \cup {h}) : new[y] = arcs[y]

\* The owner x gives up its place and its arcs to h, a better one.
LEMMA WinnerOwned ==
  ASSUME NEW H, NEW S, NEW arcs, NEW G, Owned(S, arcs, G), Dominated(H, S, arcs),
         NEW h, h \notin G, arcs[h] = {}, NEW x \in S,
         RecombineKey(H[x]) = RecombineKey(H[h]), H[h].total >= H[x].total,
         \A y \in G \cup {h} : H[y].total \in Int,
         G \cup {h} \subseteq DOMAIN arcs, IsArcs(arcs),
         NEW new, new = AddArc(arcs, h, x)
  PROVE  Took(H, (S \ {x}) \cup {h}, arcs, G, h, new)
<1> DEFINE T == (S \ {x}) \cup {h}
           F == G \cup {h}
<1>1. x \in G /\ S \subseteq G /\ x # h
  BY DEF Owned
<1>2. /\ DOMAIN new = DOMAIN arcs
      /\ new[h] = arcs[x] \cup {x} /\ new[x] = {}
      /\ \A y \in DOMAIN arcs : y # h /\ y # x => new[y] = arcs[y]
  BY <1>1 DEF AddArc, IsArcs
<1>3. \A y \in DOMAIN arcs \ F : new[y] = arcs[y]
  BY <1>1, <1>2
<1>4. Owned(T, new, F)
  <2>1. T \subseteq F
    BY <1>1
  <2>2. F \ T = (G \ S) \cup {x}
    BY <1>1
  <2>3. \A y \in F \ T : \E z \in T : y \in new[z]
    <3>1. SUFFICES ASSUME NEW y \in G \ S PROVE \E z \in T : y \in new[z]
      BY <1>2, <2>2
    <3>2. PICK z \in S : y \in arcs[z]
      BY DEF Owned
    <3>3. CASE z = x
      BY <1>2, <3>2, <3>3
    <3>4. CASE z # x
      BY <1>1, <1>2, <3>2, <3>4
    <3>5. QED
      BY <3>3, <3>4
  <2>4. \A y \in T : new[y] \subseteq F \ T
    BY <1>1, <1>2, <2>2 DEF Owned
  <2>5. \A y, z \in T : y # z => new[y] \cap new[z] = {}
    <3>1. \A y \in S \ {x} : new[y] = arcs[y] /\ x \notin arcs[y] /\ arcs[y] \cap arcs[x] = {}
      BY <1>1, <1>2 DEF Owned
    <3>2. \A y, z \in S \ {x} : y # z => arcs[y] \cap arcs[z] = {}
      BY DEF Owned
    <3>3. QED
      BY <1>2, <3>1, <3>2
  <2>6. \A y \in F \ T : new[y] = {}
    BY <1>1, <1>2, <2>2 DEF Owned
  <2>7. QED
    BY <2>1, <2>3, <2>4, <2>5, <2>6 DEF Owned
<1>5. Dominated(H, T, new)
  <2>1. SUFFICES ASSUME NEW w \in T, NEW a \in new[w]
                 PROVE  RecombineKey(H[a]) = RecombineKey(H[w]) /\ H[a].total <= H[w].total
    BY DEF Dominated
  <2>2. CASE w # h
    BY <1>1, <1>2, <2>1, <2>2 DEF Dominated
  <2>3. CASE w = h /\ a = x
    BY <1>1, <2>3
  <2>4. CASE w = h /\ a # x
    <3>1. a \in arcs[x] /\ a \in G
      BY <1>2, <2>4 DEF Owned
    <3>2. RecombineKey(H[a]) = RecombineKey(H[x]) /\ H[a].total <= H[x].total
      BY <3>1 DEF Dominated
    <3>3. H[a].total \in Int /\ H[x].total \in Int /\ H[h].total \in Int
      BY <1>1, <3>1
    <3>4. QED
      BY <2>4, <3>2, <3>3
  <2>5. QED
    BY <2>2, <2>3, <2>4
<1>6. QED
  BY <1>2, <1>3, <1>4, <1>5 DEF Took

\* The owner x takes h in as an arc.
LEMMA LoserOwned ==
  ASSUME NEW H, NEW S, NEW arcs, NEW G, Owned(S, arcs, G), Dominated(H, S, arcs),
         NEW h, h \notin G, arcs[h] = {}, NEW x \in S,
         RecombineKey(H[x]) = RecombineKey(H[h]), H[h].total <= H[x].total,
         G \cup {h} \subseteq DOMAIN arcs, IsArcs(arcs),
         NEW new, new = AddArc(arcs, x, h)
  PROVE  Took(H, S, arcs, G, h, new)
<1>1. x \in G /\ S \subseteq G /\ x # h
  BY DEF Owned
<1>2. /\ DOMAIN new = DOMAIN arcs
      /\ new[x] = arcs[x] \cup {h} /\ new[h] = {}
      /\ \A y \in DOMAIN arcs : y # h /\ y # x => new[y] = arcs[y]
  BY <1>1 DEF AddArc, IsArcs
<1>3. \A y \in S : h \notin arcs[y]
  BY DEF Owned
<1>4. Owned(S, new, G \cup {h})
  BY <1>1, <1>2, <1>3 DEF Owned
<1>5. Dominated(H, S, new)
  BY <1>1, <1>2 DEF Dominated
<1>6. QED
  BY <1>1, <1>2, <1>4, <1>5 DEF Took

\* The hypotheses of the stack that are not in K go, with their arcs.
LEMMA GoOwned ==
  ASSUME NEW H, NEW S, NEW arcs, NEW G, Owned(S, arcs, G), Dominated(H, S, arcs),
         G \subseteq DOMAIN arcs, NEW stk, stk.hypos \subseteq S,
         NEW out, out = Outcome(stk, arcs, Deleted(arcs, S \ stk.hypos))
  PROVE  OutcomeOwned(H, G, arcs, out) /\ out.stack = stk
<1> DEFINE K == stk.hypos
           gone == Deleted(arcs, S \ K)
<1>1. /\ out.gone = gone /\ out.stack = stk
      /\ out.arcs = [x \in DOMAIN arcs |-> IF x \in gone THEN {} ELSE arcs[x]]
  BY DEF Outcome
<1>2. gone = (S \ K) \cup UNION {arcs[x] : x \in S \ K}
  BY DEF Deleted
<1>3. \A y : y \in gone <=> y \in S \ K \/ \E x \in S \ K : y \in arcs[x]
  BY <1>2
<1> HIDE DEF gone
<1>4. gone \subseteq G /\ \A y \in K : y \notin gone
  BY <1>3 DEF Owned
<1>5. \A y \in K : arcs[y] \cap gone = {}
  BY <1>3 DEF Owned
<1>6. /\ \A y \in G \ gone : out.arcs[y] = arcs[y]
      /\ \A y \in DOMAIN arcs \ G : out.arcs[y] = arcs[y]
      /\ \A y \in gone : out.arcs[y] = {}
  BY <1>1, <1>4
<1>7. K \subseteq G \ gone
  BY <1>4 DEF Owned
<1>8. \A x \in (G \ gone) \ K : x \in G \ S
  BY <1>3
<1>9. \A x \in (G \ gone) \ K : \E y \in K : x \in arcs[y]
  BY <1>3, <1>8 DEF Owned
<1>10. \A y \in K : arcs[y] \subseteq (G \ gone) \ K
  BY <1>5 DEF Owned
<1>11. Owned(K, out.arcs, G \ gone)
  <2>1. \A y \in K : out.arcs[y] = arcs[y]
    BY <1>6, <1>7
  <2>2. \A x \in (G \ gone) \ K : \E y \in K : x \in out.arcs[y]
    BY <1>9, <2>1
  <2>3. \A y \in K : out.arcs[y] \subseteq (G \ gone) \ K
    BY <1>10, <2>1
  <2>4. \A y, z \in K : y # z => out.arcs[y] \cap out.arcs[z] = {}
    BY <2>1 DEF Owned
  <2>5. \A x \in (G \ gone) \ K : out.arcs[x] = {}
    BY <1>6, <1>8 DEF Owned
  <2>6. QED
    BY <1>7, <2>2, <2>3, <2>4, <2>5 DEF Owned
<1>12. Dominated(H, K, out.arcs)
  BY <1>6, <1>7 DEF Dominated
<1>13. QED
  BY <1>1, <1>4, <1>6, <1>11, <1>12 DEF OutcomeOwned


\* The outcome of a hypothesis that is deleted at once.
LEMMA RefusedOwned ==
  ASSUME NEW H, NEW stk, NEW arcs, NEW G, Owned(stk.hypos, arcs, G),
         Dominated(H, stk.hypos, arcs), NEW h, h \notin G, arcs[h] = {},
         G \cup {h} \subseteq DOMAIN arcs,
         NEW out, out = Outcome(stk, arcs, {h})
  PROVE  OutcomeOwned(H, G \cup {h}, arcs, out) /\ out.stack = stk
<1>1. /\ out.gone = {h} /\ out.stack = stk /\ DOMAIN out.arcs = DOMAIN arcs
      /\ \A x \in DOMAIN arcs : out.arcs[x] = arcs[x]
  BY DEF Outcome
<1>2. (G \cup {h}) \ {h} = G /\ stk.hypos \subseteq G
  BY DEF Owned
<1>3. Owned(stk.hypos, out.arcs, G) /\ Dominated(H, stk.hypos, out.arcs)
  <2>1. \A x \in G : out.arcs[x] = arcs[x]
    BY <1>1
  <2>2. Owned(stk.hypos, out.arcs, G)
    BY <1>2, <2>1 DEF Owned
  <2>3. Dominated(H, stk.hypos, out.arcs)
    BY <1>2, <2>1 DEF Dominated
  <2>4. QED
    BY <2>2, <2>3
<1>4. QED
  BY <1>1, <1>2, <1>3 DEF OutcomeOwned

\* AddPrune leaves a sound stack of the right size in which every hypothesis
\* that lives has its owner.
Arrives(H, conf, I, d, k, stk, arcs, G, h) ==
  /\ h \notin I /\ AreHypotheses(H, I \cup {h})
  /\ StackSound(H, conf, I, stk) /\ IsSized(H, conf, d, k, stk)
  /\ Near(H, {h}, d, k)
  /\ G \subseteq I /\ Owned(stk.hypos, arcs, G) /\ Dominated(H, stk.hypos, arcs)
  /\ IsArcs(arcs)
  /\ G \cup {h} \subseteq DOMAIN arcs /\ arcs[h] = {}

Arrived(H, conf, I, d, k, arcs, G, h, out) ==
  /\ StackSound(H, conf, I \cup {h}, out.stack)
  /\ IsSized(H, conf, d, k, out.stack)
  /\ OutcomeOwned(H, G \cup {h}, arcs, out)

LEMMA ArrivesTooBad ==
  ASSUME NEW H, NEW conf, IsConf(conf), NEW I, NEW d, NEW k, NEW stk, NEW arcs, NEW G,
         NEW h, Arrives(H, conf, I, d, k, stk, arcs, G, h), TooBad(H, conf, stk, h)
  PROVE  Arrived(H, conf, I, d, k, arcs, G, h, Outcome(stk, arcs, {h}))
<1> DEFINE out == Outcome(stk, arcs, {h})
<1>1. OutcomeOwned(H, G \cup {h}, arcs, out) /\ out.stack = stk
  <2>1. h \notin G
    BY DEF Arrives
  <2>2. QED
    BY <2>1, RefusedOwned DEF Arrives
<1>2. StackSound(H, conf, I \cup {h}, stk)
  BY DiscardSound DEF Arrives
<1> HIDE DEF out
<1>3. Arrived(H, conf, I, d, k, arcs, G, h, out)
  BY <1>1, <1>2 DEF Arrives, Arrived
<1>4. QED
  BY <1>3 DEF out

LEMMA ArrivesNew ==
  ASSUME NEW H, NEW conf, IsConf(conf), NEW I, NEW d, conf.diversity > 0 => d \in Nat,
         NEW k, NEW stk, NEW arcs, NEW G, NEW h, Arrives(H, conf, I, d, k, stk, arcs, G, h),
         NEW out \in Added(H, conf, d, stk, arcs, h, {})
  PROVE  Arrived(H, conf, I, d, k, arcs, G, h, out)
<1>1. IsStack(I, stk) /\ h \notin stk.hypos /\ h \notin G
  BY DEF Arrives, StackSound, IsStack
<1>2. PICK s \in Add(H, conf, d, stk, h) :
        out = Outcome(s, arcs, Deleted(arcs, {} \cup ((stk.hypos \cup {h}) \ s.hypos)))
  BY DEF Added
<1>3. Without(stk, h) = stk /\ Yields(H, stk, h, h)
  BY <1>1, NothingOut DEF Arrives, Yields
<1>4. /\ s \in Add(H, conf, d, Without(stk, h), h)
      /\ Near(H, stk.hypos \cup {h}, d, k)
  BY <1>2, <1>3 DEF Arrives, IsSized, Near
<1>5. /\ StackSound(H, conf, I \cup {h}, s)
      /\ Cardinality(s.hypos) <= ToleratedSize(conf, d)
      /\ s.hypos \subseteq (stk.hypos \ {h}) \cup {h}
  <2>1. h \notin I /\ AreHypotheses(H, I \cup {h}) /\ StackSound(H, conf, I, stk)
    BY DEF Arrives
  <2>2. Kept(H, conf, I, d, stk, h, h, s)
    BY <1>3, <1>4, <2>1, AddSound
  <2>3. QED
    BY <2>2 DEF Kept
<1>6. Owned(stk.hypos \cup {h}, arcs, G \cup {h}) /\ Dominated(H, stk.hypos \cup {h}, arcs)
  BY <1>1, ComeOwned DEF Arrives
<1>7. s.hypos \subseteq stk.hypos \cup {h}
  BY <1>5
<1>8. out = Outcome(s, arcs, Deleted(arcs, (stk.hypos \cup {h}) \ s.hypos))
  BY <1>2
<1>9. OutcomeOwned(H, G \cup {h}, arcs, out) /\ out.stack = s
  BY <1>6, <1>7, <1>8, GoOwned DEF Arrives
<1>10. IsSized(H, conf, d, k, s)
  BY <1>5 DEF Arrives, IsSized, Near
<1>11. QED
  BY <1>5, <1>9, <1>10 DEF Arrived

LEMMA ArrivesTwin ==
  ASSUME NEW H, NEW conf, IsConf(conf), NEW I, NEW d, conf.diversity > 0 => d \in Nat,
         NEW k, NEW stk, NEW arcs, NEW G, NEW h, Arrives(H, conf, I, d, k, stk, arcs, G, h),
         NEW x \in Twins(H, stk, h),
         NEW out \in Recombine(H, conf, d, stk, arcs, h, x)
  PROVE  Arrived(H, conf, I, d, k, arcs, G, h, out)
<1>1. /\ IsStack(I, stk) /\ h \notin stk.hypos /\ h \notin G
      /\ x \in stk.hypos /\ RecombineKey(H[x]) = RecombineKey(H[h]) /\ x # h
      /\ arcs[h] = {} /\ G \cup {h} \subseteq DOMAIN arcs
      /\ Owned(stk.hypos, arcs, G) /\ Dominated(H, stk.hypos, arcs)
      /\ IsArcs(arcs)
  BY DEF Arrives, StackSound, IsStack, Twins
<1>2. \A y \in I \cup {h} : H[y].total \in Int
  BY DEF Arrives, AreHypotheses, Hypotheses
<1>3. x \in G /\ G \cup {h} \subseteq I \cup {h}
  BY <1>1 DEF Arrives, Owned
<1>4. H[x].total \in Int /\ H[h].total \in Int
  BY <1>2, <1>3
<1> DEFINE S == (stk.hypos \ {x}) \cup {h}
<1>5. ASSUME NEW s \in Add(H, conf, d, Without(stk, x), h), H[h].total > H[x].total
      PROVE  StackSound(H, conf, I \cup {h}, s) /\ IsSized(H, conf, d, k, s)
             /\ s.hypos \subseteq S
  <2>1. /\ Yields(H, stk, h, x)
        /\ Near(H, stk.hypos \cup {h}, d, k)
    BY <1>1, <1>5 DEF Yields, Arrives, IsSized, Near
  <2>2. h \notin I /\ AreHypotheses(H, I \cup {h}) /\ StackSound(H, conf, I, stk)
    BY DEF Arrives
  <2>3. Kept(H, conf, I, d, stk, x, h, s)
    BY <1>5, <2>1, <2>2, AddSound
  <2>4. QED
    BY <2>1, <2>3 DEF Kept, IsSized, Near
<1>6. Without(stk, x).hypos = stk.hypos \ {x}
  <2>1. stk \in [hypos : SUBSET I, best : Int, worst : Int, divWorst : [Bitmaps -> Int]]
    BY <1>1 DEF IsStack
  <2>2. QED
    BY <2>1 DEF Without
<1>7. CASE H[h].total > H[x].total /\ conf.nBest
  <2>0. PICK new : new = AddArc(arcs, h, x)
    OBVIOUS
  <2>1. out \in Added(H, conf, d, Without(stk, x), new, h, {})
    BY <1>4, <1>7, <2>0 DEF Recombine
  <2>2. PICK s \in Add(H, conf, d, Without(stk, x), h) :
          out = Outcome(s, new, Deleted(new, {} \cup ((Without(stk, x).hypos \cup {h}) \ s.hypos)))
    BY <2>1 DEF Added
  <2>3. out = Outcome(s, new, Deleted(new, S \ s.hypos))
    BY <1>6, <2>2
  <2>4. H[h].total >= H[x].total
    BY <1>4, <1>7
  <2>5. /\ Owned(S, new, G \cup {h}) /\ Dominated(H, S, new)
        /\ DOMAIN new = DOMAIN arcs
        /\ \A y \in DOMAIN arcs \ (G \cup {h}) : new[y] = arcs[y]
    <3>1. \A y \in G \cup {h} : H[y].total \in Int
      BY <1>2, <1>3
    <3>2. Took(H, S, arcs, G, h, new)
      BY <1>1, <2>0, <2>4, <3>1, WinnerOwned
    <3>3. QED
      BY <3>2 DEF Took
  <2>6. StackSound(H, conf, I \cup {h}, s) /\ IsSized(H, conf, d, k, s) /\ s.hypos \subseteq S
    BY <1>5, <1>7, <2>2
  <2>7. OutcomeOwned(H, G \cup {h}, new, out) /\ out.stack = s
    BY <1>1, <2>3, <2>5, <2>6, GoOwned
  <2>8. OutcomeOwned(H, G \cup {h}, arcs, out)
    BY <2>5, <2>7 DEF OutcomeOwned
  <2>9. QED
    BY <2>6, <2>7, <2>8 DEF Arrived
<1>8. CASE H[h].total > H[x].total /\ ~conf.nBest
  <2>1. out \in Added(H, conf, d, Without(stk, x), arcs, h, {x})
    BY <1>8 DEF Recombine
  <2>2. PICK s \in Add(H, conf, d, Without(stk, x), h) :
          out = Outcome(s, arcs,
                        Deleted(arcs, {x} \cup ((Without(stk, x).hypos \cup {h}) \ s.hypos)))
    BY <2>1 DEF Added
  <2>3. StackSound(H, conf, I \cup {h}, s) /\ IsSized(H, conf, d, k, s) /\ s.hypos \subseteq S
    BY <1>5, <1>8, <2>2
  <2>4. {x} \cup ((Without(stk, x).hypos \cup {h}) \ s.hypos) = (stk.hypos \cup {h}) \ s.hypos
    BY <1>1, <1>6, <2>3
  <2>5. Owned(stk.hypos \cup {h}, arcs, G \cup {h}) /\ Dominated(H, stk.hypos \cup {h}, arcs)
    BY <1>1, ComeOwned
  <2>6. s.hypos \subseteq stk.hypos \cup {h}
    BY <2>3
  <2>7. OutcomeOwned(H, G \cup {h}, arcs, out) /\ out.stack = s
    BY <1>1, <2>2, <2>4, <2>5, <2>6, GoOwned
  <2>8. QED
    BY <2>3, <2>7 DEF Arrived
<1>9. CASE ~(H[h].total > H[x].total)
  <2>1. H[h].total <= H[x].total
    BY <1>4, <1>9
  <2>2. StackSound(H, conf, I \cup {h}, stk) /\ IsSized(H, conf, d, k, stk)
    BY <2>1, LoserSound DEF Arrives
  <2>3. CASE conf.nBest
    <3>0. PICK new : new = AddArc(arcs, x, h)
      OBVIOUS
    <3>1. out = Outcome(stk, new, {})
      BY <1>9, <2>1, <2>3, <3>0 DEF Recombine
    <3>2. /\ Owned(stk.hypos, new, G \cup {h}) /\ Dominated(H, stk.hypos, new)
          /\ DOMAIN new = DOMAIN arcs
          /\ \A y \in DOMAIN arcs \ (G \cup {h}) : new[y] = arcs[y]
      <4>1. Took(H, stk.hypos, arcs, G, h, new)
        BY <1>1, <2>1, <3>0, LoserOwned
      <4>2. QED
        BY <4>1 DEF Took
    <3>3. /\ out.stack = stk /\ out.gone = {} /\ DOMAIN out.arcs = DOMAIN new
          /\ \A y \in DOMAIN new : out.arcs[y] = new[y]
      BY <3>1 DEF Outcome
    <3>4. stk.hypos \subseteq G /\ (G \cup {h}) \ out.gone = G \cup {h}
      BY <1>1, <3>3 DEF Owned
    <3>5. Owned(stk.hypos, out.arcs, G \cup {h}) /\ Dominated(H, stk.hypos, out.arcs)
      BY <1>1, <3>2, <3>3, <3>4 DEF Owned, Dominated
    <3>6. OutcomeOwned(H, G \cup {h}, arcs, out)
      BY <3>2, <3>3, <3>4, <3>5 DEF OutcomeOwned
    <3>7. QED
      BY <2>2, <3>3, <3>6 DEF Arrived
  <2>4. CASE ~conf.nBest
    <3>1. out = Outcome(stk, arcs, {h})
      BY <1>9, <2>1, <2>4 DEF Recombine
    <3>2. OutcomeOwned(H, G \cup {h}, arcs, out) /\ out.stack = stk
      BY <1>1, <3>1, RefusedOwned
    <3>3. QED
      BY <2>2, <3>2 DEF Arrived
  <2>5. QED
    BY <2>3, <2>4
<1>10. QED
  BY <1>7, <1>8, <1>9

LEMMA AddPruneSound ==
  ASSUME NEW H, NEW conf, IsConf(conf), NEW I, NEW d, conf.diversity > 0 => d \in Nat,
         NEW k, NEW stk, NEW arcs, NEW G, NEW h, Arrives(H, conf, I, d, k, stk, arcs, G, h),
         NEW out \in AddPrune(H, conf, d, stk, arcs, h)
  PROVE  Arrived(H, conf, I, d, k, arcs, G, h, out)
<1>1. CASE TooBad(H, conf, stk, h)
  <2>1. out = Outcome(stk, arcs, {h})
    BY <1>1 DEF AddPrune
  <2>2. QED
    BY <1>1, <2>1, ArrivesTooBad
<1>2. CASE ~TooBad(H, conf, stk, h) /\ Twins(H, stk, h) = {}
  <2>1. out \in Added(H, conf, d, stk, arcs, h, {})
    BY <1>2 DEF AddPrune
  <2>2. QED
    BY <2>1, ArrivesNew
<1>3. CASE ~TooBad(H, conf, stk, h) /\ Twins(H, stk, h) # {}
  <2>1. PICK x \in Twins(H, stk, h) : out \in Recombine(H, conf, d, stk, arcs, h, x)
    BY <1>3 DEF AddPrune
  <2>2. QED
    BY <2>1, ArrivesTwin
<1>4. QED
  BY <1>1, <1>2, <1>3


\* Without n-best list nothing is kept as an arc.
NoArcs(arcs) == \A x \in DOMAIN arcs : arcs[x] = {}

LEMMA AddPruneNoArcs ==
  ASSUME NEW H, NEW conf, ~conf.nBest, NEW d, NEW stk, NEW arcs, NoArcs(arcs), NEW h,
         \A x \in stk.hypos : H[x].total \in Int, H[h].total \in Int,
         NEW out \in AddPrune(H, conf, d, stk, arcs, h)
  PROVE  NoArcs(out.arcs)
<1>1. ASSUME NEW s, NEW gone PROVE NoArcs(Outcome(s, arcs, gone).arcs)
  BY DEF Outcome, NoArcs
<1>2. ASSUME NEW s, NEW lost, NEW o \in Added(H, conf, d, s, arcs, h, lost)
      PROVE  NoArcs(o.arcs)
  BY <1>1 DEF Added
<1>3. CASE TooBad(H, conf, stk, h)
  <2>1. out = Outcome(stk, arcs, {h})
    BY <1>3 DEF AddPrune
  <2>2. QED
    BY <1>1, <2>1
<1>4. CASE ~TooBad(H, conf, stk, h) /\ Twins(H, stk, h) = {}
  <2>1. out \in Added(H, conf, d, stk, arcs, h, {})
    BY <1>4 DEF AddPrune
  <2>2. QED
    BY <1>2, <2>1
<1>5. CASE ~TooBad(H, conf, stk, h) /\ Twins(H, stk, h) # {}
  <2>1. PICK x \in Twins(H, stk, h) : out \in Recombine(H, conf, d, stk, arcs, h, x)
    BY <1>5 DEF AddPrune
  <2>2. H[x].total \in Int
    BY <2>1 DEF Twins
  <2>3. \/ out \in Added(H, conf, d, Without(stk, x), arcs, h, {x})
        \/ out = Outcome(stk, arcs, {h})
    BY <2>1, <2>2 DEF Recombine
  <2>4. QED
    BY <1>1, <1>2, <2>3
<1>6. QED
  BY <1>3, <1>4, <1>5

------------------------------------------------------------------------------
(****************************************************************************)
(* A stack is opened.                                                       *)
(****************************************************************************)

\* Cleaning up only shortens arc lists of the stack.
Shortened(arcs, a, S) ==
  /\ DOMAIN a = DOMAIN arcs
  /\ \A x \in DOMAIN arcs : a[x] \subseteq arcs[x]
  /\ \A x \in DOMAIN arcs : x \notin S => a[x] = arcs[x]

LEMMA CleanupIs ==
  ASSUME NEW H, NEW conf, NEW stk, NEW arcs, NEW a \in CleanupArcList(H, conf, stk, arcs)
  PROVE  Shortened(arcs, a, stk.hypos)
<1> DEFINE long == IF conf.nBest THEN TooManyArcs(conf, stk, arcs) ELSE {}
<1>1. PICK K : a = [x \in DOMAIN arcs |-> IF x \in long THEN arcs[x] \cap K ELSE arcs[x]]
  BY DEF CleanupArcList
<1>2. long \subseteq stk.hypos
  BY DEF TooManyArcs
<1> HIDE DEF long
<1>3. QED
  BY <1>1, <1>2 DEF Shortened

\* What cleaning up takes off the arc lists of the stack.
CutArcs(arcs, a, S) == UNION {arcs[x] \ a[x] : x \in S}

LEMMA CutArcsIs ==
  ASSUME NEW arcs, NEW a, NEW S, NEW y
  PROVE  y \in CutArcs(arcs, a, S) <=> \E x \in S : y \in arcs[x] /\ y \notin a[x]
  BY DEF CutArcs

LEMMA OpenOwned ==
  ASSUME NEW H, NEW conf, NEW stk, NEW arcs, NEW G, Owned(stk.hypos, arcs, G),
         Dominated(H, stk.hypos, arcs), G \subseteq DOMAIN arcs,
         NEW s, s.hypos \subseteq stk.hypos,
         NEW out, out = Outcome(s, arcs, Deleted(arcs, stk.hypos \ s.hypos)),
         NEW a \in CleanupArcList(H, conf, s, out.arcs),
         NEW gone, gone = out.gone \cup CutArcs(out.arcs, a, s.hypos)
  PROVE  OutcomeOwned(H, G, arcs, [stack |-> s, arcs |-> a, gone |-> gone])
<1> DEFINE K == s.hypos
           J == G \ out.gone
<1>1. OutcomeOwned(H, G, arcs, out) /\ out.stack = s
  BY GoOwned
<1>2. /\ out.gone \subseteq G /\ Owned(K, out.arcs, J) /\ Dominated(H, K, out.arcs)
      /\ DOMAIN out.arcs = DOMAIN arcs
      /\ \A x \in DOMAIN arcs \ G : out.arcs[x] = arcs[x]
      /\ \A x \in out.gone : out.arcs[x] = {}
  BY <1>1 DEF OutcomeOwned
<1>3. /\ DOMAIN a = DOMAIN arcs
      /\ \A x \in DOMAIN arcs : a[x] \subseteq out.arcs[x]
      /\ \A x \in DOMAIN arcs : x \notin K => a[x] = out.arcs[x]
  <2>1. Shortened(out.arcs, a, K)
    BY CleanupIs
  <2>2. QED
    BY <1>2, <2>1 DEF Shortened
<1>4. ASSUME NEW y
      PROVE  y \in gone <=> y \in out.gone \/ \E x \in K : y \in out.arcs[x] /\ y \notin a[x]
  <2>1. y \in CutArcs(out.arcs, a, K) <=> \E x \in K : y \in out.arcs[x] /\ y \notin a[x]
    <3>1. PICK b, S : b = out.arcs /\ S = K
      OBVIOUS
    <3> HIDE DEF K
    <3>2. y \in CutArcs(b, a, S) <=> \E x \in S : y \in b[x] /\ y \notin a[x]
      BY CutArcsIs
    <3>3. QED
      BY <3>1, <3>2
  <2>2. y \in gone <=> y \in out.gone \/ y \in CutArcs(out.arcs, a, K)
    OBVIOUS
  <2>3. QED
    BY <2>1, <2>2
<1>5. K \subseteq J /\ K \subseteq DOMAIN arcs /\ J \subseteq DOMAIN arcs
  BY <1>2 DEF Owned
<1>6. gone \subseteq G /\ K \cap gone = {}
  <2>1. \A x \in K : out.arcs[x] \subseteq J \ K
    BY <1>2 DEF Owned
  <2>2. \A y \in gone : y \in out.gone \/ y \in J \ K
    BY <1>4, <2>1
  <2> HIDE DEF K
  <2>3. QED
    BY <1>2, <1>5, <2>2
<1>7. \A x \in K : a[x] \cap gone = {}
  <2>1. SUFFICES ASSUME NEW x \in K, NEW y \in a[x], y \in gone PROVE FALSE
    OBVIOUS
  <2>2. y \in out.arcs[x] /\ y \in J
    BY <1>2, <1>3, <1>5 DEF Owned
  <2>3. PICK z \in K : y \in out.arcs[z] /\ y \notin a[z]
    BY <1>4, <2>1, <2>2
  <2>4. z # x
    BY <2>3
  <2>5. QED
    BY <1>2, <2>2, <2>3, <2>4 DEF Owned
<1>8. Owned(K, a, G \ gone)
  <2>1. K \subseteq G \ gone
    BY <1>5, <1>6
  <2>2. ASSUME NEW x \in (G \ gone) \ K PROVE (\E y \in K : x \in a[y]) /\ a[x] = {}
    <3>1. x \in J \ K
      BY <1>4
    <3>2. PICK y \in K : x \in out.arcs[y]
      BY <1>2, <3>1 DEF Owned
    <3>3. x \in a[y]
      BY <1>4, <3>2
    <3>4. out.arcs[x] = {} /\ a[x] = out.arcs[x]
      BY <1>2, <1>3, <1>5, <3>1 DEF Owned
    <3>5. QED
      BY <3>3, <3>4
  <2>3. \A y \in K : a[y] \subseteq (G \ gone) \ K
    BY <1>2, <1>3, <1>5, <1>7 DEF Owned
  <2>4. \A y, z \in K : y # z => a[y] \cap a[z] = {}
    BY <1>2, <1>3, <1>5 DEF Owned
  <2>5. QED
    BY <2>1, <2>2, <2>3, <2>4 DEF Owned
<1>9. Dominated(H, K, a)
  BY <1>2, <1>3, <1>5 DEF Dominated
<1>10. \A x \in DOMAIN arcs \ G : a[x] = arcs[x]
  BY <1>2, <1>3, <1>5
<1>11. \A x \in gone : a[x] = {}
  <2>1. SUFFICES ASSUME NEW x \in gone PROVE a[x] = {}
    OBVIOUS
  <2>2. x \in DOMAIN arcs /\ x \notin K
    BY <1>6
  <2>3. out.arcs[x] = {}
    BY <1>2, <1>4, <2>2 DEF Owned
  <2>4. QED
    BY <1>3, <2>2, <2>3
<1>12. QED
  BY <1>3, <1>6, <1>8, <1>9, <1>10, <1>11 DEF OutcomeOwned

\* The arcs of the stack S know their winner, and it knows itself.
Knows(S, ar, win) == \A w \in S : \A a \in ar[w] : win[a] = w /\ win[w] = w

\* After it they do.
LEMMA WinnersKnown ==
  ASSUME NEW conf, conf.nBest, NEW stk, NEW arcs, NEW G, Owned(stk.hypos, arcs, G),
         NEW winning, G \subseteq DOMAIN winning,
         NEW new, new = Winners(conf, stk, arcs, winning)
  PROVE  Knows(stk.hypos, arcs, new)
<1>1. ASSUME NEW w \in stk.hypos PROVE new[w] = w
  BY DEF Owned, Winners
<1>2. ASSUME NEW w \in stk.hypos, NEW x \in arcs[w] PROVE new[x] = w
  <2>1. x \in DOMAIN winning /\ x \notin stk.hypos
    BY DEF Owned
  <2>2. \A y \in stk.hypos : x \in arcs[y] => y = w
    BY DEF Owned
  <2>3. (CHOOSE y \in stk.hypos : x \in arcs[y]) = w
    BY <2>2
  <2>4. new[x] = CHOOSE y \in stk.hypos : x \in arcs[y]
    BY <2>1 DEF Winners
  <2>5. QED
    BY <2>3, <2>4
<1>3. QED
  BY <1>1, <1>2 DEF Knows

------------------------------------------------------------------------------
(****************************************************************************)
(* More hypotheses are made.                                                *)
(****************************************************************************)

\* What is said of a stack depends on its own hypotheses only.
LEMMA SameSound ==
  ASSUME NEW H, NEW F, NEW conf, NEW I, \A x \in I : F[x] = H[x],
         NEW stk, StackSound(H, conf, I, stk)
  PROVE  StackSound(F, conf, I, stk)
<1> DEFINE S == stk.hypos
<1>1. IsStack(I, stk) /\ S \subseteq I
  BY DEF StackSound, IsStack
<1>2. \A x \in S : F[x] = H[x]
  BY <1>1
<1>3. BestSeen(F, I, stk)
  BY <1>2 DEF StackSound, BestSeen
<1>4. \A t : AtLeast(F, S, t) = AtLeast(H, S, t)
  BY <1>2 DEF AtLeast
<1>5. \A t : MayGo(F, conf, stk, t) <=> MayGo(H, conf, stk, t)
  BY <1>4 DEF MayGo
<1>6. Justified(F, conf, I, stk)
  BY <1>2, <1>5 DEF StackSound, Justified
<1>7. \A b : Covering(F, S, b) = Covering(H, S, b)
  BY <1>2 DEF Covering
<1>8. \A b : Keys(F, I, b) = Keys(H, I, b)
  BY DEF Keys
<1>9. Diverse(F, conf, I, stk)
  BY <1>7, <1>8 DEF StackSound, Diverse
<1>10. QED
  BY <1>1, <1>3, <1>6, <1>9 DEF StackSound

LEMMA SameOwned ==
  ASSUME NEW H, NEW F, NEW I, \A x \in I : F[x] = H[x],
         NEW S, NEW arcs, NEW new, NEW G, G \subseteq I,
         \A x \in G : new[x] = arcs[x],
         Owned(S, arcs, G), Dominated(H, S, arcs)
  PROVE  Owned(S, new, G) /\ Dominated(F, S, new)
<1>1. S \subseteq G /\ \A y \in S : arcs[y] \subseteq G
  BY DEF Owned
<1>2. Owned(S, new, G)
  BY <1>1 DEF Owned
<1>3. Dominated(F, S, new)
  <2>1. SUFFICES ASSUME NEW w \in S, NEW x \in arcs[w]
                 PROVE  RecombineKey(F[x]) = RecombineKey(F[w]) /\ F[x].total <= F[w].total
    BY <1>1 DEF Dominated
  <2>2. F[x] = H[x] /\ F[w] = H[w]
    BY <1>1
  <2>3. QED
    BY <2>2 DEF Dominated
<1>4. QED
  BY <1>2, <1>3
------------------------------------------------------------------------------
(****************************************************************************)
(* One stack: what it may have lost.                                        *)
(****************************************************************************)

IsCubeConf(conf) ==
  /\ conf.stackSize \in Nat \ {0}
  /\ conf.beamWidth \in Int /\ conf.beamWidth < 0

IsCubeStack(I, stk) == stk \in [hypos : SUBSET I, best : Int, worst : Int]

AllKeys(H, I) == {RecombineKey(H[x]) : x \in I}

\* A hypothesis with the score t is not missed: as many as fit are as good, or
\* the best is better by the beam, or the stack has overflowed.
CubeMayGo(H, conf, I, stk, t) ==
  \/ Cardinality(AtLeast(H, stk.hypos, t)) >= conf.stackSize
  \/ t <= stk.best + conf.beamWidth
  \/ /\ t < stk.worst
     /\ \A y \in stk.hypos : H[y].total >= t
     /\ Cardinality(AllKeys(H, I)) >= 2 * conf.stackSize

\* The worst score allowed is no worse than what the beam holds.
Floor(H, conf, stk) ==
  \A y \in stk.hypos : H[y].total > stk.best + conf.beamWidth => H[y].total >= stk.worst

\* No two hypotheses recombine.
OneEach(H, S) == \A x, y \in S : RecombineKey(H[x]) = RecombineKey(H[y]) => x = y

CubeJustified(H, conf, I, stk) ==
  \A x \in I :
    \/ \E y \in stk.hypos : /\ RecombineKey(H[y]) = RecombineKey(H[x])
                            /\ H[y].total >= H[x].total
    \/ CubeMayGo(H, conf, I, stk, H[x].total)

\* What AddPrune refuses unseen is not missed.
CubeRefuses(H, conf, I, stk) ==
  \A t \in Int : NegInf < t /\ t < stk.worst => CubeMayGo(H, conf, I, stk, t)

CubeSound(H, conf, I, stk) ==
  /\ IsCubeStack(I, stk)
  /\ BestSeen(H, I, stk)
  /\ Floor(H, conf, stk)
  /\ OneEach(H, stk.hypos)
  /\ CubeJustified(H, conf, I, stk)

LEMMA CubeFinite ==
  ASSUME NEW H, NEW I, AreHypotheses(H, I), NEW stk, IsCubeStack(I, stk)
  PROVE  /\ stk.hypos \subseteq I /\ IsFiniteSet(stk.hypos)
         /\ Cardinality(stk.hypos) \in Nat
         /\ stk.best \in Int /\ stk.worst \in Int
         /\ \A x \in I : H[x].total \in Int /\ NegInf < H[x].total
<1>1. stk.hypos \subseteq I /\ stk.best \in Int /\ stk.worst \in Int
  BY DEF IsCubeStack
<1>2. IsFiniteSet(stk.hypos) /\ Cardinality(stk.hypos) \in Nat
  BY <1>1, FS_Subset, FS_CardinalityType DEF AreHypotheses
<1>3. \A x \in I : H[x].total \in Int /\ NegInf < H[x].total
  BY DEF AreHypotheses, Hypotheses
<1>4. QED
  BY <1>1, <1>2, <1>3

LEMMA AllKeysGrow ==
  ASSUME NEW H, NEW I, IsFiniteSet(I), NEW h
  PROVE  /\ IsFiniteSet(AllKeys(H, I)) /\ Cardinality(AllKeys(H, I)) \in Nat
         /\ Cardinality(AllKeys(H, I \cup {h})) \in Nat
         /\ Cardinality(AllKeys(H, I)) <= Cardinality(AllKeys(H, I \cup {h}))
<1> DEFINE f == [x \in I \cup {h} |-> RecombineKey(H[x])]
           J == I \cup {h}
<1>1. IsFiniteSet(J)
  BY FS_AddElement, FS_CardinalityType
<1>2. AllKeys(H, J) = {RecombineKey(H[x]) : x \in J} /\ AllKeys(H, I) \subseteq AllKeys(H, J)
  BY DEF AllKeys
<1>3. IsFiniteSet(AllKeys(H, J))
  <2>1. f \in Surjection(J, AllKeys(H, J))
    BY DEF Surjection, AllKeys
  <2>2. QED
    BY <1>1, <2>1, FS_Surjection
<1>4. QED
  BY <1>2, <1>3, FS_Subset, FS_CardinalityType

\* Hypotheses that do not recombine have as many keys.
LEMMA KeysCount ==
  ASSUME NEW H, NEW I, IsFiniteSet(I), NEW S, S \subseteq I, OneEach(H, S)
  PROVE  Cardinality(S) <= Cardinality(AllKeys(H, I))
<1> DEFINE f == [x \in S |-> RecombineKey(H[x])]
           T == AllKeys(H, S)
<1>1. IsFiniteSet(S)
  BY FS_Subset
<1>2. IsFiniteSet(AllKeys(H, I)) /\ T \subseteq AllKeys(H, I)
  BY AllKeysGrow DEF AllKeys
<1>3. f \in Bijection(S, T)
  BY DEF Bijection, Injection, Surjection, AllKeys, OneEach, IsInjective
<1>4. Cardinality(S) = Cardinality(T)
  <2>1. ExistsBijection(S, T)
    BY <1>3 DEF ExistsBijection
  <2>2. QED
    BY <1>1, <2>1, FS_Bijection
<1>5. QED
  BY <1>2, <1>4, FS_Subset, FS_CardinalityType

LEMMA TopOfSet ==
  ASSUME NEW H, NEW S, IsFiniteSet(S), S # {}, \A x \in S : H[x].total \in Int
  PROVE  \E x \in S : \A y \in S : H[x].total >= H[y].total
<1> DEFINE F == [x \in S |-> [total |-> -H[x].total]]
<1>1. \A x \in S : F[x].total \in Int /\ F[x].total = -H[x].total
  OBVIOUS
<1> HIDE DEF F
<1>2. PICK x \in S : \A y \in S : F[x].total <= F[y].total
  BY <1>1, WorstOfSet
<1>3. \A y \in S : H[x].total >= H[y].total
  BY <1>1, <1>2
<1>4. QED
  BY <1>3

------------------------------------------------------------------------------
(****************************************************************************)
(* The stack is pruned.                                                     *)
(****************************************************************************)

\* The lowest score of the n best of B: it is the score of one of them, and if
\* it leaves any of B below, n of B have it.
LEMMA LastOfBest ==
  ASSUME NEW H, NEW B, IsFiniteSet(B), B # {}, \A x \in B : H[x].total \in Int,
         NEW n \in Nat \ {0}, NEW t, t = LowestScore(H, Candidates(H, n, B))
  PROVE  /\ t \in Int
         /\ \E x \in B : H[x].total = t
         /\ AtLeast(H, B, t) = B \/ Cardinality(AtLeast(H, B, t)) >= n
<1> DEFINE C == Candidates(H, n, B)
<1>1. C \subseteq B /\ IsFiniteSet(C) /\ \A x \in C : H[x].total \in Int
  <2>1. C \subseteq B
    BY DEF Candidates
  <2>2. QED
    BY <2>1, FS_Subset
<1>2. C # {}
  <2>1. PICK x \in B : \A y \in B : H[x].total >= H[y].total
    BY TopOfSet
  <2>2. {y \in B : H[y].total > H[x].total} = {}
    BY <2>1
  <2>3. Cardinality({y \in B : H[y].total > H[x].total}) = 0
    BY <2>2, FS_EmptySet
  <2>4. x \in C
    BY <2>3 DEF Candidates
  <2>5. QED
    BY <2>4
<1> HIDE DEF C
<1>3. /\ t \in Int /\ \E x \in C : H[x].total = t
      /\ \A x \in C : t <= H[x].total
  BY <1>1, <1>2, LowestScoreIs DEF C
<1>4. ASSUME AtLeast(H, B, t) # B
      PROVE  Cardinality(AtLeast(H, B, t)) >= n
  <2> DEFINE K == AtLeast(H, B, t)
             R == B \ K
  <2>1. K \subseteq B /\ R # {} /\ R \subseteq B /\ IsFiniteSet(R) /\ IsFiniteSet(K)
        /\ Cardinality(K) \in Nat
    <3>1. K \subseteq B
      BY DEF AtLeast
    <3>2. QED
      BY <1>4, <3>1, FS_Subset, FS_CardinalityType
  <2>2. PICK z \in R : \A y \in R : H[z].total >= H[y].total
    BY <2>1, TopOfSet
  <2>3. MoreThan(H, B, H[z].total) \subseteq K
    <3>1. SUFFICES ASSUME NEW y \in B, H[y].total > H[z].total PROVE y \in K
      BY DEF MoreThan
    <3>2. H[y].total \in Int /\ H[z].total \in Int
      BY <2>1
    <3>3. y \notin R
      BY <2>2, <3>1, <3>2
    <3>4. QED
      BY <3>3
  <2>4. z \notin C
    <3>1. ~(H[z].total >= t)
      BY <2>1 DEF AtLeast
    <3>2. QED
      BY <1>1, <1>3, <3>1
  <2>5. ~(Cardinality(MoreThan(H, B, H[z].total)) < n)
    BY <2>1, <2>4 DEF C, Candidates, MoreThan
  <2>6. Cardinality(MoreThan(H, B, H[z].total)) <= Cardinality(K)
        /\ Cardinality(MoreThan(H, B, H[z].total)) \in Nat
    BY <2>1, <2>3, FS_Subset, FS_CardinalityType
  <2> HIDE DEF K
  <2>7. Cardinality(K) >= n
    BY <2>1, <2>5, <2>6
  <2>8. QED
    BY <2>7 DEF K
<1>5. QED
  BY <1>1, <1>3, <1>4

InBeam(H, conf, stk) == {x \in stk.hypos : H[x].total > stk.best + conf.beamWidth}

\* What PruneToSize makes of a stack that is too large: it keeps those in the
\* beam, all or as many as fit and those that tie with the last of them.
CubePruned(H, conf, stk, s) ==
  /\ s.best = stk.best
  /\ s.hypos = AtLeast(H, stk.hypos, s.worst)
  /\ s.hypos \subseteq InBeam(H, conf, stk)
  /\ \E x \in s.hypos : H[x].total = s.worst
  /\ s.hypos = InBeam(H, conf, stk) \/ Cardinality(s.hypos) >= conf.stackSize

LEMMA CubePruneIs ==
  ASSUME NEW H, NEW conf, IsCubeConf(conf), NEW I, AreHypotheses(H, I), I # {},
         NEW stk, IsCubeStack(I, stk), BestSeen(H, I, stk),
         ~(Cardinality(stk.hypos) <= conf.stackSize),
         NEW s, s = CubePruneToSize(H, conf, stk, conf.stackSize)
  PROVE  IsCubeStack(I, s) /\ CubePruned(H, conf, stk, s)
<1> DEFINE B == InBeam(H, conf, stk)
           t == ScoreThreshold(H, conf, stk, conf.stackSize)
<1>1. /\ stk.hypos \subseteq I /\ IsFiniteSet(stk.hypos)
      /\ stk.best \in Int /\ conf.beamWidth \in Int /\ conf.beamWidth < 0
      /\ \A x \in I : H[x].total \in Int
  BY CubeFinite DEF IsCubeConf
<1>2. B \subseteq stk.hypos /\ IsFiniteSet(B) /\ \A x \in B : H[x].total \in Int
  <2>1. B \subseteq stk.hypos
    BY DEF InBeam
  <2>2. QED
    BY <1>1, <2>1, FS_Subset
<1>3. B # {}
  <2>1. PICK x \in stk.hypos : H[x].total = stk.best
    BY DEF BestSeen
  <2>2. QED
    BY <1>1, <2>1 DEF InBeam
<1>4. t = LowestScore(H, Candidates(H, conf.stackSize, B))
  BY DEF ScoreThreshold, InBeam
<1> HIDE DEF B
<1>5. /\ t \in Int /\ \E x \in B : H[x].total = t
      /\ AtLeast(H, B, t) = B \/ Cardinality(AtLeast(H, B, t)) >= conf.stackSize
  <2>1. conf.stackSize \in Nat \ {0}
    BY DEF IsCubeConf
  <2>2. QED
    BY <1>2, <1>3, <1>4, <2>1, LastOfBest
<1>6. s = [stk EXCEPT !.hypos = {x \in stk.hypos : H[x].total >= t}, !.worst = t]
  BY DEF CubePruneToSize
<1> HIDE DEF t
<1>7. stk \in [hypos : SUBSET I, best : Int, worst : Int]
  BY DEF IsCubeStack
<1>8. {x \in stk.hypos : H[x].total >= t} \in SUBSET I
  BY <1>1
<1>9. /\ s.hypos = {x \in stk.hypos : H[x].total >= t} /\ s.worst = t /\ s.best = stk.best
      /\ s \in [hypos : SUBSET I, best : Int, worst : Int]
  BY ONLY <1>5, <1>6, <1>7, <1>8
<1>10. s.hypos = AtLeast(H, stk.hypos, t)
  BY <1>9 DEF AtLeast
<1>11. s.hypos = AtLeast(H, B, t)
  <2>1. PICK x \in B : H[x].total = t
    BY <1>5
  <2>2. t > stk.best + conf.beamWidth
    BY <2>1 DEF B, InBeam
  <2>3. ASSUME NEW y \in stk.hypos, H[y].total >= t PROVE y \in B
    <3>1. H[y].total \in Int /\ stk.best + conf.beamWidth \in Int
      BY <1>1, <2>3
    <3>2. H[y].total > stk.best + conf.beamWidth
      BY <1>5, <2>2, <2>3, <3>1
    <3>3. QED
      BY <2>3, <3>2 DEF B, InBeam
  <2>4. QED
    BY <1>2, <1>10, <2>3 DEF AtLeast
<1>12. \E x \in s.hypos : H[x].total = s.worst
  BY <1>1, <1>2, <1>5, <1>9
<1>13. s.hypos \subseteq B
  BY <1>11 DEF AtLeast
<1>14. IsCubeStack(I, s)
  BY <1>9 DEF IsCubeStack
<1>15. QED
  BY <1>5, <1>9, <1>10, <1>11, <1>12, <1>13, <1>14 DEF CubePruned, B

\* A worse score may go if a better one may.
LEMMA MayGoDown ==
  ASSUME NEW H, NEW conf, IsCubeConf(conf), NEW I, AreHypotheses(H, I),
         NEW stk, IsCubeStack(I, stk), NEW t \in Int, NEW u \in Int, u <= t,
         CubeMayGo(H, conf, I, stk, t)
  PROVE  CubeMayGo(H, conf, I, stk, u)
<1>1. /\ stk.hypos \subseteq I /\ IsFiniteSet(stk.hypos)
      /\ stk.best \in Int /\ stk.worst \in Int /\ conf.beamWidth \in Int
      /\ conf.stackSize \in Nat
      /\ \A x \in I : H[x].total \in Int
  BY CubeFinite DEF IsCubeConf
<1>2. CASE Cardinality(AtLeast(H, stk.hypos, t)) >= conf.stackSize
  <2>1. AtLeast(H, stk.hypos, t) \subseteq AtLeast(H, stk.hypos, u)
    BY <1>1 DEF AtLeast
  <2>2. /\ IsFiniteSet(AtLeast(H, stk.hypos, u))
        /\ Cardinality(AtLeast(H, stk.hypos, t)) \in Nat
        /\ Cardinality(AtLeast(H, stk.hypos, u)) \in Nat
    BY <1>1, AtLeastFinite
  <2>3. Cardinality(AtLeast(H, stk.hypos, t)) <= Cardinality(AtLeast(H, stk.hypos, u))
    BY <2>1, <2>2, FS_Subset
  <2>4. QED
    BY <1>1, <1>2, <2>2, <2>3 DEF CubeMayGo
<1>3. CASE t <= stk.best + conf.beamWidth
  BY <1>1, <1>3 DEF CubeMayGo
<1>4. CASE /\ t < stk.worst
           /\ \A y \in stk.hypos : H[y].total >= t
           /\ Cardinality(AllKeys(H, I)) >= 2 * conf.stackSize
  <2>1. u < stk.worst /\ \A y \in stk.hypos : H[y].total >= u
    BY <1>1, <1>4
  <2>2. QED
    BY <1>4, <2>1 DEF CubeMayGo
<1>5. QED
  BY <1>2, <1>3, <1>4 DEF CubeMayGo

LEMMA CubePruneKeeps ==
  ASSUME NEW H, NEW conf, IsCubeConf(conf), NEW I, AreHypotheses(H, I), I # {},
         NEW stk, IsCubeStack(I, stk), BestSeen(H, I, stk), Floor(H, conf, stk),
         NEW s, IsCubeStack(I, s), CubePruned(H, conf, stk, s)
  PROVE  /\ s.worst >= stk.worst
         /\ \A t \in Int : CubeMayGo(H, conf, I, stk, t) => CubeMayGo(H, conf, I, s, t)
         /\ \A x \in stk.hypos \ s.hypos : CubeMayGo(H, conf, I, s, H[x].total)
<1>1. /\ stk.hypos \subseteq I /\ IsFiniteSet(stk.hypos) /\ IsFiniteSet(s.hypos)
      /\ stk.best \in Int /\ stk.worst \in Int /\ s.worst \in Int /\ s.best = stk.best
      /\ conf.beamWidth \in Int /\ conf.stackSize \in Nat
      /\ \A x \in I : H[x].total \in Int
  BY CubeFinite DEF IsCubeConf, CubePruned
<1>2. /\ s.hypos = {x \in stk.hypos : H[x].total >= s.worst}
      /\ s.hypos \subseteq InBeam(H, conf, stk)
      /\ s.hypos = InBeam(H, conf, stk) \/ Cardinality(s.hypos) >= conf.stackSize
  BY DEF CubePruned, AtLeast
<1>3. s.worst >= stk.worst
  <2>1. PICK x \in s.hypos : H[x].total = s.worst
    BY DEF CubePruned
  <2>2. x \in stk.hypos /\ H[x].total > stk.best + conf.beamWidth
    BY <1>2, <2>1 DEF InBeam
  <2>3. QED
    BY <2>1, <2>2 DEF Floor
<1>4. ASSUME NEW t \in Int, t < s.worst, Cardinality(s.hypos) >= conf.stackSize
      PROVE  CubeMayGo(H, conf, I, s, t)
  <2>1. AtLeast(H, s.hypos, t) = s.hypos
    BY <1>1, <1>2, <1>4 DEF AtLeast
  <2>2. QED
    BY <1>4, <2>1 DEF CubeMayGo
<1>5. ASSUME NEW x \in stk.hypos \ s.hypos PROVE CubeMayGo(H, conf, I, s, H[x].total)
  <2>1. H[x].total \in Int /\ H[x].total < s.worst
    BY <1>1, <1>2
  <2>2. CASE Cardinality(s.hypos) >= conf.stackSize
    BY <1>4, <2>1, <2>2
  <2>3. CASE s.hypos = InBeam(H, conf, stk)
    <3>1. ~(H[x].total > stk.best + conf.beamWidth)
      BY <2>3 DEF InBeam
    <3>2. H[x].total <= s.best + conf.beamWidth
      BY <1>1, <2>1, <3>1
    <3>3. QED
      BY <3>2 DEF CubeMayGo
  <2>4. QED
    BY <1>2, <2>2, <2>3
<1>6. ASSUME NEW t \in Int, CubeMayGo(H, conf, I, stk, t)
      PROVE  CubeMayGo(H, conf, I, s, t)
  <2>1. CASE t <= stk.best + conf.beamWidth
    BY <1>1, <2>1 DEF CubeMayGo
  <2>2. CASE /\ t < stk.worst
             /\ \A y \in stk.hypos : H[y].total >= t
             /\ Cardinality(AllKeys(H, I)) >= 2 * conf.stackSize
    <3>1. t < s.worst
      BY <1>1, <1>3, <2>2
    <3>2. \A y \in s.hypos : H[y].total >= t
      BY <1>2, <2>2
    <3>3. QED
      BY <2>2, <3>1, <3>2 DEF CubeMayGo
  <2>3. CASE Cardinality(AtLeast(H, stk.hypos, t)) >= conf.stackSize
    <3>1. CASE t >= s.worst
      <4>1. AtLeast(H, stk.hypos, t) = AtLeast(H, s.hypos, t)
        <5>1. \A x \in stk.hypos : H[x].total >= t => H[x].total >= s.worst
          BY <1>1, <3>1
        <5>2. QED
          BY <1>2, <5>1 DEF AtLeast
      <4>2. QED
        BY <2>3, <4>1 DEF CubeMayGo
    <3>2. CASE t < s.worst /\ Cardinality(s.hypos) >= conf.stackSize
      BY <1>4, <3>2
    <3>3. CASE t < s.worst /\ Cardinality(s.hypos) < conf.stackSize
      <4>1. s.hypos = InBeam(H, conf, stk)
        <5>1. Cardinality(s.hypos) \in Nat
          BY <1>1, FS_CardinalityType
        <5>2. QED
          BY <1>1, <1>2, <3>3, <5>1
      <4>2. PICK x \in AtLeast(H, stk.hypos, t) : x \notin s.hypos
        <5>1. CASE AtLeast(H, stk.hypos, t) \subseteq s.hypos
          <6>1. Cardinality(AtLeast(H, stk.hypos, t)) <= Cardinality(s.hypos)
                /\ Cardinality(AtLeast(H, stk.hypos, t)) \in Nat
                /\ Cardinality(s.hypos) \in Nat
            BY <1>1, <5>1, FS_Subset, FS_CardinalityType
          <6>2. FALSE
            BY <1>1, <2>3, <3>3, <6>1
          <6>3. QED
            BY <6>2
        <5>2. QED
          BY <5>1
      <4>3. x \in stk.hypos /\ H[x].total >= t /\ H[x].total \in Int
        BY <1>1, <4>2 DEF AtLeast
      <4>4. ~(H[x].total > stk.best + conf.beamWidth)
        BY <4>1, <4>2, <4>3 DEF InBeam
      <4>5. t <= s.best + conf.beamWidth
        BY <1>1, <4>3, <4>4
      <4>6. QED
        BY <4>5 DEF CubeMayGo
    <3>4. QED
      <4>1. Cardinality(s.hypos) \in Nat
        BY <1>1, FS_CardinalityType
      <4>2. QED
        BY <1>1, <3>1, <3>2, <3>3, <4>1
  <2>4. QED
    BY <1>6, <2>1, <2>2, <2>3 DEF CubeMayGo
<1>7. QED
  BY <1>3, <1>5, <1>6

\* A stack that is pruned has lost no more than it may; if it overflowed, what
\* it refuses from then on is not missed either.
LEMMA CubePruneSound ==
  ASSUME NEW H, NEW conf, IsCubeConf(conf), NEW I, AreHypotheses(H, I), I # {},
         NEW stk, CubeSound(H, conf, I, stk),
         NEW s, s = CubePruneToSize(H, conf, stk, conf.stackSize)
  PROVE  /\ CubeSound(H, conf, I, s) /\ s.hypos \subseteq stk.hypos
         /\ Cardinality(stk.hypos) >= 2 * conf.stackSize /\ CubeRefuses(H, conf, I, stk)
              => CubeRefuses(H, conf, I, s)
<1>1. IsCubeStack(I, stk) /\ BestSeen(H, I, stk) /\ Floor(H, conf, stk)
      /\ OneEach(H, stk.hypos) /\ CubeJustified(H, conf, I, stk)
  BY DEF CubeSound
<1>2. CASE Cardinality(stk.hypos) <= conf.stackSize
  <2>1. s = stk
    BY <1>2 DEF CubePruneToSize
  <2>2. QED
    BY <2>1
<1>3. CASE ~(Cardinality(stk.hypos) <= conf.stackSize)
  <2>1. IsCubeStack(I, s) /\ CubePruned(H, conf, stk, s)
    BY <1>1, <1>3, CubePruneIs
  <2>2. /\ s.worst >= stk.worst
        /\ \A t \in Int : CubeMayGo(H, conf, I, stk, t) => CubeMayGo(H, conf, I, s, t)
        /\ \A x \in stk.hypos \ s.hypos : CubeMayGo(H, conf, I, s, H[x].total)
    BY <1>1, <2>1, CubePruneKeeps
  <2>3. /\ stk.hypos \subseteq I /\ IsFiniteSet(stk.hypos)
        /\ stk.best \in Int /\ s.best = stk.best /\ s.worst \in Int /\ s.hypos \subseteq stk.hypos
        /\ conf.beamWidth \in Int /\ conf.beamWidth < 0 /\ conf.stackSize \in Nat
        /\ \A x \in I : H[x].total \in Int
    BY <1>1, <2>1, CubeFinite DEF IsCubeConf, CubePruned, AtLeast
  <2>4. BestSeen(H, I, s)
    <3>1. \A x \in s.hypos : H[x].total <= s.best
      BY <1>1, <2>3 DEF BestSeen
    <3>2. PICK x \in stk.hypos : H[x].total = stk.best
      BY <1>1 DEF BestSeen
    <3>3. PICK y \in s.hypos : H[y].total = s.worst
      BY <2>1 DEF CubePruned
    <3>4. H[x].total >= s.worst
      BY <1>1, <2>3, <3>2, <3>3 DEF BestSeen
    <3>5. x \in s.hypos
      BY <2>1, <3>4 DEF CubePruned, AtLeast
    <3>6. QED
      BY <2>3, <3>1, <3>2, <3>5 DEF BestSeen
  <2>5. Floor(H, conf, s)
    BY <2>1 DEF Floor, CubePruned, AtLeast
  <2>6. OneEach(H, s.hypos)
    BY <1>1, <2>3 DEF OneEach
  <2>7. CubeJustified(H, conf, I, s)
    <3>1. SUFFICES ASSUME NEW x \in I,
                          ~\E y \in s.hypos : /\ RecombineKey(H[y]) = RecombineKey(H[x])
                                              /\ H[y].total >= H[x].total
                   PROVE  CubeMayGo(H, conf, I, s, H[x].total)
      BY DEF CubeJustified
    <3>2. H[x].total \in Int
      BY <2>3
    <3>3. CASE CubeMayGo(H, conf, I, stk, H[x].total)
      BY <2>2, <3>2, <3>3
    <3>4. ASSUME NEW y \in stk.hypos, RecombineKey(H[y]) = RecombineKey(H[x]),
                 H[y].total >= H[x].total
          PROVE  CubeMayGo(H, conf, I, s, H[x].total)
      <4>1. y \in stk.hypos \ s.hypos
        BY <3>1, <3>4
      <4>2. CubeMayGo(H, conf, I, s, H[y].total)
        BY <2>2, <4>1
      <4>3. H[y].total \in Int
        BY <2>3
      <4>4. QED
        BY <2>1, <2>3, <3>2, <3>4, <4>2, <4>3, MayGoDown
    <3>5. QED
      BY <1>1, <3>3, <3>4 DEF CubeJustified
  <2>8. ASSUME Cardinality(stk.hypos) >= 2 * conf.stackSize, CubeRefuses(H, conf, I, stk)
        PROVE  CubeRefuses(H, conf, I, s)
    <3>1. SUFFICES ASSUME NEW t \in Int, NegInf < t, t < s.worst
                   PROVE  CubeMayGo(H, conf, I, s, t)
      BY DEF CubeRefuses
    <3>2. \A y \in s.hypos : H[y].total >= t
      <4>1. \A y \in s.hypos : H[y].total >= s.worst /\ H[y].total \in Int
        BY <2>1, <2>3 DEF CubePruned, AtLeast
      <4>2. QED
        BY <2>3, <3>1, <4>1
    <3>3. Cardinality(AllKeys(H, I)) >= 2 * conf.stackSize
      <4>1. IsFiniteSet(I)
        BY DEF AreHypotheses
      <4>2. Cardinality(stk.hypos) <= Cardinality(AllKeys(H, I))
        BY <1>1, <2>3, <4>1, KeysCount
      <4>3. Cardinality(stk.hypos) \in Nat /\ Cardinality(AllKeys(H, I)) \in Nat
        BY <2>3, <4>1, AllKeysGrow, FS_CardinalityType
      <4>4. QED
        BY <2>3, <2>8, <4>2, <4>3
    <3>4. QED
      BY <3>1, <3>2, <3>3 DEF CubeMayGo
  <2>9. QED
    BY <2>1, <2>3, <2>4, <2>5, <2>6, <2>7, <2>8 DEF CubeSound
<1>4. QED
  BY <1>2, <1>3

------------------------------------------------------------------------------
(****************************************************************************)
(* One more hypothesis comes to the stack.                                  *)
(****************************************************************************)

\* More hypotheses came: what might go still may.
LEMMA MayGoStays ==
  ASSUME NEW H, NEW conf, IsCubeConf(conf), NEW I, IsFiniteSet(I), NEW h, NEW stk,
         NEW t, CubeMayGo(H, conf, I, stk, t)
  PROVE  CubeMayGo(H, conf, I \cup {h}, stk, t)
<1>1. /\ Cardinality(AllKeys(H, I)) \in Nat
      /\ Cardinality(AllKeys(H, I \cup {h})) \in Nat
      /\ Cardinality(AllKeys(H, I)) <= Cardinality(AllKeys(H, I \cup {h}))
  BY AllKeysGrow
<1>2. conf.stackSize \in Nat
  BY DEF IsCubeConf
<1>3. Cardinality(AllKeys(H, I)) >= 2 * conf.stackSize
        => Cardinality(AllKeys(H, I \cup {h})) >= 2 * conf.stackSize
  BY <1>1, <1>2
<1>4. QED
  BY <1>3 DEF CubeMayGo

\* A hypothesis that does not stay: a twin is as good, or it may go.
LEMMA CubeRefusedSound ==
  ASSUME NEW H, NEW conf, IsCubeConf(conf), NEW I, NEW h, h \notin I,
         AreHypotheses(H, I \cup {h}), NEW stk, CubeSound(H, conf, I, stk),
         CubeRefuses(H, conf, I, stk),
         \/ H[h].total < stk.worst
         \/ \E x \in Twins(H, stk, h) : H[h].total <= H[x].total
  PROVE  CubeSound(H, conf, I \cup {h}, stk) /\ CubeRefuses(H, conf, I \cup {h}, stk)
<1>1. IsCubeStack(I, stk) /\ BestSeen(H, I, stk) /\ Floor(H, conf, stk)
      /\ OneEach(H, stk.hypos) /\ CubeJustified(H, conf, I, stk)
  BY DEF CubeSound
<1>2. AreHypotheses(H, I) /\ IsFiniteSet(I)
  BY FS_Subset DEF AreHypotheses
<1>3. H[h].total \in Int /\ NegInf < H[h].total /\ \A y \in I : H[y].total \in Int
  BY DEF AreHypotheses, Hypotheses
<1>4. stk.hypos \subseteq I
  BY <1>1 DEF IsCubeStack
<1>5. IsCubeStack(I \cup {h}, stk)
  BY <1>1 DEF IsCubeStack
<1>6. I # {}
  <2>1. CASE H[h].total < stk.worst
    BY <1>1, <1>3, <2>1, NegInfAssumption DEF BestSeen
  <2>2. CASE \E x \in Twins(H, stk, h) : H[h].total <= H[x].total
    BY <1>4, <2>2 DEF Twins
  <2>3. QED
    BY <2>1, <2>2
<1>7. BestSeen(H, I \cup {h}, stk)
  BY <1>1, <1>6 DEF BestSeen
<1>8. \A t : CubeMayGo(H, conf, I, stk, t) => CubeMayGo(H, conf, I \cup {h}, stk, t)
  BY <1>2, MayGoStays
<1>9. CubeJustified(H, conf, I \cup {h}, stk)
  <2>1. \/ \E y \in stk.hypos : /\ RecombineKey(H[y]) = RecombineKey(H[h])
                                /\ H[y].total >= H[h].total
        \/ CubeMayGo(H, conf, I \cup {h}, stk, H[h].total)
    <3>1. CASE H[h].total < stk.worst
      BY <1>3, <1>8, <3>1 DEF CubeRefuses
    <3>2. ASSUME NEW x \in Twins(H, stk, h), H[h].total <= H[x].total
          PROVE  \E y \in stk.hypos : /\ RecombineKey(H[y]) = RecombineKey(H[h])
                                      /\ H[y].total >= H[h].total
      BY <1>3, <1>4, <3>2 DEF Twins
    <3>3. QED
      BY <3>1, <3>2
  <2>2. ASSUME NEW x \in I
        PROVE  \/ \E y \in stk.hypos : /\ RecombineKey(H[y]) = RecombineKey(H[x])
                                       /\ H[y].total >= H[x].total
               \/ CubeMayGo(H, conf, I \cup {h}, stk, H[x].total)
    BY <1>1, <1>8 DEF CubeJustified
  <2>3. QED
    BY <2>1, <2>2 DEF CubeJustified
<1>10. CubeRefuses(H, conf, I \cup {h}, stk)
  BY <1>8 DEF CubeRefuses
<1>11. QED
  BY <1>1, <1>5, <1>7, <1>9, <1>10 DEF CubeSound

\* The hypothesis in the set, with the scores that follow it.
CubeInsert(H, conf, stk, h) ==
  [hypos |-> stk.hypos \cup {h},
   best  |-> IF H[h].total > stk.best THEN H[h].total ELSE stk.best,
   worst |-> IF H[h].total > stk.best
             THEN Max({stk.worst, H[h].total + conf.beamWidth}) ELSE stk.worst]

LEMMA CubeAddIs ==
  ASSUME NEW H, NEW conf, NEW stk, NEW h
  PROVE  LET added == CubeInsert(H, conf, stk, h)
         IN  CubeAdd(H, conf, stk, h) =
               IF Cardinality(added.hypos) > 2 * conf.stackSize - 1
               THEN CubePruneToSize(H, conf, added, conf.stackSize) ELSE added
  BY DEF CubeAdd, CubeInsert

CubeInserted(H, conf, I, stk, h, x, added) ==
  /\ IsCubeStack(I \cup {h}, added)
  /\ added.hypos = (stk.hypos \ {x}) \cup {h}
  /\ H[h].total > stk.best =>
       /\ added.best = H[h].total
       /\ added.worst = IF stk.worst >= H[h].total + conf.beamWidth
                        THEN stk.worst ELSE H[h].total + conf.beamWidth
  /\ ~(H[h].total > stk.best) => added.best = stk.best /\ added.worst = stk.worst

LEMMA CubeInsertIs ==
  ASSUME NEW H, NEW conf, IsCubeConf(conf), NEW I, NEW h, h \notin I,
         AreHypotheses(H, I \cup {h}), NEW stk, IsCubeStack(I, stk), NEW x,
         NEW added, added = CubeInsert(H, conf, Without(stk, x), h)
  PROVE  CubeInserted(H, conf, I, stk, h, x, added)
<1> DEFINE total == H[h].total
<1>1. stk.hypos \subseteq I /\ stk.best \in Int /\ stk.worst \in Int
  BY DEF IsCubeStack
<1>2. total \in Int /\ conf.beamWidth \in Int
  BY DEF AreHypotheses, Hypotheses, IsCubeConf
<1>3. /\ Without(stk, x).hypos = stk.hypos \ {x}
      /\ Without(stk, x).best = stk.best /\ Without(stk, x).worst = stk.worst
  BY DEF Without, IsCubeStack
<1>4. added =
        [hypos |-> (stk.hypos \ {x}) \cup {h},
         best  |-> IF total > stk.best THEN total ELSE stk.best,
         worst |-> IF total > stk.best THEN Max({stk.worst, total + conf.beamWidth})
                   ELSE stk.worst]
  BY <1>3 DEF CubeInsert
<1>5. Max({stk.worst, total + conf.beamWidth})
        = IF stk.worst >= total + conf.beamWidth THEN stk.worst
          ELSE total + conf.beamWidth
  BY <1>1, <1>2, MaxOfTwo
<1>6. added.hypos = (stk.hypos \ {x}) \cup {h} /\ added.hypos \subseteq I \cup {h}
  BY <1>1, <1>4
<1>7. total > stk.best =>
        /\ added.best = total
        /\ added.worst = IF stk.worst >= total + conf.beamWidth
                         THEN stk.worst ELSE total + conf.beamWidth
  BY <1>4, <1>5
<1>8. ~(total > stk.best) => added.best = stk.best /\ added.worst = stk.worst
  BY <1>4
<1>9. added.best \in Int /\ added.worst \in Int
  BY <1>1, <1>2, <1>7, <1>8
<1>10. added = [hypos |-> added.hypos, best |-> added.best, worst |-> added.worst]
  BY <1>4
<1>11. IsCubeStack(I \cup {h}, added)
  BY <1>6, <1>9, <1>10 DEF IsCubeStack
<1>12. QED
  BY <1>6, <1>7, <1>8, <1>11 DEF CubeInserted

\* The hypothesis h may come into the stack, in the place of x.
CubeMayCome(H, conf, I, stk, x, h) ==
  /\ h \notin I /\ AreHypotheses(H, I \cup {h})
  /\ CubeSound(H, conf, I, stk) /\ CubeRefuses(H, conf, I, stk)
  /\ ~(H[h].total < stk.worst)
  /\ Yields(H, stk, h, x)
  /\ \A y \in stk.hypos : RecombineKey(H[y]) = RecombineKey(H[h]) => y = x

\* What is left once it has come.
CubeKept(H, conf, I, stk, x, h, s) ==
  /\ CubeSound(H, conf, I \cup {h}, s)
  /\ CubeRefuses(H, conf, I \cup {h}, s)
  /\ s.hypos \subseteq (stk.hypos \ {x}) \cup {h}

LEMMA CubeInsertSound ==
  ASSUME NEW H, NEW conf, IsCubeConf(conf), NEW I, NEW h, NEW stk, NEW x,
         CubeMayCome(H, conf, I, stk, x, h),
         NEW added, added = CubeInsert(H, conf, Without(stk, x), h)
  PROVE  CubeKept(H, conf, I, stk, x, h, added)
<1> DEFINE total == H[h].total
<1>0. /\ h \notin I /\ AreHypotheses(H, I \cup {h})
      /\ CubeSound(H, conf, I, stk) /\ CubeRefuses(H, conf, I, stk)
      /\ ~(H[h].total < stk.worst)
      /\ Yields(H, stk, h, x)
      /\ \A y \in stk.hypos : RecombineKey(H[y]) = RecombineKey(H[h]) => y = x
  BY DEF CubeMayCome
<1>1. IsCubeStack(I, stk) /\ BestSeen(H, I, stk) /\ Floor(H, conf, stk)
      /\ OneEach(H, stk.hypos) /\ CubeJustified(H, conf, I, stk)
  BY <1>0 DEF CubeSound
<1>2. AreHypotheses(H, I) /\ IsFiniteSet(I)
  BY <1>0, FS_Subset DEF AreHypotheses
<1>3. /\ IsCubeStack(I \cup {h}, added)
      /\ added.hypos = (stk.hypos \ {x}) \cup {h}
      /\ total > stk.best =>
           /\ added.best = total
           /\ added.worst = IF stk.worst >= total + conf.beamWidth
                            THEN stk.worst ELSE total + conf.beamWidth
      /\ ~(total > stk.best) => added.best = stk.best /\ added.worst = stk.worst
  <2>1. IsCubeStack(I, stk)
    BY <1>1
  <2>2. CubeInserted(H, conf, I, stk, h, x, added)
    BY <1>0, <2>1, CubeInsertIs
  <2>3. QED
    BY <2>2 DEF CubeInserted
<1>4. /\ stk.hypos \subseteq I /\ IsFiniteSet(stk.hypos) /\ IsFiniteSet(added.hypos)
      /\ stk.best \in Int /\ stk.worst \in Int /\ added.best \in Int /\ added.worst \in Int
      /\ \A y \in I \cup {h} : H[y].total \in Int /\ NegInf < H[y].total
      /\ h \notin stk.hypos /\ h \in added.hypos
  BY <1>0, <1>1, <1>2, <1>3, CubeFinite
<1>5. /\ total \in Int /\ conf.beamWidth \in Int /\ conf.beamWidth < 0
      /\ conf.stackSize \in Nat
      /\ total >= stk.worst
      /\ added.best >= stk.best /\ added.worst >= stk.worst
  BY <1>0, <1>3, <1>4 DEF IsCubeConf
<1>6. BestSeen(H, I \cup {h}, added)
  <2>1. \A y \in added.hypos : H[y].total <= added.best
    <3>1. SUFFICES ASSUME NEW y \in stk.hypos PROVE H[y].total <= added.best
      BY <1>3, <1>4, <1>5
    <3>2. H[y].total <= stk.best /\ H[y].total \in Int
      BY <1>1, <1>4 DEF BestSeen
    <3>3. QED
      BY <1>4, <1>5, <3>2
  <2>2. \E y \in added.hypos : H[y].total = added.best
    <3>1. CASE total > stk.best
      BY <1>3, <1>4, <3>1
    <3>2. CASE ~(total > stk.best)
      <4>1. I # {}
        BY <1>1, <1>4, <3>2, NegInfAssumption DEF BestSeen
      <4>2. PICK y \in stk.hypos : H[y].total = stk.best
        BY <1>1, <4>1 DEF BestSeen
      <4>3. y # x
        BY <1>0, <1>4, <3>2, <4>2 DEF Yields
      <4>4. QED
        BY <1>3, <3>2, <4>2, <4>3
    <3>3. QED
      BY <3>1, <3>2
  <2>3. QED
    BY <2>1, <2>2 DEF BestSeen
<1>7. Floor(H, conf, added)
  <2>1. SUFFICES ASSUME NEW y \in added.hypos, H[y].total > added.best + conf.beamWidth
                 PROVE  H[y].total >= added.worst
    BY DEF Floor
  <2>2. H[y].total \in Int /\ H[y].total >= stk.worst
    <3>1. CASE y = h
      BY <1>5, <3>1
    <3>2. CASE y \in stk.hypos
      <4>1. H[y].total \in Int
        BY <1>4, <3>2
      <4>2. H[y].total > stk.best + conf.beamWidth
        BY <1>4, <1>5, <2>1, <4>1
      <4>3. QED
        BY <1>1, <3>2, <4>1, <4>2 DEF Floor
    <3>3. QED
      BY <1>3, <3>1, <3>2
  <2>3. QED
    BY <1>3, <1>4, <1>5, <2>1, <2>2
<1>8. OneEach(H, added.hypos)
  BY <1>0, <1>1, <1>3 DEF OneEach
<1>9. ASSUME NEW t \in Int, CubeMayGo(H, conf, I, stk, t)
      PROVE  CubeMayGo(H, conf, I \cup {h}, added, t)
  <2>1. CASE t <= stk.best + conf.beamWidth
    BY <1>4, <1>5, <2>1 DEF CubeMayGo
  <2>2. CASE Cardinality(AtLeast(H, stk.hypos, t)) >= conf.stackSize
    <3> DEFINE A == AtLeast(H, stk.hypos, t)
               B == AtLeast(H, added.hypos, t)
    <3>1. IsFiniteSet(A) /\ IsFiniteSet(B) /\ Cardinality(A) \in Nat /\ Cardinality(B) \in Nat
      BY <1>4, AtLeastFinite
    <3>2. h \notin A /\ A \ {x} \subseteq B
      BY <1>3, <1>4 DEF AtLeast
    <3>3. x \in A => h \in B
      BY <1>0, <1>4, <1>5 DEF AtLeast, Yields
    <3>4. Cardinality(A) <= Cardinality(B)
      BY <3>1, <3>2, <3>3, SwapGrows
    <3> HIDE DEF A, B
    <3>5. Cardinality(B) >= conf.stackSize
      BY <1>5, <2>2, <3>1, <3>4 DEF A
    <3>6. QED
      BY <3>5 DEF CubeMayGo, B
  <2>3. CASE /\ t < stk.worst
             /\ \A y \in stk.hypos : H[y].total >= t
             /\ Cardinality(AllKeys(H, I)) >= 2 * conf.stackSize
    <3>1. Cardinality(AllKeys(H, I \cup {h})) >= 2 * conf.stackSize
      <4>1. /\ Cardinality(AllKeys(H, I)) \in Nat
            /\ Cardinality(AllKeys(H, I \cup {h})) \in Nat
            /\ Cardinality(AllKeys(H, I)) <= Cardinality(AllKeys(H, I \cup {h}))
        BY <1>2, AllKeysGrow
      <4>2. QED
        BY <1>5, <2>3, <4>1
    <3>2. \A y \in added.hypos : H[y].total >= t
      BY <1>3, <1>4, <1>5, <2>3
    <3>3. t < added.worst
      BY <1>4, <1>5, <2>3
    <3>4. QED
      BY <3>1, <3>2, <3>3 DEF CubeMayGo
  <2>4. QED
    BY <1>9, <2>1, <2>2, <2>3 DEF CubeMayGo
<1>10. CubeRefuses(H, conf, I \cup {h}, added)
  <2>1. SUFFICES ASSUME NEW t \in Int, NegInf < t, t < added.worst
                 PROVE  CubeMayGo(H, conf, I \cup {h}, added, t)
    BY DEF CubeRefuses
  <2>2. CASE t < stk.worst
    BY <1>0, <1>9, <2>1, <2>2 DEF CubeRefuses
  <2>3. CASE ~(t < stk.worst)
    <3>1. t <= added.best + conf.beamWidth
      BY <1>3, <1>4, <1>5, <2>1, <2>3
    <3>2. QED
      BY <3>1 DEF CubeMayGo
  <2>4. QED
    BY <2>2, <2>3
<1>11. CubeJustified(H, conf, I \cup {h}, added)
  <2>1. SUFFICES ASSUME NEW z \in I \cup {h}
                 PROVE  \/ \E y \in added.hypos : /\ RecombineKey(H[y]) = RecombineKey(H[z])
                                                  /\ H[y].total >= H[z].total
                        \/ CubeMayGo(H, conf, I \cup {h}, added, H[z].total)
    BY DEF CubeJustified
  <2>2. CASE z = h
    BY <1>4, <1>5, <2>2
  <2>3. CASE z \in I /\ CubeMayGo(H, conf, I, stk, H[z].total)
    BY <1>4, <1>9, <2>3
  <2>4. ASSUME z \in I, NEW y \in stk.hypos, RecombineKey(H[y]) = RecombineKey(H[z]),
               H[y].total >= H[z].total
        PROVE  \E u \in added.hypos : /\ RecombineKey(H[u]) = RecombineKey(H[z])
                                      /\ H[u].total >= H[z].total
    <3>1. CASE y # x
      BY <1>3, <2>4, <3>1
    <3>2. CASE y = x
      <4>1. RecombineKey(H[h]) = RecombineKey(H[z]) /\ H[h].total > H[y].total
        BY <1>0, <2>4, <3>2 DEF Yields
      <4>2. H[h].total \in Int /\ H[y].total \in Int /\ H[z].total \in Int
        BY <1>4, <2>4
      <4>3. QED
        BY <1>4, <2>4, <4>1, <4>2
    <3>3. QED
      BY <3>1, <3>2
  <2>5. QED
    BY <1>1, <2>2, <2>3, <2>4 DEF CubeJustified
<1>12. QED
  BY <1>3, <1>6, <1>7, <1>8, <1>10, <1>11 DEF CubeSound, CubeKept

\* Add, after the twin x was taken out, if there was one.
LEMMA CubeAddSound ==
  ASSUME NEW H, NEW conf, IsCubeConf(conf), NEW I, NEW h, NEW stk, NEW x,
         CubeMayCome(H, conf, I, stk, x, h),
         NEW s, s = CubeAdd(H, conf, Without(stk, x), h)
  PROVE  CubeKept(H, conf, I, stk, x, h, s)
<1>1. PICK added : added = CubeInsert(H, conf, Without(stk, x), h)
  OBVIOUS
<1>2. CubeKept(H, conf, I, stk, x, h, added)
  BY <1>1, CubeInsertSound
<1>3. s = IF Cardinality(added.hypos) > 2 * conf.stackSize - 1
          THEN CubePruneToSize(H, conf, added, conf.stackSize) ELSE added
  BY <1>1, CubeAddIs
<1>4. CASE ~(Cardinality(added.hypos) > 2 * conf.stackSize - 1)
  BY <1>2, <1>3, <1>4
<1>5. CASE Cardinality(added.hypos) > 2 * conf.stackSize - 1
  <2>0. /\ AreHypotheses(H, I \cup {h}) /\ I \cup {h} # {}
        /\ CubeSound(H, conf, I \cup {h}, added) /\ CubeRefuses(H, conf, I \cup {h}, added)
    BY <1>2 DEF CubeMayCome, CubeKept
  <2>1. IsCubeStack(I \cup {h}, added)
    BY <2>0 DEF CubeSound
  <2>2. Cardinality(added.hypos) \in Nat /\ conf.stackSize \in Nat
    BY <2>0, <2>1, CubeFinite DEF IsCubeConf
  <2>3. Cardinality(added.hypos) >= 2 * conf.stackSize
    BY <1>5, <2>2
  <2>4. s = CubePruneToSize(H, conf, added, conf.stackSize)
    BY <1>3, <1>5
  <2>5. /\ CubeSound(H, conf, I \cup {h}, s) /\ s.hypos \subseteq added.hypos
        /\ Cardinality(added.hypos) >= 2 * conf.stackSize
           /\ CubeRefuses(H, conf, I \cup {h}, added) => CubeRefuses(H, conf, I \cup {h}, s)
    BY <2>0, <2>4, CubePruneSound
  <2>6. QED
    BY <1>2, <2>0, <2>3, <2>5 DEF CubeKept
<1>6. QED
  BY <1>4, <1>5

------------------------------------------------------------------------------
(****************************************************************************)
(* AddPrune of cube pruning, with the owners.                               *)
(****************************************************************************)

\* A call of cube pruning leaves what one of stack decoding does, and says
\* besides whether the hypothesis is new.
SameOutcome(out, o) == out.stack = o.stack /\ out.arcs = o.arcs /\ out.gone = o.gone

LEMMA SameOutcomeOwned ==
  ASSUME NEW H, NEW J, NEW arcs, NEW o, OutcomeOwned(H, J, arcs, o),
         NEW out, SameOutcome(out, o)
  PROVE  OutcomeOwned(H, J, arcs, out) /\ out.stack = o.stack
BY DEF OutcomeOwned, SameOutcome

CubeArrives(H, conf, I, stk, arcs, G, h) ==
  /\ h \notin I /\ AreHypotheses(H, I \cup {h})
  /\ CubeSound(H, conf, I, stk) /\ CubeRefuses(H, conf, I, stk)
  /\ G \subseteq I /\ Owned(stk.hypos, arcs, G) /\ Dominated(H, stk.hypos, arcs)
  /\ IsArcs(arcs)
  /\ G \cup {h} \subseteq DOMAIN arcs /\ arcs[h] = {}

CubeArrived(H, conf, I, arcs, G, h, out) ==
  /\ CubeSound(H, conf, I \cup {h}, out.stack)
  /\ CubeRefuses(H, conf, I \cup {h}, out.stack)
  /\ OutcomeOwned(H, G \cup {h}, arcs, out)

\* The hypothesis is refused unseen.
LEMMA CubeArrivesTooBad ==
  ASSUME NEW H, NEW conf, IsCubeConf(conf), NEW I, NEW stk, NEW arcs, NEW G, NEW h,
         CubeArrives(H, conf, I, stk, arcs, G, h), H[h].total < stk.worst,
         NEW out, out = CubeOutcome(stk, arcs, {h}, FALSE)
  PROVE  CubeArrived(H, conf, I, arcs, G, h, out)
<1>1. PICK o : o = Outcome(stk, arcs, {h})
  OBVIOUS
<1>2. h \notin G
  BY DEF CubeArrives
<1>3. OutcomeOwned(H, G \cup {h}, arcs, o) /\ o.stack = stk
  BY <1>1, <1>2, RefusedOwned DEF CubeArrives
<1>4. OutcomeOwned(H, G \cup {h}, arcs, out) /\ out.stack = stk
  <2>1. SameOutcome(out, o)
    BY <1>1 DEF SameOutcome, Outcome, CubeOutcome
  <2>2. QED
    BY <1>3, <2>1, SameOutcomeOwned
<1>5. CubeSound(H, conf, I \cup {h}, stk) /\ CubeRefuses(H, conf, I \cup {h}, stk)
  BY CubeRefusedSound DEF CubeArrives
<1>6. QED
  BY <1>4, <1>5 DEF CubeArrived

\* It has no twin in the stack.
LEMMA CubeArrivesNew ==
  ASSUME NEW H, NEW conf, IsCubeConf(conf), NEW I, NEW stk, NEW arcs, NEW G, NEW h,
         CubeArrives(H, conf, I, stk, arcs, G, h), ~(H[h].total < stk.worst),
         Twins(H, stk, h) = {}, NEW out, out = CubeAdded(H, conf, stk, arcs, h, {}, TRUE)
  PROVE  CubeArrived(H, conf, I, arcs, G, h, out)
<1>1. IsCubeStack(I, stk) /\ h \notin stk.hypos /\ h \notin G
  BY DEF CubeArrives, CubeSound, IsCubeStack
<1>2. Without(stk, h) = stk
  <2>1. stk.hypos \ {h} = stk.hypos
    BY <1>1
  <2>2. stk \in [hypos : SUBSET I, best : Int, worst : Int]
    BY <1>1 DEF IsCubeStack
  <2>3. QED
    BY <2>1, <2>2 DEF Without
<1>3. PICK s : s = CubeAdd(H, conf, stk, h)
  OBVIOUS
<1>4. CubeMayCome(H, conf, I, stk, h, h)
  <2>1. Yields(H, stk, h, h)
    BY <1>1 DEF Yields
  <2>2. \A y \in stk.hypos : RecombineKey(H[y]) = RecombineKey(H[h]) => y = h
    BY DEF Twins
  <2>3. QED
    BY <2>1, <2>2 DEF CubeMayCome, CubeArrives
<1>5. CubeKept(H, conf, I, stk, h, h, s)
  BY <1>2, <1>3, <1>4, CubeAddSound
<1>6. Owned(stk.hypos \cup {h}, arcs, G \cup {h}) /\ Dominated(H, stk.hypos \cup {h}, arcs)
  BY <1>1, ComeOwned DEF CubeArrives
<1>7. s.hypos \subseteq stk.hypos \cup {h}
  BY <1>5 DEF CubeKept
<1>8. PICK o : o = Outcome(s, arcs, Deleted(arcs, (stk.hypos \cup {h}) \ s.hypos))
  OBVIOUS
<1>9. OutcomeOwned(H, G \cup {h}, arcs, o) /\ o.stack = s
  BY <1>6, <1>7, <1>8, GoOwned DEF CubeArrives
<1>10. out = CubeOutcome(s, arcs, Deleted(arcs, (stk.hypos \cup {h}) \ s.hypos), TRUE)
  <2>1. {} \cup ((stk.hypos \cup {h}) \ s.hypos) = (stk.hypos \cup {h}) \ s.hypos
    OBVIOUS
  <2>2. QED
    BY <1>3, <2>1 DEF CubeAdded
<1>11. OutcomeOwned(H, G \cup {h}, arcs, out) /\ out.stack = s
  <2>1. SameOutcome(out, o)
    <3>1. PICK gone : gone = Deleted(arcs, (stk.hypos \cup {h}) \ s.hypos)
      OBVIOUS
    <3>2. o = Outcome(s, arcs, gone) /\ out = CubeOutcome(s, arcs, gone, TRUE)
      BY <1>8, <1>10, <3>1
    <3>3. QED
      BY ONLY <3>2 DEF SameOutcome, Outcome, CubeOutcome
  <2>2. QED
    BY <1>9, <2>1, SameOutcomeOwned
<1>12. QED
  BY <1>5, <1>11 DEF CubeArrived, CubeKept

\* It has the twin x there.
LEMMA CubeArrivesTwin ==
  ASSUME NEW H, NEW conf, IsCubeConf(conf), NEW I, NEW stk, NEW arcs, NEW G, NEW h,
         CubeArrives(H, conf, I, stk, arcs, G, h), ~(H[h].total < stk.worst),
         NEW x \in Twins(H, stk, h),
         NEW out, out = CubeRecombine(H, conf, stk, arcs, h, x)
  PROVE  CubeArrived(H, conf, I, arcs, G, h, out)
<1>1. /\ IsCubeStack(I, stk) /\ OneEach(H, stk.hypos) /\ h \notin stk.hypos /\ h \notin G
      /\ x \in stk.hypos /\ RecombineKey(H[x]) = RecombineKey(H[h]) /\ x # h
      /\ arcs[h] = {} /\ G \cup {h} \subseteq DOMAIN arcs
      /\ Owned(stk.hypos, arcs, G) /\ Dominated(H, stk.hypos, arcs)
      /\ IsArcs(arcs)
  BY DEF CubeArrives, CubeSound, IsCubeStack, Twins
<1>2. \A y \in I \cup {h} : H[y].total \in Int
  BY DEF CubeArrives, AreHypotheses, Hypotheses
<1>3. x \in G /\ G \cup {h} \subseteq I \cup {h}
  BY <1>1 DEF CubeArrives, Owned
<1>4. H[x].total \in Int /\ H[h].total \in Int
  BY <1>2, <1>3
<1> DEFINE S == (stk.hypos \ {x}) \cup {h}
<1>5. ASSUME NEW s, s = CubeAdd(H, conf, Without(stk, x), h), H[h].total > H[x].total
      PROVE  /\ CubeSound(H, conf, I \cup {h}, s) /\ CubeRefuses(H, conf, I \cup {h}, s)
             /\ s.hypos \subseteq S
  <2>1. Yields(H, stk, h, x)
    BY <1>1, <1>5 DEF Yields
  <2>2. \A y \in stk.hypos : RecombineKey(H[y]) = RecombineKey(H[h]) => y = x
    BY <1>1 DEF OneEach
  <2>3. CubeMayCome(H, conf, I, stk, x, h)
    BY <2>1, <2>2 DEF CubeMayCome, CubeArrives
  <2>4. CubeKept(H, conf, I, stk, x, h, s)
    BY <1>5, <2>3, CubeAddSound
  <2>5. QED
    BY <2>4 DEF CubeKept
<1>6. /\ Without(stk, x).hypos = stk.hypos \ {x}
      /\ [stk EXCEPT !.hypos = @ \ {x}] = Without(stk, x)
  <2>1. stk \in [hypos : SUBSET I, best : Int, worst : Int]
    BY <1>1 DEF IsCubeStack
  <2>2. QED
    BY <2>1 DEF Without
<1>7. CASE H[h].total > H[x].total /\ conf.nBest
  <2>0. PICK new : new = AddArc(arcs, h, x)
    OBVIOUS
  <2>1. out = CubeAdded(H, conf, Without(stk, x), new, h, {}, FALSE)
    <3>0. ~(H[h].total <= H[x].total)
      BY <1>4, <1>7
    <3>1. PICK without : without = [stk EXCEPT !.hypos = @ \ {x}]
      OBVIOUS
    <3>2. CubeRecombine(H, conf, stk, arcs, h, x)
            = CubeAdded(H, conf, without, new, h, {}, FALSE)
      BY ONLY <1>7, <2>0, <3>0, <3>1 DEF CubeRecombine
    <3>3. QED
      BY <1>6, <3>1, <3>2
  <2>2. PICK s : s = CubeAdd(H, conf, Without(stk, x), h)
    OBVIOUS
  <2>3. out = CubeOutcome(s, new, Deleted(new, S \ s.hypos), FALSE)
    <3>1. {} \cup ((Without(stk, x).hypos \cup {h}) \ s.hypos) = S \ s.hypos
      BY <1>6
    <3>2. QED
      BY <2>1, <2>2, <3>1 DEF CubeAdded
  <2>4. H[h].total >= H[x].total
    BY <1>4, <1>7
  <2>5. /\ Owned(S, new, G \cup {h}) /\ Dominated(H, S, new)
        /\ DOMAIN new = DOMAIN arcs
        /\ \A y \in DOMAIN arcs \ (G \cup {h}) : new[y] = arcs[y]
    <3>1. \A y \in G \cup {h} : H[y].total \in Int
      BY <1>2, <1>3
    <3>2. Took(H, S, arcs, G, h, new)
      BY <1>1, <2>0, <2>4, <3>1, WinnerOwned
    <3>3. QED
      BY <3>2 DEF Took
  <2>6. /\ CubeSound(H, conf, I \cup {h}, s) /\ CubeRefuses(H, conf, I \cup {h}, s)
        /\ s.hypos \subseteq S
    BY <1>5, <1>7, <2>2
  <2>7. PICK o : o = Outcome(s, new, Deleted(new, S \ s.hypos))
    OBVIOUS
  <2>8. OutcomeOwned(H, G \cup {h}, new, o) /\ o.stack = s
    BY <1>1, <2>5, <2>6, <2>7, GoOwned
  <2>9. OutcomeOwned(H, G \cup {h}, arcs, o)
    BY <2>5, <2>8 DEF OutcomeOwned
  <2>10. OutcomeOwned(H, G \cup {h}, arcs, out) /\ out.stack = s
    <3>1. SameOutcome(out, o)
      BY <2>3, <2>7 DEF SameOutcome, Outcome, CubeOutcome
    <3>2. QED
      BY <2>8, <2>9, <3>1, SameOutcomeOwned
  <2>11. QED
    BY <2>6, <2>10 DEF CubeArrived
<1>8. CASE H[h].total > H[x].total /\ ~conf.nBest
  <2>1. out = CubeAdded(H, conf, Without(stk, x), arcs, h, {x}, FALSE)
    BY <1>6, <1>8 DEF CubeRecombine
  <2>2. PICK s : s = CubeAdd(H, conf, Without(stk, x), h)
    OBVIOUS
  <2>3. /\ CubeSound(H, conf, I \cup {h}, s) /\ CubeRefuses(H, conf, I \cup {h}, s)
        /\ s.hypos \subseteq S
    BY <1>5, <1>8, <2>2
  <2>4. out = CubeOutcome(s, arcs, Deleted(arcs, (stk.hypos \cup {h}) \ s.hypos), FALSE)
    <3>1. {x} \cup ((Without(stk, x).hypos \cup {h}) \ s.hypos)
            = (stk.hypos \cup {h}) \ s.hypos
      BY <1>1, <1>6, <2>3
    <3>2. QED
      BY <2>1, <2>2, <3>1 DEF CubeAdded
  <2>5. Owned(stk.hypos \cup {h}, arcs, G \cup {h}) /\ Dominated(H, stk.hypos \cup {h}, arcs)
    BY <1>1, ComeOwned
  <2>6. s.hypos \subseteq stk.hypos \cup {h}
    BY <2>3
  <2>7. PICK o : o = Outcome(s, arcs, Deleted(arcs, (stk.hypos \cup {h}) \ s.hypos))
    OBVIOUS
  <2>8. OutcomeOwned(H, G \cup {h}, arcs, o) /\ o.stack = s
    BY <1>1, <2>5, <2>6, <2>7, GoOwned
  <2>9. OutcomeOwned(H, G \cup {h}, arcs, out) /\ out.stack = s
    <3>1. SameOutcome(out, o)
      BY <2>4, <2>7 DEF SameOutcome, Outcome, CubeOutcome
    <3>2. QED
      BY <2>8, <3>1, SameOutcomeOwned
  <2>10. QED
    BY <2>3, <2>9 DEF CubeArrived
<1>9. CASE ~(H[h].total > H[x].total)
  <2>1. H[h].total <= H[x].total
    BY <1>4, <1>9
  <2>2. CubeSound(H, conf, I \cup {h}, stk) /\ CubeRefuses(H, conf, I \cup {h}, stk)
    BY <2>1, CubeRefusedSound DEF CubeArrives
  <2>3. CASE conf.nBest
    <3>0. PICK new : new = AddArc(arcs, x, h)
      OBVIOUS
    <3>1. out = CubeOutcome(stk, new, {}, FALSE)
      BY <1>9, <2>1, <2>3, <3>0 DEF CubeRecombine
    <3>2. /\ Owned(stk.hypos, new, G \cup {h}) /\ Dominated(H, stk.hypos, new)
          /\ DOMAIN new = DOMAIN arcs
          /\ \A y \in DOMAIN arcs \ (G \cup {h}) : new[y] = arcs[y]
      <4>1. Took(H, stk.hypos, arcs, G, h, new)
        BY <1>1, <2>1, <3>0, LoserOwned
      <4>2. QED
        BY <4>1 DEF Took
    <3>3. /\ out.stack = stk /\ out.gone = {} /\ DOMAIN out.arcs = DOMAIN new
          /\ \A y \in DOMAIN new : out.arcs[y] = new[y]
      BY <3>1 DEF CubeOutcome
    <3>4. stk.hypos \subseteq G /\ (G \cup {h}) \ out.gone = G \cup {h}
      BY <1>1, <3>3 DEF Owned
    <3>5. Owned(stk.hypos, out.arcs, G \cup {h}) /\ Dominated(H, stk.hypos, out.arcs)
      BY <1>1, <3>2, <3>3, <3>4 DEF Owned, Dominated
    <3>6. OutcomeOwned(H, G \cup {h}, arcs, out)
      BY <3>2, <3>3, <3>4, <3>5 DEF OutcomeOwned
    <3>7. QED
      BY <2>2, <3>3, <3>6 DEF CubeArrived
  <2>4. CASE ~conf.nBest
    <3>1. out = CubeOutcome(stk, arcs, {h}, FALSE)
      BY <1>9, <2>1, <2>4 DEF CubeRecombine
    <3>2. PICK o : o = Outcome(stk, arcs, {h})
      OBVIOUS
    <3>3. OutcomeOwned(H, G \cup {h}, arcs, o) /\ o.stack = stk
      BY <1>1, <3>2, RefusedOwned
    <3>4. OutcomeOwned(H, G \cup {h}, arcs, out) /\ out.stack = stk
      <4>1. SameOutcome(out, o)
        BY <3>1, <3>2 DEF SameOutcome, Outcome, CubeOutcome
      <4>2. QED
        BY <3>3, <4>1, SameOutcomeOwned
    <3>5. QED
      BY <2>2, <3>4 DEF CubeArrived
  <2>5. QED
    BY <2>3, <2>4
<1>10. QED
  BY <1>7, <1>8, <1>9

\* AddPrune leaves a sound stack in which every hypothesis that lives has its
\* owner.
LEMMA CubeAddPruneSound ==
  ASSUME NEW H, NEW conf, IsCubeConf(conf), NEW I, NEW stk, NEW arcs, NEW G, NEW h,
         CubeArrives(H, conf, I, stk, arcs, G, h),
         NEW out, out = CubeAddPrune(H, conf, stk, arcs, h)
  PROVE  CubeArrived(H, conf, I, arcs, G, h, out)
<1>1. CASE H[h].total < stk.worst
  <2>1. out = CubeOutcome(stk, arcs, {h}, FALSE)
    BY <1>1 DEF CubeAddPrune
  <2>2. QED
    BY <1>1, <2>1, CubeArrivesTooBad
<1>2. CASE ~(H[h].total < stk.worst) /\ Twins(H, stk, h) = {}
  <2>1. out = CubeAdded(H, conf, stk, arcs, h, {}, TRUE)
    BY <1>2 DEF CubeAddPrune
  <2>2. QED
    BY <1>2, <2>1, CubeArrivesNew
<1>3. CASE ~(H[h].total < stk.worst) /\ Twins(H, stk, h) # {}
  <2>1. PICK x \in Twins(H, stk, h) : out = CubeRecombine(H, conf, stk, arcs, h, x)
    BY <1>3 DEF CubeAddPrune
  <2>2. QED
    BY <1>3, <2>1, CubeArrivesTwin
<1>4. QED
  BY <1>1, <1>2, <1>3

LEMMA CubeAddPruneNoArcs ==
  ASSUME NEW H, NEW conf, ~conf.nBest, NEW stk, NEW arcs, NoArcs(arcs), NEW h,
         \A x \in stk.hypos : H[x].total \in Int, H[h].total \in Int,
         NEW out, out = CubeAddPrune(H, conf, stk, arcs, h)
  PROVE  NoArcs(out.arcs)
<1>1. ASSUME NEW s, NEW gone, NEW isNew PROVE NoArcs(CubeOutcome(s, arcs, gone, isNew).arcs)
  BY DEF CubeOutcome, NoArcs
<1>2. ASSUME NEW s, NEW lost, NEW isNew
      PROVE  NoArcs(CubeAdded(H, conf, s, arcs, h, lost, isNew).arcs)
  BY <1>1 DEF CubeAdded
<1>3. CASE H[h].total < stk.worst
  BY <1>1, <1>3 DEF CubeAddPrune
<1>4. CASE ~(H[h].total < stk.worst) /\ Twins(H, stk, h) = {}
  BY <1>2, <1>4 DEF CubeAddPrune
<1>5. CASE ~(H[h].total < stk.worst) /\ Twins(H, stk, h) # {}
  <2>1. PICK x \in Twins(H, stk, h) : out = CubeRecombine(H, conf, stk, arcs, h, x)
    BY <1>5 DEF CubeAddPrune
  <2>2. H[x].total \in Int
    BY <2>1 DEF Twins
  <2>3. \/ out = CubeAdded(H, conf, [stk EXCEPT !.hypos = @ \ {x}], arcs, h, {x}, FALSE)
        \/ out = CubeOutcome(stk, arcs, {h}, FALSE)
    BY <2>1, <2>2 DEF CubeRecombine
  <2>4. QED
    BY <1>1, <1>2, <2>3
<1>6. QED
  BY <1>3, <1>4, <1>5

\* What is said of a stack depends on the hypotheses that came to it only.
LEMMA SameCube ==
  ASSUME NEW H, NEW F, NEW conf, NEW I, \A x \in I : F[x] = H[x], NEW stk
  PROVE  /\ CubeSound(H, conf, I, stk) => CubeSound(F, conf, I, stk)
         /\ IsCubeStack(I, stk) /\ CubeRefuses(H, conf, I, stk) => CubeRefuses(F, conf, I, stk)
<1> SUFFICES ASSUME IsCubeStack(I, stk)
             PROVE  /\ CubeSound(H, conf, I, stk) => CubeSound(F, conf, I, stk)
                    /\ CubeRefuses(H, conf, I, stk) => CubeRefuses(F, conf, I, stk)
  BY DEF CubeSound
<1> DEFINE S == stk.hypos
<1>1. S \subseteq I
  BY DEF IsCubeStack
<1>2. \A x \in S : F[x] = H[x]
  BY <1>1
<1>3. \A t : AtLeast(F, S, t) = AtLeast(H, S, t)
  BY <1>2 DEF AtLeast
<1>4. AllKeys(F, I) = AllKeys(H, I)
  BY DEF AllKeys
<1>5. \A t : (\A y \in S : F[y].total >= t) <=> (\A y \in S : H[y].total >= t)
  BY <1>2
<1>6. \A t : CubeMayGo(F, conf, I, stk, t) <=> CubeMayGo(H, conf, I, stk, t)
  BY <1>3, <1>4, <1>5 DEF CubeMayGo
<1>7. CubeRefuses(H, conf, I, stk) => CubeRefuses(F, conf, I, stk)
  BY <1>6 DEF CubeRefuses
<1>8. ASSUME CubeSound(H, conf, I, stk) PROVE CubeSound(F, conf, I, stk)
  <2>1. BestSeen(F, I, stk)
    BY <1>2, <1>8 DEF CubeSound, BestSeen
  <2>2. Floor(F, conf, stk)
    BY <1>2, <1>8 DEF CubeSound, Floor
  <2>3. OneEach(F, S)
    BY <1>2, <1>8 DEF CubeSound, OneEach
  <2>4. CubeJustified(F, conf, I, stk)
    BY <1>2, <1>6, <1>8 DEF CubeSound, CubeJustified
  <2>5. QED
    BY <2>1, <2>2, <2>3, <2>4 DEF CubeSound
<1>9. QED
  BY <1>7, <1>8
------------------------------------------------------------------------------
(****************************************************************************)
(* What the searches say of the hypotheses they make.                       *)
(****************************************************************************)

\* The hypothesis h of H is the end of a derivation of the sentence i.
EndsDerivation(i, H, h) ==
  /\ OnPath(i.rc, H[h].bitmap, H[h].range, i.maxDistortion)
  /\ \E n \in 0 .. Cardinality(H[h].bitmap) : Content(H[h]) \in Derivations(i)[n]
  /\ H[h].prev \in 0 .. h - 1
  /\ H[h].total = H[h].score + (IF h = 1 THEN 0 ELSE FutureScore(H[h].bitmap))

\* A hypothesis that ends a derivation is above -infinity.
LEMMA DerivedAbove ==
  ASSUME NEW i \in Inputs, NEW H, NEW h, H[h] \in Hypotheses, EndsDerivation(i, H, h)
  PROVE  /\ NegInf < H[h].total
         /\ Content(H[h]) \in AllDerivations(i)
         /\ Cardinality(H[h].bitmap) \in 0 .. SourceSize
<1>1. H[h].bitmap \subseteq Positions
  BY DEF Hypotheses, Bitmaps
<1>2. IsFiniteSet(Positions) /\ Cardinality(Positions) = SourceSize
  BY SourceSizeAssumption, FS_Interval DEF Positions
<1>3. IsFiniteSet(H[h].bitmap) /\ Cardinality(H[h].bitmap) <= SourceSize
  BY <1>1, <1>2, FS_Subset
<1>4. Cardinality(H[h].bitmap) \in Nat
  BY <1>3, FS_CardinalityType
<1>5. Cardinality(H[h].bitmap) \in 0 .. SourceSize
  BY <1>3, <1>4, SourceSizeAssumption
<1>6. PICK n \in 0 .. Cardinality(H[h].bitmap) : Content(H[h]) \in Derivations(i)[n]
  BY DEF EndsDerivation
<1>7. n \in 0 .. SourceSize
  BY <1>5, SourceSizeAssumption
<1>8. Content(H[h]) \in AllDerivations(i)
  BY <1>6, <1>7, DerivationKnown
<1>9. Content(H[h]).total = H[h].total
  BY ContentIs
<1>10. NegInf < Content(H[h]).total
  BY <1>8, BelowAssumption
<1>11. QED
  BY <1>5, <1>8, <1>9, <1>10

LEMMA SeedTyped ==
  Seed \in Hypotheses /\ Cardinality(Seed.bitmap) = 0 /\ Content(Seed) = Seed
<1>1. Seed \in Hypotheses
  BY ScoreAssumption DEF Seed, Hypotheses, NoHypothesis, Bitmaps, LexScores, NoLexScores
<1>2. Seed.bitmap = {}
  BY DEF Seed
<1>3. Content(Seed) = Seed
  BY <1>1, ContentIs DEF Seed
<1>4. QED
  BY <1>1, <1>2, <1>3, FS_EmptySet

\* The hypothesis h of F is made of H[c] with the option j.
Makes(i, H, c, j, F, h) ==
  /\ h \in Nat /\ c \in 1 .. h - 1
  /\ H[c] \in Hypotheses /\ EndsDerivation(i, H, c)
  /\ j \in MayFollow(i, H[c])
  /\ F[h] = CreateNext(c, H[c], i.options[j])

\* What is said of it then.
Made(i, H, c, j, F, h) ==
  /\ F[h] \in Hypotheses /\ EndsDerivation(i, F, h)
  /\ F[h].prev = c
  /\ F[h].bitmap = H[c].bitmap \cup SpanPositions(i.options[j].span)
  /\ F[h].range = i.options[j].span
  /\ Cardinality(F[h].bitmap) \in 0 .. SourceSize
  /\ Cardinality(H[c].bitmap) < Cardinality(F[h].bitmap)
  /\ \A p \in Positions : i.options[j].span = <<p, p>> =>
       Cardinality(F[h].bitmap) = Cardinality(H[c].bitmap) + 1

LEMMA MadeEnds ==
  ASSUME NEW i \in Inputs, NEW H, NEW c, NEW j, NEW F, NEW h, Makes(i, H, c, j, F, h)
  PROVE  Made(i, H, c, j, F, h)
<1>0. /\ h \in Nat /\ c \in 1 .. h - 1
      /\ H[c] \in Hypotheses /\ EndsDerivation(i, H, c)
      /\ j \in MayFollow(i, H[c])
      /\ F[h] = CreateNext(c, H[c], i.options[j])
  BY DEF Makes
<1>1. PICK opt : opt = i.options[j]
  OBVIOUS
<1>2. PICK g : g = H[c]
  OBVIOUS
<1>3. g \in Hypotheses /\ c \in Nat /\ EndsDerivation(i, H, c)
  BY <1>0, <1>2
<1>4. OnPath(i.rc, g.bitmap, g.range, i.maxDistortion)
  BY <1>2, <1>3 DEF EndsDerivation
<1>5. j \in MayFollow(i, g)
  BY <1>0, <1>2
<1>6. PICK b : b = g.bitmap \cup SpanPositions(opt.span)
  OBVIOUS
<1>7. /\ opt \in TranslationOptions
      /\ OnPath(i.rc, b, opt.span, i.maxDistortion)
      /\ Cardinality(g.bitmap) \in Nat /\ Cardinality(b) \in Nat
      /\ Cardinality(g.bitmap) < Cardinality(b) /\ Cardinality(b) <= SourceSize
  BY <1>1, <1>3, <1>4, <1>5, <1>6, FollowExtends
<1>8. PICK made : made = CreateNext(c, g, opt)
  OBVIOUS
<1>9. /\ made \in Hypotheses /\ made.prev = c /\ made.bitmap = b
      /\ made.range = opt.span /\ made.total = made.score + FutureScore(made.bitmap)
  <2>1. g \in Hypotheses /\ opt \in TranslationOptions /\ c \in Nat
    BY <1>3, <1>7
  <2>2. /\ made \in Hypotheses /\ made.prev = c
        /\ made.bitmap = g.bitmap \cup SpanPositions(opt.span)
        /\ made.range = opt.span /\ made.total = made.score + FutureScore(made.bitmap)
    BY <1>8, <2>1, CreateNextTyped
  <2>3. QED
    BY <1>6, <2>2
<1>10. F[h] = made
  BY <1>0, <1>1, <1>2, <1>8
<1>11. EndsDerivation(i, F, h)
  <2>1. h # 1 /\ c \in 0 .. h - 1
    BY <1>0
  <2>2. PICK n \in 0 .. Cardinality(g.bitmap) : Content(g) \in Derivations(i)[n]
    BY <1>2, <1>3 DEF EndsDerivation
  <2>3. n \in 0 .. SourceSize - 1 /\ n + 1 \in 0 .. Cardinality(b)
    BY <1>7, <2>2, SourceSizeAssumption
  <2>4. Content(made) \in Derivations(i)[n + 1]
    BY <1>1, <1>3, <1>5, <1>7, <1>8, <2>2, <2>3, StepDerived
  <2>5. \E m \in 0 .. Cardinality(made.bitmap) : Content(made) \in Derivations(i)[m]
    BY <1>9, <2>3, <2>4
  <2>6. OnPath(i.rc, made.bitmap, made.range, i.maxDistortion)
    BY <1>7, <1>9
  <2>7. QED
    BY <1>9, <1>10, <2>1, <2>5, <2>6 DEF EndsDerivation
<1>12. Cardinality(made.bitmap) \in 0 .. SourceSize
  BY <1>7, <1>9, SourceSizeAssumption
<1>13. ASSUME NEW p \in Positions, opt.span = <<p, p>>
       PROVE  Cardinality(made.bitmap) = Cardinality(g.bitmap) + 1
  <2>1. b = g.bitmap \cup {p}
    BY <1>6, <1>13, WordIsPhrase
  <2>2. IsFiniteSet(g.bitmap)
    <3>1. g.bitmap \subseteq Positions
      BY <1>3 DEF Hypotheses, Bitmaps
    <3>2. IsFiniteSet(Positions)
      BY SourceSizeAssumption, FS_Interval DEF Positions
    <3>3. QED
      BY <3>1, <3>2, FS_Subset
  <2>3. p \notin g.bitmap
    <3>1. SUFFICES ASSUME p \in g.bitmap PROVE FALSE
      OBVIOUS
    <3>2. b = g.bitmap
      BY <2>1, <3>1
    <3>3. QED
      BY <1>7, <3>2
  <2>4. Cardinality(b) = Cardinality(g.bitmap) + 1
    BY <2>1, <2>2, <2>3, FS_AddElement
  <2>5. QED
    BY <1>9, <2>4
<1>14. QED
  BY <1>1, <1>2, <1>6, <1>7, <1>9, <1>10, <1>11, <1>12, <1>13 DEF Made

\* A single word is yet to be tried.
WordPending(i, J) == \E j \in J : \E p \in Positions : i.options[j].span = <<p, p>>

\* A hypothesis that is not complete has a single word to be expanded with,
\* unless zones and walls contradict each other.
LEMMA WordFollows ==
  ASSUME NEW i \in Inputs, NEW h \in Hypotheses,
         OnPath(i.rc, h.bitmap, h.range, i.maxDistortion), ~IsComplete(h.bitmap),
         i.constraint = <<>>, Consistent(i.rc)
  PROVE  WordPending(i, MayFollow(i, h))
<1>1. IsConstraint(i.rc) /\ IsLimit(i.maxDistortion)
  BY InputAssumption DEF IsLimit
<1>2. PICK p \in Positions : /\ p >= GetFirstGapPos(h.bitmap)
                             /\ Extends(i.rc, h.bitmap, h.range, <<p, p>>, i.maxDistortion)
  BY <1>1, NotStuck
<1>3. PICK j \in 1 .. Len(i.options) : i.options[j].span = <<p, p>>
  BY InputAssumption
<1>4. <<p, p>> \in OptionSpans(i)
  BY <1>3 DEF OptionSpans
<1>5. NormalMayExtend(i.rc, h.bitmap, h.range, i.options[j].span, OptionSpans(i),
                      i.maxDistortion)
  BY <1>2, <1>3, <1>4 DEF NormalMayExtend, Extends
<1>6. j \in MayFollow(i, h)
  BY <1>3, <1>5 DEF MayFollow, FitsConstraint
<1>7. QED
  BY <1>3, <1>6 DEF WordPending

\* What a step leaves of the arc lists ar, when it has touched one stack, with
\* the living hypotheses J, and deleted gone.
Touched(ar, J, a, gone) ==
  /\ gone \subseteq J
  /\ DOMAIN a = DOMAIN ar
  /\ \A x \in DOMAIN ar \ J : a[x] = ar[x]
  /\ \A x \in gone : a[x] = {}

LEMMA WinnersTyped ==
  ASSUME NEW cf, NEW stk, NEW ar, NEW S, stk.hypos \subseteq S, NEW u,
         NEW win \in [S -> S \cup {u}]
  PROVE  Winners(cf, stk, ar, win) \in [S -> S \cup {u}]
<1> DEFINE w == Winners(cf, stk, ar, win)
<1>1. w = [x \in S |-> w[x]]
  BY DEF Winners
<1>2. ASSUME NEW x \in S PROVE w[x] \in S \cup {u}
  <2>1. CASE \E y \in stk.hypos : x \in ar[y]
    <3>1. (CHOOSE y \in stk.hypos : x \in ar[y]) \in stk.hypos
      BY <2>1
    <3>2. QED
      BY <2>1, <3>1 DEF Winners
  <2>2. CASE ~\E y \in stk.hypos : x \in ar[y]
    BY <2>2 DEF Winners
  <2>3. QED
    BY <2>1, <2>2
<1> HIDE DEF w
<1>3. w \in [S -> S \cup {u}]
  BY <1>1, <1>2
<1>4. QED
  BY <1>3 DEF w
================================================================================
