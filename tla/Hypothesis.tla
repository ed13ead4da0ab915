------------------------------ MODULE Hypothesis ------------------------------
(****************************************************************************)
(* A hypothesis: what CreateNext makes of the previous one and a            *)
(* translation option, how CalcScore scores it, and which hypotheses        *)
(* recombine.                                                               *)
(*                                                                          *)
(* A translation option is a record [span, words, score, lex]: the source   *)
(* span, the target words, the score of everything the option knows by      *)
(* itself, and what the reordering table says of it (zeros if nothing), by  *)
(* direction and orientation.  words is empty when an unknown word is       *)
(* dropped.  The language model is a bigram model, so its state is the last *)
(* target word.  Scores are integers, logarithms in the code, and weighted. *)
(****************************************************************************)
EXTENDS Expansion, Sequences

CONSTANTS
  Bigram(_, _),      \* log probability of a word after a word
  FutureScore(_),    \* SquareMatrix::CalcFutureScore of a bitmap
  Address(_),        \* where the language model keeps the state of a word
  Words,             \* the target words, and the two marks
  BOS, EOS,          \* <s> and </s>
  OrientationModel,  \* the subclass of LexicalReordering, or "none"
  LexDirection       \* "Backward", "Forward" or "Bidirectional"

ASSUME LexAssumption ==
  /\ OrientationModel \in {"none", "monotonicity", "orientation", "directional"}
  /\ LexDirection \in {"Backward", "Forward", "Bidirectional"}

ASSUME ScoreAssumption ==
  /\ BOS \in Words /\ EOS \in Words
  /\ \A v, w \in Words : Bigram(v, w) \in Int
  /\ \A b \in Bitmaps : FutureScore(b) \in Int

NoHypothesis == 0    \* the NULL in m_prevHypo of the seed

Orientations == 0 .. 2
LexScores == [{"Backward", "Forward"} -> [Orientations -> Int]]
NoLexScores == [d \in {"Backward", "Forward"} |-> [o \in Orientations |-> 0]]

TranslationOptions ==
  [span : PhraseSpans, words : Seq(Words), score : Int, lex : LexScores]

Hypotheses ==
  [prev : Nat, bitmap : Bitmaps, range : PhraseSpans \cup {NoSpan},
   target : Seq(Words), lm : Words, lex : LexScores, score : Int, total : Int]

\* Hypothesis(source, emptyTarget), with ResetScore.
Seed == [prev |-> NoHypothesis, bitmap |-> {}, range |-> NoSpan, target |-> <<>>,
         lm |-> BOS, lex |-> NoLexScores, score |-> 0, total |-> 0]

------------------------------------------------------------------------------
(****************************************************************************)
(* LanguageModel::Evaluate: the n-gram over the seam, and </s> once the     *)
(* source is completed.  Without target words it returns before both.       *)
(****************************************************************************)
LMScore(lm, words, complete) ==
  IF words = <<>> THEN 0
  ELSE Bigram(lm, Head(words))
         + (IF complete THEN Bigram(words[Len(words)], EOS) ELSE 0)

LMState(lm, words, complete) ==
  CASE words = <<>> -> lm
    [] words # <<>> /\ complete -> EOS
    [] OTHER -> words[Len(words)]

\* DistortionScoreProducer::Evaluate and CalculateDistortionScore: the jump
\* costs its length.
DistortionScore(prev, current) == -ComputeDistortionDistance(prev, current)

\* GetOrientationType: how the span current lies to the one translated before.
\* Monotone is 0; Swap is 1 and Discontinuous 2 of "orientation", NonMonotone
\* is 1 of "monotonicity"; Left is 0 and Right 1 of "directional".
IsMonotoneStep(prev, current) ==
  IF prev = NoSpan THEN current[1] = 0 ELSE prev[2] = current[1] - 1
IsSwap(prev, current) == prev # NoSpan /\ prev[1] = current[2] + 1
IsRight(prev, current) == prev = NoSpan \/ prev[2] <= current[1]

GetOrientationType(prev, current) ==
  CASE OrientationModel = "directional" -> IF IsRight(prev, current) THEN 1 ELSE 0
    [] OrientationModel # "directional" /\ IsMonotoneStep(prev, current) -> 0
    [] OrientationModel = "orientation" /\ ~IsMonotoneStep(prev, current) ->
         IF IsSwap(prev, current) THEN 1 ELSE 2
    [] OTHER -> 1

DecodeDirection ==
  IF LexDirection = "Bidirectional" THEN {"Backward", "Forward"} ELSE {LexDirection}

\* LexicalReordering::CalcScore: what the table says of the option, and what it
\* says of the option before, unless that is the seed.
LexicalScore(h, opt) ==
  LET orientation == GetOrientationType(h.range, opt.span)
      Asked(direction) == OrientationModel # "none" /\ direction \in DecodeDirection
  IN  (IF Asked("Backward") THEN opt.lex["Backward"][orientation] ELSE 0)
        + (IF Asked("Forward") /\ h.range # NoSpan
           THEN h.lex["Forward"][orientation] ELSE 0)

\* Evaluate returns NULL for a state, so recombination compares none.  That is
\* enough for models that look at no more than the end of the last span.
ReorderingComparable ==
  \/ OrientationModel = "none"
  \/ OrientationModel # "orientation" /\ LexDirection = "Backward"

\* The hypothesis that extends h, whose id is id, with the option, after
\* CalcScore.
CreateNext(id, h, opt) ==
  LET bitmap   == h.bitmap \cup SpanPositions(opt.span)
      complete == IsComplete(bitmap)
      score    == h.score + opt.score + DistortionScore(h.range, opt.span)
                    + LMScore(h.lm, opt.words, complete) + LexicalScore(h, opt)
  IN  [prev |-> id, bitmap |-> bitmap, range |-> opt.span,
       target |-> h.target \o opt.words,
       lm |-> LMState(h.lm, opt.words, complete), lex |-> opt.lex,
       score |-> score, total |-> score + FutureScore(bitmap)]

\* Constraint decoding: Create returns NULL unless the target stays a prefix
\* of the constraint; an empty target has no end (0 - 1) and fits none.  An empty
\* constraint stands for none.
FitsConstraint(constraint, h, opt) ==
  LET target == h.target \o opt.words
  IN  \/ constraint = <<>>
      \/ /\ Len(target) \in 1 .. Len(constraint)
         /\ SubSeq(constraint, 1, Len(target)) = target

------------------------------------------------------------------------------
\* Mutant: the end of the last span is left out of the comparison.
RecombineKey_NoDistortion(h) == <<h.bitmap, 0, h.lm>>

\* RecombineCompare is 0: equal coverage, equal distortion state (the end of
\* the last span) and equal language model state; lexical reordering has none.
RecombineKey(h) == <<h.bitmap, h.range[2], h.lm>>

\* RecombineCompare is -1: the order in which a stack keeps hypotheses.  The
\* language model compares addresses, the higher one first.
CoverageBefore(b, c) ==
  \E p \in c \ b : \A q \in 0 .. p - 1 : q \in b <=> q \in c

OrderedBefore(g, h) ==
  \/ CoverageBefore(g.bitmap, h.bitmap)
  \/ g.bitmap = h.bitmap /\ g.range[2] < h.range[2]
  \/ /\ g.bitmap = h.bitmap /\ g.range[2] = h.range[2]
     /\ Address(g.lm) > Address(h.lm)
------------------------------------------------------------------------------
(****************************************************************************)
(* Derivations: the sentences to translate, and every hypothesis that the   *)
(* steps of the decoder can build for one of them when nothing is           *)
(* recombined, discarded or pruned.                                         *)
(*                                                                          *)
(* A sentence is a record [maxDistortion, rc, options, constraint]: the     *)
(* distortion limit, the reordering constraint, the translation options as  *)
(* a sequence in the order of the loops over start, end and the option      *)
(* list, and the target of constraint decoding (empty if there is none).    *)
(****************************************************************************)

CONSTANT Inputs   \* the sentences

\* What Sentence and TranslationOptionCollection make sure of: no wall lies in
\* a zone, no option is longer than the limit, and every word has one, if need
\* be as an unknown word.
ASSUME InputAssumption ==
  \A i \in Inputs :
    /\ i.maxDistortion \in Nat \cup {-1}
    /\ IsConstraint(i.rc)
    /\ i.options \in Seq(TranslationOptions)
    /\ \A p \in Positions :
         \E j \in 1 .. Len(i.options) : i.options[j].span = <<p, p>>

\* The spans whose list of translation options is not empty.
OptionSpans(i) == {i.options[j].span : j \in 1 .. Len(i.options)}

\* The options that may follow the hypothesis h.
MayFollow(i, h) ==
  {j \in 1 .. Len(i.options) :
     /\ NormalMayExtend(i.rc, h.bitmap, h.range, i.options[j].span,
                        OptionSpans(i), i.maxDistortion)
     /\ FitsConstraint(i.constraint, h, i.options[j])}

\* The hypothesis without its back pointer: what it says, not where it is.
Content(h) == [h EXCEPT !.prev = NoHypothesis]

\* What one more step makes of the hypotheses S.
Steps(i, S) ==
  UNION {{CreateNext(NoHypothesis, h, i.options[j]) : j \in MayFollow(i, h)} : h \in S}

\* Every hypothesis that n steps may build, for each n.
Derivations(i) ==
  LET built[n \in 0 .. SourceSize] == IF n = 0 THEN {Seed} ELSE Steps(i, built[n - 1])
  IN  built

AllDerivations(i) == UNION {Derivations(i)[n] : n \in 0 .. SourceSize}

CompleteDerivations(i) == {h \in AllDerivations(i) : IsComplete(h.bitmap)}
===============================================================================
