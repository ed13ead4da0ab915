---------------------------- MODULE HypothesisPath ----------------------------
(****************************************************************************)
(* One derivation: the chain of hypotheses from the seed to the hypothesis  *)
(* the search looks at, each made from the previous one by one span that    *)
(* ProcessOneHypothesis allows.  Every hypothesis of every stack is the end *)
(* of such a chain, so what holds here holds of all of them.                *)
(*                                                                          *)
(* The sentence and the switches are chosen once, in Init: the distortion   *)
(* limit, the spans that have translation options and the reordering        *)
(* constraint that Sentence::Read builds.                                   *)
(****************************************************************************)
EXTENDS Expansion

CONSTANTS
  DistortionLimits,   \* the values of -distortion-limit
  OptionSpans,        \* the sets of spans that may have translation options
  PunctuationSets,    \* the positions the punctuation marks may take
  WallSets,           \* the walls the XML of an input line may set
  ZoneSets,           \* the zones the XML of an input line may set
  PatternBits         \* 16 in the code: bits of a bitmap's id that hold the pattern

WordSpans == {<<p, p>> : p \in Positions}

\* -1 is "unlimited".  ProcessUnknownWord leaves no single word without an
\* option, and the collection has no storage for longer spans.
ASSUME DistortionLimitsAssumption == DistortionLimits \subseteq Nat \cup {-1}
ASSUME OptionSpansAssumption ==
  \A S \in OptionSpans : WordSpans \subseteq S /\ S \subseteq PhraseSpans
ASSUME InputAssumption ==
  /\ PunctuationSets \subseteq SUBSET Positions
  /\ WallSets \subseteq SUBSET Positions
  /\ ZoneSets \subseteq SUBSET Spans

ASSUME PatternBitsAssumption == PatternBits \in Nat

VARIABLES
  maxDistortion,   \* StaticData::GetMaxDistortion()
  options,         \* spans whose TranslationOptionList is not empty
  punct,           \* positions of the punctuation marks, with the switch on
  rc,              \* Sentence::m_reorderingConstraint
  bitmap,          \* Hypothesis::m_sourceCompleted
  currRange        \* Hypothesis::m_currSourceWordsRange

sentence == <<maxDistortion, options, punct, rc>>
vars == <<maxDistortion, options, punct, rc, bitmap, currRange>>

\* The switches and the input line.
SentenceInit ==
  /\ maxDistortion \in DistortionLimits
  /\ options \in OptionSpans
  /\ punct \in PunctuationSets
  /\ \E xmlWalls \in WallSets, zones \in ZoneSets :
       rc = ReadConstraint(TRUE, punct, xmlWalls, zones)

\* The seed hypothesis: Hypothesis(source, emptyTarget).
SeedInit ==
  /\ bitmap = {}
  /\ currRange = NoSpan

Init == SentenceInit /\ SeedInit

\* Mutant: the new hypothesis keeps the span of the previous one.
Extend_KeepsRange(r) ==
  /\ NormalMayExtend(rc, bitmap, currRange, r, options, maxDistortion)
  /\ bitmap' = bitmap \cup SpanPositions(r)
  /\ UNCHANGED <<maxDistortion, options, punct, rc, currRange>>

\* ProcessOneHypothesis lets the span r through and Hypothesis(prevHypo,
\* transOpt) covers it.
Extend(r) ==
  /\ NormalMayExtend(rc, bitmap, currRange, r, options, maxDistortion)
  /\ bitmap' = bitmap \cup SpanPositions(r)
  /\ currRange' = r
  /\ UNCHANGED sentence

Next == \E r \in PhraseSpans : Extend(r)

Spec == Init /\ [][Next]_vars

------------------------------------------------------------------------------
(****************************************************************************)
(* The integer that stands for a bitmap where a stack keeps a minimum of    *)
(* hypotheses per coverage: WordsBitmap::GetID.                             *)
(****************************************************************************)

\* The loop over the positions from end down to start+1: id after n of them.
Patterns(covered, end) ==
  LET id[n \in 0 .. end] ==
        IF n = 0 THEN 0
        ELSE id[n - 1] * 2 + (IF end + 1 - n \in covered THEN 1 ELSE 0)
  IN  id

Pattern(covered, start, end) ==
  IF end > start THEN Patterns(covered, end)[end - start] ELSE 0

\* Mutant: the start is shifted by one bit less than the pattern may need.
MakeID_ShortShift(covered, start, end) ==
  Pattern(covered, start, end) + 2 ^ (PatternBits - 1) * start

MakeID(covered, start, end) ==
  Pattern(covered, start, end) + 2 ^ PatternBits * start

\* Nothing left: start is the size; nothing translated: end is 0.
IDStart(b) == IF GetFirstGapPos(b) = NOT_FOUND THEN SourceSize
              ELSE GetFirstGapPos(b)
IDEnd(b) == IF GetLastPos(b) = NOT_FOUND THEN 0 ELSE GetLastPos(b)

\* assert(end < start || end-start <= 16)
IDAssertion(start, end) == end < start \/ end - start <= PatternBits

GetID(b) == MakeID(b, IDStart(b), IDEnd(b))

------------------------------------------------------------------------------
(****************************************************************************)
(* Properties.                                                              *)
(****************************************************************************)

TypeOK ==
  /\ maxDistortion \in DistortionLimits
  /\ options \in OptionSpans
  /\ punct \in PunctuationSets
  /\ rc \in [wall : SUBSET Positions, localWall : SUBSET Positions,
             zones : ZoneSets]
  /\ bitmap \in Bitmaps
  /\ currRange \in PhraseSpans \cup {NoSpan}
  /\ bitmap = {} <=> currRange = NoSpan

\* The open window: with a limit, the first open word and the last translated
\* word are never further apart than the limit.  This is what makes the
\* assertion of WordsBitmap::GetID hold and what bounds the number of
\* coverages that share a stack.
GapWindow ==
  maxDistortion >= 0 =>
    \/ bitmap = {}
    \/ GetFirstGapPos(bitmap) > GetLastPos(bitmap)
    \/ GetLastPos(bitmap) + 1 - GetFirstGapPos(bitmap) <= maxDistortion

\* No step jumps further than the limit, forwards or backwards, though
\* ProcessOneHypothesis measures only the forward jump: that no jump back is
\* too long follows from what the earlier steps were allowed to skip.
DistortionWithinLimit ==
  [][maxDistortion >= 0 =>
       ComputeDistortionDistance(currRange, currRange') <= maxDistortion]_vars

\* A wall that is not local is never left with an open word before it and a
\* translated word behind it, although a phrase at the first gap may run
\* across walls unchecked.
WallsRespected ==
  \A w \in rc.wall :
    (\E p \in bitmap : p > w) => 0 .. w \subseteq bitmap

\* "once entered, need to finish": while a zone is partly translated, every
\* phrase touches it, and one that leaves it behind its end finishes it.
ZoneFinished ==
  [][\A z \in rc.zones :
       LET done == InZone(bitmap, z)
       IN  (done # {} /\ done # SpanPositions(z)) =>
             /\ SpanPositions(currRange') \cap SpanPositions(z) # {}
             /\ currRange'[2] > z[2] => SpanPositions(z) \subseteq bitmap']_vars

\* No dead end: whatever was translated, and in whatever order, some single
\* word may come next, under the distortion limit, the walls and the zones
\* together, as long as these do not contradict each other.
NoDeadEnd ==
  ~IsComplete(bitmap) /\ Consistent(rc) =>
    \E p \in Positions :
      NormalMayExtend(rc, bitmap, currRange, <<p, p>>, options, maxDistortion)

\* Stack decoding and cube pruning search the same space: on every reachable
\* hypothesis the two guards allow the same spans.
SearchesAgree ==
  \A r \in PhraseSpans :
    NormalMayExtend(rc, bitmap, currRange, r, options, maxDistortion)
      <=> CubeMayExtend(rc, bitmap, currRange, r, options, maxDistortion)

\* Diversity pruning counts hypotheses per id, so one id has to mean one
\* coverage: no two bitmaps that satisfy the assertion share an id, and with
\* a limit of at most PatternBits every bitmap of the search satisfies it.
IDIdentifiesBitmap ==
  maxDistortion \in 0 .. PatternBits =>
    /\ IDAssertion(IDStart(bitmap), IDEnd(bitmap))
    /\ \A b \in Bitmaps :
         IDAssertion(IDStart(b), IDEnd(b)) /\ GetID(b) = GetID(bitmap)
           => b = bitmap
==============================================================================
