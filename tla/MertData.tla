------------------------------ MODULE MertData -------------------------------
(****************************************************************************)
(* The data of mert/: what the extractor takes out of an n-best list and    *)
(* writes into a feature file and a score file, and what mert reads from    *)
(* the files of several runs (Data, FeatureData, FeatureArray, ScoreData,   *)
(* ScoreArray), with the position independent word error rate as the score  *)
(* (PerScorer, Scorer).                                                     *)
(****************************************************************************)
EXTENDS Integers, Sequences, SequencesExt, FiniteSetsExt

CONSTANT Lower(_)     \* a word in lower case

------------------------------------------------------------------------------
(****************************************************************************)
(* The float arithmetic of weights and scores, without rounding: a number   *)
(* is a pair of an integer and a positive integer without common divisor.   *)
(* <<1, 0>> and <<-1, 0>> are above and below every number and stand for    *)
(* MAX_FLOAT and MIN_FLOAT; they are only compared.                         *)
(****************************************************************************)
LOCAL Magnitude(i) == IF i < 0 THEN -i ELSE i

LOCAL Gcd[a \in Nat, b \in Nat] == IF b = 0 THEN a ELSE Gcd[b, a % b]

LOCAL Lowest(n, d, g) == <<n \div g, d \div g>>

\* n / d, for any d but 0.
Ratio(n, d) ==
  IF d < 0 THEN Lowest(-n, -d, Gcd[Magnitude(n), -d])
  ELSE Lowest(n, d, Gcd[Magnitude(n), d])

Whole(i) == <<i, 1>>
Zero == Whole(0)
One == Whole(1)
MAX_FLOAT == <<1, 0>>
MIN_FLOAT == <<-1, 0>>

Plus(a, b) == Ratio(a[1] * b[2] + b[1] * a[2], a[2] * b[2])
Minus(a, b) == Ratio(a[1] * b[2] - b[1] * a[2], a[2] * b[2])
Times(a, b) == Ratio(a[1] * b[1], a[2] * b[2])
Over(a, b) == Ratio(a[1] * b[2], a[2] * b[1])
AbsOf(a) == <<Magnitude(a[1]), a[2]>>

Less(a, b) == a[1] * b[2] < b[1] * a[2]
AtMost(a, b) == ~Less(b, a)

\* The sum of weighted whole numbers, as many as there are weights.
Dot(weights, numbers) ==
  FoldLeft(LAMBDA sum, i : Plus(sum, Times(weights[i], Whole(numbers[i]))),
           Zero, [i \in DOMAIN weights |-> i])

\* The weights divided by the sum of their magnitudes.
NormalizeL1(weights) ==
  LET norm == FoldLeft(LAMBDA sum, w : Plus(sum, AbsOf(w)), Zero, weights)
  IN  IF norm = Zero THEN weights ELSE [i \in DOMAIN weights |-> Over(weights[i], norm)]

------------------------------------------------------------------------------
\* A line of an n-best list has a sentence, a text and the third field, the
\* tokens of which are labels ("d:") and scores.
Label(name) == [label |-> name, score |-> 0]
Score(value) == [label |-> "", score |-> value]
IsLabel(token) == token.label # ""

ScoresOf(tokens) ==
  LET scores == SelectSeq(tokens, LAMBDA t : ~IsLabel(t))
  IN  [c \in DOMAIN scores |-> scores[c].score]

------------------------------------------------------------------------------
(****************************************************************************)
(* The arrays: one for each sentence, in the order of their first entry;    *)
(* its index is the sentence number of the n-best list.                     *)
(****************************************************************************)
NoData == [features |-> 0, arrays |-> <<>>]

Position(arrays, idx) ==
  {p \in DOMAIN arrays : arrays[p].idx = idx}

\* FeatureData::add of an array: merged into the one that exists.
FeatureAdd(data, array) ==
  LET found == Position(data.arrays, array.idx)
  IN  IF found # {}
      THEN [data EXCEPT !.arrays =
              [p \in DOMAIN @ |-> IF p \in found
                                  THEN [@[p] EXCEPT !.rows = @ \o array.rows] ELSE @[p]]]
      ELSE [data EXCEPT !.arrays = Append(@, array)]

FeatureAddRow(data, row, idx) ==
  FeatureAdd(data, [idx |-> idx, features |-> data.features, rows |-> <<row>>])

\* A file has for each array with entries a header, its rows and a footer.
FeatureArraySave(array) ==
  IF array.rows = <<>> THEN <<>>
  ELSE <<[idx |-> array.idx, entries |-> Len(array.rows), features |-> array.features]>>
         \o array.rows \o <<"FEATURES_TXT_END_0">>

FeatureSave(data) ==
  FlattenSeq([p \in DOMAIN data.arrays |-> FeatureArraySave(data.arrays[p])])

\* Loading counts the rows by the header.
FeatureArrayLoad(file, at) ==
  [idx |-> file[at].idx, features |-> file[at].features,
   rows |-> SubSeq(file, at + 1, at + file[at].entries)]

\* Where the arrays of a file begin.
Headers(file) ==
  LET from[at \in 1 .. Len(file) + 1] ==
        IF at > Len(file) THEN <<>> ELSE <<at>> \o from[at + file[at].entries + 2]
  IN  from[1]

FeatureLoad(data, file) ==
  FoldLeft(LAMBDA D, at :
             LET array == FeatureArrayLoad(file, at)
             IN  FeatureAdd(IF D.arrays = <<>> THEN [D EXCEPT !.features = array.features]
                            ELSE D, array),
           data, Headers(file))

\* The same of ScoreData, the arrays of which have no names of features.
\* Mutant: an array replaces the one that exists.
ScoreAdd_Replaces(arrays, array) ==
  LET found == Position(arrays, array.idx)
  IN  IF found # {}
      THEN [p \in DOMAIN arrays |-> IF p \in found THEN array ELSE arrays[p]]
      ELSE Append(arrays, array)

ScoreAdd(arrays, array) ==
  LET found == Position(arrays, array.idx)
  IN  IF found # {}
      THEN [p \in DOMAIN arrays |-> IF p \in found
                                    THEN [arrays[p] EXCEPT !.rows = @ \o array.rows]
                                    ELSE arrays[p]]
      ELSE Append(arrays, array)

ScoreAddRow(arrays, row, idx) == ScoreAdd(arrays, [idx |-> idx, rows |-> <<row>>])

ScoreArraySave(array) ==
  IF array.rows = <<>> THEN <<>>
  ELSE <<[idx |-> array.idx, entries |-> Len(array.rows)]>>
         \o array.rows \o <<"SCORES_TXT_END_0">>

ScoreSave(arrays) == FlattenSeq([p \in DOMAIN arrays |-> ScoreArraySave(arrays[p])])

ScoreArrayLoad(file, at) ==
  [idx |-> file[at].idx, rows |-> SubSeq(file, at + 1, at + file[at].entries)]

ScoreLoad(arrays, file) ==
  FoldLeft(LAMBDA A, at : ScoreAdd(A, ScoreArrayLoad(file, at)), arrays, Headers(file))

------------------------------------------------------------------------------
(****************************************************************************)
(* The scorer.                                                              *)
(****************************************************************************)
Encode(text) == [i \in DOMAIN text |-> Lower(text[i])]

Count(tokens, token) == Cardinality({i \in DOMAIN tokens : tokens[i] = token})

\* PerScorer::prepareStats: how many words are right, the length of the
\* text, that of the reference.
PrepareStats(reference, text) ==
  LET ref == Encode(reference)
      test == Encode(text)
      Right(token) == Min({Count(ref, token), Count(test, token)})
  IN  <<MapThenSumSet(Right, Range(test)), Len(test), Len(ref)>>

CalculateScore(totals) ==
  IF totals[3] = 0 THEN Zero
  ELSE Ratio(totals[1] - Max({0, totals[2] - totals[3]}), totals[3])

Difference(s, t) == [k \in DOMAIN s |-> s[k] - t[k]]
Total(s, t) == [k \in DOMAIN s |-> s[k] + t[k]]

\* The average or the least of some scores.
Average(scores) ==
  Over(FoldLeft(Plus, Zero, scores), Whole(Len(scores)))
Least(scores) ==
  CHOOSE s \in Range(scores) : \A t \in Range(scores) : AtMost(s, t)

\* Regularisation over a window around each interval.
Regularised(scores, reg, window) ==
  [i \in DOMAIN scores |->
     LET around == SubSeq(scores, Max({1, i - window}), Min({Len(scores), i + window}))
     IN  IF reg = "average" THEN Average(around) ELSE Least(around)]

\* StatisticsBasedScorer::score: the score of the first candidates, one for
\* each sentence, and after each of diffs, a sequence of changes of one
\* sentence's candidate.
NewCandidate(arrays, state, diff) ==
  LET rows == arrays[diff[1]].rows
  IN  [last |-> [state.last EXCEPT ![diff[1]] = diff[2]],
       totals |-> Total(state.totals, Difference(rows[diff[2]], rows[state.last[diff[1]]]))]

RawScores(arrays, candidates, diffs) ==
  LET Start == [last |-> candidates,
                totals |-> FoldLeft(LAMBDA t, s : Total(t, arrays[s].rows[candidates[s]]),
                                    <<0, 0, 0>>, [s \in DOMAIN candidates |-> s])]
      Apply(state, ds) == FoldLeft(LAMBDA st, d : NewCandidate(arrays, st, d), state, ds)
      Step(acc, ds) ==
        LET state == Apply(acc.state, ds)
        IN  [state |-> state, scores |-> Append(acc.scores, CalculateScore(state.totals))]
  IN  FoldLeft(Step, [state |-> Start, scores |-> <<CalculateScore(Start.totals)>>], diffs).scores

StatScores(arrays, reg, window, candidates, diffs) ==
  LET raw == RawScores(arrays, candidates, diffs)
  IN  IF reg = "none" \/ window <= 0 THEN raw ELSE Regularised(raw, reg, window)

------------------------------------------------------------------------------
(****************************************************************************)
(* The extractor.                                                           *)
(****************************************************************************)
\* Data::loadnbest of one line.  The features are counted in the first line.
LoadLine(data, line, references) ==
  [score |-> ScoreAddRow(data.score, PrepareStats(references[line.sent + 1], line.text), line.sent),
   feature |-> LET scores == ScoresOf(line.tokens)
               IN  FeatureAddRow([data.feature EXCEPT
                                    !.features = IF @ = 0 THEN Len(scores) ELSE @],
                                 scores, line.sent)]

LoadNBest(lines, references) ==
  FoldLeft(LAMBDA D, l : LoadLine(D, l, references),
           [score |-> <<>>, feature |-> NoData], lines)

\* A sentence without reference: the extractor fails.
Extractable(lines, references) ==
  \A i \in DOMAIN lines : lines[i].sent < Len(references)

Extract(lines, references) ==
  LET data == LoadNBest(lines, references)
  IN  [features |-> FeatureSave(data.feature), scores |-> ScoreSave(data.score)]

\* What mert loads: the files of some runs, one after the other.
LoadFiles(files) ==
  FoldLeft(LAMBDA D, f : [feature |-> FeatureLoad(D.feature, f.features),
                          score |-> ScoreLoad(D.score, f.scores)],
           [score |-> <<>>, feature |-> NoData], files)
==============================================================================
