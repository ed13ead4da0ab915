------------------------------ MODULE Optimizer ------------------------------
(****************************************************************************)
(* mert: Optimizer.cpp and the main program.  From a point, the weights of  *)
(* init.opt or a random one, it searches the best point on the line of each *)
(* weight, goes to the best of these, and on as long as the score improves; *)
(* the result is the best point of several tries.  An action is one line    *)
(* search.  Numbers are exact where the program has floats.                 *)
(****************************************************************************)
EXTENDS MertData

CONSTANTS
  MinInt,            \* least distance of two steps of a sentence: 0.0001
  Far,               \* a point left of all thresholds: 1000 before the first
  Beyond,            \* a point right of all: 0.1 after the last
  Snap,              \* points this near to the origin are the origin: 0.00015
  Huge,              \* MAX_FLOAT as a position on a line
  Tries,             \* ntry
  RandomStarts(_),   \* the points that Randomize may give, in a dimension
  Samples            \* positions on a line where the properties look

ASSUME OptimizerAssumption ==
  Tries \in Nat \ {0} /\ Less(MinInt, Times(Whole(2), Snap)) /\ Less(Snap, Beyond)

VARIABLES
  mert,       \* what mert is doing: "idle", "searching", "ended"
  data,       \* the feature and score data that it loaded
  scorer,     \* the kind and the window of regularisation
  point,      \* P, where the lines of this sweep begin
  direction,  \* the next weight to search along
  best,       \* the best point of this try, and its score
  prevscore,  \* the score at the beginning of this sweep
  try,
  result,     \* bestP, the best point of all tries, and its score
  line,       \* the last line search: origin, direction, point, score, steps
  starts      \* history: where the tries began

mertVars == <<mert, data, scorer, point, direction, best, prevscore, try, result, line, starts>>

eps == <<1, 10000>>

NoPoint == [at |-> <<>>, score |-> MIN_FLOAT]
NoLine == [from |-> <<>>, along |-> 0, at |-> <<>>, score |-> MIN_FLOAT]

------------------------------------------------------------------------------
(****************************************************************************)
(* Points and candidates.                                                   *)
(****************************************************************************)
\* The point at position x of the line through P along weight d.
PointOnLine(P, d, x) == [P EXCEPT ![d] = Plus(@, x)]

\* The first of the highest.
FirstHighest(scores) ==
  Min({j \in DOMAIN scores : \A k \in DOMAIN scores : AtMost(scores[k], scores[j])})

ScoresAt(P, rows) == [j \in DOMAIN rows |-> Dot(P, rows[j])]

Get1bests(F, P) == [s \in DOMAIN F |-> FirstHighest(ScoresAt(P, F[s].rows))]

GetStatScore(D, reg, P) ==
  StatScores(D.score, reg.type, reg.window, Get1bests(D.feature.arrays, P), <<>>)[1]

------------------------------------------------------------------------------
(****************************************************************************)
(* The best candidates of one sentence along a line.  A candidate is a line *)
(* itself: its gradient m is its feature for the weight, its height b the   *)
(* score at the origin.                                                     *)
(****************************************************************************)
Lines(rows, P, d) == [j \in DOMAIN rows |-> [m |-> rows[j][d], b |-> Dot(P, rows[j])]]

\* The order of the multimap: by gradient, then by insertion.
Before(L, j, k) == L[j].m < L[k].m \/ (L[j].m = L[k].m /\ j < k)

\* The best candidate at the far left.
FirstOf(L) ==
  LET smallest == {j \in DOMAIN L : \A k \in DOMAIN L : L[j].m <= L[k].m}
  IN  Min({j \in smallest : \A k \in smallest : AtMost(L[k].b, L[j].b)})

Intersect(l1, l2) == Over(Minus(l2.b, l1.b), Whole(l1.m - l2.m))

\* The candidate after j: the one with the leftmost intersection of those
\* with a larger gradient, and of several the last in the order.
NextBest(L, j) ==
  LET steeper == {k \in DOMAIN L : L[k].m > L[j].m}
      at == [k \in steeper |-> Intersect(L[j], L[k])]
      leftmost == {k \in steeper : \A i \in steeper : AtMost(at[k], at[i])}
  IN  CHOOSE k \in leftmost : \A i \in leftmost \ {k} : Before(L, i, k)

\* The steps from one best candidate to the next, until it is of the
\* largest gradient.
Envelope(L) ==
  LET Steepest(j) == \A k \in DOMAIN L : L[k].m <= L[j].m
      Step(j, k) == [x |-> Intersect(L[j], L[k]), to |-> k]
      from[j \in DOMAIN L] ==
        IF Steepest(j) THEN <<>>
        ELSE <<Step(j, NextBest(L, j))>> \o from[NextBest(L, j)]
  IN  from[FirstOf(L)]

------------------------------------------------------------------------------
(****************************************************************************)
(* The thresholds of all sentences: positions in ascending order, each with *)
(* the changes <<sentence, candidate>> there.  The first is MIN_FLOAT.      *)
(****************************************************************************)
Threshold(x, diffs) == [x |-> x, diffs |-> diffs]

AtX(thresholds, x) == {i \in DOMAIN thresholds : thresholds[i].x = x}

WithoutX(thresholds, x) == SelectSeq(thresholds, LAMBDA t : t.x # x)

\* The entry for t.x becomes t.
Put(thresholds, t) ==
  SelectSeq(thresholds, LAMBDA u : Less(u.x, t.x)) \o <<t>>
    \o SelectSeq(thresholds, LAMBDA u : Less(t.x, u.x))

DiffsAt(thresholds, x) == thresholds[CHOOSE i \in AtX(thresholds, x) : TRUE].diffs

\* The last change becomes diff.
LastReplaced(diffs, diff) == Append(Front(diffs), diff)

\* Mutant: of several sentences that change at one place only the last does.
AddThreshold_OneSentence(thresholds, x, diff) == Put(thresholds, Threshold(x, <<diff>>))

AddThreshold(thresholds, x, diff) ==
  Put(thresholds, Threshold(x,
    IF AtX(thresholds, x) = {} THEN <<diff>>
    ELSE IF Last(DiffsAt(thresholds, x))[1] = diff[1]
      THEN LastReplaced(DiffsAt(thresholds, x), diff)
    ELSE Append(DiffsAt(thresholds, x), diff)))

\* A step too near to the one before, of the same sentence, at prev: the
\* threshold of that moves here, with whatever else changes there.
MoveThreshold(thresholds, prev, x, diff) ==
  Put(WithoutX(thresholds, prev), Threshold(x,
    LastReplaced(IF x = prev \/ AtX(thresholds, x) = {} THEN DiffsAt(thresholds, prev)
                 ELSE DiffsAt(thresholds, x) \o DiffsAt(thresholds, prev), diff)))

TooNear(x, prev) == prev # MIN_FLOAT /\ Less(Minus(x, prev), MinInt)

AddSentence(thresholds, s, steps) ==
  FoldLeft(LAMBDA acc, step :
             [prev |-> step.x,
              list |-> IF TooNear(step.x, acc.prev)
                       THEN MoveThreshold(acc.list, acc.prev, step.x, <<s, step.to>>)
                       ELSE AddThreshold(acc.list, step.x, <<s, step.to>>)],
           [prev |-> MIN_FLOAT, list |-> thresholds], steps).list

Thresholds(envelopes) ==
  FoldLeft(LAMBDA list, s : AddSentence(list, s, envelopes[s]),
           <<Threshold(MIN_FLOAT, <<>>)>>, [s \in DOMAIN envelopes |-> s])

------------------------------------------------------------------------------
(****************************************************************************)
(* The line search.                                                         *)
(****************************************************************************)
\* The point taken for interval i: its middle, and of the first and of the
\* last interval one at some distance from the others.
Inside(thresholds, i) ==
  IF Len(thresholds) = 1 THEN Huge
  ELSE IF i = 1 THEN Minus(thresholds[2].x, Far)
  ELSE IF i = Len(thresholds) THEN Plus(thresholds[i].x, Beyond)
  ELSE Times(<<1, 2>>, Plus(thresholds[i].x, thresholds[i + 1].x))

Snapped(x) == IF Less(AbsOf(x), Snap) THEN Zero ELSE x

\* Of several best intervals the first.
BestX(thresholds, scores) == Snapped(Inside(thresholds, FirstHighest(scores)))

LineFrom(D, reg, P, d, lines, thresholds) ==
  LET scores == StatScores(D.score, reg.type, reg.window,
                           [s \in DOMAIN lines |-> FirstOf(lines[s])],
                           [i \in 1 .. Len(thresholds) - 1 |-> thresholds[i + 1].diffs])
  IN  [from |-> P, along |-> d,
       at |-> PointOnLine(P, d, BestX(thresholds, scores)),
       score |-> scores[FirstHighest(scores)]]

LineOptimize(D, reg, P, d) ==
  LET lines == [s \in DOMAIN D.feature.arrays |-> Lines(D.feature.arrays[s].rows, P, d)]
  IN  LineFrom(D, reg, P, d, lines, Thresholds([s \in DOMAIN lines |-> Envelope(lines[s])]))

------------------------------------------------------------------------------
MertInit ==
  /\ mert = "idle" /\ data = LoadFiles(<<>>) /\ scorer = [type |-> "none", window |-> 0]
  /\ point = <<>> /\ direction = 1 /\ best = NoPoint /\ prevscore = Zero
  /\ try = 0 /\ result = NoPoint /\ line = NoLine /\ starts = <<>>

\* Optimizer::Run and the beginning of TrueRun, from P.
Begin(D, reg, P) ==
  LET score == GetStatScore(D, reg, P)
  IN  /\ point' = P /\ direction' = 1
      /\ best' = [at |-> P, score |-> score] /\ prevscore' = score
      /\ starts' = Append(starts, P)

\* main: the files are loaded, and the first try begins at init.opt.
StartMert(files, reg, init) ==
  /\ mert = "idle"
  /\ LET D == LoadFiles(files)
     IN  data' = D /\ Begin(D, reg, init)
  /\ mert' = "searching" /\ scorer' = reg /\ try' = 1
  /\ UNCHANGED <<result, line>>

\* A point is better only if its score is higher.
Better(found, than) == IF Less(than.score, found.score)
                       THEN [at |-> found.at, score |-> found.score] ELSE than

LineSearch ==
  /\ mert = "searching" /\ direction <= Len(point)
  /\ LET found == LineOptimize(data, scorer, point, direction)
     IN  line' = found /\ best' = Better(found, best)
  /\ direction' = direction + 1
  /\ UNCHANGED <<mert, data, scorer, point, prevscore, try, result, starts>>

SweepDone == mert = "searching" /\ direction > Len(point)

\* Mutant: the difference is taken the other way round.
Improved_Swapped == Less(eps, Minus(prevscore, best.score))

Improved == Less(eps, Minus(best.score, prevscore))

NextSweep ==
  /\ SweepDone /\ Improved
  /\ point' = best.at /\ direction' = 1 /\ prevscore' = best.score
  /\ UNCHANGED <<mert, data, scorer, best, try, result, line, starts>>

\* The best of the tries, the first of equals.
BestTry == IF try = 1 THEN best ELSE Better(best, result)

NextTry ==
  /\ SweepDone /\ ~Improved /\ try < Tries
  /\ result' = BestTry /\ try' = try + 1
  /\ \E P \in RandomStarts(Len(point)) : Begin(data, scorer, P)
  /\ UNCHANGED <<mert, data, scorer, line>>

\* "Best point": normalised.
EndMert ==
  /\ SweepDone /\ ~Improved /\ try = Tries
  /\ result' = [BestTry EXCEPT !.at = NormalizeL1(@)]
  /\ mert' = "ended"
  /\ UNCHANGED <<data, scorer, point, direction, best, prevscore, try, line, starts>>

\* The process is gone.
LeaveMert ==
  /\ mert' = "idle" /\ data' = LoadFiles(<<>>) /\ scorer' = scorer
  /\ point' = <<>> /\ direction' = 1 /\ best' = NoPoint /\ prevscore' = Zero
  /\ try' = 0 /\ result' = NoPoint /\ line' = NoLine /\ starts' = <<>>

MertNext == LineSearch \/ NextSweep \/ NextTry \/ EndMert

------------------------------------------------------------------------------
(****************************************************************************)
(* What a line search and the whole search promise.                         *)
(****************************************************************************)
\* The score at a point, without regularisation.
TrueScore(P) == GetStatScore(data, [type |-> "none", window |-> 0], P)

\* No two candidates of a sentence are the same along the line, unless they
\* have the same error counts.
Distinguished(P, d) ==
  \A s \in DOMAIN data.score :
    LET L == Lines(data.feature.arrays[s].rows, P, d)
    IN  \A j, k \in DOMAIN L : L[j] = L[k] => data.score[s].rows[j] = data.score[s].rows[k]

\* The positions where the best candidate of some sentence changes.
Changes(P, d) ==
  UNION {LET e == Envelope(Lines(data.feature.arrays[s].rows, P, d))
         IN  {e[i].x : i \in DOMAIN e} : s \in DOMAIN data.score}

Separate(positions) ==
  \A x, y \in positions : Less(x, y) => AtMost(Times(Whole(2), Snap), Minus(y, x))

Regular(P, d) == Distinguished(P, d) /\ Separate(Changes(P, d))

\* No sample of the line, but where candidates change, has a higher score.
NoneHigher(score, P, d) ==
  \A x \in Samples \ Changes(P, d) : AtMost(TrueScore(PointOnLine(P, d, x)), score)

\* A line search tells the truth: where its steps are not too near to each
\* other, the score it reports is the score at the point it returns, no
\* point of the line has a higher one, and regularised by the minimum it is
\* not above the score there.  (Optimizer::LineOptimize, which never scores
\* a point but adds up the changes between candidates.)
LineScoreTrue ==
  line.from # <<>> /\ mert = "searching" /\ Regular(line.from, line.along) =>
    /\ scorer.type = "none" =>
         line.score = TrueScore(line.at) /\ NoneHigher(line.score, line.from, line.along)
    /\ scorer.type = "min" => AtMost(line.score, TrueScore(line.at))

\* A try ends at a point at least as good as the one where it began that no
\* change of a single weight improves, and the result is the best of the
\* tries.  (SimpleOptimizer::TrueRun and main of mert.)
MertOptimal ==
  scorer.type = "none" =>
    /\ SweepDone /\ ~Improved /\ (\A d \in DOMAIN best.at : Regular(best.at, d)) =>
         /\ best.score = TrueScore(best.at)
         /\ AtMost(TrueScore(Last(starts)), best.score)
         /\ \A d \in DOMAIN best.at : NoneHigher(best.score, best.at, d)
    /\ mert = "ended" => \A k \in DOMAIN starts : AtMost(TrueScore(starts[k]), result.score)
==============================================================================
