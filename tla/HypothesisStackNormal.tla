------------------------ MODULE HypothesisStackNormal ------------------------
(****************************************************************************)
(* One stack of the decoder (HypothesisStackNormal): the hypotheses with    *)
(* the same number of translated words, kept small by recombination and by  *)
(* pruning.                                                                 *)
(*                                                                          *)
(* A hypothesis is its id, an index of the sequence H of all hypotheses     *)
(* that were ever made.  A stack is a record [hypos, best, worst,           *)
(* divWorst]; the map divWorst is total here and has NegInf where the code  *)
(* has no entry, and is keyed by the bitmap itself, which HypothesisPath    *)
(* shows its id to name.  arcs[h] is the arc list of h, as a set.           *)
(*                                                                          *)
(* Sorting does not order equal scores, so the operators that prune return  *)
(* the set of the outcomes it may have.                                     *)
(****************************************************************************)
EXTENDS Hypothesis, FiniteSetsExt

CONSTANTS
  NegInf,           \* -numeric_limits<float>::infinity()
  ArcListFactor     \* 5 in CleanupArcList

ASSUME NegInfAssumption == NegInf \in Int

\* -infinity is below every score.
ASSUME BelowAssumption ==
  \A i \in Inputs : \A h \in AllDerivations(i) : NegInf < h.total

EmptyStack ==
  [hypos |-> {}, best |-> NegInf, worst |-> NegInf,
   divWorst |-> [b \in Bitmaps |-> NegInf]]

\* The n best hypotheses of S, all of S if it has fewer: those that have to be
\* among them, and as many as fit of those that tie for the last places.
Sure(H, n, S) ==
  {x \in S : Cardinality({y \in S : H[y].total >= H[x].total}) <= n}
Candidates(H, n, S) ==
  {x \in S : Cardinality({y \in S : H[y].total > H[x].total}) < n}

Best(H, n, S) ==
  LET sure == Sure(H, n, S)
  IN  {K \in {sure \cup tied : tied \in SUBSET (Candidates(H, n, S) \ sure)} :
         Cardinality(K) = Min({n, Cardinality(S)})}

LowestScore(H, S)  == Min({H[x].total : x \in S})
HighestScore(H, S) == Max({H[x].total : x \in S})

Covering(H, S, b) == {x \in S : H[x].bitmap = b}
Coverages(H, S)   == {H[x].bitmap : x \in S}

------------------------------------------------------------------------------
(****************************************************************************)
(* PruneToSize.                                                             *)
(****************************************************************************)

\* The best m_minHypoStackDiversity hypotheses of every coverage.
DiversityChoices(H, conf, S) ==
  LET sure == UNION {Sure(H, conf.diversity, Covering(H, S, b)) : b \in Coverages(H, S)}
      most == UNION {Candidates(H, conf.diversity, Covering(H, S, b)) :
                       b \in Coverages(H, S)}
  IN  {D \in {sure \cup tied : tied \in SUBSET (most \ sure)} :
         \A b \in Coverages(H, S) :
           Covering(H, D, b) \in Best(H, conf.diversity, Covering(H, S, b))}

\* The worst score of a coverage is set when its share is full.
DiversityWorst(H, conf, stk, D) ==
  [b \in Bitmaps |->
     IF conf.diversity > 0 /\ Cardinality(Covering(H, D, b)) = conf.diversity
       THEN LowestScore(H, Covering(H, D, b)) ELSE stk.divWorst[b]]

\* The best of the rest, as long as there is room and they are in the beam.
Remaining(H, conf, stk, D, newSize) ==
  LET inBeam == {x \in stk.hypos \ D : H[x].total > stk.best + conf.beamWidth}
      room   == IF Cardinality(D) < newSize THEN newSize - Cardinality(D) ELSE 0
  IN  Best(H, room, inBeam)

\* Mutant: the worst score is taken from the hypothesis before the last.
PrunedStack_WorstTooHigh(H, conf, stk, newSize, D, E) ==
  [hypos    |-> D \cup E,
   best     |-> stk.best,
   worst    |-> IF Cardinality(D \cup E) = newSize /\ E # {}
                THEN HighestScore(H, E) ELSE stk.worst,
   divWorst |-> DiversityWorst(H, conf, stk, D)]

\* The stack with D for the diversity and E of the rest.
PrunedStack(H, conf, stk, newSize, D, E) ==
  [hypos    |-> D \cup E,
   best     |-> stk.best,
   worst    |-> IF Cardinality(D \cup E) = newSize /\ E # {}
                THEN LowestScore(H, E) ELSE stk.worst,
   divWorst |-> DiversityWorst(H, conf, stk, D)]

PruneToSize(H, conf, stk, newSize) ==
  IF Cardinality(stk.hypos) <= newSize THEN {stk}
  ELSE UNION {{PrunedStack(H, conf, stk, newSize, D, E) :
                 E \in Remaining(H, conf, stk, D, newSize)} :
              D \in DiversityChoices(H, conf, stk.hypos)}

------------------------------------------------------------------------------
(****************************************************************************)
(* Add and AddPrune.                                                        *)
(****************************************************************************)

\* How far a stack may grow before it is pruned: twice its size, and room for
\* the coverages a distortion limit leaves possible.
ToleratedSize(conf, maxDistortion) ==
  2 * conf.stackSize - 1
    + (IF conf.diversity > 0 THEN conf.diversity * 2 ^ maxDistortion ELSE 0)

\* The hypothesis is in the set; best and worst scores follow it.
Insert(H, conf, stk, h) ==
  LET total  == H[h].total
      bitmap == H[h].bitmap
      isBest == total > stk.best
  IN  [hypos    |-> stk.hypos \cup {h},
       best     |-> IF isBest THEN total ELSE stk.best,
       worst    |-> IF isBest THEN Max({stk.worst, total + conf.beamWidth})
                    ELSE stk.worst,
       divWorst |-> IF conf.diversity = 1 /\ total > stk.divWorst[bitmap]
                    THEN [stk.divWorst EXCEPT ![bitmap] = total]
                    ELSE stk.divWorst]

Add(H, conf, maxDistortion, stk, h) ==
  LET added == Insert(H, conf, stk, h)
  IN  IF Cardinality(added.hypos) > ToleratedSize(conf, maxDistortion)
      THEN PruneToSize(H, conf, added, conf.stackSize)
      ELSE {added}

TooBad(H, conf, stk, h) ==
  /\ H[h].total < stk.worst
  /\ ~(conf.diversity > 0 /\ H[h].total >= stk.divWorst[H[h].bitmap])

\* The hypotheses of the stack that recombine with h: at most one.
Twins(H, stk, h) == {x \in stk.hypos : RecombineKey(H[x]) = RecombineKey(H[h])}

\* Mutant: the loser keeps the arc list the winner took over.
AddArc_KeepsLosers(arcs, winner, loser) ==
  [arcs EXCEPT ![winner] = @ \cup arcs[loser] \cup {loser}]

\* Hypothesis::AddArc: the winner takes over the loser's arcs and the loser.
AddArc(arcs, winner, loser) ==
  [arcs EXCEPT ![winner] = @ \cup arcs[loser] \cup {loser}, ![loser] = {}]

\* FREEHYPO of the hypotheses S: each deletes its arcs too.
Deleted(arcs, S) == S \cup UNION {arcs[x] : x \in S}

\* What a call leaves: the stack, the arc lists and the ids it deleted.
Outcome(stk, arcs, gone) ==
  [stack |-> stk, arcs |-> [x \in DOMAIN arcs |-> IF x \in gone THEN {} ELSE arcs[x]],
   gone |-> gone]

\* The outcomes of Add that delete what pruning did not keep, besides lost.
Added(H, conf, maxDistortion, stk, arcs, h, lost) ==
  {Outcome(s, arcs, Deleted(arcs, lost \cup ((stk.hypos \cup {h}) \ s.hypos)))
     : s \in Add(H, conf, maxDistortion, stk, h)}

Without(stk, x) == [stk EXCEPT !.hypos = @ \ {x}]

\* h recombines with x, which the stack has: the better one stays.
Recombine(H, conf, maxDistortion, stk, arcs, h, x) ==
  CASE H[h].total > H[x].total /\ conf.nBest ->
         Added(H, conf, maxDistortion, Without(stk, x), AddArc(arcs, h, x), h, {})
    [] H[h].total > H[x].total /\ ~conf.nBest ->
         Added(H, conf, maxDistortion, Without(stk, x), arcs, h, {x})
    [] H[h].total <= H[x].total /\ conf.nBest ->
         {Outcome(stk, AddArc(arcs, x, h), {})}
    [] OTHER -> {Outcome(stk, arcs, {h})}

\* Mutant: the first of two hypotheses that recombine stays, whatever it scores.
AddPrune_FirstWins(H, conf, maxDistortion, stk, arcs, h) ==
  CASE TooBad(H, conf, stk, h) -> {Outcome(stk, arcs, {h})}
    [] ~TooBad(H, conf, stk, h) /\ Twins(H, stk, h) = {} ->
         Added(H, conf, maxDistortion, stk, arcs, h, {})
    [] OTHER ->
         {IF conf.nBest THEN Outcome(stk, AddArc(arcs, x, h), {})
          ELSE Outcome(stk, arcs, {h}) : x \in Twins(H, stk, h)}

AddPrune(H, conf, maxDistortion, stk, arcs, h) ==
  IF TooBad(H, conf, stk, h) THEN {Outcome(stk, arcs, {h})}
  ELSE IF Twins(H, stk, h) = {}
    THEN Added(H, conf, maxDistortion, stk, arcs, h, {})
    ELSE UNION {Recombine(H, conf, maxDistortion, stk, arcs, h, x)
                  : x \in Twins(H, stk, h)}

------------------------------------------------------------------------------
(****************************************************************************)
(* CleanupArcList and GetBestHypothesis.                                    *)
(****************************************************************************)

\* The hypotheses of a stack with more arcs than the n-best list needs.
TooManyArcs(conf, stk, arcs) ==
  {x \in stk.hypos :
     /\ ~conf.distinct
     /\ Cardinality(arcs[x]) > ArcListFactor * conf.nBestSize}

\* The arc lists after CleanupArcList: the long ones keep their best arcs.
CleanupArcList(H, conf, stk, arcs) ==
  LET long == IF conf.nBest THEN TooManyArcs(conf, stk, arcs) ELSE {}
      sure == UNION {Sure(H, conf.nBestSize, arcs[x]) : x \in long}
      most == UNION {Candidates(H, conf.nBestSize, arcs[x]) : x \in long}
  IN  {[x \in DOMAIN arcs |-> IF x \in long THEN arcs[x] \cap K ELSE arcs[x]] :
         K \in {M \in {sure \cup tied : tied \in SUBSET (most \ sure)} :
                  \A x \in long : arcs[x] \cap M \in Best(H, conf.nBestSize, arcs[x])}}

\* The winning hypotheses after it: those of the stack win, and for their
\* arcs as well.
Winners(conf, stk, arcs, winning) ==
  [x \in DOMAIN winning |->
     IF conf.nBest /\ x \in stk.hypos THEN x
     ELSE IF conf.nBest /\ \E y \in stk.hypos : x \in arcs[y]
       THEN CHOOSE y \in stk.hypos : x \in arcs[y]
     ELSE winning[x]]

\* The hypotheses GetBestHypothesis may return; none stands for NULL.
GetBestHypothesis(H, stk) ==
  {x \in stk.hypos : \A y \in stk.hypos : H[x].total >= H[y].total}
===============================================================================
