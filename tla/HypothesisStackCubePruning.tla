---------------------- MODULE HypothesisStackCubePruning ----------------------
(****************************************************************************)
(* One stack of cube pruning (HypothesisStackCubePruning).  It differs from *)
(* the stack of stack decoding in how it prunes: by a score threshold, so   *)
(* that hypotheses that tie for the last place all stay, and without        *)
(* diversity.  Arc lists, recombination and deletion are those of           *)
(* HypothesisStackNormal.                                                   *)
(*                                                                          *)
(* A stack is a record [hypos, best, worst].                                *)
(****************************************************************************)
EXTENDS HypothesisStackNormal

CubeEmptyStack == [hypos |-> {}, best |-> NegInf, worst |-> NegInf]

\* The score of the newSize-th best hypothesis in the beam, or of the last one
\* if the beam holds fewer.
ScoreThreshold(H, conf, stk, newSize) ==
  LowestScore(H, Candidates(H, newSize,
                   {x \in stk.hypos : H[x].total > stk.best + conf.beamWidth}))

\* Mutant: one score too few is popped off the heap.
CubePruneToSize_OneFewer(H, conf, stk, newSize) ==
  IF Cardinality(stk.hypos) <= newSize THEN stk
  ELSE LET threshold == ScoreThreshold(H, conf, stk, Max({1, newSize - 1}))
       IN  [stk EXCEPT !.hypos = {x \in @ : H[x].total >= threshold},
                       !.worst = threshold]

CubePruneToSize(H, conf, stk, newSize) ==
  IF Cardinality(stk.hypos) <= newSize THEN stk
  ELSE LET threshold == ScoreThreshold(H, conf, stk, newSize)
       IN  [stk EXCEPT !.hypos = {x \in @ : H[x].total >= threshold},
                       !.worst = threshold]

CubeAdd(H, conf, stk, h) ==
  LET total  == H[h].total
      isBest == total > stk.best
      added  == [hypos |-> stk.hypos \cup {h},
                 best  |-> IF isBest THEN total ELSE stk.best,
                 worst |-> IF isBest THEN Max({stk.worst, total + conf.beamWidth})
                           ELSE stk.worst]
  IN  IF Cardinality(added.hypos) > 2 * conf.stackSize - 1
      THEN CubePruneToSize(H, conf, added, conf.stackSize)
      ELSE added

\* What a call leaves: the stack, the arc lists, the ids it deleted, and
\* whether the hypothesis made a new entry.
CubeOutcome(stk, arcs, gone, isNew) ==
  [stack |-> stk, arcs |-> [x \in DOMAIN arcs |-> IF x \in gone THEN {} ELSE arcs[x]],
   gone |-> gone, isNew |-> isNew]

CubeAdded(H, conf, stk, arcs, h, lost, isNew) ==
  LET s == CubeAdd(H, conf, stk, h)
  IN  CubeOutcome(s, arcs,
        Deleted(arcs, lost \cup ((stk.hypos \cup {h}) \ s.hypos)), isNew)

\* h recombines with x, which the stack has: the better one stays.
CubeRecombine(H, conf, stk, arcs, h, x) ==
  LET without == [stk EXCEPT !.hypos = @ \ {x}]
  IN  CASE H[h].total > H[x].total /\ conf.nBest ->
             CubeAdded(H, conf, without, AddArc(arcs, h, x), h, {}, FALSE)
        [] H[h].total > H[x].total /\ ~conf.nBest ->
             CubeAdded(H, conf, without, arcs, h, {x}, FALSE)
        [] H[h].total <= H[x].total /\ conf.nBest ->
             CubeOutcome(stk, AddArc(arcs, x, h), {}, FALSE)
        [] OTHER -> CubeOutcome(stk, arcs, {h}, FALSE)

\* Mutant: the first of two hypotheses that recombine stays.
CubeAddPrune_KeepsFirst(H, conf, stk, arcs, h) ==
  IF H[h].total < stk.worst THEN CubeOutcome(stk, arcs, {h}, FALSE)
  ELSE IF Twins(H, stk, h) = {} THEN CubeAdded(H, conf, stk, arcs, h, {}, TRUE)
  ELSE LET x == CHOOSE y \in Twins(H, stk, h) : TRUE
       IN  IF conf.nBest THEN CubeOutcome(stk, AddArc(arcs, x, h), {}, FALSE)
           ELSE CubeOutcome(stk, arcs, {h}, FALSE)

CubeAddPrune(H, conf, stk, arcs, h) ==
  IF H[h].total < stk.worst THEN CubeOutcome(stk, arcs, {h}, FALSE)
  ELSE IF Twins(H, stk, h) = {} THEN CubeAdded(H, conf, stk, arcs, h, {}, TRUE)
  ELSE CubeRecombine(H, conf, stk, arcs, h, CHOOSE x \in Twins(H, stk, h) : TRUE)
===============================================================================
