------------------------ MODULE SearchNormalProofs ------------------------
(****************************************************************************)
(* Stack decoding keeps what it promises, for every sentence, set of        *)
(* translation options, score function and setting of the switches.         *)
(*                                                                          *)
(* IInv is inductive.  It says of each stack what HypothesisProofs          *)
(* says of one, of each hypothesis that it is the end of a derivation, of   *)
(* the back pointers that they lead to stacks that are open, and of the     *)
(* work in hand that it will not leave the next stack empty.                *)
(****************************************************************************)
EXTENDS SearchNormal, HypothesisProofs

\* The hypotheses that came to stack k, and those of them that live.
Came(k)   == {h \in Ids : Covered(h) = k}
Living(k) == Came(k) \ deleted

\* The stacks that have been opened.
Open(k) == k < ind \/ (k = ind /\ pc = "expand")

Types ==
  /\ input \in Inputs /\ conf \in Confs
  /\ hypo \in Seq(Hypotheses) /\ Len(hypo) >= 1
  /\ DOMAIN stack = Stacks
  /\ arcs \in [Ids -> SUBSET Ids]
  /\ winning \in [Ids -> Ids \cup {Unset}]
  /\ deleted \subseteq Ids
  /\ pc \in {"stack", "expand", "done", "interrupted"}
  /\ IF pc = "done" THEN ind = SourceSize + 1 ELSE ind \in Stacks
  /\ queue \subseteq Ids /\ current \in Ids \cup {Unset}
  /\ pending \subseteq 1 .. Len(input.options)
  /\ actual \in Stacks \cup {Unset}

Derived == \A h \in Ids : EndsDerivation(input, hypo, h)

\* Stack k, to which I came and of which G live.
Holds(H, cf, I, d, k, stk, ar, G) ==
  /\ StackSound(H, cf, I, stk)
  /\ IsSized(H, cf, d, k, stk)
  /\ Owned(stk.hypos, ar, G)
  /\ Dominated(H, stk.hypos, ar)

StacksSound ==
  \A k \in Stacks :
    Holds(hypo, conf, Came(k), input.maxDistortion, k, stack[k], arcs, Living(k))

ArcsKept ==
  /\ \A h \in deleted : arcs[h] = {}
  /\ ~conf.nBest => NoArcs(arcs)
  /\ \A k \in Stacks : Open(k) => Knows(stack[k].hypos, arcs, winning)

\* Back pointers lead to open stacks.
PrevOpen ==
  \A h \in Ids :
    LET g == hypo[h].prev
    IN  g # NoHypothesis => /\ g \in Ids /\ Covered(g) < Covered(h)
                            /\ Open(Covered(g)) /\ g \in stack[Covered(g)].hypos

\* The work in hand belongs to the stack that is being expanded.
InHand ==
  /\ current # Unset => pc = "expand" /\ current \in stack[ind].hypos
                        /\ pending \subseteq Allowed(current)
  /\ pending # {} => current # Unset
  /\ queue # {} => pc = "expand" /\ queue \subseteq stack[ind].hypos

\* A stack whose turn comes has a hypothesis: until then, one is in it, or is
\* to come from the work in hand.
Onward ==
  input.constraint = <<>> /\ Consistent(input.rc) =>
    /\ \A k \in Stacks : k <= ind => stack[k].hypos # {}
    /\ pc = "expand" /\ ind < SourceSize =>
         \/ stack[ind + 1].hypos # {}
         \/ queue # {}
         \/ WordPending(input, pending)

IInv ==
  /\ Types
  /\ Derived
  /\ StacksSound
  /\ ArcsKept
  /\ PrevOpen
  /\ InHand
  /\ Onward

------------------------------------------------------------------------------
(****************************************************************************)
(* What the invariant says of the data.                                     *)
(****************************************************************************)

LEMMA Facts ==
  ASSUME Types, Derived
  PROVE  /\ Ids = 1 .. Len(hypo) /\ Len(hypo) \in Nat
         /\ \A h \in Ids : /\ hypo[h] \in Hypotheses /\ Covered(h) \in Stacks
                           /\ Content(hypo[h]) \in AllDerivations(input)
         /\ AreHypotheses(hypo, Ids)
         /\ \A k : Came(k) \subseteq Ids /\ AreHypotheses(hypo, Came(k))
         /\ IsConf(conf)
         /\ conf.diversity > 0 => input.maxDistortion \in Nat
         /\ IsConstraint(input.rc) /\ IsLimit(input.maxDistortion)
<1>1. Ids = 1 .. Len(hypo) /\ Len(hypo) \in Nat /\ \A h \in Ids : hypo[h] \in Hypotheses
  BY DEF Types, Ids
<1>2. \A h \in Ids : /\ NegInf < hypo[h].total /\ Covered(h) \in Stacks
                     /\ Content(hypo[h]) \in AllDerivations(input)
  BY <1>1, DerivedAbove DEF Types, Derived, Covered, Stacks
<1>3. IsFiniteSet(Ids)
  BY <1>1, FS_Interval
<1>4. AreHypotheses(hypo, Ids)
  BY <1>1, <1>2, <1>3 DEF AreHypotheses
<1>5. \A k : Came(k) \subseteq Ids
  BY DEF Came
<1>6. \A k : IsFiniteSet(Came(k))
  BY <1>3, <1>5, FS_Subset
<1>7. \A k : AreHypotheses(hypo, Came(k))
  BY <1>4, <1>5, <1>6 DEF AreHypotheses
<1>8. IsConf(conf)
  BY ConfAssumption DEF IsConf, Types
<1>9. conf.diversity > 0 => input.maxDistortion \in Nat
  BY DiversityAssumption DEF Types
<1>10. IsConstraint(input.rc) /\ IsLimit(input.maxDistortion)
  BY InputAssumption DEF IsLimit, Types
<1>11. QED
  BY <1>1, <1>2, <1>4, <1>5, <1>7, <1>8, <1>9, <1>10

------------------------------------------------------------------------------
(****************************************************************************)
(* The seed.                                                                *)
(****************************************************************************)

LEMMA EmptyHolds ==
  ASSUME NEW H, NEW cf, IsConf(cf), NEW d, cf.diversity > 0 => d \in Nat,
         NEW k, NEW ar
  PROVE  Holds(H, cf, {}, d, k, EmptyStack, ar, {})
<1> DEFINE e == EmptyStack
<1>1. e.hypos = {} /\ e.best = NegInf /\ e.worst = NegInf
      /\ e.divWorst = [b \in Bitmaps |-> NegInf]
  BY DEF EmptyStack
<1>2. IsStack({}, e)
  BY NegInfAssumption DEF IsStack, EmptyStack
<1> HIDE DEF e
<1>3. BestSeen(H, {}, e)
  BY <1>1 DEF BestSeen
<1>4. Justified(H, cf, {}, e)
  BY <1>1, NegInfAssumption DEF Justified
<1>5. Diverse(H, cf, {}, e)
  <2>1. \A b : Covering(H, {}, b) = {}
    BY DEF Covering
  <2>2. \A b : Keys(H, {}, b) = {}
    BY DEF Keys
  <2>3. Cardinality({}) = 0
    BY FS_EmptySet
  <2>4. QED
    BY <1>1, <2>1, <2>2, <2>3 DEF Diverse
<1>6. IsSized(H, cf, d, k, e)
  <2>1. Cardinality({}) = 0
    BY FS_EmptySet
  <2>2. ToleratedSize(cf, d) \in Nat
    <3>1. cf.stackSize \in Nat \ {0} /\ cf.diversity \in Nat
      BY DEF IsConf
    <3>2. CASE cf.diversity > 0
      <4>1. 2 ^ d \in Nat
        BY <3>2, PowerIsNatural
      <4>2. cf.diversity * 2 ^ d \in Nat
        BY <3>1, <4>1
      <4>3. QED
        BY <3>1, <3>2, <4>2 DEF ToleratedSize
    <3>3. CASE ~(cf.diversity > 0)
      BY <3>1, <3>3 DEF ToleratedSize
    <3>4. QED
      BY <3>2, <3>3
  <2>3. Near(H, e.hypos, d, k)
    BY <1>1 DEF Near
  <2>4. QED
    BY <1>1, <2>1, <2>2, <2>3 DEF IsSized
<1>7. Owned(e.hypos, ar, {}) /\ Dominated(H, e.hypos, ar)
  BY <1>1 DEF Owned, Dominated
<1>8. QED
  BY <1>2, <1>3, <1>4, <1>5, <1>6, <1>7 DEF Holds, StackSound, e


LEMMA SeedHolds ==
  ASSUME NEW H, H = <<Seed>>, NEW cf, IsConf(cf), NEW d, cf.diversity > 0 => d \in Nat,
         NegInf < Seed.total, NEW stk, stk = Insert(H, cf, EmptyStack, 1)
  PROVE  Holds(H, cf, {1}, d, 0, stk, <<{}>>, {1})
<1> DEFINE e == EmptyStack
<1>1. H[1] = Seed /\ Seed \in Hypotheses /\ Cardinality(Seed.bitmap) = 0
      /\ Seed.bitmap = {}
  BY SeedTyped DEF Seed
<1>2. Holds(H, cf, {}, d, 0, e, <<{}>>, {})
  BY EmptyHolds
<1>3. StackSound(H, cf, {}, e) /\ IsStack({}, e) /\ e.hypos = {}
  BY <1>2 DEF Holds, StackSound, EmptyStack
<1>4. AreHypotheses(H, {} \cup {1})
  <2>1. IsFiniteSet({1}) /\ {} \cup {1} = {1}
    BY FS_Singleton
  <2>2. AreHypotheses(H, {1})
    BY <1>1, <2>1 DEF AreHypotheses
  <2>3. QED
    BY <2>1, <2>2
<1>5. 1 \notin {} /\ Without(e, 1) = e
  BY <1>3, NothingOut
<1>6. Yields(H, e, 1, 1)
  BY <1>3 DEF Yields
<1>7. StackSound(H, cf, {} \cup {1}, Insert(H, cf, Without(e, 1), 1))
  BY <1>3, <1>4, <1>5, <1>6, InsertSound
<1>8. StackSound(H, cf, {1}, stk)
  BY <1>5, <1>7
<1>9. stk.hypos = {1}
  BY <1>3 DEF Insert
<1>10. Near(H, {1}, d, 0)
  BY <1>1 DEF Near, Window
<1>11. Cardinality({1}) <= ToleratedSize(cf, d)
  <2>1. Cardinality({1}) = 1
    BY FS_Singleton
  <2>2. cf.stackSize \in Nat \ {0} /\ cf.diversity \in Nat
    BY DEF IsConf
  <2>3. CASE cf.diversity > 0
    <3>1. 2 ^ d \in Nat
      BY <2>3, PowerIsNatural
    <3>2. cf.diversity * 2 ^ d \in Nat
      BY <2>2, <3>1
    <3>3. QED
      BY <2>1, <2>2, <2>3, <3>2 DEF ToleratedSize
  <2>4. CASE ~(cf.diversity > 0)
    BY <2>1, <2>2, <2>4 DEF ToleratedSize
  <2>5. QED
    BY <2>3, <2>4
<1>12. IsSized(H, cf, d, 0, stk)
  BY <1>9, <1>10, <1>11 DEF IsSized
<1>13. Owned({1}, <<{}>>, {1}) /\ Dominated(H, {1}, <<{}>>)
  BY DEF Owned, Dominated
<1>14. QED
  BY <1>8, <1>9, <1>12, <1>13 DEF Holds

LEMMA InitIInv == Init => IInv
<1> SUFFICES ASSUME Init PROVE IInv
  OBVIOUS
<1>1. /\ input \in Inputs /\ conf \in Confs /\ hypo = <<Seed>> /\ arcs = <<{}>>
      /\ winning = <<Unset>> /\ deleted = {} /\ pc = "stack" /\ ind = 0 /\ queue = {}
      /\ current = Unset /\ pending = {} /\ actual = Unset
  BY DEF Init
<1>2. Ids = {1} /\ hypo[1] = Seed /\ Len(hypo) = 1 /\ arcs[1] = {}
      /\ DOMAIN arcs = {1} /\ winning[1] = Unset
  BY <1>1 DEF Ids
<1>3. 0 \in Stacks
  BY SourceSizeAssumption DEF Stacks
<1>4. Types
  <2>1. hypo \in Seq(Hypotheses) /\ Len(hypo) >= 1
    BY <1>1, <1>2, SeedTyped
  <2>2. DOMAIN stack = Stacks
    BY DEF Init
  <2>3. arcs \in [Ids -> SUBSET Ids] /\ winning \in [Ids -> Ids \cup {Unset}]
    BY <1>1, <1>2
  <2>4. ind \in Stacks /\ pc # "done"
    BY <1>1, <1>3
  <2>5. QED
    BY <1>1, <2>1, <2>2, <2>3, <2>4 DEF Types
<1>5. Derived
  <2>1. Seed \in Derivations(input)[0]
    BY DerivationsAre
  <2>2. OnPath(input.rc, {}, NoSpan, input.maxDistortion)
    BY PathSeed
  <2>3. /\ Seed.bitmap = {} /\ Seed.range = NoSpan /\ Seed.prev = 0
        /\ Seed.total = 0 /\ Seed.score = 0
    BY DEF Seed, NoHypothesis
  <2>4. EndsDerivation(input, hypo, 1)
    BY <1>2, <2>1, <2>2, <2>3, SeedTyped DEF EndsDerivation
  <2>5. QED
    BY <1>2, <2>4 DEF Derived
<1>6. /\ IsConf(conf) /\ NegInf < Seed.total
      /\ conf.diversity > 0 => input.maxDistortion \in Nat
  BY <1>2, <1>4, <1>5, Facts DEF AreHypotheses
<1>7. Came(0) = {1} /\ \A k : k # 0 => Came(k) = {}
  BY <1>2, SeedTyped DEF Came, Covered
<1>8. Living(0) = {1} /\ \A k : k # 0 => Living(k) = {}
  BY <1>1, <1>7 DEF Living
<1>9. /\ stack[0] = Insert(<<Seed>>, conf, EmptyStack, 1)
      /\ \A k \in Stacks : k # 0 => stack[k] = EmptyStack
  BY <1>3 DEF Init
<1>10. Holds(hypo, conf, {1}, input.maxDistortion, 0, stack[0], arcs, {1})
  BY <1>1, <1>6, <1>9, SeedHolds
<1>11. \A k \in Stacks : k # 0 =>
         Holds(hypo, conf, {}, input.maxDistortion, k, stack[k], arcs, {})
  BY <1>6, <1>9, EmptyHolds
<1>12. StacksSound
  BY <1>7, <1>8, <1>10, <1>11 DEF StacksSound
<1>13. ArcsKept
  <2>1. \A k \in Stacks : ~Open(k)
    BY <1>1 DEF Open, Stacks
  <2>2. NoArcs(arcs)
    BY <1>2 DEF NoArcs
  <2>3. QED
    BY <1>1, <2>1, <2>2 DEF ArcsKept
<1>14. PrevOpen
  BY <1>2 DEF PrevOpen, Seed
<1>15. InHand
  BY <1>1 DEF InHand
<1>16. Onward
  <2>1. 1 \in stack[0].hypos
    BY <1>9 DEF Insert
  <2>2. \A k \in Stacks : k <= ind => k = 0
    BY <1>1 DEF Stacks
  <2>3. QED
    BY <1>1, <2>1, <2>2 DEF Onward
<1>17. QED
  BY <1>4, <1>5, <1>12, <1>13, <1>14, <1>15, <1>16 DEF IInv


------------------------------------------------------------------------------
(****************************************************************************)
(* The steps that make no hypothesis and touch no stack.                    *)
(****************************************************************************)

\* What is said of the hypotheses and the stacks by themselves stays.
LEMMA DataStays ==
  ASSUME IInv, UNCHANGED <<input, conf, hypo, stack, arcs, winning, deleted>>
  PROVE  /\ Derived' /\ StacksSound'
         /\ Ids' = Ids /\ \A k : Came(k)' = Came(k) /\ Living(k)' = Living(k)
         /\ \A h : Covered(h)' = Covered(h) /\ Allowed(h)' = Allowed(h)
<1>1. Ids' = Ids /\ \A h : Covered(h)' = Covered(h) /\ Allowed(h)' = Allowed(h)
  BY DEF Ids, Covered, Allowed
<1>2. \A k : Came(k)' = Came(k) /\ Living(k)' = Living(k)
  BY <1>1 DEF Came, Living
<1>3. Derived'
  BY <1>1 DEF IInv, Derived
<1>4. StacksSound'
  BY <1>1, <1>2 DEF IInv, StacksSound, Stacks
<1>5. QED
  BY <1>1, <1>2, <1>3, <1>4

LEMMA TimeOutIInv ==
  ASSUME IInv, TimeOut
  PROVE  IInv'
<1>1. /\ UNCHANGED <<input, conf, hypo, stack, arcs, winning, deleted, ind, queue,
                     current, pending, actual>>
      /\ pc = "stack" /\ pc' = "interrupted"
  BY DEF TimeOut
<1>2. Derived' /\ StacksSound' /\ Ids' = Ids
      /\ \A h : Covered(h)' = Covered(h) /\ Allowed(h)' = Allowed(h)
  BY <1>1, DataStays
<1>3. Types'
  BY <1>1, <1>2 DEF IInv, Types, Stacks
<1>4. \A k : Open(k)' <=> Open(k)
  BY <1>1 DEF Open
<1>5. ArcsKept'
  BY <1>1, <1>4 DEF IInv, ArcsKept, Stacks
<1>6. PrevOpen'
  BY <1>1, <1>2, <1>4 DEF IInv, PrevOpen
<1>7. InHand'
  BY <1>1, <1>2 DEF IInv, InHand
<1>8. Onward'
  BY <1>1 DEF IInv, Onward, Stacks
<1>9. QED
  BY <1>2, <1>3, <1>5, <1>6, <1>7, <1>8 DEF IInv

LEMMA FinishIInv ==
  ASSUME IInv, FinishStack
  PROVE  IInv'
<1>1. /\ UNCHANGED <<input, conf, hypo, stack, arcs, winning, deleted, queue, pending>>
      /\ pc = "expand" /\ pending = {} /\ queue = {} /\ actual' = ind /\ ind' = ind + 1
      /\ pc' = (IF ind = SourceSize THEN "done" ELSE "stack") /\ current' = Unset
  BY DEF FinishStack
<1>2. Derived' /\ StacksSound' /\ Ids' = Ids
      /\ \A h : Covered(h)' = Covered(h) /\ Allowed(h)' = Allowed(h)
  BY <1>1, DataStays
<1>3. ind \in Stacks /\ ind \in 0 .. SourceSize
  BY <1>1 DEF IInv, Types, Stacks
<1>4. IF pc' = "done" THEN ind' = SourceSize + 1 ELSE ind' \in Stacks
  BY <1>1, <1>3, SourceSizeAssumption DEF Stacks
<1>5. Types'
  BY <1>1, <1>2, <1>3, <1>4 DEF IInv, Types, Stacks
<1>6. \A k \in Stacks : Open(k)' <=> Open(k)
  BY <1>1, <1>3, SourceSizeAssumption DEF Open, Stacks
<1>7. ArcsKept'
  BY <1>1, <1>6 DEF IInv, ArcsKept, Stacks
<1>8. \A h \in Ids : Covered(h) \in Stacks
  BY Facts DEF IInv
<1>9. PrevOpen'
  BY <1>1, <1>2, <1>6, <1>8 DEF IInv, PrevOpen
<1>10. InHand'
  BY <1>1 DEF InHand
<1>11. Onward'
  <2> SUFFICES ASSUME input.constraint = <<>>, Consistent(input.rc)
               PROVE  /\ \A k \in Stacks : k <= ind + 1 => stack[k].hypos # {}
                      /\ pc' # "expand"
    BY <1>1 DEF Onward, Stacks
  <2>1. \A k \in Stacks : k <= ind => stack[k].hypos # {}
    BY DEF IInv, Onward
  <2>2. ind < SourceSize => stack[ind + 1].hypos # {}
    BY <1>1 DEF IInv, Onward, WordPending
  <2>3. \A k \in Stacks : k <= ind + 1 => k <= ind \/ (k = ind + 1 /\ ind < SourceSize)
    BY <1>3, SourceSizeAssumption DEF Stacks
  <2>4. QED
    BY <1>1, <2>1, <2>2, <2>3
<1>12. QED
  BY <1>2, <1>5, <1>7, <1>9, <1>10, <1>11 DEF IInv

LEMMA BeginIInv ==
  ASSUME IInv, NEW h \in queue, ProcessOneHypothesis(h)
  PROVE  IInv'
<1>1. /\ UNCHANGED <<input, conf, hypo, stack, arcs, winning, deleted, pc, ind, actual>>
      /\ pc = "expand" /\ pending = {} /\ queue' = queue \ {h} /\ current' = h
      /\ pending' = Allowed(h)
  BY DEF ProcessOneHypothesis
<1>2. Derived' /\ StacksSound' /\ Ids' = Ids
      /\ \A g : Covered(g)' = Covered(g) /\ Allowed(g)' = Allowed(g)
  BY <1>1, DataStays
<1>3. h \in Ids /\ h \in stack[ind].hypos /\ ind \in Stacks
  BY <1>1 DEF IInv, Types, InHand
<1>4. Allowed(h) \subseteq 1 .. Len(input.options)
  BY DEF Allowed, MayFollow
<1>5. Types'
  BY <1>1, <1>2, <1>3, <1>4 DEF IInv, Types, Stacks
<1>6. \A k : Open(k)' <=> Open(k)
  BY <1>1 DEF Open
<1>7. ArcsKept'
  BY <1>1, <1>6 DEF IInv, ArcsKept, Stacks
<1>8. PrevOpen'
  BY <1>1, <1>2, <1>6 DEF IInv, PrevOpen
<1>9. h # Unset
  BY <1>3, Facts DEF IInv, Unset
<1>10. InHand'
  BY <1>1, <1>2, <1>3, <1>9 DEF IInv, InHand
<1>11. Onward'
  <2> SUFFICES ASSUME input.constraint = <<>>, Consistent(input.rc)
               PROVE  /\ \A k \in Stacks : k <= ind => stack[k].hypos # {}
                      /\ ind < SourceSize => WordPending(input, Allowed(h))
    BY <1>1 DEF Onward, Stacks
  <2>1. \A k \in Stacks : k <= ind => stack[k].hypos # {}
    BY DEF IInv, Onward
  <2>2. ASSUME ind < SourceSize PROVE WordPending(input, Allowed(h))
    <3>1. h \in Came(ind)
      BY <1>3 DEF IInv, StacksSound, Holds, StackSound, IsStack
    <3>2. Cardinality(hypo[h].bitmap) = ind
      BY <3>1 DEF Came, Covered
    <3>3. hypo[h] \in Hypotheses /\ EndsDerivation(input, hypo, h) /\ input \in Inputs
      BY <1>3, Facts DEF IInv, Derived, Types
    <3>4. ~IsComplete(hypo[h].bitmap)
      <4>1. SUFFICES ASSUME IsComplete(hypo[h].bitmap) PROVE FALSE
        OBVIOUS
      <4>2. hypo[h].bitmap = Positions
        BY <3>3, <4>1 DEF Hypotheses, Bitmaps, IsComplete, Gaps
      <4>3. Cardinality(Positions) = SourceSize
        BY SourceSizeAssumption, FS_Interval DEF Positions
      <4>4. QED
        BY <1>3, <2>2, <3>2, <4>2, <4>3, SourceSizeAssumption DEF Stacks
    <3>5. OnPath(input.rc, hypo[h].bitmap, hypo[h].range, input.maxDistortion)
      BY <3>3 DEF EndsDerivation
    <3>6. QED
      BY <3>3, <3>4, <3>5, WordFollows DEF Allowed
  <2>3. QED
    BY <2>1, <2>2
<1>12. QED
  BY <1>2, <1>5, <1>7, <1>8, <1>10, <1>11 DEF IInv


------------------------------------------------------------------------------
(****************************************************************************)
(* A stack is opened.                                                       *)
(****************************************************************************)

\* Pruning leaves s of the stack stk, cleaning up the arc lists a of ar, and
\* the two delete gone.
Opens(H, cf, stk, ar, s, a, gone) ==
  LET out == Outcome(s, ar, Deleted(ar, stk.hypos \ s.hypos))
  IN  /\ s \in PruneToSize(H, cf, stk, cf.stackSize)
      /\ a \in CleanupArcList(H, cf, s, out.arcs)
      /\ gone = out.gone \cup CutArcs(out.arcs, a, s.hypos)

LEMMA OpenHolds ==
  ASSUME NEW H, NEW cf, IsConf(cf), NEW I, AreHypotheses(H, I),
         NEW d, cf.diversity > 0 => d \in Nat, NEW k, NEW stk, NEW ar, NEW G,
         Holds(H, cf, I, d, k, stk, ar, G), G \subseteq DOMAIN ar,
         NEW s, NEW a, NEW gone, Opens(H, cf, stk, ar, s, a, gone)
  PROVE  /\ Holds(H, cf, I, d, k, s, a, G \ gone)
         /\ Touched(ar, G, a, gone)
         /\ NoArcs(ar) => NoArcs(a)
<1>0. PICK out :
        /\ out = Outcome(s, ar, Deleted(ar, stk.hypos \ s.hypos))
        /\ s \in PruneToSize(H, cf, stk, cf.stackSize)
        /\ a \in CleanupArcList(H, cf, s, out.arcs)
        /\ gone = out.gone \cup CutArcs(out.arcs, a, s.hypos)
  BY DEF Opens
<1>1. /\ StackSound(H, cf, I, stk) /\ IsSized(H, cf, d, k, stk)
      /\ Owned(stk.hypos, ar, G) /\ Dominated(H, stk.hypos, ar) /\ IsStack(I, stk)
  BY DEF Holds, StackSound
<1>2. StackSound(H, cf, I, s) /\ s.hypos \subseteq stk.hypos
  BY <1>0, <1>1, PruneSound
<1>3. Near(H, stk.hypos, d, k)
  BY <1>1 DEF IsSized
<1>4. Cardinality(s.hypos) <= ToleratedSize(cf, d)
  BY <1>0, <1>1, <1>3, PruneSize
<1>5. IsSized(H, cf, d, k, s)
  BY <1>2, <1>3, <1>4 DEF IsSized, Near
<1>6. OutcomeOwned(H, G, ar, [stack |-> s, arcs |-> a, gone |-> gone])
  BY <1>0, <1>1, <1>2, OpenOwned
<1> DEFINE o == [stack |-> s, arcs |-> a, gone |-> gone]
<1>7. o.stack = s /\ o.arcs = a /\ o.gone = gone
  OBVIOUS
<1> HIDE DEF o
<1>8. OutcomeOwned(H, G, ar, o)
  BY <1>6 DEF o
<1>9. Owned(s.hypos, a, G \ gone) /\ Dominated(H, s.hypos, a) /\ Touched(ar, G, a, gone)
  BY <1>7, <1>8 DEF OutcomeOwned, Touched
<1>10. ASSUME NoArcs(ar) PROVE NoArcs(a)
  <2>1. DOMAIN out.arcs = DOMAIN ar /\ \A x \in DOMAIN ar : out.arcs[x] \subseteq ar[x]
    BY <1>0 DEF Outcome
  <2>2. Shortened(out.arcs, a, s.hypos)
    BY <1>0, CleanupIs
  <2>3. QED
    BY <1>10, <2>1, <2>2 DEF Shortened, NoArcs
<1>11. QED
  BY <1>2, <1>5, <1>9, <1>10 DEF Holds

\* The other stacks do not notice: I came to one of them, G of those live.
LEMMA OthersHold ==
  ASSUME NEW H, NEW F, NEW cf, NEW I, \A x \in I : F[x] = H[x], NEW d, NEW k, NEW stk,
         NEW ar, NEW G, G \subseteq I, Holds(H, cf, I, d, k, stk, ar, G),
         NEW new, \A x \in G : new[x] = ar[x]
  PROVE  Holds(F, cf, I, d, k, stk, new, G)
<1>1. /\ StackSound(H, cf, I, stk) /\ IsSized(H, cf, d, k, stk)
      /\ Owned(stk.hypos, ar, G) /\ Dominated(H, stk.hypos, ar)
      /\ stk.hypos \subseteq I
  BY DEF Holds, StackSound, IsStack
<1>2. StackSound(F, cf, I, stk)
  BY <1>1, SameSound
<1>3. Owned(stk.hypos, new, G) /\ Dominated(F, stk.hypos, new)
  BY <1>1, SameOwned
<1>4. IsSized(F, cf, d, k, stk)
  BY <1>1 DEF IsSized, Near
<1>5. QED
  BY <1>2, <1>3, <1>4 DEF Holds

\* A stack to which something came has a hypothesis.
LEMMA NotEmptied ==
  ASSUME NEW H, NEW cf, NEW I, NEW x \in I, NEW d, NEW k, NEW stk, NEW ar, NEW G,
         Holds(H, cf, I, d, k, stk, ar, G)
  PROVE  stk.hypos # {}
BY DEF Holds, StackSound, BestSeen


\* In a state of the invariant, what belongs to a stack belongs to no other.
LEMMA Apart ==
  ASSUME IInv
  PROVE  /\ \A k \in Stacks : /\ Living(k) \subseteq Came(k) /\ Came(k) \subseteq Ids
                              /\ stack[k].hypos \subseteq Living(k)
                              /\ \A w \in stack[k].hypos : arcs[w] \subseteq Living(k)
         /\ \A k, l : k # l => Came(k) \cap Came(l) = {}
         /\ DOMAIN arcs = Ids /\ DOMAIN winning = Ids
<1>1. \A k : Living(k) \subseteq Came(k) /\ Came(k) \subseteq Ids
  BY DEF Living, Came
<1>2. \A k, l : k # l => Came(k) \cap Came(l) = {}
  BY DEF Came
<1>3. \A k \in Stacks : Owned(stack[k].hypos, arcs, Living(k))
  BY DEF IInv, StacksSound, Holds
<1>4. \A k \in Stacks : /\ stack[k].hypos \subseteq Living(k)
                        /\ \A w \in stack[k].hypos : arcs[w] \subseteq Living(k)
  BY <1>3 DEF Owned
<1>5. QED
  BY <1>1, <1>2, <1>4 DEF IInv, Types

LEMMA OpenIInv ==
  ASSUME IInv, OpenStack
  PROVE  IInv'
<1> DEFINE d == input.maxDistortion
           S(s) == Outcome(s, arcs, Deleted(arcs, stack[ind].hypos \ s.hypos))
<1>1. /\ UNCHANGED <<input, conf, hypo, ind, current, pending, actual>>
      /\ pc = "stack" /\ pc' = "expand"
  BY DEF OpenStack
<1>2. ind \in Stacks
  BY <1>1 DEF IInv, Types
<1>3. PICK s \in PruneToSize(hypo, conf, stack[ind], conf.stackSize) :
        \E a \in CleanupArcList(hypo, conf, s, S(s).arcs) :
          /\ stack' = [stack EXCEPT ![ind] = s]
          /\ arcs' = a
          /\ deleted' = deleted \cup S(s).gone
                          \cup (UNION {S(s).arcs[x] \ a[x] : x \in s.hypos})
          /\ winning' = Winners(conf, s, a, winning)
          /\ queue' = s.hypos
  BY DEF OpenStack
<1>4. PICK out : out = S(s)
  OBVIOUS
<1>5. /\ arcs' \in CleanupArcList(hypo, conf, s, out.arcs)
      /\ stack' = [stack EXCEPT ![ind] = s]
      /\ deleted' = deleted \cup out.gone \cup CutArcs(out.arcs, arcs', s.hypos)
      /\ winning' = Winners(conf, s, arcs', winning) /\ queue' = s.hypos
  BY <1>3, <1>4 DEF CutArcs
<1> HIDE DEF S
<1>6. PICK gone : gone = out.gone \cup CutArcs(out.arcs, arcs', s.hypos)
  OBVIOUS
<1>7. Types /\ Derived /\ StacksSound /\ ArcsKept /\ PrevOpen /\ InHand /\ Onward
  BY DEF IInv
<1>8. /\ IsConf(conf) /\ (conf.diversity > 0 => d \in Nat) /\ AreHypotheses(hypo, Came(ind))
      /\ \A h \in Ids : Covered(h) \in Stacks
  BY <1>7, Facts
<1>9. /\ DOMAIN arcs = Ids /\ DOMAIN winning = Ids /\ Living(ind) \subseteq Ids
      /\ \A k, l : k # l => Came(k) \cap Came(l) = {}
      /\ \A k : Living(k) \subseteq Came(k) /\ Came(k) \subseteq Ids
  BY <1>2, Apart DEF Living, Came
<1>10. Holds(hypo, conf, Came(ind), d, ind, stack[ind], arcs, Living(ind))
  BY <1>2, <1>7 DEF StacksSound
<1>11. /\ Holds(hypo, conf, Came(ind), d, ind, s, arcs', Living(ind) \ gone)
       /\ Touched(arcs, Living(ind), arcs', gone)
       /\ NoArcs(arcs) => NoArcs(arcs')
  <2>1. PICK H, cf, I, stk, ar, G, a, e, k :
          /\ H = hypo /\ cf = conf /\ I = Came(ind) /\ stk = stack[ind] /\ ar = arcs
          /\ G = Living(ind) /\ a = arcs' /\ e = d /\ k = ind
    OBVIOUS
  <2>2. /\ IsConf(cf) /\ AreHypotheses(H, I) /\ (cf.diversity > 0 => e \in Nat)
        /\ Holds(H, cf, I, e, k, stk, ar, G) /\ G \subseteq DOMAIN ar
    BY <1>8, <1>9, <1>10, <2>1
  <2>3. Opens(H, cf, stk, ar, s, a, gone)
    BY <1>3, <1>4, <1>5, <1>6, <2>1 DEF S, Opens
  <2>4. /\ Holds(H, cf, I, e, k, s, a, G \ gone)
        /\ Touched(ar, G, a, gone)
        /\ NoArcs(ar) => NoArcs(a)
    BY <2>2, <2>3, OpenHolds
  <2>5. QED
    BY <2>1, <2>4
<1>12. /\ deleted' = deleted \cup gone
       /\ gone \subseteq Living(ind) /\ DOMAIN arcs' = Ids
       /\ \A x \in Ids \ Living(ind) : arcs'[x] = arcs[x]
       /\ \A x \in gone : arcs'[x] = {}
  BY <1>5, <1>6, <1>9, <1>11 DEF Touched
<1>13. stack'[ind] = s /\ \A k \in Stacks \ {ind} : stack'[k] = stack[k]
  BY <1>2, <1>5, <1>7 DEF Types
<1>14. /\ Ids' = Ids /\ \A h : Covered(h)' = Covered(h) /\ Allowed(h)' = Allowed(h)
       /\ \A k : Came(k)' = Came(k)
  <2>1. Ids' = Ids /\ \A h : Covered(h)' = Covered(h) /\ Allowed(h)' = Allowed(h)
    BY <1>1 DEF Ids, Covered, Allowed
  <2>2. QED
    BY <2>1 DEF Came
<1>15. \A k : Living(k)' = IF k = ind THEN Living(k) \ gone ELSE Living(k)
  <2>1. \A k : k # ind => Came(k) \cap gone = {}
    BY <1>9, <1>12
  <2>2. \A k : Living(k)' = Came(k) \ (deleted \cup gone)
    BY <1>12, <1>14 DEF Living
  <2>3. QED
    BY <2>1, <2>2 DEF Living
<1>16. Derived'
  BY <1>1, <1>7, <1>14 DEF Derived
<1>17. StacksSound'
  <2>1. ASSUME NEW k \in Stacks
        PROVE  Holds(hypo, conf, Came(k), d, k, stack'[k], arcs', Living(k)')
    <3>1. CASE k = ind
      BY <1>11, <1>13, <1>15, <3>1
    <3>2. CASE k # ind
      <4>1. Holds(hypo, conf, Came(k), d, k, stack[k], arcs, Living(k))
        BY <1>7 DEF StacksSound
      <4>2. \A x \in Living(k) : arcs'[x] = arcs[x]
        BY <1>9, <1>12, <3>2
      <4>3. Holds(hypo, conf, Came(k), d, k, stack[k], arcs', Living(k))
        BY <1>9, <4>1, <4>2, OthersHold
      <4>4. QED
        BY <1>13, <1>15, <3>2, <4>3
    <3>3. QED
      BY <3>1, <3>2
  <2>2. QED
    BY <1>1, <1>14, <2>1 DEF StacksSound, Stacks
<1>18. s.hypos \subseteq Living(ind) /\ Owned(s.hypos, arcs', Living(ind) \ gone)
  BY <1>11 DEF Holds, Owned
<1>30. PICK L : L = Living(ind) \ gone
  OBVIOUS
<1>31. Owned(s.hypos, arcs', L)
  BY <1>18, <1>30
<1>32. \A x \in Ids : x \notin L => winning'[x] = winning[x]
  <2>1. \A x \in DOMAIN winning : x \notin L =>
          Winners(conf, s, arcs', winning)[x] = winning[x]
    <3>1. PICK w : w = winning
      OBVIOUS
    <3>2. PICK a : a = arcs'
      OBVIOUS
    <3>3. Owned(s.hypos, a, L)
      BY <1>31, <3>2
    <3>5. PICK c : c = conf
      OBVIOUS
    <3>4. \A y \in s.hypos : y \in L /\ a[y] \subseteq L
      BY <3>3 DEF Owned
    <3>6. \A x \in DOMAIN w : x \notin L => Winners(c, s, a, w)[x] = w[x]
      BY <3>4 DEF Winners
    <3>7. QED
      BY <3>1, <3>2, <3>5, <3>6
  <2>2. QED
    BY <1>5, <1>9, <2>1
<1>19. Types'
  <2>1. DOMAIN stack' = Stacks
    BY <1>5, <1>7 DEF Types
  <2>2. winning' \in [Ids -> Ids \cup {Unset}]
    BY <1>5, <1>7, <1>9, <1>18, WinnersTyped DEF Types
  <2>3. arcs' \in [Ids -> SUBSET Ids]
    <3>1. arcs' \in CleanupArcList(hypo, conf, s, out.arcs)
      BY <1>5
    <3>2. Shortened(out.arcs, arcs', s.hypos)
      BY <3>1, CleanupIs
    <3>3. DOMAIN out.arcs = Ids /\ \A x \in Ids : out.arcs[x] \subseteq arcs[x]
      BY <1>4, <1>9 DEF Outcome, S
    <3>4. \A x \in Ids : arcs'[x] \subseteq Ids
      BY <1>7, <3>2, <3>3 DEF Shortened, Types
    <3>5. arcs' = [x \in Ids |-> arcs'[x]]
      BY <1>12, <3>1 DEF CleanupArcList
    <3>6. QED
      BY <3>4, <3>5
  <2>4. deleted' \subseteq Ids /\ queue' \subseteq Ids
    BY <1>5, <1>7, <1>9, <1>12, <1>18 DEF Types
  <2>5. QED
    BY <1>1, <1>2, <1>7, <1>14, <2>1, <2>2, <2>3, <2>4 DEF Types, Stacks
<1>20. \A k \in Stacks : Open(k)' <=> Open(k) \/ k = ind
  BY <1>1 DEF Open
<1>21. \A k \in Stacks : Open(k) => k # ind
  BY <1>1, <1>2, SourceSizeAssumption DEF Open, Stacks
<1>22. ArcsKept'
  <2>1. \A h \in deleted' : arcs'[h] = {}
    BY <1>7, <1>9, <1>12 DEF ArcsKept, Living, Types
  <2>2. ~conf.nBest => NoArcs(arcs')
    BY <1>7, <1>11 DEF ArcsKept
  <2>3. ASSUME NEW k \in Stacks, Open(k), k # ind
        PROVE  Knows(stack'[k].hypos, arcs', winning')
    <3>1. Knows(stack[k].hypos, arcs, winning)
      BY <1>7, <2>3 DEF ArcsKept
    <3>2. /\ stack[k].hypos \subseteq Living(k)
          /\ \A w \in stack[k].hypos : arcs[w] \subseteq Living(k)
      BY Apart
    <3>3. \A x \in Living(k) : arcs'[x] = arcs[x] /\ x \in Ids /\ x \notin Living(ind) \ gone
      BY <1>9, <1>12, <2>3
    <3>4. \A x \in Ids : x \notin Living(ind) \ gone => winning'[x] = winning[x]
      BY <1>30, <1>32
    <3>5. \A x \in Living(k) : arcs'[x] = arcs[x] /\ winning'[x] = winning[x]
      BY <3>3, <3>4
    <3>6. stack'[k] = stack[k]
      BY <1>13, <2>3
    <3>7. QED
      BY <3>1, <3>2, <3>5, <3>6 DEF Knows
  <2>4. Knows(stack'[ind].hypos, arcs', winning')
    <3>1. CASE conf.nBest
      <4>1. L \subseteq DOMAIN winning
        BY <1>9, <1>30
      <4> PICK w : w = winning
        OBVIOUS
      <4> PICK c : c = conf
        OBVIOUS
      <4> PICK a : a = arcs'
        OBVIOUS
      <4>2. PICK new : new = Winners(c, s, a, w)
        OBVIOUS
      <4>3. Owned(s.hypos, a, L) /\ c.nBest /\ L \subseteq DOMAIN w
        BY <1>31, <3>1, <4>1
      <4>4. Knows(s.hypos, a, new)
        BY <4>2, <4>3, WinnersKnown
      <4>5. QED
        BY <1>5, <1>13, <4>2, <4>4
    <3>2. CASE ~conf.nBest
      BY <1>9, <1>12, <1>13, <1>18, <2>2, <3>2 DEF Knows, NoArcs
    <3>3. QED
      BY <3>1, <3>2
  <2>5. \A k \in Stacks : Open(k)' => Knows(stack'[k].hypos, arcs', winning')
    BY <1>20, <2>3, <2>4
  <2>6. QED
    BY <1>1, <2>1, <2>2, <2>5 DEF ArcsKept, Stacks
<1>23. PrevOpen'
  <2>1. ASSUME NEW h \in Ids, hypo[h].prev # NoHypothesis
        PROVE  LET g == hypo[h].prev
               IN  /\ g \in Ids /\ Covered(g) < Covered(h)
                   /\ Open(Covered(g))' /\ g \in stack'[Covered(g)].hypos
    <3> DEFINE g == hypo[h].prev
    <3>1. g \in Ids /\ Covered(g) < Covered(h) /\ Open(Covered(g))
          /\ g \in stack[Covered(g)].hypos
      BY <1>7, <2>1 DEF PrevOpen
    <3>2. Covered(g) \in Stacks
      BY <1>8, <3>1
    <3>3. Open(Covered(g))' /\ stack'[Covered(g)] = stack[Covered(g)]
      BY <1>1, <1>13, <1>21, <3>1, <3>2 DEF Open, Covered
    <3>4. QED
      BY <3>1, <3>3
  <2>2. QED
    BY <1>1, <1>14, <2>1 DEF PrevOpen, Open
<1>24. InHand'
  BY <1>1, <1>5, <1>7, <1>13 DEF InHand
<1>25. Onward'
  <2> SUFFICES ASSUME input.constraint = <<>>, Consistent(input.rc)
               PROVE  /\ \A k \in Stacks : k <= ind => stack'[k].hypos # {}
                      /\ queue' # {}
    BY <1>1 DEF Onward, Stacks
  <2>1. \A k \in Stacks : k <= ind => stack[k].hypos # {}
    BY <1>7 DEF Onward
  <2>2. stack[ind].hypos # {}
    BY <1>2, <2>1, SourceSizeAssumption DEF Stacks
  <2>3. PICK x : x \in Came(ind)
    BY <1>2, <2>2, Apart
  <2>4. s.hypos # {}
    BY <1>11, <2>3, NotEmptied
  <2>5. QED
    BY <1>5, <1>13, <2>1, <2>4
<1>26. QED
  BY <1>16, <1>17, <1>19, <1>22, <1>23, <1>24, <1>25 DEF IInv


------------------------------------------------------------------------------
(****************************************************************************)
(* A hypothesis is made.                                                    *)
(****************************************************************************)

\* The arc lists that AddPrune leaves are a function again.
LEMMA AddPruneArcs ==
  ASSUME NEW H, NEW cf, NEW d, NEW stk, NEW ar, NEW h,
         NEW out \in AddPrune(H, cf, d, stk, ar, h)
  PROVE  out.arcs = [x \in DOMAIN out.arcs |-> out.arcs[x]]
<1>1. \A s, a, g : LET o == Outcome(s, a, g) IN o.arcs = [x \in DOMAIN o.arcs |-> o.arcs[x]]
  BY DEF Outcome
<1>2. \E s, a, g : out = Outcome(s, a, g)
  <2>1. ASSUME NEW t, NEW b, NEW l, out \in Added(H, cf, d, t, b, h, l)
        PROVE  \E s, a, g : out = Outcome(s, a, g)
    BY <2>1 DEF Added
  <2>2. CASE TooBad(H, cf, stk, h)
    BY <2>2 DEF AddPrune
  <2>3. CASE ~TooBad(H, cf, stk, h) /\ Twins(H, stk, h) = {}
    <3>1. out \in Added(H, cf, d, stk, ar, h, {})
      BY <2>3 DEF AddPrune
    <3>2. QED
      BY <2>1, <3>1
  <2>4. CASE ~TooBad(H, cf, stk, h) /\ Twins(H, stk, h) # {}
    <3>1. PICK x \in Twins(H, stk, h) : out \in Recombine(H, cf, d, stk, ar, h, x)
      BY <2>4 DEF AddPrune
    <3>2. \/ \E t, b, l : out \in Added(H, cf, d, t, b, h, l)
          \/ \E b, g : out = Outcome(stk, b, g)
      <4>1. CASE H[h].total > H[x].total /\ cf.nBest
        BY <3>1, <4>1 DEF Recombine
      <4>2. CASE H[h].total > H[x].total /\ ~cf.nBest
        BY <3>1, <4>2 DEF Recombine
      <4>3. CASE H[h].total <= H[x].total /\ cf.nBest /\ ~(H[h].total > H[x].total)
        BY <3>1, <4>3 DEF Recombine
      <4>4. CASE ~(H[h].total <= H[x].total /\ cf.nBest) /\ ~(H[h].total > H[x].total)
        BY <3>1, <4>4 DEF Recombine
      <4>5. CASE /\ H[h].total > H[x].total
                 /\ H[h].total <= H[x].total /\ cf.nBest
        BY <4>1, <4>5
      <4>6. QED
        BY <4>1, <4>2, <4>3, <4>4, <4>5
    <3>3. QED
      BY <2>1, <3>2
  <2>5. QED
    BY <2>2, <2>3, <2>4
<1>3. QED
  BY <1>1, <1>2

\* F is H with the hypothesis h, new is ar with its empty arc list.
Newcomer(H, F, d, k, I, G, ar, new, h) ==
  /\ h \notin I /\ G \subseteq I /\ \A x \in I : F[x] = H[x]
  /\ AreHypotheses(F, I \cup {h}) /\ Near(F, {h}, d, k)
  /\ \A x \in G : new[x] = ar[x]
  /\ new[h] = {} /\ G \cup {h} \subseteq DOMAIN new /\ IsArcs(new)

LEMMA ComeHolds ==
  ASSUME NEW H, NEW F, NEW cf, IsConf(cf), NEW I, NEW d, cf.diversity > 0 => d \in Nat,
         NEW k, NEW stk, NEW ar, NEW new, NEW G, NEW h,
         Holds(H, cf, I, d, k, stk, ar, G), Newcomer(H, F, d, k, I, G, ar, new, h),
         NEW out \in AddPrune(F, cf, d, stk, new, h)
  PROVE  /\ Holds(F, cf, I \cup {h}, d, k, out.stack, out.arcs, (G \cup {h}) \ out.gone)
         /\ Touched(new, G \cup {h}, out.arcs, out.gone)
         /\ ~cf.nBest /\ NoArcs(new) => NoArcs(out.arcs)
<1>1. /\ h \notin I /\ G \subseteq I /\ \A x \in I : F[x] = H[x]
      /\ AreHypotheses(F, I \cup {h}) /\ Near(F, {h}, d, k)
      /\ \A x \in G : new[x] = ar[x]
      /\ new[h] = {} /\ G \cup {h} \subseteq DOMAIN new /\ IsArcs(new)
  BY DEF Newcomer
<1>2. Holds(F, cf, I, d, k, stk, new, G)
  BY <1>1, OthersHold
<1>3. /\ StackSound(F, cf, I, stk) /\ IsSized(F, cf, d, k, stk)
      /\ Owned(stk.hypos, new, G) /\ Dominated(F, stk.hypos, new)
  BY <1>2 DEF Holds
<1>4. Arrives(F, cf, I, d, k, stk, new, G, h)
  BY <1>1, <1>3 DEF Arrives
<1>5. Arrived(F, cf, I, d, k, new, G, h, out)
  BY <1>4, AddPruneSound
<1>6. /\ StackSound(F, cf, I \cup {h}, out.stack) /\ IsSized(F, cf, d, k, out.stack)
      /\ OutcomeOwned(F, G \cup {h}, new, out)
  BY <1>5 DEF Arrived
<1>7. /\ Holds(F, cf, I \cup {h}, d, k, out.stack, out.arcs, (G \cup {h}) \ out.gone)
      /\ Touched(new, G \cup {h}, out.arcs, out.gone)
  BY <1>6 DEF Holds, OutcomeOwned, Touched
<1>8. ASSUME ~cf.nBest, NoArcs(new) PROVE NoArcs(out.arcs)
  <2>1. \A x \in stk.hypos : x \in I
    BY <1>3 DEF StackSound, IsStack
  <2>2. (\A x \in stk.hypos : F[x].total \in Int) /\ F[h].total \in Int
    BY <1>1, <2>1 DEF AreHypotheses, Hypotheses
  <2>3. QED
    BY <1>8, <2>2, AddPruneNoArcs
<1>9. QED
  BY <1>7, <1>8


\* The least of some options is one of them.
LEMMA LeastPending ==
  ASSUME NEW J, J # {}, NEW m \in Nat, J \subseteq 1 .. m
  PROVE  Min(J) \in J
<1>1. J \subseteq Nat
  OBVIOUS
<1>2. \E x \in J : \A y \in J : x <= y
  BY <1>1, LeastNatural
<1>3. QED
  BY <1>2 DEF Min


\* The stacks that were opened do not change.
Frozen == \A k \in Stacks : Open(k) => stack'[k] = stack[k]

LEMMA ExpandIInv ==
  ASSUME IInv, ExpandHypothesis
  PROVE  IInv' /\ Frozen
<1> DEFINE d == input.maxDistortion
<1>1. /\ UNCHANGED <<input, conf, pc, ind, queue, current, actual>>
      /\ pc = "expand" /\ pending # {}
  BY DEF ExpandHypothesis
<1>2. PICK j, made, h, n, out :
        /\ j = Min(pending)
        /\ made = CreateNext(current, hypo[current], input.options[j])
        /\ h = Len(hypo) + 1
        /\ n = Cardinality(made.bitmap)
        /\ hypo' = Append(hypo, made)
        /\ winning' = Append(winning, Unset)
        /\ pending' = pending \ {j}
        /\ out \in AddPrune(hypo', conf, d, stack[n], Append(arcs, {}), h)
        /\ stack' = [stack EXCEPT ![n] = out.stack]
        /\ arcs' = out.arcs
        /\ deleted' = deleted \cup out.gone
  BY DEF ExpandHypothesis
<1> HIDE DEF d
<1>3. Types /\ Derived /\ StacksSound /\ ArcsKept /\ PrevOpen /\ InHand /\ Onward
  BY DEF IInv
<1>4. /\ IsConf(conf) /\ (conf.diversity > 0 => d \in Nat)
      /\ \A k : Came(k) \subseteq Ids /\ AreHypotheses(hypo, Came(k))
      /\ \A x \in Ids : Covered(x) \in Stacks
      /\ Ids = 1 .. Len(hypo) /\ Len(hypo) \in Nat
      /\ IsFiniteSet(Ids)
  BY <1>3, Facts DEF AreHypotheses, d
<1>5. /\ ind \in Stacks /\ current \in stack[ind].hypos /\ current \in Came(ind)
      /\ pending \subseteq MayFollow(input, hypo[current])
  BY <1>1, <1>3, Apart DEF Types, InHand, Allowed
<1>6. current \in Ids /\ Covered(current) = ind
  BY <1>5 DEF Came
<1>7. j \in pending /\ j \in MayFollow(input, hypo[current])
  <2>1. input.options \in Seq(TranslationOptions)
    BY <1>3, InputAssumption DEF Types
  <2>2. Len(input.options) \in Nat /\ pending \subseteq 1 .. Len(input.options)
    BY <1>3, <2>1 DEF Types
  <2>3. Min(pending) \in pending
    BY <1>1, <2>2, LeastPending
  <2>4. QED
    BY <1>2, <1>5, <2>3
<1>8. /\ hypo' \in Seq(Hypotheses) /\ Len(hypo') = h
      /\ \A x \in 1 .. Len(hypo) : hypo'[x] = hypo[x]
      /\ \A x \in 1 .. h : EndsDerivation(input, hypo', x)
      /\ hypo'[h].prev = current
      /\ Cardinality(hypo'[h].bitmap) \in Stacks
      /\ Cardinality(hypo[current].bitmap) < Cardinality(hypo'[h].bitmap)
      /\ \A p \in Positions : input.options[j].span = <<p, p>> =>
           Cardinality(hypo'[h].bitmap) = Cardinality(hypo[current].bitmap) + 1
      /\ OnPath(input.rc, hypo'[h].bitmap, hypo'[h].range, input.maxDistortion)
  <2>1. PICK F, H, c, i : F = hypo' /\ H = hypo /\ c = current /\ i = input
    OBVIOUS
  <2>2. /\ F = Append(H, made) /\ H \in Seq(Hypotheses) /\ Len(H) \in Nat
        /\ h = Len(H) + 1 /\ c \in 1 .. Len(H)
        /\ \A x \in 1 .. Len(H) : EndsDerivation(i, H, x)
    BY <1>2, <1>3, <1>4, <1>6, <2>1 DEF Types, Derived
  <2>3. F[h] = made /\ Len(F) = h /\ \A x \in 1 .. Len(H) : F[x] = H[x]
    BY <2>2
  <2>4. Makes(i, H, c, j, F, h) /\ i \in Inputs
    BY <1>2, <1>3, <1>7, <2>1, <2>2, <2>3 DEF Types, Makes
  <2>5. Made(i, H, c, j, F, h)
    BY <2>4, MadeEnds
  <2>6. F \in Seq(Hypotheses)
    BY <2>2, <2>3, <2>5 DEF Made
  <2>7. \A x \in 1 .. Len(H) : EndsDerivation(i, F, x)
    BY <2>2, <2>3 DEF EndsDerivation
  <2>8. \A x \in 1 .. h : EndsDerivation(i, F, x)
    <3>1. \A x \in 1 .. h : x = h \/ x \in 1 .. Len(H)
      BY <2>2
    <3>2. QED
      BY <2>5, <2>7, <3>1 DEF Made
  <2>9. OnPath(i.rc, F[h].bitmap, F[h].range, i.maxDistortion)
    BY <2>5 DEF Made, EndsDerivation
  <2>10. QED
    BY <2>1, <2>3, <2>5, <2>6, <2>8, <2>9 DEF Made, Stacks
<1>9. h \in Nat /\ h \notin Ids /\ h # 0 /\ Ids' = Ids \cup {h} /\ 1 .. h = Ids \cup {h}
  <2>1. h \in Nat /\ h \notin Ids /\ h # 0 /\ 1 .. h = Ids \cup {h}
    BY <1>2, <1>4
  <2>2. Ids' = 1 .. Len(hypo')
    BY <1>8 DEF Ids
  <2>3. QED
    BY <1>8, <2>1, <2>2
<1>10. /\ hypo'[h] = made /\ n \in Stacks /\ ind < n
       /\ \A p \in Positions : input.options[j].span = <<p, p>> => n = ind + 1
  <2>1. hypo'[h] = made
    BY <1>2, <1>3 DEF Types
  <2>2. Cardinality(hypo[current].bitmap) = ind
    BY <1>6 DEF Covered
  <2>3. QED
    BY <1>2, <1>8, <2>1, <2>2
<1>11. \A x \in Ids : hypo'[x] = hypo[x]
  BY <1>4, <1>8
<1>12. /\ \A x \in Ids : Covered(x)' = Covered(x) /\ Allowed(x)' = Allowed(x)
       /\ Cardinality(hypo'[h].bitmap) = n
  BY <1>1, <1>2, <1>10, <1>11 DEF Covered, Allowed
<1>13. \A k : Came(k)' = IF k = n THEN Came(k) \cup {h} ELSE Came(k)
  <2>1. \A k : Came(k)' = {x \in Ids \cup {h} : Cardinality(hypo'[x].bitmap) = k}
    BY <1>9 DEF Came, Covered
  <2>2. \A k : Came(k) = {x \in Ids : Cardinality(hypo'[x].bitmap) = k}
    BY <1>11 DEF Came, Covered
  <2>3. QED
    BY <1>9, <1>12, <2>1, <2>2
<1>14. Derived'
  BY <1>1, <1>8, <1>9 DEF Derived
<1>15. PICK new : new = Append(arcs, {})
  OBVIOUS
<1>16. /\ DOMAIN new = Ids \cup {h} /\ new[h] = {} /\ IsArcs(new)
       /\ \A x \in Ids : new[x] = arcs[x]
  <2>1. arcs \in [1 .. Len(hypo) -> SUBSET Ids]
    BY <1>3, <1>4 DEF Types
  <2>2. arcs \in Seq(SUBSET Ids) /\ Len(arcs) = Len(hypo)
    BY <1>4, <2>1
  <2>3. new \in Seq(SUBSET Ids) /\ Len(new) = h /\ new[h] = {}
        /\ \A x \in 1 .. Len(hypo) : new[x] = arcs[x]
    BY <1>2, <1>15, <2>2
  <2>4. new \in [1 .. h -> SUBSET Ids]
    BY <2>3
  <2>5. new \in [Ids \cup {h} -> SUBSET (Ids \cup {h})]
    BY <1>9, <2>4
  <2>6. DOMAIN new = Ids \cup {h}
    BY <2>5
  <2>7. QED
    BY <1>4, <2>3, <2>5, <2>6 DEF IsArcs
<1>17. /\ winning' \in [Ids \cup {h} -> Ids \cup {h} \cup {Unset}]
       /\ \A x \in Ids : winning'[x] = winning[x]
  <2>1. winning \in [1 .. Len(hypo) -> Ids \cup {Unset}]
    BY <1>3, <1>4 DEF Types
  <2>2. winning \in Seq(Ids \cup {Unset}) /\ Len(winning) = Len(hypo)
    BY <1>4, <2>1
  <2>3. winning' \in Seq(Ids \cup {Unset}) /\ Len(winning') = h
        /\ \A x \in 1 .. Len(hypo) : winning'[x] = winning[x]
    BY <1>2, <2>2
  <2>4. winning' \in [1 .. h -> Ids \cup {Unset}]
    BY <2>3
  <2>5. QED
    BY <1>4, <1>9, <2>3, <2>4
<1>18. /\ Holds(hypo', conf, Came(n) \cup {h}, d, n, out.stack, out.arcs,
                (Living(n) \cup {h}) \ out.gone)
       /\ Touched(new, Living(n) \cup {h}, out.arcs, out.gone)
       /\ ~conf.nBest /\ NoArcs(new) => NoArcs(out.arcs)
       /\ out.arcs = [x \in DOMAIN out.arcs |-> out.arcs[x]]
  <2>1. PICK H, F, I, G, stk :
          H = hypo /\ F = hypo' /\ I = Came(n) /\ G = Living(n) /\ stk = stack[n]
    OBVIOUS
  <2>2. Holds(H, conf, I, d, n, stk, arcs, G)
    BY <1>3, <1>10, <2>1 DEF StacksSound, d
  <2>3. G \subseteq I /\ I \subseteq Ids /\ h \notin I
    BY <1>4, <1>9, <2>1 DEF Living
  <2>4. AreHypotheses(F, I \cup {h})
    <3>1. IsFiniteSet(I \cup {h})
      BY <1>4, <2>1, FS_AddElement DEF AreHypotheses
    <3>2. \A x \in I \cup {h} : x \in 1 .. h
      BY <1>9, <2>3
    <3>3. \A x \in I \cup {h} : F[x] \in Hypotheses
      BY <1>8, <2>1, <3>2
    <3>4. \A x \in I \cup {h} : EndsDerivation(input, F, x)
      BY <1>8, <2>1, <3>2
    <3>5. input \in Inputs
      BY <1>3 DEF Types
    <3>6. \A x \in I \cup {h} : NegInf < F[x].total
      BY <3>3, <3>4, <3>5, DerivedAbove
    <3>7. QED
      BY <3>1, <3>3, <3>6 DEF AreHypotheses
  <2>5. Near(F, {h}, d, n)
    BY <1>8, <1>12, <2>1 DEF Near, OnPath, d
  <2>6. Newcomer(H, F, d, n, I, G, arcs, new, h)
    BY <1>9, <1>11, <1>16, <2>1, <2>3, <2>4, <2>5 DEF Newcomer
  <2>7. out \in AddPrune(F, conf, d, stk, new, h)
    BY <1>2, <1>15, <2>1
  <2>8. /\ Holds(F, conf, I \cup {h}, d, n, out.stack, out.arcs, (G \cup {h}) \ out.gone)
        /\ Touched(new, G \cup {h}, out.arcs, out.gone)
        /\ ~conf.nBest /\ NoArcs(new) => NoArcs(out.arcs)
    BY <1>4, <2>2, <2>6, <2>7, ComeHolds
  <2>9. out.arcs = [x \in DOMAIN out.arcs |-> out.arcs[x]]
    BY <2>7, AddPruneArcs
  <2>10. QED
    BY <2>1, <2>8, <2>9
<1>19. PICK gone : gone = out.gone
  OBVIOUS
<1>20. /\ gone \subseteq Living(n) \cup {h} /\ DOMAIN arcs' = Ids \cup {h}
       /\ \A x \in Ids : x \notin Living(n) => arcs'[x] = arcs[x]
       /\ \A x \in gone : arcs'[x] = {}
       /\ deleted' = deleted \cup gone
       /\ deleted \subseteq Ids
  BY <1>2, <1>3, <1>9, <1>16, <1>18, <1>19 DEF Touched, Types
<1>21. /\ \A k, l : k # l => Came(k) \cap Came(l) = {}
       /\ \A k : Living(k) \subseteq Came(k)
       /\ \A k \in Stacks : /\ stack[k].hypos \subseteq Living(k)
                            /\ \A w \in stack[k].hypos : arcs[w] \subseteq Living(k)
  BY Apart DEF Living
<1>22. \A k : Living(k)' = IF k = n THEN (Living(k) \cup {h}) \ gone ELSE Living(k)
  <2>1. \A k : k # n => Came(k) \cap gone = {}
    BY <1>4, <1>9, <1>20, <1>21
  <2>2. \A k : Living(k)' = (IF k = n THEN Came(k) \cup {h} ELSE Came(k)) \ (deleted \cup gone)
    BY <1>13, <1>20 DEF Living
  <2>3. h \notin deleted
    BY <1>9, <1>20
  <2>4. QED
    BY <2>1, <2>2, <2>3 DEF Living
<1>23. stack'[n] = out.stack /\ DOMAIN stack' = Stacks
       /\ \A k \in Stacks : k # n => stack'[k] = stack[k]
  BY <1>2, <1>3, <1>10 DEF Types
<1>24. StacksSound'
  <2>1. ASSUME NEW k \in Stacks
        PROVE  Holds(hypo', conf, Came(k)', d, k, stack'[k], arcs', Living(k)')
    <3>1. CASE k = n
      <4>1. Came(k)' = Came(n) \cup {h} /\ Living(k)' = (Living(n) \cup {h}) \ gone
        BY <1>13, <1>22, <3>1
      <4>2. QED
        BY <1>2, <1>18, <1>19, <1>23, <3>1, <4>1
    <3>2. CASE k # n
      <4>1. Came(k)' = Came(k) /\ Living(k)' = Living(k) /\ stack'[k] = stack[k]
        BY <1>13, <1>22, <1>23, <3>2
      <4>2. Holds(hypo, conf, Came(k), d, k, stack[k], arcs, Living(k))
        BY <1>3 DEF StacksSound, d
      <4>3. \A x \in Came(k) : hypo'[x] = hypo[x]
        BY <1>4, <1>11
      <4>4. \A x \in Living(k) : arcs'[x] = arcs[x]
        BY <1>4, <1>20, <1>21, <3>2
      <4>5. PICK F, a : F = hypo' /\ a = arcs'
        OBVIOUS
      <4>6. Holds(F, conf, Came(k), d, k, stack[k], a, Living(k))
        BY <1>21, <4>2, <4>3, <4>4, <4>5, OthersHold
      <4>7. QED
        BY <4>1, <4>5, <4>6
    <3>3. QED
      BY <3>1, <3>2
  <2>2. QED
    BY <1>1, <2>1 DEF StacksSound, Stacks, d
<1>25. \A k \in Stacks : Open(k)' <=> Open(k)
  BY <1>1 DEF Open
<1>26. \A k \in Stacks : Open(k) => k # n /\ stack'[k] = stack[k]
  BY <1>5, <1>10, <1>23, SourceSizeAssumption DEF Open, Stacks
<1>27. Types'
  <2>1. arcs' \in [Ids \cup {h} -> SUBSET (Ids \cup {h})]
    <3>1. Owned(out.stack.hypos, arcs', (Living(n) \cup {h}) \ gone)
      BY <1>2, <1>18, <1>19 DEF Holds
    <3>2. \A x \in (Living(n) \cup {h}) \ gone : arcs'[x] \subseteq Living(n) \cup {h}
      BY <3>1 DEF Owned
    <3>3. Living(n) \subseteq Ids
      BY <1>4, <1>21
    <3>4. \A x \in Ids : arcs[x] \subseteq Ids
      BY <1>3 DEF Types
    <3>5. \A x \in Ids \cup {h} : arcs'[x] \subseteq Ids \cup {h}
      BY <1>20, <3>2, <3>3, <3>4
    <3>6. arcs' = [x \in Ids \cup {h} |-> arcs'[x]]
      BY <1>2, <1>18, <1>20
    <3>7. QED
      BY <3>5, <3>6
  <2>2. hypo' \in Seq(Hypotheses) /\ Len(hypo') >= 1
    BY <1>8, <1>9
  <2>3. gone \subseteq Ids \cup {h}
    BY <1>4, <1>20, <1>21
  <2>4. /\ deleted' \subseteq Ids \cup {h} /\ queue' \subseteq Ids \cup {h}
        /\ current' \in Ids \cup {h} \cup {Unset}
        /\ pending' \subseteq 1 .. Len(input'.options)
    BY <1>1, <1>2, <1>3, <1>20, <2>3 DEF Types
  <2>5. /\ input' \in Inputs /\ conf' \in Confs /\ actual' \in Stacks \cup {Unset}
        /\ pc' \in {"stack", "expand", "done", "interrupted"}
        /\ IF pc' = "done" THEN ind' = SourceSize + 1 ELSE ind' \in Stacks
    BY <1>1, <1>3 DEF Types
  <2>6. Stacks' = Stacks
    BY DEF Stacks
  <2>7. QED
    BY <1>9, <1>17, <1>23, <2>1, <2>2, <2>4, <2>5, <2>6 DEF Types
<1>28. ArcsKept'
  <2>1. \A x \in deleted' : arcs'[x] = {}
    <3>1. \A x \in deleted : x \notin Living(n)
      BY DEF Living
    <3>2. QED
      BY <1>3, <1>20, <3>1 DEF ArcsKept
  <2>2. ASSUME ~conf.nBest PROVE NoArcs(arcs')
    <3>1. NoArcs(arcs) /\ DOMAIN arcs = Ids
      BY <1>3, <2>2 DEF ArcsKept, Types
    <3>2. NoArcs(new)
      BY <1>16, <3>1 DEF NoArcs
    <3>3. QED
      BY <1>2, <1>18, <2>2, <3>2
  <2>3. ASSUME NEW k \in Stacks, Open(k)
        PROVE  Knows(stack'[k].hypos, arcs', winning')
    <3>1. Knows(stack[k].hypos, arcs, winning)
      BY <1>3, <2>3 DEF ArcsKept
    <3>2. \A x \in Living(k) : arcs'[x] = arcs[x] /\ winning'[x] = winning[x]
      BY <1>4, <1>17, <1>20, <1>21, <1>26, <2>3
    <3>3. QED
      BY <1>21, <1>26, <2>3, <3>1, <3>2 DEF Knows
  <2>4. \A k \in Stacks : Open(k)' => Knows(stack'[k].hypos, arcs', winning')
    BY <1>25, <2>3
  <2>5. QED
    BY <1>1, <2>1, <2>2, <2>4 DEF ArcsKept, Stacks
<1>29. PrevOpen'
  <2>1. ASSUME NEW x \in Ids \cup {h}, NEW g, g = hypo'[x].prev, g # NoHypothesis
        PROVE  /\ g \in Ids /\ Covered(g) < Cardinality(hypo'[x].bitmap)
               /\ Open(Covered(g)) /\ g \in stack[Covered(g)].hypos
    <3>1. CASE x \in Ids
      BY <1>3, <1>11, <2>1, <3>1 DEF PrevOpen, Covered
    <3>2. CASE x = h
      <4>1. g = current
        BY <1>8, <2>1, <3>2
      <4>2. Open(Covered(g))
        BY <1>1, <1>6, <4>1 DEF Open
      <4>3. QED
        BY <1>5, <1>6, <1>10, <1>12, <3>2, <4>1, <4>2
    <3>3. QED
      BY <3>1, <3>2
  <2>2. ASSUME NEW x \in Ids \cup {h}, NEW g, g = hypo'[x].prev, g # NoHypothesis
        PROVE  /\ g \in Ids /\ Cardinality(hypo'[g].bitmap) < Cardinality(hypo'[x].bitmap)
               /\ \/ Cardinality(hypo'[g].bitmap) < ind
                  \/ Cardinality(hypo'[g].bitmap) = ind /\ pc = "expand"
               /\ g \in stack'[Cardinality(hypo'[g].bitmap)].hypos
    <3>1. /\ g \in Ids /\ Covered(g) < Cardinality(hypo'[x].bitmap)
          /\ Open(Covered(g)) /\ g \in stack[Covered(g)].hypos
      BY <2>1, <2>2
    <3>2. Cardinality(hypo'[g].bitmap) = Covered(g) /\ Covered(g) \in Stacks
      BY <1>4, <1>11, <3>1 DEF Covered
    <3>3. stack'[Covered(g)] = stack[Covered(g)]
      BY <1>26, <3>1, <3>2
    <3>4. QED
      BY <3>1, <3>2, <3>3 DEF Open
  <2>3. QED
    BY <1>1, <1>9, <2>2 DEF PrevOpen, Open, Covered
<1>30. stack'[ind] = stack[ind]
  BY <1>1, <1>5, <1>26 DEF Open
<1>31. InHand'
  <2>1. Allowed(current)' = MayFollow(input, hypo[current])
    BY <1>1, <1>6, <1>11 DEF Allowed
  <2>2. pending' \subseteq Allowed(current)'
    BY <1>2, <1>5, <2>1
  <2>3. current' # Unset
    BY <1>1, <1>3 DEF InHand
  <2>4. QED
    BY <1>1, <1>3, <1>5, <1>30, <2>2, <2>3 DEF InHand
<1>32. Onward'
  <2> SUFFICES ASSUME input.constraint = <<>>, Consistent(input.rc)
               PROVE  /\ \A k \in Stacks : k <= ind => stack'[k].hypos # {}
                      /\ ind < SourceSize => \/ stack'[ind + 1].hypos # {}
                                             \/ queue # {}
                                             \/ WordPending(input, pending')
    BY <1>1 DEF Onward, Stacks
  <2>1. \A k \in Stacks : k <= ind => stack[k].hypos # {} /\ Open(k)
    BY <1>1, <1>3, <1>5, SourceSizeAssumption DEF Onward, Open, Stacks
  <2>2. \A k \in Stacks : k <= ind => stack'[k].hypos # {}
    BY <1>26, <2>1
  <2>3. ASSUME ind < SourceSize
        PROVE  stack'[ind + 1].hypos # {} \/ queue # {} \/ WordPending(input, pending')
    <3>1. CASE n = ind + 1
      <4>1. PICK I : I = Came(n) \cup {h}
        OBVIOUS
      <4>2. h \in I /\ Holds(hypo', conf, I, d, n, out.stack, out.arcs,
                             (Living(n) \cup {h}) \ out.gone)
        BY <1>18, <4>1
      <4>3. out.stack.hypos # {}
        BY <4>2, NotEmptied
      <4>4. QED
        BY <1>23, <3>1, <4>3
    <3>2. CASE n # ind + 1
      <4>1. ind + 1 \in Stacks
        BY <1>5, <2>3, SourceSizeAssumption DEF Stacks
      <4>2. stack'[ind + 1] = stack[ind + 1]
        BY <1>23, <3>2, <4>1
      <4>3. \/ stack[ind + 1].hypos # {} \/ queue # {} \/ WordPending(input, pending)
        BY <1>1, <1>3, <2>3 DEF Onward
      <4>4. ASSUME WordPending(input, pending) PROVE WordPending(input, pending')
        <5>1. PICK k \in pending, p \in Positions : input.options[k].span = <<p, p>>
          BY <4>4 DEF WordPending
        <5>2. k # j
          BY <1>10, <3>2, <5>1
        <5>3. k \in pending'
          BY <1>2, <5>1, <5>2
        <5>4. QED
          BY <5>1, <5>3 DEF WordPending
      <4>5. QED
        BY <4>2, <4>3, <4>4
    <3>3. QED
      BY <3>1, <3>2
  <2>4. QED
    BY <2>2, <2>3
<1>33. QED
  BY <1>14, <1>24, <1>26, <1>27, <1>28, <1>29, <1>31, <1>32 DEF IInv, Frozen


------------------------------------------------------------------------------
(****************************************************************************)
(* The invariant holds.                                                     *)
(****************************************************************************)

LEMMA StillIInv ==
  ASSUME IInv, UNCHANGED vars
  PROVE  IInv'
<1>1. UNCHANGED <<input, conf, hypo, stack, arcs, winning, deleted, pc, ind, queue,
                  current, pending, actual>>
  BY DEF vars
<1>2. Derived' /\ StacksSound' /\ Ids' = Ids
      /\ \A h : Covered(h)' = Covered(h) /\ Allowed(h)' = Allowed(h)
  BY <1>1, DataStays
<1>3. Types'
  BY <1>1, <1>2 DEF IInv, Types, Stacks
<1>4. \A k : Open(k)' <=> Open(k)
  BY <1>1 DEF Open
<1>5. ArcsKept'
  BY <1>1, <1>4 DEF IInv, ArcsKept, Stacks
<1>6. PrevOpen'
  BY <1>1, <1>2, <1>4 DEF IInv, PrevOpen
<1>7. InHand'
  BY <1>1, <1>2 DEF IInv, InHand
<1>8. Onward'
  BY <1>1 DEF IInv, Onward, Stacks
<1>9. QED
  BY <1>2, <1>3, <1>5, <1>6, <1>7, <1>8 DEF IInv

LEMMA StepIInv == IInv /\ [Next]_vars => IInv'
<1> SUFFICES ASSUME IInv, [Next]_vars PROVE IInv'
  OBVIOUS
<1>1. CASE TimeOut
  BY <1>1, TimeOutIInv
<1>2. CASE OpenStack
  BY <1>2, OpenIInv
<1>3. CASE \E h \in queue : ProcessOneHypothesis(h)
  BY <1>3, BeginIInv
<1>4. CASE ExpandHypothesis
  BY <1>4, ExpandIInv
<1>5. CASE FinishStack
  BY <1>5, FinishIInv
<1>6. CASE UNCHANGED vars
  BY <1>6, StillIInv
<1>7. QED
  BY <1>1, <1>2, <1>3, <1>4, <1>5, <1>6 DEF Next

LEMMA Invariant == Spec => []IInv
BY InitIInv, StepIInv, PTL DEF Spec

------------------------------------------------------------------------------
(****************************************************************************)
(* Owners.                                                                  *)
(****************************************************************************)

LEMMA TypesFollow == IInv => TypeOK
<1> SUFFICES ASSUME IInv PROVE TypeOK
  OBVIOUS
<1>1. Types /\ Derived
  BY DEF IInv
<1>2. \A h \in Ids : hypo[h] \in Hypotheses
  BY <1>1, Facts
<1>3. \A h \in Ids : /\ hypo[h].prev \in 0 .. h - 1
                     /\ hypo[h].bitmap \in Bitmaps
                     /\ hypo[h].range \in PhraseSpans \cup {NoSpan}
                     /\ hypo[h].total = hypo[h].score
                          + (IF h = 1 THEN 0 ELSE FutureScore(hypo[h].bitmap))
  BY <1>1, <1>2 DEF Derived, EndsDerivation, Hypotheses
<1>4. \A k \in Stacks : stack[k].hypos \subseteq {h \in Ids : Covered(h) = k}
  BY Apart DEF Came
<1>5. ind \in 0 .. SourceSize + 1
  BY <1>1, SourceSizeAssumption DEF Types, Stacks
<1>6. QED
  BY <1>1, <1>3, <1>4, <1>5 DEF Types, TypeOK

\* Who holds arcs is in a stack, and holds them alone.
LEMMA HoldersAlone ==
  ASSUME IInv, NEW x \in Ids, NEW h \in arcs[x]
  PROVE  /\ h \in Ids /\ h \notin deleted /\ Covered(h) = Covered(x)
         /\ Covered(x) \in Stacks
         /\ x \in stack[Covered(x)].hypos /\ h \notin stack[Covered(h)].hypos
<1>1. Types /\ Derived /\ ArcsKept
  BY DEF IInv
<1>2. Covered(x) \in Stacks
  BY <1>1, Facts
<1>3. x \notin deleted
  BY <1>1 DEF ArcsKept
<1>4. x \in Living(Covered(x))
  BY <1>3 DEF Living, Came
<1>5. Owned(stack[Covered(x)].hypos, arcs, Living(Covered(x)))
  BY <1>2 DEF IInv, StacksSound, Holds
<1>6. x \in stack[Covered(x)].hypos
  BY <1>4, <1>5 DEF Owned
<1>7. h \in Living(Covered(x)) /\ h \notin stack[Covered(x)].hypos
  BY <1>5, <1>6 DEF Owned
<1>8. h \in Ids /\ h \notin deleted /\ Covered(h) = Covered(x)
  BY <1>7 DEF Living, Came
<1>9. QED
  BY <1>2, <1>6, <1>7, <1>8

LEMMA OwnedFollows == IInv => OwnedOnce
<1> SUFFICES ASSUME IInv PROVE OwnedOnce
  OBVIOUS
<1>1. ASSUME NEW x \in Ids, arcs[x] # {}
      PROVE  \E k \in Stacks : x \in stack[k].hypos
  <2>1. PICK h : h \in arcs[x]
    BY <1>1
  <2>2. QED
    BY <2>1, HoldersAlone
<1>2. ASSUME NEW h \in Ids
      PROVE  Cardinality({k \in Stacks : h \in stack[k].hypos})
               + Cardinality({x \in Ids : h \in arcs[x]})
               = IF h \in deleted THEN 0 ELSE 1
  <2> DEFINE K == {k \in Stacks : h \in stack[k].hypos}
             X == {x \in Ids : h \in arcs[x]}
             c == Covered(h)
  <2> SUFFICES Cardinality(K) + Cardinality(X) = IF h \in deleted THEN 0 ELSE 1
    OBVIOUS
  <2>1. c \in Stacks
    BY Facts DEF IInv
  <2>2. \A k \in K : k = c /\ h \notin deleted
    BY Apart DEF Came, Living
  <2>3. \A x \in X : /\ h \notin deleted /\ Covered(x) = c
                     /\ x \in stack[c].hypos /\ h \notin stack[c].hypos
    BY HoldersAlone
  <2>4. Owned(stack[c].hypos, arcs, Living(c))
    BY <2>1 DEF IInv, StacksSound, Holds
  <2>5. Cardinality({}) = 0 /\ \A a : Cardinality({a}) = 1
    BY FS_EmptySet, FS_Singleton
  <2>6. CASE h \in deleted
    <3>1. K = {} /\ X = {}
      BY <2>2, <2>3, <2>6
    <3> HIDE DEF K, X
    <3>2. QED
      BY <2>5, <2>6, <3>1
  <2>7. CASE h \notin deleted /\ h \in stack[c].hypos
    <3>1. K = {c}
      BY <2>1, <2>2, <2>7
    <3>2. X = {}
      BY <2>3, <2>7
    <3>4. Cardinality({c}) = 1
      BY <2>5
    <3> HIDE DEF K, X, c
    <3>3. QED
      BY <2>5, <2>7, <3>1, <3>2, <3>4
  <2>8. CASE h \notin deleted /\ h \notin stack[c].hypos
    <3>1. K = {}
      BY <2>2, <2>8
    <3>2. h \in Living(c)
      BY <2>8 DEF Living, Came
    <3>3. PICK y \in stack[c].hypos : h \in arcs[y]
      BY <2>4, <2>8, <3>2 DEF Owned
    <3>4. y \in Ids
      BY <2>1, <3>3, Apart
    <3>5. \A x \in X : x = y
      <4>1. TAKE x \in X
      <4>2. x \in stack[c].hypos /\ h \in arcs[x]
        BY <2>3
      <4>3. QED
        BY <2>4, <3>3, <4>2 DEF Owned
    <3>6. X = {y}
      BY <3>3, <3>4, <3>5
    <3>8. Cardinality({y}) = 1
      BY <2>5
    <3> HIDE DEF K, X
    <3>7. QED
      BY <2>5, <2>8, <3>1, <3>6, <3>8
  <2>9. QED
    BY <2>6, <2>7, <2>8
<1>3. QED
  BY <1>1, <1>2 DEF OwnedOnce

LEMMA PrevFollows == IInv => PrevAlive
<1> SUFFICES ASSUME IInv PROVE PrevAlive
  OBVIOUS
<1>1. \A h \in Ids \ deleted : hypo[h].prev # NoHypothesis =>
        /\ hypo[h].prev \in stack[Covered(hypo[h].prev)].hypos
        /\ Covered(hypo[h].prev) < Covered(h)
  BY DEF IInv, PrevOpen
<1>2. ASSUME current # Unset PROVE current \notin deleted
  <2>1. current \in stack[ind].hypos /\ ind \in Stacks
    BY <1>2 DEF IInv, InHand, Types
  <2>2. current \in Living(ind)
    BY <2>1, Apart
  <2>3. QED
    BY <2>2 DEF Living
<1>3. QED
  BY <1>1, <1>2 DEF PrevAlive

\* Nothing leaks and nothing dangles, whatever is recombined and pruned
\* (HypothesisStackNormal::AddPrune, PruneToSize, CleanupArcList).
THEOREM Ownership == Spec => []HypothesesOwned
<1>1. IInv => HypothesesOwned
  BY TypesFollow, OwnedFollows, PrevFollows DEF HypothesesOwned
<1>2. QED
  BY <1>1, Invariant, PTL

\* A winner is as good as what it won over, and its arcs know it once the
\* stack is opened (Hypothesis::AddArc, CleanupArcList).
THEOREM Winning == Spec => []WinnerDominates
<1>1. ASSUME IInv PROVE WinnerDominates
  <2>1. ASSUME NEW w \in Ids, NEW a \in arcs[w]
        PROVE  /\ RecombineKey(hypo[a]) = RecombineKey(hypo[w])
               /\ hypo[a].total <= hypo[w].total
               /\ (Covered(w) < ind \/ (Covered(w) = ind /\ pc = "expand")) =>
                    winning[a] = w /\ winning[w] = w
    <3>1. w \in stack[Covered(w)].hypos /\ Covered(w) \in Stacks
      BY <1>1, HoldersAlone
    <3>2. Dominated(hypo, stack[Covered(w)].hypos, arcs)
      BY <1>1, <3>1 DEF IInv, StacksSound, Holds
    <3>3. Open(Covered(w)) => Knows(stack[Covered(w)].hypos, arcs, winning)
      BY <1>1, <3>1 DEF IInv, ArcsKept
    <3>4. QED
      BY <3>1, <3>2, <3>3 DEF Dominated, Knows, Open
  <2>2. QED
    BY <2>1 DEF WinnerDominates
<1>2. QED
  BY <1>1, Invariant, PTL


------------------------------------------------------------------------------
(****************************************************************************)
(* Pruning.                                                                 *)
(****************************************************************************)

LEMMA JustifiedFollows == IInv => PruningJustified
<1> SUFFICES ASSUME IInv, conf.diversity = 0, NEW h \in Ids
             PROVE  LET stk  == stack[Covered(h)]
                        asGood == {x \in stk.hypos : hypo[x].total >= hypo[h].total}
                    IN  \/ \E x \in asGood : RecombineKey(hypo[x]) = RecombineKey(hypo[h])
                        \/ Cardinality(asGood) >= conf.stackSize
                        \/ hypo[h].total <= stk.best + conf.beamWidth
  BY DEF PruningJustified
<1> DEFINE stk == stack[Covered(h)]
           asGood == {x \in stk.hypos : hypo[x].total >= hypo[h].total}
<1>1. Covered(h) \in Stacks
  BY Facts DEF IInv
<1>2. Justified(hypo, conf, Came(Covered(h)), stk) /\ h \in Came(Covered(h))
  BY <1>1 DEF IInv, StacksSound, Holds, StackSound, Came
<1>3. asGood = AtLeast(hypo, stk.hypos, hypo[h].total)
  BY DEF AtLeast
<1>4. \/ \E y \in stk.hypos : /\ RecombineKey(hypo[y]) = RecombineKey(hypo[h])
                              /\ hypo[y].total >= hypo[h].total
      \/ MayGo(hypo, conf, stk, hypo[h].total)
  BY <1>2 DEF Justified
<1>5. QED
  BY <1>3, <1>4 DEF MayGo

LEMMA DiversityFollows == IInv => DiversityKept
<1> SUFFICES ASSUME IInv, conf.diversity > 0, NEW h \in Ids
             PROVE  LET b == hypo[h].bitmap
                    IN  Cardinality(Covering(hypo, stack[Cardinality(b)].hypos, b)) >=
                          Min({conf.diversity,
                               Cardinality({RecombineKey(hypo[g]) :
                                              g \in {x \in Ids : hypo[x].bitmap = b}})})
  BY DEF DiversityKept
<1> DEFINE b == hypo[h].bitmap
           k == Cardinality(b)
           have == Cardinality(Covering(hypo, stack[k].hypos, b))
           all == Cardinality(Keys(hypo, Ids, b))
<1>1. k \in Stacks /\ hypo[h] \in Hypotheses /\ IsConf(conf) /\ IsFiniteSet(Ids)
      /\ AreHypotheses(hypo, Came(k))
  BY Facts DEF IInv, Covered, AreHypotheses
<1>2. b \in Bitmaps
  BY <1>1 DEF Hypotheses
<1>3. {x \in Ids : hypo[x].bitmap = b} = {x \in Came(k) : hypo[x].bitmap = b}
  BY DEF Came, Covered
<1>4. Keys(hypo, Ids, b) = Keys(hypo, Came(k), b)
  BY <1>3 DEF Keys
<1>5. StackSound(hypo, conf, Came(k), stack[k])
  BY <1>1 DEF IInv, StacksSound, Holds
<1>6. have >= conf.diversity \/ have >= all
  <2>1. Diverse(hypo, conf, Came(k), stack[k])
    BY <1>5 DEF StackSound
  <2>2. have >= conf.diversity \/ have >= Cardinality(Keys(hypo, Came(k), b))
    BY <1>2, <2>1 DEF Diverse
  <2>3. QED
    BY <1>4, <2>2
<1>7. have \in Nat /\ all \in Nat /\ conf.diversity \in Nat
  BY <1>1, <1>5, StackFinite, KeysFinite DEF StackSound, IsConf
<1>8. Keys(hypo, Ids, b) = {RecombineKey(hypo[g]) : g \in {x \in Ids : hypo[x].bitmap = b}}
  BY DEF Keys
<1> HIDE DEF have, all
<1>9. Min({conf.diversity, all}) = IF conf.diversity <= all THEN conf.diversity ELSE all
  BY <1>7, MinOfTwo
<1>10. have >= Min({conf.diversity, all})
  BY <1>6, <1>7, <1>9
<1>11. QED
  BY <1>8, <1>10 DEF have, all

LEMMA ToleranceFollows == IInv => StackWithinTolerance
BY DEF IInv, StacksSound, Holds, IsSized, StackWithinTolerance

LEMMA NoneEmptyFollows == IInv => NoStackEmpty
<1> SUFFICES ASSUME IInv, input.constraint = <<>>, Consistent(input.rc), NEW k \in Stacks,
                    k < ind \/ (k = ind /\ pc = "expand")
             PROVE  stack[k].hypos # {}
  BY DEF NoStackEmpty
<1>1. ind \in Nat
  BY SourceSizeAssumption DEF IInv, Types, Stacks
<1>2. k <= ind
  BY <1>1, SourceSizeAssumption DEF Stacks
<1>3. QED
  BY <1>2 DEF IInv, Onward

\* Histogram, beam and diversity pruning lose only what they may, and leave
\* every stack with something (HypothesisStackNormal::PruneToSize, Add).
THEOREM Pruning == Spec => []PruningSound
<1>1. IInv => PruningSound
  BY JustifiedFollows, DiversityFollows, ToleranceFollows, NoneEmptyFollows
  DEF PruningSound
<1>2. QED
  BY <1>1, Invariant, PTL

LEMMA StepFrozen ==
  ASSUME IInv, [Next]_vars
  PROVE  Frozen
<1>1. CASE TimeOut \/ FinishStack \/ \E h \in queue : ProcessOneHypothesis(h)
  BY <1>1 DEF TimeOut, FinishStack, ProcessOneHypothesis, Frozen
<1>2. CASE OpenStack
  <2>1. pc = "stack" /\ \A k \in Stacks : k # ind => stack'[k] = stack[k]
    BY <1>2 DEF OpenStack, IInv, Types
  <2>2. ind \in Stacks
    BY <2>1 DEF IInv, Types
  <2>3. \A k \in Stacks : Open(k) => k # ind
    BY <2>1, <2>2, SourceSizeAssumption DEF Open, Stacks
  <2>4. QED
    BY <2>1, <2>3 DEF Frozen
<1>3. CASE ExpandHypothesis
  BY <1>3, ExpandIInv
<1>4. CASE UNCHANGED vars
  BY <1>4 DEF Frozen, vars
<1>5. QED
  BY <1>1, <1>2, <1>3, <1>4 DEF Next

\* ProcessSentence iterates over a stack that no step changes.
THEOREM StackFrozen == Spec => OpenedStackFrozen
<1>1. IInv /\ [Next]_vars => [Frozen]_vars
  BY StepFrozen
<1>2. [Frozen]_vars =>
        [\A k \in Stacks :
           k < ind \/ (k = ind /\ pc = "expand") => stack'[k] = stack[k]]_vars
  BY DEF Frozen, Open
<1>3. QED
  BY <1>1, <1>2, Invariant, PTL DEF Spec, OpenedStackFrozen

------------------------------------------------------------------------------
(****************************************************************************)
(* The promise of a decoder.                                                *)
(****************************************************************************)

\* The derivations of the promise are those of this module.
LEMMA SameSteps ==
  \A i, S : Promise!Steps(i, S) = Steps(i, S)
<1>0. \A s : Promise!Cardinality(s) = Cardinality(s)
  BY DEF Promise!Cardinality, Cardinality
<1>1. \A b : Promise!GetFirstGapPos(b) = GetFirstGapPos(b)
  BY DEF Promise!GetFirstGapPos, GetFirstGapPos,
         Promise!Gaps, Gaps,
         Promise!Positions, Positions,
         Promise!NOT_FOUND, NOT_FOUND
<1>2. \A r, s : Promise!ComputeDistortionDistance(r, s) = ComputeDistortionDistance(r, s)
  BY DEF Promise!ComputeDistortionDistance, ComputeDistortionDistance,
         Promise!Abs, Abs,
         Promise!NOT_FOUND, NOT_FOUND
<1>3. \A rc, b, r : Promise!PassesWalls(rc, b, r) <=> PassesWalls(rc, b, r)
  BY <1>1 DEF Promise!PassesWalls, PassesWalls
<1>4. \A b, r : Promise!IsMonotone(b, r) <=> IsMonotone(b, r)
  BY <1>1 DEF Promise!IsMonotone, IsMonotone,
         Promise!GetLastPos, GetLastPos,
         Promise!NOT_FOUND, NOT_FOUND
<1>5. \A b, z : Promise!InZone(b, z) = InZone(b, z)
  BY DEF Promise!InZone, InZone,
         Promise!SpanPositions, SpanPositions
<1>6. \A rc, b, z, r : Promise!PassesLocalWalls(rc, b, z, r) <=> PassesLocalWalls(rc, b, z, r)
  BY DEF Promise!PassesLocalWalls, PassesLocalWalls,
         Promise!GapBeforePhrase, GapBeforePhrase
<1>7. \A rc, b, z, r, d :
        Promise!PassesInsideZone(rc, b, z, r, d) <=> PassesInsideZone(rc, b, z, r, d)
  BY <1>0, <1>1, <1>5, <1>6 DEF Promise!PassesInsideZone, PassesInsideZone
<1>8. \A rc, b, z, r, d : Promise!PassesZone(rc, b, z, r, d) <=> PassesZone(rc, b, z, r, d)
  BY <1>1, <1>5, <1>7 DEF Promise!PassesZone, PassesZone,
         Promise!SpanPositions, SpanPositions
<1>9. \A rc, b, r, d : Promise!Check(rc, b, r, d) <=> Check(rc, b, r, d)
  BY <1>3, <1>4, <1>8 DEF Promise!Check, Check
<1>10. \A b, p, r, d : Promise!NormalDistortionOK(b, p, r, d) <=> NormalDistortionOK(b, p, r, d)
  BY <1>1, <1>2 DEF Promise!NormalDistortionOK, NormalDistortionOK,
         Promise!RequiredDistortion, RequiredDistortion,
         Promise!ToInt, ToInt,
         Promise!NOT_FOUND, NOT_FOUND
<1>11. \A rc, b, p, r, o, d :
         Promise!NormalMayExtend(rc, b, p, r, o, d) <=> NormalMayExtend(rc, b, p, r, o, d)
  BY <1>1, <1>9, <1>10 DEF Promise!NormalMayExtend, NormalMayExtend,
         Promise!Overlap, Overlap,
         Promise!SpanPositions, SpanPositions
<1>12. \A c, h, o : Promise!FitsConstraint(c, h, o) <=> FitsConstraint(c, h, o)
  BY DEF Promise!FitsConstraint, FitsConstraint
<1>13. \A i, h : Promise!MayFollow(i, h) = MayFollow(i, h)
  BY <1>11, <1>12 DEF Promise!MayFollow, MayFollow,
         Promise!OptionSpans, OptionSpans
<1>14. \A r, s : Promise!DistortionScore(r, s) = DistortionScore(r, s)
  BY <1>2 DEF Promise!DistortionScore, DistortionScore
<1>15. \A l, w, c : /\ Promise!LMScore(l, w, c) = LMScore(l, w, c)
                    /\ Promise!LMState(l, w, c) = LMState(l, w, c)
  BY DEF Promise!LMScore, LMScore,
         Promise!LMState, LMState
<1>16. \A b : Promise!IsComplete(b) <=> IsComplete(b)
  BY DEF Promise!IsComplete, IsComplete,
         Promise!Gaps, Gaps,
         Promise!Positions, Positions
<1>17. \A n, h, o : Promise!CreateNext(n, h, o) = CreateNext(n, h, o)
  BY DEF Promise!CreateNext, CreateNext,
         Promise!SpanPositions, SpanPositions,
         Promise!LMScore, LMScore,
         Promise!LMState, LMState,
         Promise!IsComplete, IsComplete,
         Promise!Gaps, Gaps,
         Promise!Positions, Positions,
         Promise!DistortionScore, DistortionScore,
         Promise!ComputeDistortionDistance, ComputeDistortionDistance,
         Promise!Abs, Abs,
         Promise!LexicalScore, LexicalScore,
         Promise!GetOrientationType, GetOrientationType,
         Promise!IsMonotoneStep, IsMonotoneStep,
         Promise!IsSwap, IsSwap,
         Promise!IsRight, IsRight,
         Promise!DecodeDirection, DecodeDirection,
         Promise!NoSpan, NoSpan,
         Promise!NOT_FOUND, NOT_FOUND
<1>18. QED
  BY <1>13, <1>17 DEF Promise!Steps, Steps,
         Promise!NoHypothesis, NoHypothesis

LEMMA SamePromise ==
  /\ \A i : Promise!AllDerivations(i) = AllDerivations(i)
  /\ \A i : Promise!CompleteDerivations(i) = CompleteDerivations(i)
  /\ \A rc : Promise!Consistent(rc) <=> Consistent(rc)
<1>1. Promise!Seed = Seed
  BY DEF Promise!Seed, Seed,
         Promise!NoHypothesis, NoHypothesis,
         Promise!NoLexScores, NoLexScores,
         Promise!Orientations, Orientations,
         Promise!NoSpan, NoSpan,
         Promise!NOT_FOUND, NOT_FOUND
<1>2. \A i : Promise!Derivations(i) = Derivations(i)
  BY SameSteps, <1>1 DEF Promise!Derivations, Derivations
<1>3. \A i : Promise!AllDerivations(i) = AllDerivations(i)
  BY <1>2 DEF Promise!AllDerivations, AllDerivations
<1>4. \A i : Promise!CompleteDerivations(i) = CompleteDerivations(i)
  BY <1>3 DEF Promise!CompleteDerivations, CompleteDerivations,
         Promise!IsComplete, IsComplete,
         Promise!Gaps, Gaps,
         Promise!Positions, Positions
<1>5. \A rc : Promise!Consistent(rc) <=> Consistent(rc)
  BY DEF Promise!Consistent, Consistent,
         Promise!ZonesNest, ZonesNest,
         Promise!LocalWallsApart, LocalWallsApart
<1>6. QED
  BY <1>3, <1>4, <1>5

\* The best of the last stack are complete, there is one if any is there, and
\* they have one score.
LEMMA BestAnswers ==
  ASSUME IInv, NEW best, best = GetBestHypothesis(hypo, stack[SourceSize])
  PROVE  /\ \A x \in best : /\ x \in Ids
                            /\ Content(hypo[x]) \in CompleteDerivations(input)
         /\ stack[SourceSize].hypos # {} => best # {}
         /\ \A x, y \in best : Content(hypo[x]).total = Content(hypo[y]).total
<1> DEFINE stk == stack[SourceSize]
<1>1. SourceSize \in Stacks
  BY SourceSizeAssumption DEF Stacks
<1>2. stk.hypos \subseteq Came(SourceSize)
  BY <1>1, Apart
<1>3. StackSound(hypo, conf, Came(SourceSize), stk)
  BY <1>1 DEF IInv, StacksSound, Holds
<1>4. \A x \in Ids : /\ hypo[x] \in Hypotheses
                     /\ Content(hypo[x]) \in AllDerivations(input)
                     /\ Content(hypo[x]).bitmap = hypo[x].bitmap
                     /\ Content(hypo[x]).total = hypo[x].total
                     /\ hypo[x].total \in Int
  BY Facts, ContentIs DEF IInv, Hypotheses
<1>5. best \subseteq stk.hypos /\ \A x \in best, y \in stk.hypos : hypo[x].total >= hypo[y].total
  BY DEF GetBestHypothesis
<1>6. ASSUME NEW x \in best
      PROVE  x \in Ids /\ Content(hypo[x]) \in CompleteDerivations(input)
  <2>1. x \in Ids /\ Cardinality(hypo[x].bitmap) = SourceSize
    BY <1>2, <1>5 DEF Came, Covered
  <2>2. hypo[x].bitmap \subseteq Positions
    BY <1>4, <2>1 DEF Hypotheses, Bitmaps
  <2>3. IsFiniteSet(Positions) /\ Cardinality(Positions) = SourceSize
    BY SourceSizeAssumption, FS_Interval DEF Positions
  <2>4. hypo[x].bitmap = Positions
    BY <2>1, <2>2, <2>3, FS_Subset
  <2>5. IsComplete(Content(hypo[x]).bitmap)
    BY <1>4, <2>1, <2>4 DEF IsComplete, Gaps
  <2>6. QED
    BY <1>4, <2>1, <2>5 DEF CompleteDerivations
<1>7. ASSUME stk.hypos # {} PROVE best # {}
  <2>1. PICK z \in stk.hypos : hypo[z].total = stk.best
    BY <1>2, <1>3, <1>7 DEF StackSound, BestSeen
  <2>2. \A y \in stk.hypos : hypo[y].total <= stk.best
    BY <1>3 DEF StackSound, BestSeen
  <2>3. \A y \in stk.hypos : hypo[y].total \in Int
    BY <1>2, <1>4 DEF Came
  <2>4. \A y \in stk.hypos : hypo[z].total >= hypo[y].total
    BY <2>1, <2>2, <2>3
  <2>5. QED
    BY <2>1, <2>4 DEF GetBestHypothesis
<1>8. ASSUME NEW x \in best, NEW y \in best
      PROVE  Content(hypo[x]).total = Content(hypo[y]).total
  <2>1. hypo[x].total >= hypo[y].total /\ hypo[y].total >= hypo[x].total
    BY <1>5
  <2>2. hypo[x].total \in Int /\ hypo[y].total \in Int
    BY <1>4, <1>6
  <2>3. hypo[x].total = hypo[y].total
    BY <2>1, <2>2
  <2>4. QED
    BY <1>4, <1>6, <2>3
<1>9. QED
  BY <1>6, <1>7, <1>8

LEMMA AnswersKnown ==
  IInv => \A x \in Answers : x \in Ids /\ Content(hypo[x]) \in AllDerivations(input)
<1> SUFFICES ASSUME IInv, NEW x \in Answers
             PROVE  x \in Ids /\ Content(hypo[x]) \in AllDerivations(input)
  OBVIOUS
<1>1. \A k \in Stacks : GetBestHypothesis(hypo, stack[k]) \subseteq Ids
  BY Apart DEF GetBestHypothesis
<1>2. SourceSize \in Stacks
  BY SourceSizeAssumption DEF Stacks
<1>3. x \in Ids
  <2>1. CASE pc = "done"
    BY <1>1, <1>2, <2>1 DEF Answers
  <2>2. CASE pc # "done" /\ actual \in Stacks
    BY <1>1, <2>2 DEF Answers
  <2>3. CASE pc # "done" /\ actual \notin Stacks
    BY <2>3 DEF Answers
  <2>4. QED
    BY <2>1, <2>2, <2>3
<1>4. QED
  BY <1>3, Facts DEF IInv

\* Stack decoding keeps the safety of what a decoder promises: it ends once,
\* with the best of the complete derivations it has, one of them at least, or
\* with parts of one when the time is up (SearchNormal::ProcessSentence and
\* GetBestHypothesis).
THEOREM ImplementsSafety == Spec => Promise!Safety
<1> DEFINE phase == IF Terminated THEN pc ELSE "searching"
           answers == IF Terminated THEN {Content(hypo[x]) : x \in Answers} ELSE {}
<1>1. Init => Promise!Init
  BY DEF Init, Promise!Init, Terminated
<1>2. (IInv => \A x \in Answers : x \in Ids /\ Content(hypo[x]) \in AllDerivations(input))'
  BY AnswersKnown, PTL
<1>3. ASSUME IInv, IInv', [Next]_vars
      PROVE  [Promise!Next]_<<input, phase, answers>>
  <2>1. CASE TimeOut
    <3>1. /\ UNCHANGED <<input, hypo>> /\ pc = "stack" /\ pc' = "interrupted"
      BY <2>1 DEF TimeOut
    <3>2. phase = "searching" /\ phase' = "interrupted"
      BY <3>1 DEF Terminated
    <3>3. answers' = {Content(hypo'[x]) : x \in Answers'}
      BY <3>1 DEF Terminated
    <3>4. \A x \in Answers' : Content(hypo'[x]) \in AllDerivations(input')
      BY <1>2, <1>3
    <3>5. answers' \in SUBSET Promise!AllDerivations(input)
      BY <3>1, <3>3, <3>4, SamePromise
    <3>6. Promise!Interrupt
      BY <3>1, <3>2, <3>5 DEF Promise!Interrupt
    <3>7. QED
      BY <3>6 DEF Promise!Next
  <2>2. CASE FinishStack /\ ind = SourceSize
    <3>1. /\ UNCHANGED <<input, hypo, stack>> /\ pc = "expand" /\ pc' = "done"
      BY <2>2 DEF FinishStack
    <3>2. phase = "searching" /\ phase' = "done"
      BY <3>1 DEF Terminated
    <3>3. PICK best : best = GetBestHypothesis(hypo, stack[SourceSize])
      OBVIOUS
    <3>4. Answers' = best
      <4>1. GetBestHypothesis(hypo, stack[SourceSize])' = GetBestHypothesis(hypo, stack[SourceSize])
        BY <3>1 DEF GetBestHypothesis
      <4>2. Answers' = GetBestHypothesis(hypo, stack[SourceSize])'
        BY <3>1 DEF Answers
      <4>3. QED
        BY <3>3, <4>1, <4>2
    <3>5. answers' = {Content(hypo[x]) : x \in best}
      BY <3>1, <3>4 DEF Terminated
    <3>6. /\ \A x \in best : Content(hypo[x]) \in CompleteDerivations(input)
          /\ stack[SourceSize].hypos # {} => best # {}
          /\ \A x, y \in best : Content(hypo[x]).total = Content(hypo[y]).total
      BY <1>3, <3>3, BestAnswers
    <3>7. answers' \in SUBSET Promise!CompleteDerivations(input)
      BY <3>5, <3>6, SamePromise
    <3>8. input.constraint = <<>> /\ Promise!Consistent(input.rc) => answers' # {}
      <4>1. SUFFICES ASSUME input.constraint = <<>>, Consistent(input.rc)
                     PROVE  answers' # {}
        BY SamePromise
      <4>2. SourceSize \in Stacks /\ SourceSize <= ind
        BY <2>2, SourceSizeAssumption DEF Stacks
      <4>3. stack[SourceSize].hypos # {}
        BY <1>3, <4>1, <4>2 DEF IInv, Onward
      <4>4. QED
        BY <3>5, <3>6, <4>3
    <3>9. \A g, h \in answers' : g.total = h.total
      BY <3>5, <3>6
    <3>10. Promise!Finish
      BY <3>1, <3>2, <3>7, <3>8, <3>9 DEF Promise!Finish
    <3>11. QED
      BY <3>10 DEF Promise!Next
  <2>3. CASE \/ OpenStack \/ ExpandHypothesis \/ (\E h \in queue : ProcessOneHypothesis(h))
             \/ (FinishStack /\ ind # SourceSize)
    <3>1. /\ input' = input /\ pc \in {"stack", "expand"} /\ pc' \in {"stack", "expand"}
      BY <2>3 DEF OpenStack, ExpandHypothesis, ProcessOneHypothesis, FinishStack
    <3>2. UNCHANGED <<input, phase, answers>>
      BY <3>1 DEF Terminated
    <3>3. QED
      BY <3>2
  <2>4. CASE UNCHANGED vars
    <3>1. UNCHANGED <<input, conf, hypo, stack, arcs, winning, deleted, pc, ind, queue,
                      current, pending, actual>>
      BY <2>4 DEF vars
    <3>2. Answers' = Answers /\ (Terminated' <=> Terminated)
      BY <3>1 DEF Answers, Terminated, Stacks, Ids
    <3>3. phase' = phase
      BY <3>1, <3>2
    <3>4. answers' = answers
      BY <3>1, <3>2
    <3>5. QED
      BY <3>1, <3>3, <3>4
  <2>5. QED
    BY <1>3, <2>1, <2>2, <2>3, <2>4 DEF Next
<1>4. QED
  BY <1>1, <1>3, Invariant, PTL DEF Spec, Promise!Safety

------------------------------------------------------------------------------
(****************************************************************************)
(* Exactness: without pruning, every derivation has a hypothesis on the     *)
(* stacks that recombines with it and is as good.                           *)
(****************************************************************************)

\* The option j has still to be tried on the hypothesis x.
Waiting(x, j) == x \in queue \/ (x = current /\ j \in pending)

\* The option j has been tried.
Tried(x, j) ==
  \E h \in Ids : hypo[h] = CreateNext(x, hypo[x], input.options[j])

\* The hypotheses of a stack that was opened are extended by all the options
\* that may follow them, or will be.
Expanded ==
  /\ hypo[1] = Seed
  /\ \A k \in Stacks : Open(k) =>
       \A x \in stack[k].hypos : \A j \in Allowed(x) : Waiting(x, j) \/ Tried(x, j)

LEMMA InitExpanded == Init => Expanded
<1> SUFFICES ASSUME Init PROVE Expanded
  OBVIOUS
<1>1. hypo[1] = Seed /\ pc = "stack" /\ ind = 0
  BY DEF Init
<1>2. \A k \in Stacks : ~Open(k)
  BY <1>1, SourceSizeAssumption DEF Open, Stacks
<1>3. QED
  BY <1>1, <1>2 DEF Expanded

\* A step that makes no hypothesis keeps what was tried.
LEMMA TriedStays ==
  ASSUME UNCHANGED <<input, hypo>>
  PROVE  \A x, j : Tried(x, j)' <=> Tried(x, j)
BY DEF Tried, Ids

LEMMA StepExpanded ==
  ASSUME IInv, IInv', Expanded, [Next]_vars
  PROVE  Expanded'
<1>1. Types /\ InHand /\ Frozen
  BY StepFrozen DEF IInv
<1>2. SUFFICES /\ hypo'[1] = Seed
               /\ \A k \in Stacks : Open(k)' =>
                    \A x \in stack'[k].hypos : \A j \in Allowed(x)' :
                      Waiting(x, j)' \/ Tried(x, j)'
  BY DEF Expanded, Stacks
<1>3. hypo[1] = Seed
  BY DEF Expanded
<1>4. ASSUME UNCHANGED <<input, hypo>>, NEW k \in Stacks, Open(k),
             NEW x \in stack'[k].hypos, NEW j \in Allowed(x)'
      PROVE  x \in stack[k].hypos /\ (Waiting(x, j) \/ Tried(x, j)')
  <2>1. stack'[k] = stack[k]
    BY <1>1, <1>4 DEF Frozen
  <2>2. j \in Allowed(x)
    BY <1>4 DEF Allowed
  <2>3. QED
    BY <1>4, <2>1, <2>2, TriedStays DEF Expanded
<1>5. CASE TimeOut \/ UNCHANGED vars
  <2>1. UNCHANGED <<input, hypo, queue, current, pending>> /\ \A k : Open(k)' => Open(k)
    BY <1>5 DEF TimeOut, vars, Open
  <2>2. QED
    BY <1>3, <1>4, <2>1 DEF Waiting
<1>6. CASE OpenStack
  <2>1. /\ UNCHANGED <<input, hypo, ind, current, pending>> /\ pc = "stack"
        /\ \E s : stack' = [stack EXCEPT ![ind] = s] /\ queue' = s.hypos
    BY <1>6 DEF OpenStack
  <2>2. ind \in Stacks /\ DOMAIN stack = Stacks
    BY <1>1, <2>1 DEF Types
  <2>3. queue = {} /\ pending = {} /\ queue' = stack'[ind].hypos
    BY <1>1, <2>1, <2>2 DEF InHand
  <2>4. ASSUME NEW k \in Stacks, Open(k)', NEW x \in stack'[k].hypos, NEW j \in Allowed(x)'
        PROVE  Waiting(x, j)' \/ Tried(x, j)'
    <3>1. CASE k = ind
      BY <2>3, <2>4, <3>1 DEF Waiting
    <3>2. CASE k # ind
      <4>1. Open(k)
        BY <2>1, <2>4, <3>2 DEF Open
      <4>2. QED
        BY <1>4, <2>1, <2>3, <2>4, <4>1 DEF Waiting
    <3>3. QED
      BY <3>1, <3>2
  <2>5. QED
    BY <1>3, <2>1, <2>4
<1>7. CASE \E h \in queue : ProcessOneHypothesis(h)
  <2>1. PICK h \in queue : /\ UNCHANGED <<input, hypo, ind, pc>> /\ pending = {}
                           /\ queue' = queue \ {h} /\ current' = h /\ pending' = Allowed(h)
    BY <1>7 DEF ProcessOneHypothesis
  <2>2. \A k : Open(k)' <=> Open(k)
    BY <2>1 DEF Open
  <2>3. ASSUME NEW k \in Stacks, Open(k)', NEW x \in stack'[k].hypos, NEW j \in Allowed(x)'
        PROVE  Waiting(x, j)' \/ Tried(x, j)'
    <3>1. Waiting(x, j) \/ Tried(x, j)'
      BY <1>4, <2>1, <2>2, <2>3
    <3>2. j \in Allowed(x)
      BY <2>1, <2>3 DEF Allowed
    <3>3. x \in queue => Waiting(x, j)'
      BY <2>1, <3>2 DEF Waiting
    <3>4. QED
      BY <2>1, <3>1, <3>3 DEF Waiting
  <2>4. QED
    BY <1>3, <2>1, <2>3
<1>8. CASE ExpandHypothesis
  <2> DEFINE made == CreateNext(current, hypo[current], input.options[Min(pending)])
             h == Len(hypo) + 1
  <2>1. /\ UNCHANGED <<input, pc, ind, queue, current>>
        /\ pending # {} /\ pending' = pending \ {Min(pending)}
        /\ hypo' = Append(hypo, made)
    BY <1>8 DEF ExpandHypothesis
  <2> HIDE DEF made
  <2>2. hypo \in Seq(Hypotheses) /\ Len(hypo) \in Nat /\ Len(hypo) >= 1
    BY <1>1 DEF Types
  <2>3. /\ Ids = 1 .. Len(hypo) /\ Ids' = 1 .. h
        /\ \A y \in Ids : hypo'[y] = hypo[y]
        /\ hypo'[h] = made
    BY <2>1, <2>2 DEF Ids
  <2>4. \A k : Open(k)' <=> Open(k)
    BY <2>1 DEF Open
  <2>5. ASSUME NEW k \in Stacks, Open(k)', NEW x \in stack'[k].hypos, NEW j \in Allowed(x)'
        PROVE  Waiting(x, j)' \/ Tried(x, j)'
    <3>1. x \in stack[k].hypos /\ x \in Ids
      <4>1. x \in stack[k].hypos
        BY <1>1, <2>4, <2>5 DEF Frozen
      <4>2. QED
        BY <4>1, Apart
    <3>2. j \in Allowed(x) /\ hypo'[x] = hypo[x]
      BY <2>1, <2>3, <3>1, <2>5 DEF Allowed
    <3>3. Waiting(x, j) \/ Tried(x, j)
      BY <2>4, <2>5, <3>1, <3>2 DEF Expanded
    <3>4. CASE Tried(x, j)
      <4>1. PICK y \in Ids : hypo[y] = CreateNext(x, hypo[x], input.options[j])
        BY <3>4 DEF Tried
      <4>2. y \in Ids' /\ hypo'[y] = CreateNext(x, hypo'[x], input'.options[j])
        BY <2>1, <2>2, <2>3, <3>2, <4>1
      <4>3. QED
        BY <4>2 DEF Tried
    <3>5. CASE x = current /\ j = Min(pending)
      <4>1. h \in Ids' /\ hypo'[h] = CreateNext(x, hypo'[x], input'.options[j])
        BY <2>1, <2>2, <2>3, <3>2, <3>5 DEF made
      <4>2. QED
        BY <4>1 DEF Tried
    <3>6. CASE Waiting(x, j) /\ ~(x = current /\ j = Min(pending))
      BY <2>1, <3>6 DEF Waiting
    <3>7. QED
      BY <3>3, <3>4, <3>5, <3>6
  <2>6. hypo'[1] = Seed
    BY <1>3, <2>2, <2>3
  <2>7. QED
    BY <2>5, <2>6
<1>9. CASE FinishStack
  <2>1. /\ UNCHANGED <<input, hypo, stack, queue, pending>> /\ ind' = ind + 1
        /\ pending = {} /\ queue = {} /\ pc = "expand" /\ pc' # "expand"
    BY <1>9 DEF FinishStack
  <2>2. ASSUME NEW k \in Stacks, Open(k)', NEW x \in stack'[k].hypos, NEW j \in Allowed(x)'
        PROVE  Waiting(x, j)' \/ Tried(x, j)'
    <3>1. ind \in Nat /\ k \in Nat
      BY <1>1, <2>1, SourceSizeAssumption DEF Types, Stacks
    <3>2. Open(k)
      BY <2>1, <2>2, <3>1 DEF Open
    <3>3. QED
      BY <1>4, <2>1, <2>2, <3>2 DEF Waiting
  <2>3. QED
    BY <1>3, <2>1, <2>2
<1>10. QED
  BY <1>5, <1>6, <1>7, <1>8, <1>9 DEF Next

LEMMA Expansions == Spec => [](IInv /\ Expanded)
<1>1. Init => IInv /\ Expanded
  BY InitIInv, InitExpanded
<1>2. (IInv /\ Expanded) /\ [Next]_vars => (IInv /\ Expanded)'
  BY StepIInv, StepExpanded
<1>3. QED
  BY <1>1, <1>2, PTL DEF Spec

\* Nothing is pruned: each hypothesis has an equal or better twin.
LEMMA TwinStays ==
  ASSUME IInv, Exhaustive, NEW h \in Ids
  PROVE  \E y \in stack[Covered(h)].hypos :
           /\ y \in Ids
           /\ RecombineKey(hypo[y]) = RecombineKey(hypo[h])
           /\ hypo[y].total >= hypo[h].total
<1> DEFINE stk == stack[Covered(h)]
           asGood == {x \in stk.hypos : hypo[x].total >= hypo[h].total}
<1>1. /\ Covered(h) \in Stacks /\ IsFiniteSet(Ids) /\ IsConf(conf)
      /\ \A x \in Ids : hypo[x].total \in Int
  BY Facts DEF IInv, AreHypotheses, Hypotheses
<1>2. stk.hypos \subseteq Ids
  BY <1>1, Apart
<1>3. Cardinality(asGood) < conf.stackSize
  <2>1. asGood \subseteq Ids
    BY <1>2
  <2>2. /\ Cardinality(asGood) \in Nat /\ Cardinality(Ids) \in Nat
        /\ Cardinality(asGood) <= Cardinality(Ids)
    BY <1>1, <2>1, FS_Subset, FS_CardinalityType
  <2>3. QED
    BY <1>1, <2>2 DEF Exhaustive, IsConf
<1>4. ~(hypo[h].total <= stk.best + conf.beamWidth)
  <2>1. BestSeen(hypo, Came(Covered(h)), stk) /\ h \in Came(Covered(h))
    BY <1>1 DEF IInv, StacksSound, Holds, StackSound, Came
  <2>2. PICK x \in stk.hypos : hypo[x].total = stk.best
    BY <2>1 DEF BestSeen
  <2>3. hypo[h].total > stk.best + conf.beamWidth
    BY <1>2, <2>2 DEF Exhaustive
  <2>4. hypo[h].total \in Int /\ stk.best \in Int /\ conf.beamWidth \in Int
    BY <1>1, <1>2, <2>2 DEF IsConf
  <2>5. QED
    BY <2>3, <2>4
<1>5. ~(Cardinality(asGood) >= conf.stackSize)
  <2>1. Cardinality(asGood) \in Nat /\ conf.stackSize \in Nat
    BY <1>1, <1>2, FS_Subset, FS_CardinalityType DEF IsConf
  <2>2. QED
    BY <1>3, <2>1
<1>6. \E x \in asGood : RecombineKey(hypo[x]) = RecombineKey(hypo[h])
  BY <1>4, <1>5, JustifiedFollows DEF PruningJustified, Exhaustive
<1>7. QED
  BY <1>2, <1>6

\* A hypothesis on the stacks recombines with the derivation d and is as good.
Found(d) ==
  \E x \in Ids : /\ x \in stack[Covered(x)].hypos
                 /\ RecombineKey(hypo[x]) = RecombineKey(d)
                 /\ hypo[x].score >= d.score
                 /\ hypo[x].total >= d.total

\* The seed is never lost.
LEMMA SeedFound ==
  ASSUME IInv, Expanded, Exhaustive
  PROVE  Seed \in Hypotheses /\ Found(Seed)
<1>1. 1 \in Ids /\ hypo[1] = Seed
  BY Facts DEF IInv, Types, Expanded
<1>2. PICK y \in stack[Covered(1)].hypos :
        y \in Ids /\ RecombineKey(hypo[y]) = RecombineKey(Seed)
  BY <1>1, TwinStays
<1>3. hypo[y].bitmap = Seed.bitmap /\ Cardinality(Seed.bitmap) = 0
  BY <1>2, KeyTells, SeedTyped
<1>4. PICK n \in 0 .. Cardinality(hypo[y].bitmap) : Content(hypo[y]) \in Derivations(input)[n]
  BY <1>2 DEF IInv, Derived, EndsDerivation
<1>5. n = 0
  BY <1>3, <1>4
<1>6. Content(hypo[y]) = Seed
  BY <1>4, <1>5, DerivationsAre
<1>7. hypo[y].score = 0 /\ hypo[y].total = 0
  <2>1. hypo[y] \in Hypotheses
    BY <1>2, Facts DEF IInv
  <2>2. QED
    BY <1>6, <2>1, ContentIs DEF Seed
<1>8. Covered(y) = Covered(1)
  BY <1>1, <1>3 DEF Covered
<1>9. Seed.score = 0 /\ Seed.total = 0
  BY DEF Seed
<1>10. Found(Seed)
  BY <1>2, <1>7, <1>8, <1>9 DEF Found
<1>11. QED
  BY <1>10, SeedTyped

\* What a step adds to a derivation that is found is found.
LEMMA NextFound ==
  ASSUME IInv, Expanded, Exhaustive, pc = "done",
         ReorderingComparable, input.constraint = <<>>,
         NEW p \in Hypotheses, Found(p), NEW j \in MayFollow(input, p),
         NEW d, d = CreateNext(NoHypothesis, p, input.options[j])
  PROVE  d \in Hypotheses /\ Found(d)
<1> DEFINE opt == input.options[j]
<1>1. Types /\ Derived /\ InHand
  BY DEF IInv
<1>2. opt \in TranslationOptions
  <2>1. input.options \in Seq(TranslationOptions) /\ j \in 1 .. Len(input.options)
    BY <1>1, InputAssumption DEF Types, MayFollow
  <2>2. QED
    BY <2>1
<1>3. PICK x \in Ids : /\ x \in stack[Covered(x)].hypos
                       /\ RecombineKey(hypo[x]) = RecombineKey(p)
                       /\ hypo[x].score >= p.score
  BY DEF Found
<1>4. hypo[x] \in Hypotheses /\ Covered(x) \in Stacks /\ x \in Nat /\ NoHypothesis \in Nat
  BY <1>1, Facts DEF NoHypothesis
<1>5. PICK b : b = CreateNext(x, hypo[x], opt)
  OBVIOUS
<1>6. /\ j \in Allowed(x)
      /\ RecombineKey(d) = RecombineKey(b)
      /\ d.score - p.score = b.score - hypo[x].score
      /\ d.total - p.score = b.total - hypo[x].score
  <2>1. input \in Inputs
    BY <1>1 DEF Types
  <2>2. QED
    BY <1>2, <1>3, <1>4, <1>5, <2>1, RecombinationSafe DEF Allowed
<1>7. /\ d \in Hypotheses /\ b \in Hypotheses
      /\ b.total = b.score + FutureScore(b.bitmap)
      /\ b.bitmap = hypo[x].bitmap \cup SpanPositions(opt.span)
  BY <1>2, <1>4, <1>5, CreateNextTyped
<1>8. PICK h \in Ids : hypo[h] = b
  <2>1. Open(Covered(x))
    BY <1>1, <1>4, SourceSizeAssumption DEF Types, Stacks, Open
  <2>2. ~Waiting(x, j)
    BY <1>1 DEF InHand, Waiting
  <2>3. Tried(x, j)
    BY <1>3, <1>4, <1>6, <2>1, <2>2 DEF Expanded
  <2>4. QED
    BY <1>5, <2>3 DEF Tried
<1>9. PICK y \in stack[Covered(h)].hypos :
        /\ y \in Ids /\ RecombineKey(hypo[y]) = RecombineKey(b)
        /\ hypo[y].total >= b.total
  BY <1>8, TwinStays
<1>10. hypo[y] \in Hypotheses /\ hypo[y].bitmap = b.bitmap /\ Covered(y) = Covered(h)
  BY <1>1, <1>8, <1>9, Facts, KeyTells DEF Covered
<1>11. b.bitmap # {}
  <2>1. opt.span \in PhraseSpans
    BY <1>2 DEF TranslationOptions
  <2>2. opt.span[1] \in SpanPositions(opt.span)
    BY <2>1, SourceSizeAssumption DEF PhraseSpans, Spans, Positions, SpanPositions
  <2>3. QED
    BY <1>7, <2>2
<1>12. y # 1
  BY <1>10, <1>11 DEF Expanded, Seed
<1>13. hypo[y].total = hypo[y].score + FutureScore(b.bitmap)
  BY <1>1, <1>9, <1>10, <1>12 DEF Derived, EndsDerivation
<1>14. /\ hypo[y].score \in Int /\ hypo[y].total \in Int /\ b.score \in Int /\ b.total \in Int
       /\ d.score \in Int /\ d.total \in Int /\ p.score \in Int /\ hypo[x].score \in Int
       /\ FutureScore(b.bitmap) \in Int
  BY <1>4, <1>7, <1>10, ScoreAssumption DEF Hypotheses
<1>15. hypo[y].score >= d.score /\ hypo[y].total >= d.total
  BY ONLY <1>3, <1>6, <1>7, <1>9, <1>13, <1>14
<1>16. RecombineKey(hypo[y]) = RecombineKey(d)
  BY <1>6, <1>9
<1>17. QED
  BY <1>7, <1>9, <1>10, <1>15, <1>16 DEF Found

\* Every derivation is found.
LEMMA AllFound ==
  ASSUME IInv, Expanded, Exhaustive, pc = "done",
         ReorderingComparable, input.constraint = <<>>,
         NEW n \in 0 .. SourceSize, NEW d \in Derivations(input)[n]
  PROVE  d \in Hypotheses /\ Found(d)
<1> DEFINE Good(m) == \A e \in Derivations(input)[m] : e \in Hypotheses /\ Found(e)
           Bad == {m \in 0 .. SourceSize : ~Good(m)}
<1>1. SUFFICES ASSUME Bad # {} PROVE FALSE
  OBVIOUS
<1>2. PICK m \in Bad : \A l \in Bad : m <= l
  <2>1. Bad \subseteq Nat
    BY SourceSizeAssumption
  <2> HIDE DEF Bad
  <2>2. QED
    BY <1>1, <2>1, LeastNatural
<1>3. CASE m = 0
  BY <1>2, <1>3, DerivationsAre, SeedFound
<1>4. CASE m # 0
  <2>1. m - 1 \in 0 .. SourceSize - 1 /\ m - 1 \in 0 .. SourceSize /\ ~(m <= m - 1)
        /\ (m - 1) + 1 = m
    BY <1>2, <1>4, SourceSizeAssumption
  <2>2. Good(m - 1)
    BY <1>2, <2>1
  <2>3. Derivations(input)[m] = Steps(input, Derivations(input)[m - 1])
    BY <2>1, DerivationsAre
  <2>4. ASSUME NEW e \in Derivations(input)[m]
        PROVE  e \in Hypotheses /\ Found(e)
    <3>1. PICK p \in Derivations(input)[m - 1] :
            \E j \in MayFollow(input, p) :
              e = CreateNext(NoHypothesis, p, input.options[j])
      BY <2>3, <2>4 DEF Steps
    <3>2. PICK j \in MayFollow(input, p) :
            e = CreateNext(NoHypothesis, p, input.options[j])
      BY <3>1
    <3>3. p \in Hypotheses /\ Found(p)
      BY <2>2
    <3>4. QED
      BY <3>2, <3>3, NextFound
  <2>5. QED
    BY <1>2, <2>4
<1>5. QED
  BY <1>3, <1>4

LEMMA ExactFollows == IInv /\ Expanded => ExactWithoutPruning
<1> SUFFICES ASSUME IInv, Expanded, Exhaustive, pc = "done",
                    ReorderingComparable, input.constraint = <<>>, NEW x \in Answers
             PROVE  hypo[x].total = Max({h.total : h \in CompleteDerivations(input)})
  BY DEF ExactWithoutPruning
<1> DEFINE totals == {h.total : h \in CompleteDerivations(input)}
           stk == stack[SourceSize]
<1>1. x \in GetBestHypothesis(hypo, stk)
  BY DEF Answers
<1>2. x \in Ids /\ Content(hypo[x]) \in CompleteDerivations(input)
  BY <1>1, BestAnswers
<1>3. hypo[x] \in Hypotheses /\ hypo[x].total \in Int /\ hypo[x].total \in totals
  <2>1. hypo[x] \in Hypotheses
    BY <1>2, Facts DEF IInv
  <2>2. Content(hypo[x]).total = hypo[x].total
    BY <2>1, ContentIs
  <2>3. QED
    BY <1>2, <2>1, <2>2 DEF Hypotheses
<1>4. \A y \in stk.hypos : hypo[x].total >= hypo[y].total
  BY <1>1 DEF GetBestHypothesis
<1>5. ASSUME NEW d \in CompleteDerivations(input)
      PROVE  d.total \in Int /\ hypo[x].total >= d.total
  <2>1. PICK n \in 0 .. SourceSize : d \in Derivations(input)[n]
    BY DEF CompleteDerivations, AllDerivations
  <2>2. d \in Hypotheses /\ Found(d)
    BY <2>1, AllFound
  <2>3. PICK y \in Ids : /\ y \in stack[Covered(y)].hypos
                         /\ RecombineKey(hypo[y]) = RecombineKey(d)
                         /\ hypo[y].total >= d.total
    BY <2>2 DEF Found
  <2>4. hypo[y].bitmap = d.bitmap /\ d.bitmap \subseteq Positions /\ IsComplete(d.bitmap)
    BY <2>2, <2>3, KeyTells DEF Hypotheses, Bitmaps, CompleteDerivations
  <2>5. hypo[y].bitmap = Positions
    BY <2>4 DEF IsComplete, Gaps
  <2>6. Covered(y) = SourceSize
    BY <2>5, SourceSizeAssumption, FS_Interval DEF Covered, Positions
  <2>7. hypo[x].total >= hypo[y].total /\ hypo[y] \in Hypotheses
    BY <1>4, <2>3, <2>6, Facts DEF IInv
  <2>8. hypo[y].total \in Int /\ d.total \in Int
    BY <2>2, <2>7 DEF Hypotheses
  <2>9. QED
    BY <1>3, <2>3, <2>7, <2>8
<1>6. \A t \in totals : t \in Int /\ hypo[x].total >= t
  BY <1>5
<1> HIDE DEF totals
<1>7. Max(totals) \in totals /\ \A t \in totals : Max(totals) >= t
  <2>1. Max(totals) = CHOOSE t \in totals : \A u \in totals : t >= u
    BY DEF Max
  <2>2. QED
    BY <1>3, <1>6, <2>1
<1>8. hypo[x].total = Max(totals)
  BY <1>3, <1>6, <1>7
<1>9. QED
  BY <1>8 DEF totals

\* Without pruning, stack decoding finds the best of all derivations, though it
\* never looks at most of them: recombination drops only what cannot become
\* better (SearchNormal::ProcessSentence, Hypothesis::RecombineCompare).
THEOREM Exactness == Spec => []ExactWithoutPruning
<1>1. IInv /\ Expanded => ExactWithoutPruning
  BY ExactFollows
<1>2. QED
  BY <1>1, Expansions, PTL
============================================================================
