------------------------ MODULE SearchCubePruningProofs ------------------------
(****************************************************************************)
(* Cube pruning keeps what it promises, for every sentence, set of          *)
(* translation options, score function and setting of the switches.         *)
(*                                                                          *)
(* IInv is inductive.  A hypothesis comes to its stack when it leaves its   *)
(* queue: IInv says of each stack what HypothesisProofs says of one with    *)
(* the hypotheses that came to it, of each hypothesis that it is the end of *)
(* a derivation and was made of one in a stack that is closed, of each grid *)
(* that it lists what its closed stack has for it and that only cells in    *)
(* the queue have a neighbour nobody has seen, and of the work in hand that *)
(* it leaves no stack empty.                                                *)
(****************************************************************************)
EXTENDS SearchCubePruning, HypothesisProofs

\* The hypotheses in the queues, those that came to stack k, and those of them
\* that live.
Waits     == {q.hypo : q \in queue}
Came(k)   == {h \in Ids \ Waits : Covered(h) = k}
Living(k) == Came(k) \ deleted

\* The stacks that have been closed.
Closed(k) == k < ind \/ (k = ind /\ pc \in {"todos", "done"})

\* The sequence s lists the finite set S.
Lists(s, S) ==
  /\ IsFiniteSet(S)
  /\ DOMAIN s = 1 .. Cardinality(S)
  /\ \A n \in DOMAIN s : s[n] \in S
  /\ \A m, n \in DOMAIN s : s[m] = s[n] => m = n
  /\ \A x \in S : \E n \in DOMAIN s : s[n] = x

Grids == [hypos : Seq(Nat), translations : Seq(Nat), seen : SUBSET (Nat \X Nat)]

Types ==
  /\ input \in Inputs /\ conf \in Confs(input)
  /\ hypo \in Seq(Hypotheses) /\ Len(hypo) >= 1
  /\ DOMAIN stack = Stacks
  /\ arcs \in [Ids -> SUBSET Ids]
  /\ winning \in [Ids -> Ids \cup {Unset}]
  /\ deleted \subseteq Ids \ Waits
  /\ pc \in {"todos", "stack", "edges", "pop", "done", "interrupted"}
  /\ ind \in Stacks
  /\ pc = "done" => ind = SourceSize
  /\ pc \in {"stack", "edges", "pop", "interrupted"} => ind > 0
  /\ todos \subseteq Bitmaps
  /\ \A e \in DOMAIN edges : edges[e] \in Grids
  /\ inserted \in [Bitmaps -> Nat] /\ pops \in 0 .. conf.popLimit

Derived ==
  /\ hypo[1] = Seed
  /\ \A h \in Ids : EndsDerivation(input, hypo, h)

\* A stack, to which I came and of which G live.
CubeHolds(H, cf, I, stk, ar, G) ==
  /\ CubeSound(H, cf, I, stk)
  /\ Owned(stk.hypos, ar, G)
  /\ Dominated(H, stk.hypos, ar)

StacksSound ==
  \A k \in Stacks :
    /\ CubeHolds(hypo, conf, Came(k), stack[k], arcs, Living(k))
    /\ ~Closed(k) => CubeRefuses(hypo, conf, Came(k), stack[k])

ArcsKept ==
  /\ \A h \in deleted \cup Waits : arcs[h] = {}
  /\ ~conf.nBest => NoArcs(arcs)

\* Back pointers lead to closed stacks.
PrevClosed ==
  \A h \in Ids :
    LET g == hypo[h].prev
    IN  g # NoHypothesis => /\ g \in Ids /\ Covered(g) \in Stacks
                            /\ Closed(Covered(g)) /\ g \in stack[Covered(g)].hypos

\* The grid g of the edge e lists what the stack has for it.
IsGrid(i, H, stk, e, g) ==
  /\ e \in Bitmaps \X PhraseSpans
  /\ ~Overlap(e[1], e[2])
  /\ CheckDistortion(i.rc, e[1], e[2], i.maxDistortion)
  /\ Lists(g.hypos, {x \in stk.hypos : /\ H[x].bitmap = e[1]
                                       /\ EdgeTakes(e[1], H[x].range, e[2], i.maxDistortion)})
  /\ Lists(g.translations, {j \in DOMAIN i.options : i.options[j].span = e[2]})

Places(g)     == (DOMAIN g.hypos) \X (DOMAIN g.translations)
Neighbours(c) == {<<c[1], c[2] + 1>>, <<c[1] + 1, c[2]>>}
Queued(e, c)  == \E q \in queue : q.edge = e /\ q.cell = c

\* What has been seen of a grid has its neighbours seen, or is in the queue.
Explored(e) ==
  /\ edges[e].seen \subseteq Places(edges[e])
  /\ edges[e].seen # {} => <<1, 1>> \in edges[e].seen
  /\ \A c \in edges[e].seen :
       Queued(e, c) \/ Neighbours(c) \cap Places(edges[e]) \subseteq edges[e].seen

EdgesSound ==
  \A e \in DOMAIN edges :
    /\ Cardinality(e[1]) \in Stacks /\ Closed(Cardinality(e[1]))
    /\ e[1] \notin todos
    /\ IsGrid(input, hypo, stack[Cardinality(e[1])], e, edges[e])
    /\ Explored(e)

\* Every bitmap of a closed stack has its edges, or is to get them.
EdgesComplete ==
  /\ todos # {} => pc = "todos"
  /\ todos \subseteq Coverages(hypo, stack[ind].hypos)
  /\ \A k \in Stacks : Closed(k) =>
       \A x \in stack[k].hypos : hypo[x].bitmap \notin todos =>
         \A r \in ForwardSpans(hypo[x].bitmap) : <<hypo[x].bitmap, r>> \in DOMAIN edges

\* The items of the queues are what was made of their cells.
QueueSound ==
  /\ \A q \in queue : /\ q.hypo \in Ids /\ q.edge \in DOMAIN edges
                      /\ q.cell \in edges[q.edge].seen
                      /\ hypo[q.hypo] = CreateHypothesis(q.edge, q.cell)
  /\ \A p, q \in queue : p.hypo = q.hypo => p = q

\* Every hypothesis was made of a cell, and every cell that was seen has one.
Origins ==
  /\ \A h \in Ids \ {1} :
       \E e \in DOMAIN edges : \E c \in edges[e].seen : hypo[h] = CreateHypothesis(e, c)
  /\ \A e \in DOMAIN edges : \A c \in edges[e].seen :
       \E h \in Ids : hypo[h] = CreateHypothesis(e, c)

\* The work in hand: the grids of the stack have their first cell queued
\* before it is popped, and something comes to it.
Filled(k) == k < ind \/ (k = ind /\ pc \in {"pop", "todos", "done"})

Begun ==
  /\ \A e \in DOMAIN edges :
       Filled(Cardinality(Target(e))) /\ Places(edges[e]) # {} => edges[e].seen # {}
  /\ pc = "pop" => pops <= Cardinality(Came(ind))

\* No stack is empty, unless zones and walls contradict each other.
Onward ==
  Consistent(input.rc) =>
    \A k \in Stacks : Closed(k) => stack[k].hypos # {}

IInv ==
  /\ Types
  /\ Derived
  /\ StacksSound
  /\ ArcsKept
  /\ PrevClosed
  /\ EdgesSound
  /\ EdgesComplete
  /\ QueueSound
  /\ Origins
  /\ NothingBuiltTwice
  /\ Begun
  /\ Onward

------------------------------------------------------------------------------
(****************************************************************************)
(* What the invariant says of the data.                                     *)
(****************************************************************************)

LEMMA Facts ==
  ASSUME Types, Derived
  PROVE  /\ Ids = 1 .. Len(hypo) /\ Len(hypo) \in Nat /\ 1 \in Ids /\ IsFiniteSet(Ids)
         /\ \A h \in Ids : /\ hypo[h] \in Hypotheses /\ Covered(h) \in Stacks
                           /\ Content(hypo[h]) \in AllDerivations(input)
         /\ AreHypotheses(hypo, Ids)
         /\ \A k : Came(k) \subseteq Ids /\ AreHypotheses(hypo, Came(k))
         /\ IsCubeConf(conf)
         /\ IsConstraint(input.rc) /\ IsLimit(input.maxDistortion)
<1>1. Ids = 1 .. Len(hypo) /\ Len(hypo) \in Nat /\ \A h \in Ids : hypo[h] \in Hypotheses
  BY DEF Types, Ids
<1>2. \A h \in Ids : /\ NegInf < hypo[h].total /\ Covered(h) \in Stacks
                     /\ Content(hypo[h]) \in AllDerivations(input)
  BY <1>1, DerivedAbove DEF Types, Derived, Covered, Stacks
<1>3. IsFiniteSet(Ids) /\ 1 \in Ids
  BY <1>1, FS_Interval DEF Types
<1>4. AreHypotheses(hypo, Ids)
  BY <1>1, <1>2, <1>3 DEF AreHypotheses
<1>5. \A k : Came(k) \subseteq Ids
  BY DEF Came
<1>6. \A k : IsFiniteSet(Came(k))
  BY <1>3, <1>5, FS_Subset
<1>7. \A k : AreHypotheses(hypo, Came(k))
  BY <1>4, <1>5, <1>6 DEF AreHypotheses
<1>8. IsCubeConf(conf)
  BY ConfAssumption DEF IsCubeConf, Types
<1>9. IsConstraint(input.rc) /\ IsLimit(input.maxDistortion)
  BY InputAssumption DEF IsLimit, Types
<1>10. QED
  BY <1>1, <1>2, <1>3, <1>4, <1>5, <1>7, <1>8, <1>9

\* What belongs to a stack belongs to no other, and to no queue.
LEMMA Apart ==
  ASSUME Types, StacksSound
  PROVE  /\ \A k : Living(k) \subseteq Came(k) /\ Came(k) \subseteq Ids \ Waits
         /\ \A k \in Stacks : /\ stack[k].hypos \subseteq Living(k)
                              /\ \A w \in stack[k].hypos : arcs[w] \subseteq Living(k)
         /\ \A k, l : k # l => Came(k) \cap Came(l) = {}
         /\ DOMAIN arcs = Ids /\ DOMAIN winning = Ids
<1>1. \A k : Living(k) \subseteq Came(k) /\ Came(k) \subseteq Ids \ Waits
  BY DEF Living, Came
<1>2. \A k, l : k # l => Came(k) \cap Came(l) = {}
  BY DEF Came
<1>3. \A k \in Stacks : Owned(stack[k].hypos, arcs, Living(k))
  BY DEF StacksSound, CubeHolds
<1>4. \A k \in Stacks : /\ stack[k].hypos \subseteq Living(k)
                        /\ \A w \in stack[k].hypos : arcs[w] \subseteq Living(k)
  BY <1>3 DEF Owned
<1>5. QED
  BY <1>1, <1>2, <1>4 DEF Types

\* The other stacks do not notice: I came to one of them, G of those live.
LEMMA OthersHold ==
  ASSUME NEW H, NEW F, NEW cf, NEW I, \A x \in I : F[x] = H[x], NEW stk,
         NEW ar, NEW G, G \subseteq I, CubeHolds(H, cf, I, stk, ar, G),
         NEW new, \A x \in G : new[x] = ar[x]
  PROVE  /\ CubeHolds(F, cf, I, stk, new, G)
         /\ CubeRefuses(H, cf, I, stk) => CubeRefuses(F, cf, I, stk)
<1>1. /\ CubeSound(H, cf, I, stk) /\ Owned(stk.hypos, ar, G) /\ Dominated(H, stk.hypos, ar)
      /\ IsCubeStack(I, stk)
  BY DEF CubeHolds, CubeSound
<1>2. /\ CubeSound(F, cf, I, stk)
      /\ CubeRefuses(H, cf, I, stk) => CubeRefuses(F, cf, I, stk)
  BY <1>1, SameCube
<1>3. Owned(stk.hypos, new, G) /\ Dominated(F, stk.hypos, new)
  BY <1>1, SameOwned
<1>4. QED
  BY <1>2, <1>3 DEF CubeHolds

\* A stack to which something came has a hypothesis.
LEMMA NotEmptied ==
  ASSUME NEW H, NEW cf, NEW I, I # {}, NEW stk, NEW ar, NEW G,
         CubeHolds(H, cf, I, stk, ar, G)
  PROVE  stk.hypos # {}
BY DEF CubeHolds, CubeSound, BestSeen

------------------------------------------------------------------------------
(****************************************************************************)
(* The seed.                                                                *)
(****************************************************************************)

LEMMA EmptyHolds ==
  ASSUME NEW H, NEW cf, NEW ar
  PROVE  /\ CubeHolds(H, cf, {}, CubeEmptyStack, ar, {})
         /\ CubeRefuses(H, cf, {}, CubeEmptyStack)
<1> DEFINE e == CubeEmptyStack
<1>1. e.hypos = {} /\ e.best = NegInf /\ e.worst = NegInf
  BY DEF CubeEmptyStack
<1>2. IsCubeStack({}, e)
  BY NegInfAssumption DEF IsCubeStack, CubeEmptyStack
<1> HIDE DEF e
<1>3. BestSeen(H, {}, e) /\ Floor(H, cf, e) /\ OneEach(H, e.hypos)
      /\ CubeJustified(H, cf, {}, e)
  BY <1>1 DEF BestSeen, Floor, OneEach, CubeJustified
<1>4. Owned(e.hypos, ar, {}) /\ Dominated(H, e.hypos, ar)
  BY <1>1 DEF Owned, Dominated
<1>5. CubeRefuses(H, cf, {}, e)
  BY <1>1, NegInfAssumption DEF CubeRefuses
<1>6. QED
  BY <1>2, <1>3, <1>4, <1>5 DEF CubeHolds, CubeSound, e

LEMMA SeedHolds ==
  ASSUME NEW H, H = <<Seed>>, NEW cf, IsCubeConf(cf), NegInf < Seed.total,
         NEW stk, stk = CubeAdd(H, cf, CubeEmptyStack, 1)
  PROVE  /\ CubeHolds(H, cf, {1}, stk, <<{}>>, {1})
         /\ CubeRefuses(H, cf, {1}, stk)
<1> DEFINE e == CubeEmptyStack
<1>1. H[1] = Seed /\ Seed \in Hypotheses
  BY SeedTyped
<1>2. CubeHolds(H, cf, {}, e, <<{}>>, {}) /\ CubeRefuses(H, cf, {}, e)
  BY EmptyHolds
<1>3. CubeSound(H, cf, {}, e) /\ e.hypos = {} /\ e.worst = NegInf /\ {} \cup {1} = {1}
  BY <1>2 DEF CubeHolds, CubeEmptyStack
<1>4. Without(e, 1) = e
  BY DEF Without, CubeEmptyStack
<1>5. AreHypotheses(H, {} \cup {1})
  BY <1>1, <1>3, FS_Singleton DEF AreHypotheses
<1>6. ~(H[1].total < e.worst)
  <2>1. Seed.total \in Int /\ NegInf \in Int
    BY <1>1, NegInfAssumption DEF Hypotheses
  <2>2. QED
    BY <1>1, <1>3, <2>1
<1>7. CubeMayCome(H, cf, {}, e, 1, 1)
  BY <1>2, <1>3, <1>5, <1>6 DEF CubeMayCome, Yields
<1>8. stk = CubeAdd(H, cf, Without(e, 1), 1)
  BY <1>4
<1>9. CubeKept(H, cf, {}, e, 1, 1, stk)
  BY <1>7, <1>8, CubeAddSound
<1>10. /\ CubeSound(H, cf, {1}, stk) /\ CubeRefuses(H, cf, {1}, stk)
       /\ stk.hypos \subseteq {1}
  BY <1>3, <1>9 DEF CubeKept
<1>11. stk.hypos = {1}
  BY <1>10 DEF CubeSound, BestSeen
<1>12. Owned({1}, <<{}>>, {1}) /\ Dominated(H, {1}, <<{}>>)
  BY DEF Owned, Dominated
<1>13. QED
  BY <1>10, <1>11, <1>12 DEF CubeHolds

LEMMA InitIInv == Init => IInv
<1> SUFFICES ASSUME Init PROVE IInv
  OBVIOUS
<1>1. /\ input \in Inputs /\ conf \in Confs(input) /\ hypo = <<Seed>> /\ arcs = <<{}>>
      /\ deleted = {} /\ pc = "todos" /\ ind = 0 /\ todos = {{}}
      /\ edges = <<>> /\ queue = {} /\ pops = 0
  BY DEF Init
<1>2. Ids = {1} /\ hypo[1] = Seed /\ Len(hypo) = 1 /\ arcs[1] = {} /\ DOMAIN arcs = {1}
  BY <1>1 DEF Ids
<1>3. 0 \in Stacks /\ Waits = {} /\ DOMAIN edges = {}
  BY <1>1, SourceSizeAssumption DEF Stacks, Waits
<1>4. Derived
  <2>1. Seed \in Derivations(input)[0]
    BY DerivationsAre
  <2>2. OnPath(input.rc, {}, NoSpan, input.maxDistortion)
    BY PathSeed
  <2>3. /\ Seed.bitmap = {} /\ Seed.range = NoSpan /\ Seed.prev = 0
        /\ Seed.total = 0 /\ Seed.score = 0
    BY DEF Seed, NoHypothesis
  <2>4. EndsDerivation(input, hypo, 1)
    BY <1>2, <2>1, <2>2, <2>3, SeedTyped DEF EndsDerivation
  <2>5. QED
    BY <1>2, <2>4 DEF Derived
<1>5. /\ stack[0] = CubeAdd(<<Seed>>, conf, CubeEmptyStack, 1)
      /\ \A k \in Stacks : k # 0 => stack[k] = CubeEmptyStack
      /\ winning = Winners(conf, stack[0], arcs, <<Unset>>)
      /\ DOMAIN stack = Stacks
      /\ inserted = [b \in Bitmaps |-> 0]
  BY <1>3 DEF Init
<1>6. IsCubeConf(conf) /\ NegInf < Seed.total
  <2>1. IsCubeConf(conf)
    BY <1>1, ConfAssumption DEF IsCubeConf
  <2>2. NegInf < Seed.total
    BY <1>1, <1>2, <1>4, SeedTyped, DerivedAbove DEF Derived
  <2>3. QED
    BY <2>1, <2>2
<1>7. Came(0) = {1} /\ \A k : k # 0 => Came(k) = {}
  BY <1>2, <1>3, SeedTyped DEF Came, Covered
<1>8. Living(0) = {1} /\ \A k : k # 0 => Living(k) = {}
  BY <1>1, <1>7 DEF Living
<1>9. CubeHolds(hypo, conf, {1}, stack[0], arcs, {1}) /\ CubeRefuses(hypo, conf, {1}, stack[0])
  BY <1>1, <1>5, <1>6, SeedHolds
<1>10. StacksSound
  BY <1>5, <1>7, <1>8, <1>9, EmptyHolds DEF StacksSound
<1>11. stack[0].hypos = {1}
  <2>1. stack[0].hypos \subseteq {1}
    BY <1>9 DEF CubeHolds, Owned
  <2>2. stack[0].hypos # {}
    BY <1>9 DEF CubeHolds, CubeSound, BestSeen
  <2>3. QED
    BY <2>1, <2>2
<1>12. Types
  <2>1. hypo \in Seq(Hypotheses) /\ Len(hypo) >= 1
    BY <1>1, <1>2, SeedTyped
  <2>2. arcs \in [Ids -> SUBSET Ids]
    BY <1>1, <1>2
  <2>3. winning \in [Ids -> Ids \cup {Unset}]
    <3>1. <<Unset>> \in [{1} -> {1} \cup {Unset}]
      OBVIOUS
    <3>2. QED
      BY <1>2, <1>5, <1>11, <3>1, WinnersTyped
  <2>4. inserted \in [Bitmaps -> Nat]
    BY <1>5
  <2>5. pops \in 0 .. conf.popLimit
    BY <1>1, ConfAssumption
  <2>6. todos \subseteq Bitmaps
    BY <1>1 DEF Bitmaps
  <2>7. QED
    BY <1>1, <1>3, <1>5, <2>1, <2>2, <2>3, <2>4, <2>5, <2>6 DEF Types
<1>13. ArcsKept
  BY <1>1, <1>2, <1>3 DEF ArcsKept, NoArcs
<1>14. PrevClosed
  BY <1>2 DEF PrevClosed, Seed
<1>15. EdgesSound /\ QueueSound /\ Origins
  BY <1>1, <1>2, <1>3 DEF EdgesSound, QueueSound, Origins
<1>16. NothingBuiltTwice
  BY <1>2 DEF NothingBuiltTwice
<1>17. Begun
  BY <1>1, <1>3 DEF Begun
<1>18. \A k \in Stacks : Closed(k) => k = 0
  BY <1>1 DEF Closed, Stacks
<1>19. EdgesComplete
  <2>1. Seed.bitmap = {}
    BY DEF Seed
  <2>2. Coverages(hypo, stack[0].hypos) = {{}}
    BY <1>2, <1>11, <2>1 DEF Coverages
  <2>3. QED
    BY <1>1, <1>2, <1>11, <1>18, <2>1, <2>2 DEF EdgesComplete
<1>20. Onward
  BY <1>11, <1>18 DEF Onward
<1>21. QED
  BY <1>4, <1>10, <1>12, <1>13, <1>14, <1>15, <1>16, <1>17, <1>19, <1>20 DEF IInv

------------------------------------------------------------------------------
(****************************************************************************)
(* Lists.                                                                   *)
(****************************************************************************)

\* The relation R orders the set S.
Orders(S, R) ==
  /\ \A x \in S : <<x, x>> \notin R
  /\ \A x, y, z \in S : <<x, y>> \in R /\ <<y, z>> \in R => <<x, z>> \in R
  /\ \A x, y \in S : x # y => <<x, y>> \in R \/ <<y, x>> \in R

\* What is in order lists the set.
LEMMA InOrderLists ==
  ASSUME NEW S, IsFiniteSet(S), NEW R, Orders(S, R)
  PROVE  Lists(InOrder(S, R), S) /\ InOrder(S, R) \in [1 .. Cardinality(S) -> S]
<1> DEFINE Below(x) == {y \in S : <<y, x>> \in R}
           N == Cardinality(S)
           rank == [x \in S |-> Cardinality(Below(x)) + 1]
<1>1. N \in Nat
  BY FS_CardinalityType
<1>2. ASSUME NEW x \in S
      PROVE  IsFiniteSet(Below(x)) /\ Cardinality(Below(x)) \in Nat /\ Cardinality(Below(x)) < N
  <2>1. Below(x) \subseteq S \ {x}
    BY DEF Orders
  <2>2. IsFiniteSet(S \ {x}) /\ Cardinality(S \ {x}) = N - 1
    BY FS_RemoveElement
  <2> HIDE DEF Below, N
  <2>3. IsFiniteSet(Below(x)) /\ Cardinality(Below(x)) <= N - 1
    BY <2>1, <2>2, FS_Subset
  <2>4. Cardinality(Below(x)) \in Nat
    BY <2>3, FS_CardinalityType
  <2>5. QED
    BY <1>1, <2>3, <2>4
<1>3. ASSUME NEW x \in S, NEW y \in S, <<x, y>> \in R
      PROVE  Cardinality(Below(x)) < Cardinality(Below(y))
  <2>1. Below(x) \subseteq Below(y)
    BY <1>3 DEF Orders
  <2>2. x \in Below(y) /\ x \notin Below(x)
    BY <1>3 DEF Orders
  <2>3. Below(x) # Below(y)
    BY <2>2
  <2>4. IsFiniteSet(Below(y)) /\ Cardinality(Below(x)) \in Nat /\ Cardinality(Below(y)) \in Nat
    BY <1>2
  <2>5. /\ Cardinality(Below(x)) <= Cardinality(Below(y))
        /\ Cardinality(Below(x)) = Cardinality(Below(y)) => Below(x) = Below(y)
    BY <2>1, <2>4, FS_Subset
  <2>6. QED
    BY <2>3, <2>4, <2>5
<1>4. ASSUME NEW x \in S, NEW y \in S, Cardinality(Below(x)) = Cardinality(Below(y))
      PROVE  x = y
  <2>1. Cardinality(Below(x)) \in Nat /\ Cardinality(Below(y)) \in Nat
    BY <1>2
  <2>2. ~(<<x, y>> \in R) /\ ~(<<y, x>> \in R)
    BY <1>3, <1>4, <2>1
  <2>3. QED
    BY <2>2 DEF Orders
<1>5. rank \in [S -> 1 .. N] /\ \A x, y \in S : rank[x] = rank[y] => x = y
  <2>1. \A x \in S : rank[x] = Cardinality(Below(x)) + 1
    OBVIOUS
  <2> HIDE DEF Below, N
  <2>2. \A x \in S : Cardinality(Below(x)) + 1 \in 1 .. N
    BY <1>1, <1>2
  <2>3. \A x, y \in S : rank[x] = rank[y] => Cardinality(Below(x)) = Cardinality(Below(y))
    BY <1>2, <2>1
  <2>4. QED
    BY <1>4, <2>2, <2>3
<1>6. ASSUME NEW n \in 1 .. N
      PROVE  \E x \in S : Cardinality(Below(x)) = n - 1
  <2>1. SUFFICES ASSUME \A x \in S : rank[x] # n PROVE FALSE
    <3>1. \A x \in S : rank[x] = Cardinality(Below(x)) + 1
      OBVIOUS
    <3> HIDE DEF rank, Below, N
    <3>2. QED
      BY <1>1, <1>2, <3>1
  <2> DEFINE T == (1 .. N) \ {n}
  <2>2. IsFiniteSet(1 .. N) /\ Cardinality(1 .. N) = N
    BY <1>1, FS_Interval
  <2>3. IsFiniteSet(T) /\ Cardinality(T) = N - 1
    BY <2>2, FS_RemoveElement
  <2>4. rank \in [S -> T]
    BY <1>5, <2>1
  <2> HIDE DEF rank, T
  <2>5. Cardinality(T) < Cardinality(S)
    BY <1>1, <2>3
  <2>6. PICK x, y \in S : x # y /\ rank[x] = rank[y]
    BY <2>3, <2>4, <2>5, FS_PigeonHole
  <2>7. QED
    BY <1>5, <2>6
<1> DEFINE s == InOrder(S, R)
<1>7. DOMAIN s = 1 .. N
  BY DEF InOrder
<1> DEFINE nth(n) == CHOOSE x \in S : Cardinality(Below(x)) = n - 1
<1>8. s = [n \in 1 .. N |-> nth(n)]
  BY DEF InOrder
<1>9. ASSUME NEW n \in 1 .. N
      PROVE  s[n] \in S /\ Cardinality(Below(s[n])) = n - 1
  <2>1. s[n] = CHOOSE x \in S : Cardinality(Below(x)) = n - 1
    BY DEF InOrder
  <2> HIDE DEF s, Below
  <2>2. QED
    BY <1>6, <2>1
<1>10. \A n \in 1 .. N : s[n] = nth(n)
  BY DEF InOrder
<1> HIDE DEF s, N, Below, rank, nth
<1>11. \A m, n \in 1 .. N : s[m] = s[n] => m = n
  <2>1. TAKE m, n \in 1 .. N
  <2>2. HAVE s[m] = s[n]
  <2>3. m - 1 = n - 1
    BY <1>9, <2>2
  <2>4. QED
    BY <1>1, <2>3
<1>12. ASSUME NEW x \in S PROVE \E n \in 1 .. N : s[n] = x
  <2>1. PICK n \in 1 .. N : n = Cardinality(Below(x)) + 1
    BY <1>1, <1>2
  <2>2. Cardinality(Below(s[n])) = Cardinality(Below(x))
    BY <1>1, <1>2, <1>9, <2>1
  <2>3. s[n] = x
    BY <1>4, <1>9, <2>2
  <2>4. QED
    BY <2>3
<1>13. s \in [1 .. N -> S]
  BY <1>9, <1>8, <1>10
<1>14. QED
  BY <1>7, <1>9, <1>11, <1>12, <1>13 DEF Lists, s, N

\* The grid of an edge lists its hypotheses and its translations.
LEMMA HypothesesListed ==
  ASSUME Types, Derived, NEW S, S \subseteq Ids, NEW T, T \subseteq S,
         NEW r \in PhraseSpans, NEW address \in Addresses(S),
         NEW s, s = GridHypotheses(T, r, address)
  PROVE  Lists(s, T) /\ s \in Seq(Nat)
<1> DEFINE Key(h) == IF input.maxDistortion # -1
                     THEN hypo[h].score + DistortionScore(hypo[h].range, r)
                     ELSE hypo[h].total
           R == {p \in T \X T : \/ Key(p[1]) > Key(p[2])
                                \/ /\ Key(p[1]) = Key(p[2])
                                   /\ address[p[1]] < address[p[2]]}
<1>1. /\ IsFiniteSet(T) /\ Ids \subseteq Nat /\ IsFiniteSet(S)
      /\ \A h \in Ids : hypo[h] \in Hypotheses
  BY Facts, FS_Subset
<1>2. \A h \in T : Key(h) \in Int
  <2>1. TAKE h \in T
  <2>2. /\ hypo[h].score \in Int /\ hypo[h].total \in Int
        /\ hypo[h].range \in PhraseSpans \cup {NoSpan}
    BY <1>1 DEF Hypotheses
  <2>3. DistortionScore(hypo[h].range, r) \in Int
    BY <2>2, DistanceTyped
  <2>4. QED
    BY <2>2, <2>3
<1>3. /\ \A x \in T : address[x] \in Int
      /\ \A x, y \in T : address[x] = address[y] => x = y
  <2>1. Cardinality(S) \in Nat
    BY <1>1, FS_CardinalityType
  <2>2. address \in [S -> 1 .. Cardinality(S)] /\ \A x, y \in S : address[x] = address[y] => x = y
    BY DEF Addresses
  <2>3. QED
    BY <2>1, <2>2
<1>4. s = InOrder(T, R)
  BY DEF GridHypotheses
<1>5. \A x, y : <<x, y>> \in R <=> /\ x \in T /\ y \in T
                                   /\ \/ Key(x) > Key(y)
                                      \/ Key(x) = Key(y) /\ address[x] < address[y]
  OBVIOUS
<1> HIDE DEF R, Key
<1>6. Orders(T, R)
  BY <1>2, <1>3, <1>5 DEF Orders
<1>7. Lists(s, T) /\ s \in [1 .. Cardinality(T) -> T]
  BY <1>1, <1>4, <1>6, InOrderLists
<1>8. Cardinality(T) \in Nat
  BY <1>1, FS_CardinalityType
<1>9. T \subseteq Nat
  BY <1>1
<1>10. s \in [1 .. Cardinality(T) -> Nat]
  BY <1>7, <1>9
<1>11. QED
  BY <1>7, <1>8, <1>10

LEMMA TranslationsListed ==
  ASSUME input \in Inputs, NEW r, NEW s, s = Translations(r)
  PROVE  Lists(s, OptionsOf(r)) /\ s \in Seq(Nat)
<1> DEFINE T == OptionsOf(r)
           R == {p \in T \X T : p[1] < p[2]}
<1>1. input.options \in Seq(TranslationOptions)
  BY InputAssumption
<1>2. T \subseteq 1 .. Len(input.options) /\ Len(input.options) \in Nat
  BY <1>1 DEF OptionsOf
<1>3. IsFiniteSet(T) /\ T \subseteq Nat
  <2> HIDE DEF T
  <2>1. IsFiniteSet(1 .. Len(input.options))
    BY <1>2, FS_Interval
  <2>2. IsFiniteSet(T)
    BY <1>2, <2>1, FS_Subset
  <2>3. QED
    BY <1>2, <2>2
<1>4. s = InOrder(T, R)
  BY DEF Translations
<1>5. \A x, y : <<x, y>> \in R <=> x \in T /\ y \in T /\ x < y
  OBVIOUS
<1> HIDE DEF T, R
<1>6. Orders(T, R)
  BY <1>3, <1>5 DEF Orders
<1>7. Lists(s, T) /\ s \in [1 .. Cardinality(T) -> T]
  BY <1>3, <1>4, <1>6, InOrderLists
<1>8. Cardinality(T) \in Nat
  BY <1>3, FS_CardinalityType
<1>9. s \in [1 .. Cardinality(T) -> Nat]
  BY <1>3, <1>7
<1>10. QED
  BY <1>7, <1>8, <1>9 DEF T

\* The grids for the bitmap b of the stack stk.
AreGrids(stk, b, new) ==
  /\ DOMAIN new = {b} \X ForwardSpans(b)
  /\ \A e \in DOMAIN new :
       /\ new[e] \in Grids /\ new[e].seen = {}
       /\ IsGrid(input, hypo, stk, e, new[e])

\* The grids CreateForwardTodos makes for it.
LEMMA GridsMade ==
  ASSUME Types, Derived, StacksSound, NEW k \in Stacks, NEW b \in Bitmaps, NEW S,
         S = Covering(hypo, stack[k].hypos, b), NEW address \in Addresses(S),
         NEW new, new = ForwardEdges(b, S, address)
  PROVE  AreGrids(stack[k], b, new)
<1>1. DOMAIN new = {b} \X ForwardSpans(b)
  BY DEF ForwardEdges
<1>2. ASSUME NEW e \in DOMAIN new
      PROVE  /\ new[e] \in Grids /\ new[e].seen = {}
             /\ IsGrid(input, hypo, stack[k], e, new[e])
  <2> DEFINE T == {h \in S : EdgeTakes(b, hypo[h].range, e[2], input.maxDistortion)}
             g == new[e]
  <2>1. /\ e[1] = b /\ e[2] \in ForwardSpans(b) /\ e = <<e[1], e[2]>>
    BY <1>1, <1>2
  <2>2. /\ e[2] \in PhraseSpans /\ ~Overlap(e[1], e[2])
        /\ CheckDistortion(input.rc, e[1], e[2], input.maxDistortion)
    BY <2>1 DEF ForwardSpans
  <2>3. g = [hypos |-> GridHypotheses(T, e[2], address),
             translations |-> Translations(e[2]), seen |-> {}]
    BY <1>1, <1>2 DEF ForwardEdges
  <2>4. S \subseteq Ids
    BY Apart DEF Covering
  <2> HIDE DEF g
  <2>5. g.hypos = GridHypotheses(T, e[2], address) /\ g.translations = Translations(e[2])
        /\ g.seen = {}
    BY <2>3
  <2>6. Lists(g.hypos, T) /\ g.hypos \in Seq(Nat)
    BY <2>2, <2>4, <2>5, HypothesesListed
  <2>7. Lists(g.translations, OptionsOf(e[2])) /\ g.translations \in Seq(Nat)
    BY <2>5, TranslationsListed DEF Types
  <2>8. T = {x \in stack[k].hypos : /\ hypo[x].bitmap = e[1]
                                    /\ EdgeTakes(e[1], hypo[x].range, e[2],
                                                 input.maxDistortion)}
    BY <2>1 DEF Covering
  <2>9. g \in Grids
    <3>1. g.seen \in SUBSET (Nat \X Nat)
      BY <2>5
    <3> HIDE DEF T
    <3>2. g = [hypos |-> g.hypos, translations |-> g.translations, seen |-> g.seen]
      BY <2>3, <2>5
    <3>3. QED
      BY <3>1, <3>2, <2>6, <2>7 DEF Grids
  <2>10. IsGrid(input, hypo, stack[k], e, g)
    BY <2>1, <2>2, <2>6, <2>7, <2>8 DEF IsGrid, OptionsOf
  <2>11. QED
    BY <2>5, <2>9, <2>10 DEF g
<1>3. QED
  BY <1>1, <1>2 DEF AreGrids

------------------------------------------------------------------------------
(****************************************************************************)
(* The steps that leave the hypotheses alone.                               *)
(****************************************************************************)

\* An edge leads to a later stack.
LEMMA TargetLater ==
  ASSUME NEW i, NEW H, NEW stk, NEW e, NEW g, IsGrid(i, H, stk, e, g)
  PROVE  /\ Target(e) \in Bitmaps
         /\ Cardinality(e[1]) \in Nat /\ Cardinality(Target(e)) \in Stacks
         /\ Cardinality(e[1]) < Cardinality(Target(e))
         /\ Places(g) # {} => <<1, 1>> \in Places(g)
<1>1. e[1] \in Bitmaps /\ e[2] \in PhraseSpans /\ ~Overlap(e[1], e[2])
  BY DEF IsGrid
<1>2. e[2][1] \in SpanPositions(e[2]) /\ SpanPositions(e[2]) \subseteq Positions
  BY <1>1, SpanInside
<1>3. Target(e) \in Bitmaps /\ e[1] \subseteq Target(e) /\ e[1] # Target(e)
  BY <1>1, <1>2 DEF Target, Overlap, Bitmaps
<1>4. IsFiniteSet(Positions) /\ Cardinality(Positions) = SourceSize
  BY SourceSizeAssumption, FS_Interval DEF Positions
<1>5. IsFiniteSet(Target(e)) /\ Cardinality(Target(e)) <= SourceSize
  BY <1>3, <1>4, FS_Subset DEF Bitmaps
<1>6. /\ IsFiniteSet(e[1]) /\ Cardinality(e[1]) <= Cardinality(Target(e))
      /\ Cardinality(e[1]) = Cardinality(Target(e)) => e[1] = Target(e)
  BY <1>3, <1>5, FS_Subset
<1>7. Cardinality(e[1]) \in Nat /\ Cardinality(Target(e)) \in Nat
  BY <1>5, <1>6, FS_CardinalityType
<1>8. Places(g) # {} => <<1, 1>> \in Places(g)
  <2>1. \E n, m \in Nat : DOMAIN g.hypos = 1 .. n /\ DOMAIN g.translations = 1 .. m
    BY FS_CardinalityType DEF IsGrid, Lists
  <2>2. PICK n, m \in Nat : DOMAIN g.hypos = 1 .. n /\ DOMAIN g.translations = 1 .. m
    BY <2>1
  <2>3. HAVE Places(g) # {}
  <2>4. PICK x \in 1 .. n, y \in 1 .. m : TRUE
    BY <2>2, <2>3 DEF Places
  <2>5. 1 \in DOMAIN g.hypos /\ 1 \in DOMAIN g.translations
    BY <2>2, <2>4
  <2>6. QED
    BY <2>5 DEF Places
<1>9. Cardinality(Target(e)) \in Stacks /\ Cardinality(e[1]) < Cardinality(Target(e))
  BY <1>3, <1>5, <1>6, <1>7, SourceSizeAssumption DEF Stacks
<1>10. QED
  BY <1>3, <1>7, <1>8, <1>9

\* What of the invariant speaks of the hypotheses and stacks, without edges.
DataSound == /\ Derived /\ StacksSound /\ ArcsKept /\ PrevClosed
             /\ NothingBuiltTwice /\ Onward

LEMMA DataStays ==
  ASSUME DataSound,
         UNCHANGED <<input, conf, hypo, stack, arcs, winning, deleted, queue>>,
         \A k \in Stacks : Closed(k)' <=> Closed(k)
  PROVE  /\ DataSound'
         /\ Ids' = Ids /\ Waits' = Waits
         /\ \A h : Covered(h)' = Covered(h)
         /\ \A k : Came(k)' = Came(k) /\ Living(k)' = Living(k)
         /\ \A b : ForwardSpans(b)' = ForwardSpans(b)
         /\ \A e : Target(e)' = Target(e)
<1>1. /\ input' = input /\ conf' = conf /\ hypo' = hypo /\ stack' = stack /\ arcs' = arcs
      /\ winning' = winning /\ deleted' = deleted /\ queue' = queue
  OBVIOUS
<1>2. Ids' = Ids /\ Waits' = Waits /\ \A h : Covered(h)' = Covered(h)
  BY <1>1 DEF Ids, Waits, Covered
<1>3. \A k : Came(k)' = Came(k)
  BY <1>1, <1>2 DEF Came
<1>4. \A k : Living(k)' = Living(k)
  BY <1>1, <1>3 DEF Living
<1>5. \A r : OptionsOf(r)' = OptionsOf(r)
  BY <1>1 DEF OptionsOf
<1>6. \A b : ForwardSpans(b)' = ForwardSpans(b)
  BY <1>1, <1>5 DEF ForwardSpans
<1>7. \A e : Target(e)' = Target(e)
  BY DEF Target
<1>8. Derived' /\ ArcsKept' /\ NothingBuiltTwice'
  BY <1>1, <1>2 DEF DataSound, Derived, ArcsKept, NothingBuiltTwice, OptionsDiffer
<1>9. StacksSound'
  BY <1>1, <1>3, <1>4 DEF DataSound, StacksSound
<1>10. PrevClosed'
  BY <1>1, <1>2 DEF DataSound, PrevClosed
<1>11. Onward'
  BY <1>1 DEF DataSound, Onward
<1>12. QED
  BY <1>2, <1>3, <1>4, <1>6, <1>7, <1>8, <1>9, <1>10, <1>11 DEF DataSound

\* What of it speaks of the edges.
GridsSound == /\ EdgesSound /\ EdgesComplete /\ QueueSound /\ Origins

LEMMA GridsStay ==
  ASSUME DataSound, GridsSound,
         UNCHANGED <<input, conf, hypo, stack, arcs, winning, deleted, queue, todos, edges>>,
         \A k \in Stacks : Closed(k)' <=> Closed(k),
         todos = {} \/ (pc' = pc /\ ind' = ind)
  PROVE  GridsSound'
<1>1. /\ input' = input /\ hypo' = hypo /\ stack' = stack /\ queue' = queue
      /\ todos' = todos /\ edges' = edges
  OBVIOUS
<1>2. /\ Ids' = Ids /\ \A h : Covered(h)' = Covered(h)
      /\ \A b : ForwardSpans(b)' = ForwardSpans(b)
  BY DataStays
<1>3. \A e, c : CreateHypothesis(e, c)' = CreateHypothesis(e, c)
  BY <1>1 DEF CreateHypothesis
<1>4. \A e : Explored(e)' <=> Explored(e)
  BY <1>1 DEF Explored, Queued
<1>5. EdgesSound'
  BY <1>1, <1>4 DEF GridsSound, EdgesSound
<1>6. EdgesComplete'
  BY <1>1, <1>2 DEF GridsSound, EdgesComplete
<1>7. QueueSound' /\ Origins'
  BY <1>1, <1>2, <1>3 DEF GridsSound, QueueSound, Origins
<1>8. QED
  BY <1>5, <1>6, <1>7 DEF GridsSound

\* The invariant in parts.
LEMMA Parts ==
  IInv <=> Types /\ DataSound /\ GridsSound /\ Begun
BY DEF IInv, DataSound, GridsSound

LEMMA WorkStays ==
  ASSUME IInv,
         UNCHANGED <<input, conf, hypo, stack, arcs, winning, deleted, queue, todos, edges>>,
         \A k \in Stacks : Closed(k)' <=> Closed(k),
         todos = {} \/ (pc' = pc /\ ind' = ind),
         \A k \in Stacks : Filled(k)' <=> Filled(k), pc' = "pop" => UNCHANGED <<pc, ind, pops>>
  PROVE  DataSound' /\ GridsSound' /\ Begun'
<1>1. Types /\ DataSound /\ GridsSound /\ Begun /\ EdgesSound
  BY Parts DEF GridsSound
<1>2. DataSound' /\ GridsSound'
  BY <1>1, DataStays, GridsStay
<1>3. /\ \A k : Came(k)' = Came(k)
      /\ \A e : Target(e)' = Target(e)
  BY <1>1, DataStays
<1>4. \A e \in DOMAIN edges : Cardinality(Target(e)) \in Stacks
  BY <1>1, TargetLater DEF EdgesSound
<1>5. edges' = edges
  OBVIOUS
<1>6. Begun'
  BY <1>1, <1>3, <1>4, <1>5 DEF Begun
<1>7. QED
  BY <1>2, <1>6

LEMMA NextStackIInv ==
  ASSUME IInv, NextStack
  PROVE  IInv'
<1>1. pc = "todos" /\ todos = {}
  BY DEF NextStack
<1>2. /\ ind = SourceSize => pc' = "done" /\ ind' = ind
      /\ ind # SourceSize => pc' = "stack" /\ ind' = ind + 1
  BY DEF NextStack
<1>3. ind \in 0 .. SourceSize /\ Types
  BY DEF IInv, Types, Stacks
<1>4. /\ \A k \in Stacks : Closed(k)' <=> Closed(k)
      /\ \A k \in Stacks : Filled(k)' <=> Filled(k)
  BY <1>1, <1>2, <1>3, SourceSizeAssumption DEF Closed, Filled, Stacks
<1>5. UNCHANGED <<input, conf, hypo, stack, arcs, winning, deleted, todos, edges, queue,
                  inserted, pops>>
  BY DEF NextStack
<1>6. pc' # "pop"
  BY <1>2
<1>7. DataSound' /\ GridsSound' /\ Begun' /\ Ids' = Ids /\ Waits' = Waits
  BY <1>1, <1>4, <1>5, <1>6, WorkStays, DataStays, Parts
<1>8. Types'
  <2>1. /\ ind' \in Stacks /\ pc' \in {"done", "stack"}
        /\ pc' = "done" => ind' = SourceSize
        /\ pc' = "stack" => ind' > 0
    BY <1>2, <1>3, SourceSizeAssumption DEF Stacks
  <2>2. QED
    BY <1>3, <1>5, <1>7, <2>1 DEF Types
<1>9. QED
  BY <1>7, <1>8 DEF IInv, DataSound, GridsSound

\* The stack is still to come, or its containers are being filled.
LEMMA BeforePopsIInv ==
  ASSUME IInv, TimeOut \/ StartStack \/ UNCHANGED vars
  PROVE  IInv'
<1>1. UNCHANGED <<input, conf, hypo, stack, arcs, winning, deleted, todos, edges, queue,
                  inserted, pops, ind>>
  BY DEF TimeOut, StartStack, vars
<1>2. \/ pc' = pc
      \/ pc = "stack" /\ pc' \in {"interrupted", "edges"}
  BY DEF TimeOut, StartStack, vars
<1>3. Types /\ EdgesComplete
  BY DEF IInv
<1>4. \A k : (Closed(k)' <=> Closed(k)) /\ (Filled(k)' <=> Filled(k))
  BY <1>1, <1>2 DEF Closed, Filled
<1>5. todos = {} \/ (pc' = pc /\ ind' = ind)
  BY <1>1, <1>2, <1>3 DEF EdgesComplete
<1>6. pc' = "pop" => UNCHANGED <<pc, ind, pops>>
  BY <1>1, <1>2
<1>7. DataSound' /\ GridsSound' /\ Begun' /\ Ids' = Ids /\ Waits' = Waits
  BY <1>1, <1>4, <1>5, <1>6, WorkStays, DataStays, Parts
<1>8. Types'
  <2>1. /\ pc' \in {"todos", "stack", "edges", "pop", "done", "interrupted"}
        /\ pc' = "done" => ind' = SourceSize
        /\ pc' \in {"stack", "edges", "pop", "interrupted"} => ind' > 0
    BY <1>1, <1>2, <1>3 DEF Types
  <2>2. QED
    BY <1>1, <1>3, <1>7, <2>1 DEF Types
<1>9. QED
  BY <1>7, <1>8 DEF IInv, DataSound, GridsSound

LEMMA StartPopsIInv ==
  ASSUME IInv, StartPops
  PROVE  IInv'
<1>1. /\ UNCHANGED <<input, conf, hypo, stack, arcs, winning, deleted, todos, edges, queue,
                     inserted, ind>>
      /\ pc = "edges" /\ pc' = "pop" /\ pops' = 0 /\ Uninitialized = {}
  BY DEF StartPops
<1>2. Types /\ Derived /\ EdgesComplete /\ EdgesSound /\ Begun /\ DataSound /\ GridsSound
  BY Parts DEF IInv
<1>3. \A k : Closed(k)' <=> Closed(k)
  BY <1>1 DEF Closed
<1>4. todos = {}
  BY <1>1, <1>2 DEF EdgesComplete
<1>5. /\ DataSound' /\ Ids' = Ids /\ Waits' = Waits
      /\ \A k : Came(k)' = Came(k)
      /\ \A e : Target(e)' = Target(e)
  BY <1>1, <1>2, <1>3, DataStays
<1>6. GridsSound'
  BY <1>1, <1>2, <1>3, <1>4, GridsStay
<1>7. Types'
  <2>1. ind' > 0 /\ pops' \in 0 .. conf'.popLimit
    BY <1>1, <1>2, ConfAssumption DEF Types
  <2>2. QED
    BY <1>1, <1>2, <1>5, <2>1 DEF Types
<1>8. Begun'
  <2>1. ASSUME NEW e \in DOMAIN edges, Filled(Cardinality(Target(e)))', Places(edges[e]) # {}
        PROVE  edges[e].seen # {}
    <3>1. CASE Filled(Cardinality(Target(e)))
      BY <1>2, <2>1, <3>1 DEF Begun
    <3>2. CASE ~Filled(Cardinality(Target(e)))
      <4>1. Cardinality(Target(e)) = ind
        BY <1>1, <2>1, <3>2 DEF Filled, Target
      <4>2. <<1, 1>> \in Places(edges[e])
        BY <1>2, <2>1, TargetLater DEF EdgesSound
      <4>3. InGrid(e, <<1, 1>>)
        BY <4>2 DEF InGrid, Places
      <4>4. QED
        BY <1>1, <4>1, <4>3 DEF Uninitialized
    <3>3. QED
      BY <3>1, <3>2
  <2>2. pops' <= Cardinality(Came(ind))
    <3>1. IsFiniteSet(Came(ind))
      BY <1>2, Facts DEF AreHypotheses
    <3>2. QED
      BY <1>1, <3>1, FS_CardinalityType
  <2>3. \A e \in DOMAIN edges :
          Filled(Cardinality(Target(e)))' /\ Places(edges[e]) # {} => edges[e].seen # {}
    BY <2>1
  <2>4. edges' = edges /\ ind' = ind
    BY <1>1
  <2>5. QED
    BY <1>5, <2>2, <2>3, <2>4 DEF Begun
<1>9. QED
  BY <1>5, <1>6, <1>7, <1>8 DEF IInv, DataSound, GridsSound

\* The grids of the next bitmap.
LEMMA CreateForwardTodosIInv ==
  ASSUME IInv, CreateForwardTodos
  PROVE  IInv'
<1>1. /\ UNCHANGED <<input, conf, hypo, stack, arcs, winning, deleted, pc, ind, queue,
                     inserted, pops>>
      /\ pc = "todos"
  BY DEF CreateForwardTodos
<1>2. PICK b \in todos : /\ todos' = todos \ {b}
                         /\ \E address \in Addresses(Covering(hypo, stack[ind].hypos, b)) :
                              AddEdges(ForwardEdges(b, Covering(hypo, stack[ind].hypos, b),
                                                    address))
  BY DEF CreateForwardTodos
<1>3. PICK S : S = Covering(hypo, stack[ind].hypos, b)
  OBVIOUS
<1>4. PICK address \in Addresses(S) : AddEdges(ForwardEdges(b, S, address))
  BY <1>2, <1>3
<1>5. PICK new : new = ForwardEdges(b, S, address)
  OBVIOUS
<1>6. /\ Types /\ Derived /\ StacksSound /\ EdgesComplete /\ EdgesSound /\ QueueSound /\ Origins
      /\ Begun /\ DataSound /\ GridsSound
  BY Parts DEF IInv
<1>7. b \in Bitmaps /\ ind \in Stacks
  BY <1>6 DEF Types
<1>8. /\ DOMAIN new = {b} \X ForwardSpans(b)
      /\ \A e \in DOMAIN new :
           /\ new[e] \in Grids /\ new[e].seen = {}
           /\ IsGrid(input, hypo, stack[ind], e, new[e])
  <2>1. b \in Bitmaps /\ ind \in Stacks /\ Types /\ Derived /\ StacksSound
    BY <1>6, <1>7
  <2>2. address \in Addresses(S)
    BY <1>4
  <2>3. AreGrids(stack[ind], b, new)
    BY <1>5, <1>3, <2>1, <2>2, GridsMade
  <2>4. QED
    BY <2>3 DEF AreGrids
<1>9. /\ DOMAIN edges' = DOMAIN edges \cup DOMAIN new
      /\ \A e \in DOMAIN edges' : edges'[e] = IF e \in DOMAIN new THEN new[e] ELSE edges[e]
  BY <1>4, <1>5 DEF AddEdges
<1>10. \A e \in DOMAIN new : e[1] = b /\ e \notin DOMAIN edges
  BY <1>6, <1>8 DEF EdgesSound
<1>11. \A e \in DOMAIN edges : e \in DOMAIN edges' /\ edges'[e] = edges[e]
  BY <1>9, <1>10
<1>12. \A k : (Closed(k)' <=> Closed(k)) /\ (Filled(k)' <=> Filled(k))
  BY <1>1 DEF Closed, Filled
<1>13. /\ DataSound' /\ Ids' = Ids /\ Waits' = Waits
       /\ \A k : Came(k)' = Came(k)
       /\ \A h : Covered(h)' = Covered(h)
       /\ \A c : ForwardSpans(c)' = ForwardSpans(c)
       /\ \A e : Target(e)' = Target(e)
  BY <1>1, <1>6, <1>12, DataStays
<1>14. Cardinality(b) = ind /\ Closed(ind)
  <2>1. b \in Coverages(hypo, stack[ind].hypos)
    BY <1>6, <1>2 DEF EdgesComplete
  <2>2. PICK x \in stack[ind].hypos : hypo[x].bitmap = b
    BY <2>1 DEF Coverages
  <2>3. x \in Came(ind)
    BY <1>6, <1>7, <2>2, Apart
  <2>4. QED
    BY <1>1, <2>2, <2>3 DEF Came, Covered, Closed
<1>15. Types'
  <2>1. \A e \in DOMAIN edges' : edges'[e] \in Grids
    BY <1>6, <1>8, <1>9 DEF Types
  <2>2. todos' \subseteq Bitmaps
    BY <1>2, <1>6 DEF Types
  <2>3. QED
    BY <1>1, <1>6, <1>13, <2>1, <2>2 DEF Types
<1>16. \A e, c : e \in DOMAIN edges => CreateHypothesis(e, c)' = CreateHypothesis(e, c)
  BY <1>1, <1>11 DEF CreateHypothesis
<1>17. EdgesSound'
  <2>1. ASSUME NEW e \in DOMAIN edges, e \notin DOMAIN new
        PROVE  /\ Closed(Cardinality(e[1]))' /\ Cardinality(e[1]) \in Stacks
               /\ e[1] \notin todos'
               /\ IsGrid(input', hypo', stack'[Cardinality(e[1])], e, edges'[e])
               /\ Explored(e)'
    <3>1. /\ Closed(Cardinality(e[1])) /\ Cardinality(e[1]) \in Stacks /\ e[1] \notin todos
          /\ IsGrid(input, hypo, stack[Cardinality(e[1])], e, edges[e])
          /\ Explored(e)
      BY <1>6 DEF EdgesSound
    <3>2. Explored(e)'
      BY <1>1, <1>11, <3>1 DEF Explored, Queued
    <3>3. Closed(Cardinality(e[1]))'
      BY <1>1, <3>1 DEF Closed
    <3>4. e[1] \notin todos'
      BY <1>2, <3>1
    <3>5. IsGrid(input', hypo', stack'[Cardinality(e[1])], e, edges'[e])
      BY <1>1, <1>11, <3>1
    <3>6. QED
      BY <3>1, <3>2, <3>3, <3>4, <3>5
  <2>2. ASSUME NEW e \in DOMAIN new
        PROVE  /\ Closed(Cardinality(e[1]))' /\ Cardinality(e[1]) \in Stacks
               /\ e[1] \notin todos'
               /\ IsGrid(input', hypo', stack'[Cardinality(e[1])], e, edges'[e])
               /\ Explored(e)'
    <3>1. e[1] = b /\ edges'[e] = new[e] /\ new[e].seen = {}
      BY <1>8, <1>9, <1>10
    <3>2. Explored(e)'
      BY <3>1 DEF Explored
    <3>3. Closed(Cardinality(e[1]))' /\ Cardinality(e[1]) = ind
      BY <1>1, <1>14, <3>1 DEF Closed
    <3>4. IsGrid(input', hypo', stack'[Cardinality(e[1])], e, edges'[e])
      BY <1>1, <1>8, <3>1, <3>3
    <3>5. QED
      BY <1>2, <1>7, <3>1, <3>2, <3>3, <3>4
  <2>3. QED
    BY <1>9, <2>1, <2>2 DEF EdgesSound
<1>18. EdgesComplete'
  <2>1. todos' \subseteq Coverages(hypo', stack'[ind'].hypos) /\ (todos' # {} => pc' = "todos")
    BY <1>1, <1>2, <1>6 DEF EdgesComplete
  <2>2. ASSUME NEW k \in Stacks, Closed(k), NEW x \in stack[k].hypos,
               hypo[x].bitmap \notin todos', NEW r \in ForwardSpans(hypo[x].bitmap)
        PROVE  <<hypo[x].bitmap, r>> \in DOMAIN edges'
    <3>1. CASE hypo[x].bitmap = b
      BY <1>8, <1>9, <2>2, <3>1
    <3>2. CASE hypo[x].bitmap # b
      <4>1. hypo[x].bitmap \notin todos
        BY <1>2, <2>2, <3>2
      <4>2. QED
        BY <1>6, <1>9, <2>2, <4>1 DEF EdgesComplete
    <3>3. QED
      BY <3>1, <3>2
  <2>3. hypo' = hypo /\ stack' = stack
    BY <1>1
  <2>4. QED
    BY <1>12, <1>13, <2>1, <2>2, <2>3 DEF EdgesComplete
<1>19. QueueSound'
  BY <1>1, <1>6, <1>11, <1>13, <1>16 DEF QueueSound
<1>20. Origins'
  <2>1. hypo' = hypo
    BY <1>1
  <2>2. ASSUME NEW h \in Ids \ {1}
        PROVE  \E e \in DOMAIN edges' : \E c \in edges'[e].seen :
                 hypo[h] = CreateHypothesis(e, c)'
    <3>1. PICK e \in DOMAIN edges :
            \E c \in edges[e].seen : hypo[h] = CreateHypothesis(e, c)
      BY <1>6 DEF Origins
    <3>2. QED
      BY <1>11, <1>16, <3>1
  <2>3. ASSUME NEW e \in DOMAIN edges', NEW c \in edges'[e].seen
        PROVE  \E h \in Ids : hypo[h] = CreateHypothesis(e, c)'
    <3>1. e \in DOMAIN edges /\ e \notin DOMAIN new /\ edges'[e] = edges[e]
      BY <1>8, <1>9, <2>3
    <3>2. QED
      BY <1>6, <1>16, <2>3, <3>1 DEF Origins
  <2>4. QED
    BY <1>13, <2>1, <2>2, <2>3 DEF Origins
<1>21. Begun'
  <2>1. ASSUME NEW e \in DOMAIN edges', Filled(Cardinality(Target(e)))',
               Places(edges'[e]) # {}
        PROVE  edges'[e].seen # {}
    <3>1. CASE e \in DOMAIN new
      <4>1. Cardinality(e[1]) < Cardinality(Target(e)) /\ Cardinality(Target(e)) \in Stacks
        BY <1>8, <3>1, TargetLater
      <4>2. ind < Cardinality(Target(e))
        BY <1>10, <1>14, <3>1, <4>1
      <4>3. ~Filled(Cardinality(Target(e)))
        BY <1>7, <4>1, <4>2, SourceSizeAssumption DEF Filled, Stacks
      <4>4. QED
        BY <1>1, <2>1, <4>3 DEF Filled, Target
    <3>2. CASE e \notin DOMAIN new
      <4>1. e \in DOMAIN edges /\ edges'[e] = edges[e]
        BY <1>9, <3>2
      <4>2. Filled(Cardinality(Target(e)))
        BY <1>1, <2>1 DEF Filled, Target
      <4>3. QED
        BY <1>6, <2>1, <4>1, <4>2 DEF Begun
    <3>3. QED
      BY <3>1, <3>2
  <2>2. pc' # "pop"
    BY <1>1
  <2>3. QED
    BY <2>1, <2>2 DEF Begun
<1>22. QED
  BY <1>13, <1>15, <1>17, <1>18, <1>19, <1>20, <1>21 DEF IInv, DataSound

------------------------------------------------------------------------------
(****************************************************************************)
(* What a cell makes.                                                       *)
(****************************************************************************)

\* The hypothesis and the option of a cell.
Row(e, c)    == edges[e].hypos[c[1]]
Column(e, c) == edges[e].translations[c[2]]

LEMMA CellIs ==
  ASSUME Types, Derived, StacksSound, EdgesSound,
         NEW e \in DOMAIN edges, NEW c \in Places(edges[e]),
         NEW g, g = Row(e, c), NEW j, j = Column(e, c)
  PROVE  /\ Cardinality(e[1]) \in Stacks /\ Closed(Cardinality(e[1]))
         /\ g \in stack[Cardinality(e[1])].hypos /\ g \in Ids /\ hypo[g].bitmap = e[1]
         /\ j \in DOMAIN input.options /\ input.options[j].span = e[2]
         /\ j \in MayFollow(input, hypo[g])
         /\ CreateHypothesis(e, c) = CreateNext(g, hypo[g], input.options[j])
         /\ e = <<e[1], e[2]>>
<1> DEFINE k == Cardinality(e[1])
           d == input.maxDistortion
<1>1. /\ k \in Stacks /\ Closed(k) /\ IsGrid(input, hypo, stack[k], e, edges[e])
  BY DEF EdgesSound
<1>2. /\ e \in Bitmaps \X PhraseSpans /\ ~Overlap(e[1], e[2])
      /\ CheckDistortion(input.rc, e[1], e[2], d)
      /\ Lists(edges[e].hypos, {x \in stack[k].hypos :
                 hypo[x].bitmap = e[1] /\ EdgeTakes(e[1], hypo[x].range, e[2], d)})
      /\ Lists(edges[e].translations,
               {m \in DOMAIN input.options : input.options[m].span = e[2]})
  BY <1>1 DEF IsGrid
<1>3. c[1] \in DOMAIN edges[e].hypos /\ c[2] \in DOMAIN edges[e].translations
  BY DEF Places
<1>4. g \in stack[k].hypos /\ hypo[g].bitmap = e[1] /\ EdgeTakes(e[1], hypo[g].range, e[2], d)
  BY <1>2, <1>3 DEF Lists, Row
<1>5. j \in DOMAIN input.options /\ input.options[j].span = e[2]
  BY <1>2, <1>3 DEF Lists, Column
<1>6. g \in Ids
  BY <1>1, <1>4, Apart
<1>7. OnPath(input.rc, e[1], hypo[g].range, d)
  BY <1>4, <1>6 DEF Derived, EndsDerivation
<1>8. /\ Typed(e[1], hypo[g].range) /\ Window(e[1], d) /\ LastSpanNear(e[1], hypo[g].range, d)
      /\ IsLimit(d) /\ e[2] \in PhraseSpans /\ ~Overlap(e[1], e[2])
  BY <1>2, <1>7, Facts DEF OnPath
<1>9. \/ d < 0
      \/ GetFirstGapPos(e[1]) = e[2][1]
      \/ RequiredDistortion(e[1], e[2]) <= d
  BY <1>2 DEF CheckDistortion
<1>10. NormalDistortionOK(e[1], hypo[g].range, e[2], d)
  BY <1>4, <1>8, <1>9, EdgeAgrees
<1>11. input.options \in Seq(TranslationOptions) /\ input.constraint = <<>>
  BY InputAssumption, ConstraintAssumption DEF Types
<1>12. j \in 1 .. Len(input.options) /\ e[2] \in OptionSpans(input)
  BY <1>5, <1>11 DEF OptionSpans
<1>13. NormalMayExtend(input.rc, hypo[g].bitmap, hypo[g].range, input.options[j].span,
                       OptionSpans(input), d)
  BY <1>2, <1>4, <1>5, <1>8, <1>10, <1>12, ExtensionFillsGap
     DEF NormalMayExtend, CheckDistortion
<1>14. j \in MayFollow(input, hypo[g])
  BY <1>11, <1>12, <1>13 DEF MayFollow, FitsConstraint
<1>15. CreateHypothesis(e, c) = CreateNext(g, hypo[g], input.options[j])
  BY DEF CreateHypothesis, Row, Column
<1>16. QED
  BY <1>1, <1>2, <1>4, <1>5, <1>6, <1>14, <1>15

\* A hypothesis made of a cell ends a derivation.
LEMMA CellMade ==
  ASSUME Types, Derived, StacksSound, EdgesSound,
         NEW e \in DOMAIN edges, NEW c \in Places(edges[e]), NEW g, g = Row(e, c),
         NEW F, NEW h \in Nat, g < h, F[h] = CreateHypothesis(e, c)
  PROVE  /\ F[h] \in Hypotheses /\ EndsDerivation(input, F, h)
         /\ F[h].prev = g /\ F[h].bitmap = Target(e) /\ F[h].range = e[2]
<1>1. PICK j : j = Column(e, c)
  OBVIOUS
<1>2. /\ g \in Ids /\ hypo[g].bitmap = e[1] /\ input.options[j].span = e[2]
      /\ j \in MayFollow(input, hypo[g])
      /\ F[h] = CreateNext(g, hypo[g], input.options[j])
  BY <1>1, CellIs
<1>3. hypo[g] \in Hypotheses /\ EndsDerivation(input, hypo, g) /\ g \in 1 .. h - 1
  BY <1>2, Facts DEF Derived
<1>4. input \in Inputs
  BY DEF Types
<1>5. Makes(input, hypo, g, j, F, h)
  BY <1>2, <1>3 DEF Makes
<1>6. Made(input, hypo, g, j, F, h)
  BY <1>4, <1>5, MadeEnds
<1>7. QED
  BY <1>2, <1>6 DEF Made, Target

\* The sequence q of members of S is s, of length l, and then t, of length m.
Joined(q, s, l, t, m, S) ==
  /\ Len(q) = l + m /\ q \in [1 .. l + m -> S]
  /\ \A h \in 1 .. l : q[h] = s[h]
  /\ \A n \in 1 .. m : q[l + n] = t[n]

LEMMA Appended ==
  ASSUME NEW S, NEW l \in Nat, NEW m \in Nat,
         NEW s \in [1 .. l -> S], NEW t \in [1 .. m -> S]
  PROVE  Joined(s \o t, s, l, t, m, S)
<1>1. s \in Seq(S) /\ Len(s) = l /\ t \in Seq(S) /\ Len(t) = m
  OBVIOUS
<1>2. PICK q : q = s \o t
  OBVIOUS
<1>3. Len(q) = l + m /\ q \in Seq(S)
  BY <1>1, <1>2
<1>4. \A h \in 1 .. l : q[h] = s[h]
  BY <1>1, <1>2
<1>5. \A n \in 1 .. m : q[l + n] = t[n]
  BY <1>1, <1>2
<1>6. q \in [1 .. l + m -> S]
  BY <1>3
<1>7. Joined(q, s, l, t, m, S)
  BY <1>3, <1>4, <1>5, <1>6 DEF Joined
<1>8. QED
  BY <1>2, <1>7

\* What was added to the same words tells what was added.
LEMMA SameWords ==
  ASSUME NEW W, NEW s \in Seq(W), NEW t \in Seq(W), NEW u \in Seq(W), s \o t = s \o u
  PROVE  t = u
<1>1. PICK L, M, N \in Nat : L = Len(s) /\ M = Len(t) /\ N = Len(u)
  OBVIOUS
<1>2. s \in [1 .. L -> W] /\ t \in [1 .. M -> W] /\ u \in [1 .. N -> W]
  BY <1>1
<1>3. Joined(s \o t, s, L, t, M, W)
  BY <1>2, Appended
<1>4. Joined(s \o u, s, L, u, N, W)
  BY <1>2, Appended
<1>5. M = N
  BY <1>3, <1>4 DEF Joined
<1>6. \A n \in 1 .. M : t[n] = u[n]
  BY <1>3, <1>5, <1>4 DEF Joined
<1>7. QED
  BY <1>2, <1>5, <1>6

\* Two options that make the same of a hypothesis are the same.
LEMMA SameOptions ==
  ASSUME NEW h \in Hypotheses, NEW id,
         NEW o \in TranslationOptions, NEW p \in TranslationOptions,
         CreateNext(id, h, o) = CreateNext(id, h, p)
  PROVE  o = p
<1> DEFINE m == CreateNext(id, h, o)
           n == CreateNext(id, h, p)
<1>1. /\ m.range = o.span /\ n.range = p.span /\ m.lex = o.lex /\ n.lex = p.lex
      /\ m.target = h.target \o o.words /\ n.target = h.target \o p.words
  BY DEF CreateNext
<1>2. o.span = p.span /\ o.lex = p.lex /\ h.target \o o.words = h.target \o p.words
  BY <1>1
<1>3. /\ h.target \in Seq(Words) /\ o.words \in Seq(Words) /\ p.words \in Seq(Words)
      /\ h.lm \in Words /\ h.range \in PhraseSpans \cup {NoSpan} /\ o.span \in PhraseSpans
      /\ h.score \in Int /\ o.score \in Int /\ p.score \in Int
  BY DEF Hypotheses, TranslationOptions
<1>4. o.words = p.words
  BY <1>2, <1>3, SameWords
<1> DEFINE B == h.bitmap \cup SpanPositions(o.span)
           D == DistortionScore(h.range, o.span)
           M == LMScore(h.lm, o.words, IsComplete(B))
           X == LexicalScore(h, o)
<1>5. X = LexicalScore(h, p)
  BY <1>2 DEF LexicalScore
<1>6. /\ m.score = h.score + o.score + D + M + X
      /\ n.score = h.score + p.score + D + M + X
  BY <1>2, <1>4, <1>5 DEF CreateNext
<1>7. D \in Int /\ M \in Int /\ X \in Int
  BY <1>3, DistanceTyped, LMTyped, LexTyped DEF IsComplete
<1>8. m.score = n.score
  OBVIOUS
<1> HIDE DEF m, n, D, M, X
<1>9. o.score = p.score
  BY <1>3, <1>6, <1>7, <1>8
<1>10. /\ o = [span |-> o.span, words |-> o.words, score |-> o.score, lex |-> o.lex]
       /\ p = [span |-> p.span, words |-> p.words, score |-> p.score, lex |-> p.lex]
  BY DEF TranslationOptions
<1>11. QED
  BY <1>2, <1>4, <1>9, <1>10

\* Two cells make the same only if they are one.
LEMMA CellsDiffer ==
  ASSUME Types, Derived, StacksSound, EdgesSound, OptionsDiffer,
         NEW e \in DOMAIN edges, NEW c \in Places(edges[e]),
         NEW f \in DOMAIN edges, NEW d \in Places(edges[f]),
         CreateHypothesis(e, c) = CreateHypothesis(f, d)
  PROVE  e = f /\ c = d
<1>1. PICK g : g = Row(e, c)
  OBVIOUS
<1>2. PICK h : h = Row(f, d)
  OBVIOUS
<1>3. PICK j : j = Column(e, c)
  OBVIOUS
<1>4. PICK k : k = Column(f, d)
  OBVIOUS
<1>5. /\ g \in Ids /\ hypo[g].bitmap = e[1] /\ e = <<e[1], e[2]>>
      /\ j \in DOMAIN input.options /\ input.options[j].span = e[2]
      /\ CreateHypothesis(e, c) = CreateNext(g, hypo[g], input.options[j])
  BY <1>1, <1>3, CellIs
<1>6. /\ h \in Ids /\ hypo[h].bitmap = f[1] /\ f = <<f[1], f[2]>>
      /\ k \in DOMAIN input.options /\ input.options[k].span = f[2]
      /\ CreateHypothesis(f, d) = CreateNext(h, hypo[h], input.options[k])
  BY <1>2, <1>4, CellIs
<1>7. CreateNext(g, hypo[g], input.options[j]) = CreateNext(h, hypo[h], input.options[k])
  BY <1>5, <1>6
<1>8. /\ CreateNext(g, hypo[g], input.options[j]).prev = g
      /\ CreateNext(h, hypo[h], input.options[k]).prev = h
      /\ CreateNext(g, hypo[g], input.options[j]).range = input.options[j].span
      /\ CreateNext(h, hypo[h], input.options[k]).range = input.options[k].span
  BY DEF CreateNext
<1>9. g = h /\ e[2] = f[2]
  BY <1>5, <1>6, <1>7, <1>8
<1>10. e = f
  BY <1>5, <1>6, <1>9
<1>11. hypo[g] \in Hypotheses /\ input.options \in Seq(TranslationOptions)
  BY <1>5, Facts, InputAssumption DEF Types
<1>12. input.options[j] \in TranslationOptions /\ input.options[k] \in TranslationOptions
  BY <1>5, <1>6, <1>11
<1>13. input.options[j] = input.options[k]
  BY <1>7, <1>9, <1>11, <1>12, SameOptions
<1>14. j = k
  BY <1>5, <1>6, <1>13 DEF OptionsDiffer
<1>15. PICK S, T : Lists(edges[e].hypos, S) /\ Lists(edges[e].translations, T)
  BY DEF EdgesSound, IsGrid
<1>16. /\ c[1] \in DOMAIN edges[e].hypos /\ c[2] \in DOMAIN edges[e].translations
       /\ d[1] \in DOMAIN edges[e].hypos /\ d[2] \in DOMAIN edges[e].translations
       /\ c = <<c[1], c[2]>> /\ d = <<d[1], d[2]>>
  BY <1>10 DEF Places
<1>17. edges[e].hypos[c[1]] = edges[e].hypos[d[1]]
       /\ edges[e].translations[c[2]] = edges[e].translations[d[2]]
  BY <1>1, <1>2, <1>3, <1>4, <1>9, <1>10, <1>14 DEF Row, Column
<1>18. c[1] = d[1] /\ c[2] = d[2]
  BY <1>15, <1>16, <1>17 DEF Lists
<1>19. QED
  BY <1>10, <1>16, <1>18

------------------------------------------------------------------------------
(****************************************************************************)
(* Queueing cells.                                                          *)
(****************************************************************************)

\* The cells in places have not been seen; those in gone have led to theirs.
MayGrow(places, gone) ==
  /\ Len(places) \in Nat /\ DOMAIN places = 1 .. Len(places)
  /\ \A n \in DOMAIN places :
       /\ places[n] = <<places[n][1], places[n][2]>>
       /\ places[n][1] \in DOMAIN edges
       /\ places[n][2] \in Places(edges[places[n][1]])
       /\ places[n][2] \notin edges[places[n][1]].seen
       /\ places[n][2] = <<1, 1>> \/ edges[places[n][1]].seen # {}
  /\ \A m, n \in DOMAIN places : places[m] = places[n] => m = n
  /\ gone \subseteq queue
  /\ \A q \in gone : \A c \in Neighbours(q.cell) \cap Places(edges[q.edge]) :
       c \in edges[q.edge].seen \/ \E n \in DOMAIN places : places[n] = <<q.edge, c>>

Grow(places, gone, a) ==
  /\ MayGrow(places, gone)
  /\ a \in [Ids -> SUBSET Ids]
  /\ Enqueue(places, gone, a)
  /\ UNCHANGED <<input, conf, pc, ind, todos>>
  /\ \A k \in Stacks : Closed(k) => stack'[k] = stack[k]

\* The ids of the new hypotheses, and the items that hold them.
NewId(n)        == Len(hypo) + n
Item(places, n) == [hypo |-> NewId(n), edge |-> places[n][1], cell |-> places[n][2]]

Grown(places, gone, a) ==
  /\ Len(hypo) \in Nat /\ Ids = 1 .. Len(hypo)
  /\ Ids' = 1 .. NewId(Len(places))
  /\ \A h \in Ids : h \in Ids' /\ hypo'[h] = hypo[h] /\ arcs'[h] = a[h]
  /\ \A n \in DOMAIN places :
       /\ NewId(n) \in Ids' /\ NewId(n) \notin Ids
       /\ hypo'[NewId(n)] = CreateHypothesis(places[n][1], places[n][2])
       /\ arcs'[NewId(n)] = {}
  /\ \A h \in Ids' : h \in Ids \/ \E n \in DOMAIN places : h = NewId(n)
  /\ \A m, n \in DOMAIN places : NewId(m) = NewId(n) => m = n
  /\ arcs' \in [Ids' -> SUBSET Ids'] /\ winning' \in [Ids' -> Ids' \cup {Unset}]
  /\ DOMAIN edges' = DOMAIN edges
  /\ \A e \in DOMAIN edges :
       /\ edges'[e].hypos = edges[e].hypos /\ edges'[e].translations = edges[e].translations
       /\ edges'[e].seen = edges[e].seen \cup
            {places[n][2] : n \in {m \in DOMAIN places : places[m][1] = e}}
       /\ edges'[e] \in Grids
  /\ \A q : q \in queue' <=> \/ q \in queue /\ q \notin gone
                             \/ \E n \in DOMAIN places : q = Item(places, n)

LEMMA Grows ==
  ASSUME IInv, NEW places, NEW gone, NEW a, Grow(places, gone, a)
  PROVE  Grown(places, gone, a)
<1> DEFINE L == Len(hypo)
           N == Len(places)
<1>1. Types /\ L \in Nat /\ Ids = 1 .. L /\ N \in Nat /\ DOMAIN places = 1 .. N
  BY Facts DEF IInv, Grow, MayGrow
<1>2. /\ hypo' = hypo \o [i \in DOMAIN places |-> CreateHypothesis(places[i][1], places[i][2])]
      /\ arcs' = a \o [i \in DOMAIN places |-> {}]
      /\ winning' = winning \o [i \in DOMAIN places |-> Unset]
      /\ queue' = (queue \ gone) \cup
                    {[hypo |-> Len(hypo) + i, edge |-> places[i][1], cell |-> places[i][2]]
                       : i \in DOMAIN places}
      /\ edges' = [e \in DOMAIN edges |->
                     [edges[e] EXCEPT !.seen = @ \cup
                        {places[i][2] : i \in {j \in DOMAIN places : places[j][1] = e}}]]
  BY DEF Grow, Enqueue
<1>3. a \in [1 .. L -> SUBSET (1 .. L)] /\ winning \in [1 .. L -> (1 .. L) \cup {Unset}]
      /\ hypo \in Seq(Hypotheses)
  BY <1>1 DEF Types, Grow
<1>4. /\ Ids' = 1 .. L + N
      /\ \A h \in 1 .. L : hypo'[h] = hypo[h]
      /\ \A n \in 1 .. N : hypo'[L + n] = CreateHypothesis(places[n][1], places[n][2])
  <2> DEFINE u == [i \in DOMAIN places |-> CreateHypothesis(places[i][1], places[i][2])]
             V == {CreateHypothesis(places[n][1], places[n][2]) : n \in 1 .. N}
  <2>1. u \in [1 .. N -> Hypotheses \cup V]
    BY <1>1
  <2>2. hypo \in [1 .. L -> Hypotheses \cup V]
    BY <1>3
  <2>3. \A n \in 1 .. N : u[n] = CreateHypothesis(places[n][1], places[n][2])
    BY <1>1
  <2>4. hypo' = hypo \o u
    BY <1>2
  <2> HIDE DEF u, V
  <2>5. Joined(hypo', hypo, L, u, N, Hypotheses \cup V)
    BY <1>1, <2>1, <2>2, <2>4, Appended
  <2>6. QED
    BY <2>3, <2>5 DEF Joined, Ids
<1>5. /\ arcs' \in [Ids' -> SUBSET Ids']
      /\ \A h \in 1 .. L : arcs'[h] = a[h]
      /\ \A n \in 1 .. N : arcs'[L + n] = {}
  <2> DEFINE u == [i \in DOMAIN places |-> {}]
             W == SUBSET (1 .. L)
  <2>1. u \in [1 .. N -> W]
    BY <1>1
  <2>2. a \in [1 .. L -> W]
    BY <1>3
  <2>3. \A n \in 1 .. N : u[n] = {}
    BY <1>1
  <2>4. arcs' = a \o u
    BY <1>2
  <2> HIDE DEF u, W
  <2>5. Joined(arcs', a, L, u, N, W)
    BY <1>1, <2>1, <2>2, <2>4, Appended
  <2>6. W \subseteq SUBSET Ids'
    BY <1>1, <1>4 DEF W
  <2>7. arcs' \in [Ids' -> SUBSET Ids']
    BY <1>4, <2>5, <2>6 DEF Joined
  <2>8. QED
    BY <2>3, <2>5, <2>7 DEF Joined
<1>6. winning' \in [Ids' -> Ids' \cup {Unset}]
  <2> DEFINE u == [i \in DOMAIN places |-> Unset]
             W == (1 .. L) \cup {Unset}
  <2>1. u \in [1 .. N -> W]
    BY <1>1
  <2>2. winning \in [1 .. L -> W]
    BY <1>3
  <2>3. winning' = winning \o u
    BY <1>2
  <2> HIDE DEF u, W
  <2>4. Joined(winning', winning, L, u, N, W)
    BY <1>1, <2>1, <2>2, <2>3, Appended
  <2>5. W \subseteq Ids' \cup {Unset}
    BY <1>1, <1>4 DEF W
  <2>6. QED
    BY <1>4, <2>4, <2>5 DEF Joined
<1>7. /\ DOMAIN edges' = DOMAIN edges
      /\ \A e \in DOMAIN edges :
           /\ edges'[e].hypos = edges[e].hypos
           /\ edges'[e].translations = edges[e].translations
           /\ edges'[e].seen = edges[e].seen \cup
                {places[n][2] : n \in {m \in DOMAIN places : places[m][1] = e}}
           /\ edges'[e] \in Grids
  <2>1. DOMAIN edges' = DOMAIN edges
    BY <1>2
  <2>2. ASSUME NEW e \in DOMAIN edges
        PROVE  /\ edges'[e].hypos = edges[e].hypos
               /\ edges'[e].translations = edges[e].translations
               /\ edges'[e].seen = edges[e].seen \cup
                    {places[n][2] : n \in {m \in DOMAIN places : places[m][1] = e}}
               /\ edges'[e] \in Grids
    <3> DEFINE T == {places[n][2] : n \in {m \in DOMAIN places : places[m][1] = e}}
    <3>1. edges[e] \in Grids
      BY <1>1 DEF Types
    <3>2. edges'[e] = [edges[e] EXCEPT !.seen = edges[e].seen \cup T]
      BY <1>2
    <3>3. T \subseteq Places(edges[e])
      BY DEF Grow, MayGrow
    <3> HIDE DEF T
    <3>4. /\ edges[e].hypos \in Seq(Nat) /\ edges[e].translations \in Seq(Nat)
          /\ edges[e].seen \in SUBSET (Nat \X Nat)
      BY <3>1 DEF Grids
    <3>5. Places(edges[e]) \subseteq Nat \X Nat
      <4>1. DOMAIN edges[e].hypos \subseteq Nat /\ DOMAIN edges[e].translations \subseteq Nat
        BY <3>4
      <4>2. QED
        BY <4>1 DEF Places
    <3>6. edges[e].seen \cup T \in SUBSET (Nat \X Nat)
      BY <3>3, <3>4, <3>5
    <3>7. /\ edges'[e].hypos = edges[e].hypos
          /\ edges'[e].translations = edges[e].translations
          /\ edges'[e].seen = edges[e].seen \cup T
      BY ONLY <3>1, <3>2 DEF Grids
    <3>8. edges'[e] \in Grids
      BY ONLY <3>1, <3>2, <3>6 DEF Grids
    <3>9. QED
      BY <3>7, <3>8 DEF T
  <2>3. QED
    BY <2>1, <2>2
<1>8. \A q : q \in queue' <=> \/ q \in queue /\ q \notin gone
                              \/ \E n \in DOMAIN places : q = Item(places, n)
  BY <1>2 DEF Item, NewId
<1>9. \A h \in Ids : h \in Ids'
  BY <1>1, <1>4
<1>10. \A n \in DOMAIN places : NewId(n) \in Ids' /\ NewId(n) \notin Ids
  BY <1>1, <1>4 DEF NewId
<1>11. ASSUME NEW h \in Ids', h \notin Ids
       PROVE  \E n \in DOMAIN places : h = NewId(n)
  <2>1. h - L \in 1 .. N /\ h = L + (h - L)
    BY <1>1, <1>4, <1>11
  <2>2. QED
    BY <1>1, <2>1 DEF NewId
<1>12. \A m, n \in DOMAIN places : NewId(m) = NewId(n) => m = n
  BY <1>1 DEF NewId
<1>13. QED
  BY <1>1, <1>4, <1>5, <1>6, <1>7, <1>8, <1>9, <1>10, <1>11, <1>12 DEF Grown, NewId

\* The new hypotheses end derivations; the cells make what they made.
LEMMA GrownMade ==
  ASSUME IInv, NEW places, NEW gone, NEW a, Grow(places, gone, a)
  PROVE  /\ \A e \in DOMAIN edges : \A c \in Places(edges[e]) :
              CreateHypothesis(e, c)' = CreateHypothesis(e, c)
         /\ \A n \in DOMAIN places :
              /\ hypo'[NewId(n)] \in Hypotheses
              /\ EndsDerivation(input, hypo', NewId(n))
              /\ hypo'[NewId(n)].prev = Row(places[n][1], places[n][2])
              /\ hypo'[NewId(n)].bitmap = Target(places[n][1])
         /\ hypo' \in Seq(Hypotheses) /\ Len(hypo') >= 1 /\ Derived'
<1>1. Types /\ Derived /\ StacksSound /\ EdgesSound
  BY DEF IInv
<1>2. Grown(places, gone, a) /\ MayGrow(places, gone) /\ input' = input
  BY Grows DEF Grow
<1>3. ASSUME NEW e \in DOMAIN edges, NEW c \in Places(edges[e])
      PROVE  CreateHypothesis(e, c)' = CreateHypothesis(e, c)
  <2>1. Row(e, c) \in Ids
    BY <1>1, CellIs
  <2>2. hypo'[Row(e, c)] = hypo[Row(e, c)]
    BY <1>2, <2>1 DEF Grown
  <2>3. edges'[e].hypos = edges[e].hypos /\ edges'[e].translations = edges[e].translations
    BY <1>2 DEF Grown
  <2>4. QED
    BY <1>2, <2>2, <2>3 DEF CreateHypothesis, Row
<1>4. ASSUME NEW n \in DOMAIN places
      PROVE  /\ hypo'[NewId(n)] \in Hypotheses /\ EndsDerivation(input, hypo', NewId(n))
             /\ hypo'[NewId(n)].prev = Row(places[n][1], places[n][2])
             /\ hypo'[NewId(n)].bitmap = Target(places[n][1])
  <2>1. PICK e \in DOMAIN edges : e = places[n][1]
    BY <1>2 DEF MayGrow
  <2>2. PICK c \in Places(edges[e]) : c = places[n][2]
    BY <1>2, <2>1 DEF MayGrow
  <2>3. PICK h : h = NewId(n)
    OBVIOUS
  <2>4. PICK g : g = Row(e, c)
    OBVIOUS
  <2>5. g \in Ids
    BY <1>1, <2>4, CellIs
  <2>6. h \in Nat /\ g < h
    BY <1>2, <2>3, <2>5 DEF Grown, MayGrow, NewId
  <2>7. PICK F : F = hypo'
    OBVIOUS
  <2>8. F[h] = CreateHypothesis(e, c)
    BY <1>2, <2>1, <2>2, <2>3, <2>7 DEF Grown
  <2>9. /\ F[h] \in Hypotheses /\ EndsDerivation(input, F, h)
        /\ F[h].prev = g /\ F[h].bitmap = Target(e)
    BY <1>1, <2>4, <2>6, <2>8, CellMade
  <2>10. QED
    BY <2>1, <2>2, <2>3, <2>4, <2>7, <2>9
<1>5. \A h \in Ids' : hypo'[h] \in Hypotheses /\ EndsDerivation(input, hypo', h)
  <2>1. TAKE h \in Ids'
  <2>2. CASE h \in Ids
    <3>1. hypo[h] \in Hypotheses /\ EndsDerivation(input, hypo, h) /\ hypo'[h] = hypo[h]
      BY <1>1, <1>2, <2>2, Facts DEF Derived, Grown
    <3>2. QED
      BY <3>1 DEF EndsDerivation
  <2>3. CASE h \notin Ids
    BY <1>2, <1>4, <2>3 DEF Grown
  <2>4. QED
    BY <2>2, <2>3
<1>6. hypo'[1] = Seed /\ 1 \in Ids'
  BY <1>1, <1>2, Facts DEF Derived, Grown
<1>7. hypo' \in Seq(Hypotheses) /\ Len(hypo') >= 1
  <2>1. Len(places) \in Nat /\ Len(hypo) \in Nat
    BY <1>2 DEF MayGrow, Grown
  <2>2. hypo' = hypo \o [n \in DOMAIN places |-> CreateHypothesis(places[n][1], places[n][2])]
    BY DEF Grow, Enqueue
  <2>3. hypo \in Seq(Hypotheses) /\ DOMAIN places = 1 .. Len(places)
    BY <1>1, <1>2 DEF Types, MayGrow
  <2>4. \A n \in DOMAIN places : CreateHypothesis(places[n][1], places[n][2]) \in Hypotheses
    BY <1>2, <1>4 DEF Grown
  <2>5. [n \in DOMAIN places |-> CreateHypothesis(places[n][1], places[n][2])] \in Seq(Hypotheses)
    BY <2>1, <2>3, <2>4
  <2>6. hypo' \in Seq(Hypotheses)
    BY <2>2, <2>3, <2>5
  <2>7. QED
    BY <1>6, <2>6 DEF Ids
<1>8. Derived'
  BY <1>2, <1>5, <1>6 DEF Derived
<1>9. QED
  BY <1>3, <1>4, <1>7, <1>8

\* What is said of the hypotheses one by one, and of the closed stacks.
LEMMA GrownData ==
  ASSUME IInv, NEW places, NEW gone, NEW a, Grow(places, gone, a)
  PROVE  /\ PrevClosed' /\ NothingBuiltTwice' /\ Onward'
         /\ \A h \in Ids : Covered(h)' = Covered(h)
         /\ \A k : Closed(k)' <=> Closed(k)
<1>1. /\ Types /\ Derived /\ StacksSound /\ EdgesSound /\ PrevClosed /\ NothingBuiltTwice
      /\ Onward /\ Origins
  BY DEF IInv
<1>2. /\ Grown(places, gone, a) /\ MayGrow(places, gone)
      /\ input' = input /\ pc' = pc /\ ind' = ind
      /\ \A k \in Stacks : Closed(k) => stack'[k] = stack[k]
  BY Grows DEF Grow
<1>3. \A h \in Ids : h \in Ids' /\ hypo'[h] = hypo[h] /\ Covered(h)' = Covered(h)
  BY <1>2 DEF Grown, Covered
<1>4. \A k : Closed(k)' <=> Closed(k)
  BY <1>2 DEF Closed
<1>5. Onward'
  BY <1>1, <1>2, <1>4 DEF Onward
<1>6. PrevClosed'
  <2>1. ASSUME NEW h \in Ids', NEW g, g = hypo'[h].prev, g # NoHypothesis
        PROVE  /\ g \in Ids' /\ Covered(g)' \in Stacks
               /\ Closed(Covered(g)') /\ g \in stack'[Covered(g)'].hypos
    <3>1. /\ g \in Ids /\ Covered(g) \in Stacks /\ Closed(Covered(g))
          /\ g \in stack[Covered(g)].hypos
      <4>1. CASE h \in Ids
        <5>1. hypo[h].prev = g
          BY <1>3, <2>1, <4>1
        <5>2. QED
          BY <1>1, <2>1, <4>1, <5>1 DEF PrevClosed
      <4>2. CASE h \notin Ids
        <5>1. PICK n \in DOMAIN places : h = NewId(n)
          BY <1>2, <4>2 DEF Grown
        <5>2. PICK e \in DOMAIN edges : e = places[n][1]
          BY <1>2, <5>1 DEF MayGrow
        <5>3. PICK c \in Places(edges[e]) : c = places[n][2]
          BY <1>2, <5>1, <5>2 DEF MayGrow
        <5>4. g = Row(e, c)
          BY <2>1, <5>1, <5>2, <5>3, GrownMade
        <5>5. /\ Cardinality(e[1]) \in Stacks /\ Closed(Cardinality(e[1]))
              /\ g \in stack[Cardinality(e[1])].hypos /\ g \in Ids /\ hypo[g].bitmap = e[1]
          BY <1>1, <5>4, CellIs
        <5>6. QED
          BY <5>5 DEF Covered
      <4>3. QED
        BY <4>1, <4>2
    <3>2. QED
      BY <1>2, <1>3, <3>1
  <2>2. \A k : Closed(k)' <=> Closed(k)
    BY <1>4
  <2>3. QED
    BY <1>2, <2>1, <2>2 DEF PrevClosed, Closed
<1>7. NothingBuiltTwice'
  <2>1. SUFFICES ASSUME OptionsDiffer, NEW g \in Ids', NEW h \in Ids', hypo'[g] = hypo'[h]
                 PROVE  g = h
    BY <1>2 DEF NothingBuiltTwice, OptionsDiffer
  <2>2. ASSUME NEW x \in Ids, NEW n \in DOMAIN places, hypo[x] = hypo'[NewId(n)]
        PROVE  FALSE
    <3>1. PICK e \in DOMAIN edges : e = places[n][1]
      BY <1>2 DEF MayGrow
    <3>2. PICK c \in Places(edges[e]) : c = places[n][2] /\ c \notin edges[e].seen
      BY <1>2, <3>1 DEF MayGrow
    <3>3. hypo[x] = CreateHypothesis(e, c) /\ hypo[x].prev = Row(e, c)
      BY <1>2, <2>2, <3>1, <3>2, GrownMade DEF Grown
    <3>4. CASE x = 1
      <4>1. hypo[x].prev = 0
        BY <1>1, <3>4 DEF Derived, Seed, NoHypothesis
      <4>2. Row(e, c) \in Ids
        BY <1>1, CellIs
      <4>3. QED
        BY <1>1, <3>3, <4>1, <4>2, Facts
    <3>5. CASE x # 1
      <4>1. PICK f \in DOMAIN edges : \E d \in edges[f].seen : hypo[x] = CreateHypothesis(f, d)
        BY <1>1, <3>5 DEF Origins
      <4>2. PICK d \in edges[f].seen : hypo[x] = CreateHypothesis(f, d)
        BY <4>1
      <4>3. d \in Places(edges[f])
        BY <1>1 DEF EdgesSound, Explored
      <4>4. CreateHypothesis(e, c) = CreateHypothesis(f, d)
        BY <3>3, <4>2
      <4>5. e = f /\ c = d
        BY <1>1, <2>1, <4>3, <4>4, CellsDiffer
      <4>6. QED
        BY <3>2, <4>2, <4>5
    <3>6. QED
      BY <3>4, <3>5
  <2>3. ASSUME NEW m \in DOMAIN places, NEW n \in DOMAIN places,
               hypo'[NewId(m)] = hypo'[NewId(n)]
        PROVE  m = n
    <3>1. PICK e \in DOMAIN edges : e = places[m][1]
      BY <1>2 DEF MayGrow
    <3>2. PICK f \in DOMAIN edges : f = places[n][1]
      BY <1>2 DEF MayGrow
    <3>3. PICK c \in Places(edges[e]) : c = places[m][2]
      BY <1>2, <3>1 DEF MayGrow
    <3>4. PICK d \in Places(edges[f]) : d = places[n][2]
      BY <1>2, <3>2 DEF MayGrow
    <3>5. CreateHypothesis(e, c) = CreateHypothesis(f, d)
      BY <1>2, <2>3, <3>1, <3>2, <3>3, <3>4 DEF Grown
    <3>6. e = f /\ c = d
      BY <1>1, <2>1, <3>5, CellsDiffer
    <3>7. places[m] = <<e, c>> /\ places[n] = <<f, d>>
      BY <1>2, <3>1, <3>2, <3>3, <3>4 DEF MayGrow
    <3>8. places[m] = places[n]
      BY <3>6, <3>7
    <3>9. QED
      BY <1>2, <3>8 DEF MayGrow
  <2>4. CASE g \in Ids /\ h \in Ids
    BY <1>1, <1>3, <2>1, <2>4 DEF NothingBuiltTwice
  <2>5. CASE g \in Ids /\ h \notin Ids
    BY <1>2, <1>3, <2>1, <2>2, <2>5 DEF Grown
  <2>6. CASE g \notin Ids /\ h \in Ids
    BY <1>2, <1>3, <2>1, <2>2, <2>6 DEF Grown
  <2>7. CASE g \notin Ids /\ h \notin Ids
    BY <1>2, <2>1, <2>3, <2>7 DEF Grown
  <2>8. QED
    BY <2>4, <2>5, <2>6, <2>7
<1>8. QED
  BY <1>3, <1>4, <1>5, <1>6, <1>7

\* What is said of the edges and the queues.
LEMMA GrownGrids ==
  ASSUME IInv, NEW places, NEW gone, NEW a, Grow(places, gone, a)
  PROVE  GridsSound'
<1>1. /\ Types /\ Derived /\ StacksSound /\ EdgesSound /\ EdgesComplete
      /\ QueueSound /\ Origins
  BY DEF IInv
<1>2. /\ Grown(places, gone, a) /\ MayGrow(places, gone)
      /\ input' = input /\ pc' = pc /\ ind' = ind /\ todos' = todos
      /\ \A k \in Stacks : Closed(k) => stack'[k] = stack[k]
  BY Grows DEF Grow
<1>3. /\ \A e \in DOMAIN edges : \A c \in Places(edges[e]) :
           CreateHypothesis(e, c)' = CreateHypothesis(e, c)
      /\ \A k : Closed(k)' <=> Closed(k)
      /\ \A h \in Ids : h \in Ids' /\ hypo'[h] = hypo[h]
  BY <1>2, GrownMade, GrownData DEF Grown
<1>4. \A e \in DOMAIN edges : /\ edges[e].seen \subseteq Places(edges[e])
                              /\ edges[e].seen \subseteq edges'[e].seen
                              /\ Places(edges'[e]) = Places(edges[e])
  BY <1>1, <1>2 DEF EdgesSound, Explored, Grown, Places
<1>5. ASSUME NEW e \in DOMAIN edges, NEW c \in edges'[e].seen, c \notin edges[e].seen
      PROVE  \E n \in DOMAIN places : places[n] = <<e, c>> /\ e = places[n][1] /\ c = places[n][2]
  <2>1. c \in {places[n][2] : n \in {m \in DOMAIN places : places[m][1] = e}}
    BY <1>2, <1>5 DEF Grown
  <2>2. PICK n \in DOMAIN places : c = places[n][2] /\ e = places[n][1]
    BY <2>1
  <2>3. places[n] = <<e, c>>
    BY <1>2, <2>2 DEF MayGrow
  <2>4. QED
    BY <2>2, <2>3
<1>6. \A n \in DOMAIN places : /\ Item(places, n) \in queue'
                               /\ places[n][2] \in edges'[places[n][1]].seen
                               /\ places[n][1] \in DOMAIN edges
                               /\ places[n][2] \in Places(edges[places[n][1]])
  BY <1>2 DEF Grown, MayGrow
<1>7. \A n \in DOMAIN places : /\ Item(places, n).hypo = NewId(n)
                               /\ Item(places, n).edge = places[n][1]
                               /\ Item(places, n).cell = places[n][2]
  BY DEF Item
<1>8. ASSUME NEW e \in DOMAIN edges
      PROVE  Explored(e)'
  <2>1. Explored(e)
    BY <1>1 DEF EdgesSound
  <2>2. edges'[e].seen \subseteq Places(edges'[e])
    <3>1. ASSUME NEW c \in edges'[e].seen PROVE c \in Places(edges[e])
      <4>1. CASE c \in edges[e].seen
        BY <1>4, <4>1
      <4>2. CASE c \notin edges[e].seen
        <5>1. PICK n \in DOMAIN places : e = places[n][1] /\ c = places[n][2]
          BY <1>5, <4>2
        <5>2. QED
          BY <1>6, <5>1
      <4>3. QED
        BY <4>1, <4>2
    <3>2. QED
      BY <1>4, <3>1
  <2>3. edges'[e].seen # {} => <<1, 1>> \in edges'[e].seen
    <3>1. CASE edges[e].seen # {}
      BY <1>4, <2>1, <3>1 DEF Explored
    <3>2. CASE edges[e].seen = {}
      <4>1. ASSUME NEW c \in edges'[e].seen PROVE c = <<1, 1>>
        <5>1. PICK n \in DOMAIN places : e = places[n][1] /\ c = places[n][2]
          BY <1>5, <3>2
        <5>2. QED
          BY <1>2, <3>2, <5>1 DEF MayGrow
      <4>2. QED
        BY <4>1
    <3>3. QED
      BY <3>1, <3>2
  <2>4. ASSUME NEW c \in edges'[e].seen
        PROVE  Queued(e, c)' \/ Neighbours(c) \cap Places(edges'[e]) \subseteq edges'[e].seen
    <3>1. CASE c \notin edges[e].seen
      BY <1>5, <1>6, <1>7, <3>1 DEF Queued
    <3>2. CASE c \in edges[e].seen
      <4>1. CASE Queued(e, c)
        <5>1. PICK q \in queue : q.edge = e /\ q.cell = c
          BY <4>1 DEF Queued
        <5>2. CASE q \in gone
          <6>1. \A d \in Neighbours(c) \cap Places(edges[e]) :
                  d \in edges[e].seen \/ \E n \in DOMAIN places : places[n] = <<e, d>>
            BY <1>2, <5>1, <5>2 DEF MayGrow
          <6>2. \A d \in Neighbours(c) \cap Places(edges[e]) : d \in edges'[e].seen
            BY <1>4, <1>6, <6>1
          <6>3. QED
            BY <1>4, <6>2
        <5>3. CASE q \notin gone
          BY <1>2, <5>1, <5>3 DEF Grown, Queued
        <5>4. QED
          BY <5>2, <5>3
      <4>2. CASE ~Queued(e, c)
        BY <1>4, <2>1, <3>2, <4>2 DEF Explored
      <4>3. QED
        BY <4>1, <4>2
    <3>3. QED
      BY <3>1, <3>2
  <2>5. QED
    BY <2>2, <2>3, <2>4 DEF Explored
<1>9. EdgesSound'
  <2>1. ASSUME NEW e \in DOMAIN edges
        PROVE  /\ Cardinality(e[1]) \in Stacks /\ Closed(Cardinality(e[1]))'
               /\ e[1] \notin todos'
               /\ IsGrid(input', hypo', stack'[Cardinality(e[1])], e, edges'[e])
    <3>1. PICK k \in Stacks : k = Cardinality(e[1]) /\ Closed(k)
      BY <1>1 DEF EdgesSound
    <3>2. IsGrid(input, hypo, stack[k], e, edges[e]) /\ e[1] \notin todos
      BY <1>1, <3>1 DEF EdgesSound
    <3>3. \A x \in stack[k].hypos : hypo'[x] = hypo[x]
      BY <1>1, <1>3, <3>1, Apart
    <3>4. PICK s : s = stack[k] /\ stack'[k] = s
      BY <1>2, <3>1
    <3>5. PICK H, F : H = hypo /\ F = hypo'
      OBVIOUS
    <3>6. {x \in s.hypos : /\ H[x].bitmap = e[1]
                           /\ EdgeTakes(e[1], H[x].range, e[2], input.maxDistortion)}
            = {x \in s.hypos : /\ F[x].bitmap = e[1]
                               /\ EdgeTakes(e[1], F[x].range, e[2], input.maxDistortion)}
      BY <3>3, <3>4, <3>5
    <3>7. edges'[e].hypos = edges[e].hypos /\ edges'[e].translations = edges[e].translations
      BY <1>2 DEF Grown
    <3>8. IsGrid(input, H, s, e, edges[e])
      BY <3>2, <3>4, <3>5
    <3>9. IsGrid(input, F, s, e, edges'[e])
      BY <3>6, <3>7, <3>8 DEF IsGrid
    <3>10. Closed(Cardinality(e[1]))'
      BY <1>3, <3>1 DEF Closed
    <3>11. QED
      BY <1>2, <3>1, <3>2, <3>4, <3>5, <3>9, <3>10
  <2>2. DOMAIN edges' = DOMAIN edges
    BY <1>2 DEF Grown
  <2>3. QED
    BY <1>8, <2>1, <2>2 DEF EdgesSound
<1>10. EdgesComplete'
  <2>1. /\ todos # {} => pc = "todos"
        /\ todos \subseteq Coverages(hypo, stack[ind].hypos) /\ ind \in Stacks
    BY <1>1 DEF EdgesComplete, Types
  <2>2. \A k \in Stacks : \A x \in stack[k].hypos : hypo'[x] = hypo[x]
    BY <1>1, <1>3, Apart
  <2>3. todos' \subseteq Coverages(hypo', stack'[ind'].hypos)
    <3>1. CASE todos = {}
      BY <1>2, <3>1
    <3>2. CASE todos # {}
      <4>1. stack'[ind] = stack[ind]
        BY <1>2, <2>1, <3>2 DEF Closed
      <4>2. Coverages(hypo', stack[ind].hypos) = Coverages(hypo, stack[ind].hypos)
        BY <2>1, <2>2 DEF Coverages
      <4>3. QED
        BY <1>2, <2>1, <4>1, <4>2
    <3>3. QED
      BY <3>1, <3>2
  <2>4. \A b : ForwardSpans(b)' = ForwardSpans(b)
    BY <1>2 DEF ForwardSpans, OptionsOf
  <2>5. ASSUME NEW k \in Stacks, Closed(k), NEW x \in stack[k].hypos,
               hypo[x].bitmap \notin todos, NEW r \in ForwardSpans(hypo[x].bitmap)
        PROVE  <<hypo[x].bitmap, r>> \in DOMAIN edges'
    BY <1>1, <1>2, <2>5 DEF EdgesComplete, Grown
  <2>6. \A k \in Stacks : Closed(k)' => Closed(k) /\ stack'[k] = stack[k]
    BY <1>2, <1>3
  <2>7. QED
    BY <1>2, <2>1, <2>2, <2>3, <2>4, <2>5, <2>6 DEF EdgesComplete
<1>11. QueueSound'
  <2>1. \A q \in queue : /\ q.hypo \in Ids /\ q.edge \in DOMAIN edges
                         /\ q.cell \in edges[q.edge].seen
                         /\ q.cell \in Places(edges[q.edge])
                         /\ hypo[q.hypo] = CreateHypothesis(q.edge, q.cell)
    BY <1>1, <1>4 DEF QueueSound
  <2>2. ASSUME NEW q \in queue'
        PROVE  /\ q.hypo \in Ids' /\ q.edge \in DOMAIN edges'
               /\ q.cell \in edges'[q.edge].seen
               /\ hypo'[q.hypo] = CreateHypothesis(q.edge, q.cell)'
    <3>1. CASE q \in queue
      BY <1>2, <1>3, <1>4, <2>1, <3>1 DEF Grown
    <3>2. CASE q \notin queue
      <4>1. PICK n \in DOMAIN places : q = Item(places, n)
        BY <1>2, <3>2 DEF Grown
      <4>2. q.hypo = NewId(n) /\ q.edge = places[n][1] /\ q.cell = places[n][2]
        BY <1>7, <4>1
      <4>3. CreateHypothesis(places[n][1], places[n][2])'
              = CreateHypothesis(places[n][1], places[n][2])
        BY <1>3, <1>6
      <4>4. /\ NewId(n) \in Ids' /\ DOMAIN edges' = DOMAIN edges
            /\ hypo'[NewId(n)] = CreateHypothesis(places[n][1], places[n][2])
        BY <1>2 DEF Grown
      <4>5. CreateHypothesis(q.edge, q.cell)' = CreateHypothesis(places[n][1], places[n][2])
        BY <4>2, <4>3
      <4>6. QED
        BY <1>6, <4>2, <4>4, <4>5
    <3>3. QED
      BY <3>1, <3>2
  <2>3. ASSUME NEW p \in queue', NEW q \in queue', p.hypo = q.hypo
        PROVE  p = q
    <3>1. \A x \in {p, q} : \/ x \in queue /\ x.hypo \in Ids
                            \/ \E n \in DOMAIN places : /\ x = Item(places, n)
                                                        /\ x.hypo = NewId(n) /\ x.hypo \notin Ids
      BY <1>2, <1>7, <2>1 DEF Grown
    <3>2. CASE p \in queue /\ p.hypo \in Ids
      <4>1. q \in queue
        BY <2>3, <3>1, <3>2
      <4>2. QED
        BY <1>1, <2>3, <3>2, <4>1 DEF QueueSound
    <3>3. CASE ~(p \in queue /\ p.hypo \in Ids)
      <4>1. PICK m \in DOMAIN places : p = Item(places, m) /\ p.hypo = NewId(m) /\ p.hypo \notin Ids
        BY <3>1, <3>3
      <4>2. PICK n \in DOMAIN places : q = Item(places, n) /\ q.hypo = NewId(n)
        BY <2>3, <3>1, <4>1
      <4>3. m = n
        BY <1>2, <2>3, <4>1, <4>2 DEF Grown
      <4>4. QED
        BY <4>1, <4>2, <4>3
    <3>4. QED
      BY <3>2, <3>3
  <2>4. QED
    BY <2>2, <2>3 DEF QueueSound
<1>12. Origins'
  <2>1. ASSUME NEW h \in Ids' \ {1}
        PROVE  \E e \in DOMAIN edges' : \E c \in edges'[e].seen :
                 hypo'[h] = CreateHypothesis(e, c)'
    <3>1. CASE h \in Ids
      <4>1. PICK e \in DOMAIN edges : \E c \in edges[e].seen : hypo[h] = CreateHypothesis(e, c)
        BY <1>1, <3>1 DEF Origins
      <4>2. PICK c \in edges[e].seen : hypo[h] = CreateHypothesis(e, c)
        BY <4>1
      <4>3. hypo'[h] = CreateHypothesis(e, c)'
        BY <1>3, <1>4, <3>1, <4>2
      <4>4. e \in DOMAIN edges' /\ c \in edges'[e].seen
        BY <1>2, <1>4 DEF Grown
      <4>5. QED
        BY <4>3, <4>4
    <3>2. CASE h \notin Ids
      <4>1. PICK n \in DOMAIN places : h = NewId(n)
        BY <1>2, <3>2 DEF Grown
      <4>2. hypo'[h] = CreateHypothesis(places[n][1], places[n][2])'
        BY <1>2, <1>3, <1>6, <4>1 DEF Grown
      <4>3. places[n][1] \in DOMAIN edges' /\ places[n][2] \in edges'[places[n][1]].seen
        BY <1>2, <1>6 DEF Grown
      <4>4. PICK e, c : e = places[n][1] /\ c = places[n][2]
        OBVIOUS
      <4>5. hypo'[h] = CreateHypothesis(e, c)' /\ e \in DOMAIN edges' /\ c \in edges'[e].seen
        BY <4>2, <4>3, <4>4
      <4>6. QED
        BY <4>5
    <3>3. QED
      BY <3>1, <3>2
  <2>2. ASSUME NEW e \in DOMAIN edges', NEW c \in edges'[e].seen
        PROVE  \E h \in Ids' : hypo'[h] = CreateHypothesis(e, c)'
    <3>1. e \in DOMAIN edges
      BY <1>2 DEF Grown
    <3>2. CASE c \in edges[e].seen
      <4>1. PICK h \in Ids : hypo[h] = CreateHypothesis(e, c)
        BY <1>1, <3>1, <3>2 DEF Origins
      <4>2. QED
        BY <1>3, <1>4, <3>1, <3>2, <4>1
    <3>3. CASE c \notin edges[e].seen
      <4>1. PICK n \in DOMAIN places : e = places[n][1] /\ c = places[n][2]
        BY <1>5, <3>1, <3>3
      <4>2. NewId(n) \in Ids' /\ hypo'[NewId(n)] = CreateHypothesis(e, c)
        BY <1>2, <4>1 DEF Grown
      <4>3. CreateHypothesis(e, c)' = CreateHypothesis(e, c)
        BY <1>3, <1>6, <3>1, <4>1
      <4>4. QED
        BY <4>2, <4>3
    <3>4. QED
      BY <3>2, <3>3
  <2>3. QED
    BY <2>1, <2>2 DEF Origins
<1>13. QED
  BY <1>9, <1>10, <1>11, <1>12 DEF GridsSound

\* An item of a queue holds what its cell made.
LEMMA ItemIs ==
  ASSUME Types, Derived, StacksSound, EdgesSound, QueueSound, NEW q \in queue
  PROVE  /\ q.hypo \in Ids /\ q.hypo \in Waits /\ q.edge \in DOMAIN edges
         /\ q.cell \in edges[q.edge].seen /\ q.cell \in Places(edges[q.edge])
         /\ hypo[q.hypo].bitmap = Target(q.edge)
         /\ Covered(q.hypo) = Cardinality(Target(q.edge))
         /\ Target(q.edge) \in Bitmaps
         /\ \A p \in queue : p.hypo = q.hypo => p = q
<1>1. PICK e \in DOMAIN edges : e = q.edge
  BY DEF QueueSound
<1>2. PICK c \in edges[e].seen : c = q.cell /\ hypo[q.hypo] = CreateHypothesis(e, c)
  BY <1>1 DEF QueueSound
<1>3. c \in Places(edges[e]) /\ Target(e) \in Bitmaps
  BY TargetLater DEF EdgesSound, Explored
<1>4. PICK g, j : g = Row(e, c) /\ j = Column(e, c)
  OBVIOUS
<1>5. /\ hypo[g].bitmap = e[1] /\ input.options[j].span = e[2]
      /\ CreateHypothesis(e, c) = CreateNext(g, hypo[g], input.options[j])
  BY <1>3, <1>4, CellIs
<1>6. hypo[q.hypo].bitmap = Target(e)
  BY <1>2, <1>5 DEF CreateNext, Target
<1>7. q.hypo \in Ids /\ \A p \in queue : p.hypo = q.hypo => p = q
  BY DEF QueueSound
<1>8. QED
  BY <1>1, <1>2, <1>3, <1>6, <1>7 DEF Covered, Waits

\* What leaves the queues has come to its stack, and nothing else has.
LEMMA GrownCame ==
  ASSUME IInv, NEW places, NEW gone, NEW a, Grow(places, gone, a)
  PROVE  /\ \A h \in Ids' : h \in Waits' <=>
              \/ h \notin Ids
              \/ h \in Waits /\ \A q \in gone : q.hypo # h
         /\ \A k : Came(k)' = Came(k) \cup {h \in Ids : /\ Covered(h) = k
                                                        /\ \E q \in gone : q.hypo = h}
<1>1. Types /\ QueueSound
  BY DEF IInv
<1>2. Grown(places, gone, a) /\ gone \subseteq queue
  BY Grows DEF Grow, MayGrow
<1>3. \A h \in Ids : Covered(h)' = Covered(h)
  BY GrownData
<1>4. ASSUME NEW h \in Ids', h \notin Ids
      PROVE  h \in Waits'
  <2>1. PICK n \in DOMAIN places : h = NewId(n)
    BY <1>2, <1>4 DEF Grown
  <2>2. Item(places, n) \in queue' /\ Item(places, n).hypo = h
    BY <1>2, <2>1 DEF Grown, Item
  <2>3. QED
    BY <2>2 DEF Waits
<1>5. ASSUME NEW h \in Ids
      PROVE  h \in Waits' <=> h \in Waits /\ \A q \in gone : q.hypo # h
  <2>1. ASSUME h \in Waits'
        PROVE  h \in Waits /\ \A q \in gone : q.hypo # h
    <3>1. PICK q \in queue' : q.hypo = h
      BY <2>1 DEF Waits
    <3>2. q \in queue /\ q \notin gone
      <4>1. \A n \in DOMAIN places : Item(places, n).hypo \notin Ids
        BY <1>2 DEF Grown, Item
      <4>2. QED
        BY <1>2, <1>5, <3>1, <4>1 DEF Grown
    <3>3. QED
      BY <1>1, <1>2, <3>1, <3>2 DEF Waits, QueueSound
  <2>2. ASSUME h \in Waits, \A q \in gone : q.hypo # h
        PROVE  h \in Waits'
    <3>1. PICK q \in queue : q.hypo = h
      BY <2>2 DEF Waits
    <3>2. q \in queue'
      BY <1>2, <2>2, <3>1 DEF Grown
    <3>3. QED
      BY <3>1, <3>2 DEF Waits
  <2>3. QED
    BY <2>1, <2>2
<1>6. \A h \in Ids : (\E q \in gone : q.hypo = h) => h \in Waits
  BY <1>2 DEF Waits
<1>7. \A h \in Ids : h \in Ids'
  BY <1>2 DEF Grown
<1>8. \A k : Came(k)' = Came(k) \cup {h \in Ids : /\ Covered(h) = k
                                                  /\ \E q \in gone : q.hypo = h}
  <2>1. ASSUME NEW k, NEW h
        PROVE  h \in Came(k)' <=> \/ h \in Came(k)
                                  \/ h \in Ids /\ Covered(h) = k /\ \E q \in gone : q.hypo = h
    <3>1. h \in Came(k)' <=> h \in Ids' /\ h \notin Waits' /\ Covered(h)' = k
      BY DEF Came
    <3>2. h \in Came(k) <=> h \in Ids /\ h \notin Waits /\ Covered(h) = k
      BY DEF Came
    <3>3. QED
      BY <1>3, <1>4, <1>5, <1>6, <1>7, <3>1, <3>2
  <2>2. QED
    BY <2>1
<1>9. QED
  BY <1>4, <1>5, <1>7, <1>8

\* The first cell of a grid.
LEMMA FirstGrows ==
  ASSUME IInv, InitializeEdges, NEW e \in Uninitialized,
         NEW places, places = <<<<e, <<1, 1>>>>>>, Enqueue(places, {}, arcs)
  PROVE  Grow(places, {}, arcs) /\ pc = "edges" /\ UNCHANGED <<pc, ind>>
<1>1. pc = "edges" /\ UNCHANGED <<input, conf, stack, deleted, pc, ind, todos>>
  BY DEF InitializeEdges
<1>2. e \in DOMAIN edges /\ <<1, 1>> \in Places(edges[e]) /\ edges[e].seen = {}
  BY DEF Uninitialized, InGrid, Places
<1>3. MayGrow(places, {})
  <2>1. Len(places) = 1 /\ DOMAIN places = {1} /\ places[1] = <<e, <<1, 1>>>>
    OBVIOUS
  <2>2. places[1][1] = e /\ places[1][2] = <<1, 1>>
    BY <2>1
  <2>3. QED
    BY <1>2, <2>1, <2>2 DEF MayGrow
<1>4. arcs \in [Ids -> SUBSET Ids]
  BY DEF IInv, Types
<1>5. QED
  BY <1>1, <1>3, <1>4 DEF Grow

\* The first cells of the grids.
LEMMA InitializeEdgesIInv ==
  ASSUME IInv, InitializeEdges
  PROVE  IInv'
<1>1. /\ pc = "edges"
      /\ UNCHANGED <<input, conf, stack, deleted, pc, ind, todos, inserted, pops>>
  BY DEF InitializeEdges
<1>2. PICK e \in Uninitialized : Enqueue(<<<<e, <<1, 1>>>>>>, {}, arcs)
  BY DEF InitializeEdges
<1>3. PICK places : places = <<<<e, <<1, 1>>>>>>
  OBVIOUS
<1>4. /\ Types /\ Derived /\ StacksSound /\ ArcsKept /\ EdgesSound /\ QueueSound /\ Begun
  BY DEF IInv
<1>5. Grow(places, {}, arcs)
  BY <1>2, <1>3, FirstGrows
<1>6. Grown(places, {}, arcs)
  BY <1>5, Grows
<1>7. /\ Derived' /\ hypo' \in Seq(Hypotheses) /\ Len(hypo') >= 1
      /\ PrevClosed' /\ NothingBuiltTwice' /\ Onward' /\ GridsSound'
      /\ \A k : Closed(k)' <=> Closed(k)
  BY <1>5, GrownMade, GrownData, GrownGrids
<1>8. /\ \A h \in Ids' : h \in Waits' <=> h \notin Ids \/ h \in Waits
      /\ \A k : Came(k)' = Came(k)
  <2>1. PICK gone : gone = {}
    OBVIOUS
  <2>2. Grow(places, gone, arcs)
    BY <1>5, <2>1
  <2>3. /\ \A h \in Ids' : h \in Waits' <=>
              h \notin Ids \/ (h \in Waits /\ \A q \in gone : q.hypo # h)
        /\ \A k : Came(k)' = Came(k) \cup {h \in Ids : /\ Covered(h) = k
                                                       /\ \E q \in gone : q.hypo = h}
    BY <2>2, GrownCame
  <2>4. QED
    BY <2>1, <2>3
<1>9. \A k : Living(k)' = Living(k)
  BY <1>1, <1>8 DEF Living
<1>10. StacksSound'
  <2>1. ASSUME NEW k \in Stacks
        PROVE  /\ CubeHolds(hypo', conf, Came(k), stack[k], arcs', Living(k))
               /\ ~Closed(k) => CubeRefuses(hypo', conf, Came(k), stack[k])
    <3>1. PICK F, new : F = hypo' /\ new = arcs'
      OBVIOUS
    <3>2. \A x \in Came(k) : F[x] = hypo[x] /\ new[x] = arcs[x]
      BY <1>6, <3>1 DEF Grown, Came
    <3>3. Living(k) \subseteq Came(k)
      BY DEF Living
    <3>4. /\ CubeHolds(hypo, conf, Came(k), stack[k], arcs, Living(k))
          /\ ~Closed(k) => CubeRefuses(hypo, conf, Came(k), stack[k])
      BY <1>4 DEF StacksSound
    <3>5. /\ CubeHolds(F, conf, Came(k), stack[k], new, Living(k))
          /\ ~Closed(k) => CubeRefuses(F, conf, Came(k), stack[k])
      BY <3>2, <3>3, <3>4, OthersHold
    <3>6. QED
      BY <3>1, <3>5
  <2>2. conf' = conf /\ stack' = stack
    BY <1>1
  <2>3. QED
    BY <1>7, <1>8, <1>9, <2>1, <2>2 DEF StacksSound
<1>11. ArcsKept'
  <2>1. \A h \in deleted' \cup Waits' : arcs'[h] = {}
    <3>1. deleted \subseteq Ids /\ deleted' = deleted
      BY <1>1, <1>4 DEF Types
    <3>2. Waits' \subseteq Ids'
      BY <1>7 DEF GridsSound, QueueSound, Waits
    <3>3. QED
      BY <1>4, <1>6, <1>8, <3>1, <3>2 DEF ArcsKept, Grown
  <2>2. ~conf.nBest => NoArcs(arcs')
    <3>1. HAVE ~conf.nBest
    <3>2. NoArcs(arcs) /\ DOMAIN arcs = Ids
      BY <1>4, <3>1 DEF ArcsKept, Types
    <3>3. \A h \in Ids' : arcs'[h] = {}
      BY <1>6, <3>2 DEF Grown, NoArcs
    <3>4. QED
      BY <1>6, <3>3 DEF Grown, NoArcs
  <2>3. QED
    BY <1>1, <2>1, <2>2 DEF ArcsKept
<1>12. Types'
  <2>1. deleted' \subseteq Ids' \ Waits'
    BY <1>1, <1>4, <1>6, <1>8 DEF Types, Grown
  <2>2. \A f \in DOMAIN edges' : edges'[f] \in Grids
    BY <1>6 DEF Grown
  <2>3. arcs' \in [Ids' -> SUBSET Ids'] /\ winning' \in [Ids' -> Ids' \cup {Unset}]
    BY <1>6 DEF Grown
  <2>4. QED
    BY <1>1, <1>4, <1>7, <2>1, <2>2, <2>3 DEF Types
<1>13. Begun'
  <2>1. \A f \in DOMAIN edges : /\ edges[f].seen \subseteq edges'[f].seen
                                /\ Places(edges'[f]) = Places(edges[f])
    BY <1>6 DEF Grown, Places
  <2>2. \A k : Filled(k)' <=> Filled(k)
    BY <1>1 DEF Filled
  <2>3. ASSUME NEW f \in DOMAIN edges', Filled(Cardinality(Target(f)))',
               Places(edges'[f]) # {}
        PROVE  edges'[f].seen # {}
    <3>1. f \in DOMAIN edges
      BY <1>6 DEF Grown
    <3>2. Filled(Cardinality(Target(f)))
      BY <1>1, <2>3 DEF Filled, Target
    <3>3. QED
      BY <1>4, <2>1, <2>3, <3>1, <3>2 DEF Begun
  <2>4. pc' # "pop"
    BY <1>1
  <2>5. QED
    BY <2>3, <2>4 DEF Begun
<1>14. QED
  BY <1>7, <1>10, <1>11, <1>12, <1>13 DEF IInv, GridsSound

------------------------------------------------------------------------------
(****************************************************************************)
(* A pop.                                                                   *)
(****************************************************************************)

\* The neighbours of a cell become places unless they have been seen.
LEMMA SuccessorsGrow ==
  ASSUME IInv, NEW q \in queue, NEW places, places = Successors(q.edge, q.cell)
  PROVE  MayGrow(places, {q})
<1>1. Types /\ Derived /\ StacksSound /\ EdgesSound /\ QueueSound
  BY DEF IInv
<1>2. PICK e \in DOMAIN edges : e = q.edge
  BY <1>1, ItemIs
<1>3. PICK c \in Places(edges[e]) : c = q.cell /\ edges[e].seen # {}
  BY <1>1, <1>2, ItemIs
<1>4. edges[e] \in Grids
  BY <1>1 DEF Types
<1>5. c[1] \in Nat /\ c[2] \in Nat
  <2>1. edges[e].hypos \in Seq(Nat) /\ edges[e].translations \in Seq(Nat)
    BY <1>4 DEF Grids
  <2>2. QED
    BY <2>1 DEF Places
<1>6. PICK right, down : right = <<c[1], c[2] + 1>> /\ down = <<c[1] + 1, c[2]>>
  OBVIOUS
<1>7. right # down /\ Neighbours(c) = {right, down}
  <2>1. right[1] = c[1] /\ down[1] = c[1] + 1
    BY <1>6
  <2>2. QED
    BY <1>5, <1>6, <2>1 DEF Neighbours
<1>8. /\ InGrid(e, right) <=> right \in Places(edges[e])
      /\ InGrid(e, down) <=> down \in Places(edges[e])
  BY <1>6 DEF InGrid, Places
<1> DEFINE New(d) == InGrid(e, d) /\ d \notin edges[e].seen
<1>9. \A d : /\ New(d) => IfNew(e, d) = <<<<e, d>>>>
             /\ ~New(d) => IfNew(e, d) = <<>>
  BY DEF IfNew
<1>10. places = IfNew(e, right) \o IfNew(e, down)
  BY <1>2, <1>3, <1>6 DEF Successors
<1>11. \/ New(right) /\ New(down) /\ places = <<<<e, right>>, <<e, down>>>>
       \/ New(right) /\ ~New(down) /\ places = <<<<e, right>>>>
       \/ ~New(right) /\ New(down) /\ places = <<<<e, down>>>>
       \/ ~New(right) /\ ~New(down) /\ places = <<>>
  <2> HIDE DEF New
  <2>1. \A x, y : /\ <<x>> \o <<y>> = <<x, y>>
                  /\ <<x>> \o <<>> = <<x>> /\ <<>> \o <<x>> = <<x>>
    <3>1. ASSUME NEW x, NEW y
          PROVE  /\ <<x>> \o <<y>> = <<x, y>>
                 /\ <<x>> \o <<>> = <<x>> /\ <<>> \o <<x>> = <<x>>
      <4>1. <<x>> \o <<y>> = <<x, y>>
        <5>1. PICK S, u, v, w, z : /\ S = {x, y} /\ u = <<x>> /\ v = <<y>> /\ w = <<x, y>>
                                   /\ z = u \o v
          OBVIOUS
        <5>2. /\ u \in [1 .. 1 -> S] /\ v \in [1 .. 1 -> S] /\ w \in [1 .. 1 + 1 -> S]
              /\ u[1] = x /\ v[1] = y /\ w[1] = x /\ w[2] = y
          BY <5>1
        <5>3. Joined(z, u, 1, v, 1, S)
          BY <5>1, <5>2, Appended
        <5>4. /\ z \in [1 .. 1 + 1 -> S] /\ z[1] = u[1] /\ z[1 + 1] = v[1]
          BY <5>3 DEF Joined
        <5>5. z = w
          BY <5>2, <5>4
        <5>6. QED
          BY <5>1, <5>5
      <4>2. <<x>> \o <<>> = <<x>> /\ <<>> \o <<x>> = <<x>>
        OBVIOUS
      <4>3. QED
        BY <4>1, <4>2
    <3>2. QED
      BY <3>1
  <2>2. <<>> \o <<>> = <<>>
    OBVIOUS
  <2>3. CASE New(right) /\ New(down)
    BY <1>9, <1>10, <2>1, <2>3
  <2>4. CASE New(right) /\ ~New(down)
    BY <1>9, <1>10, <2>1, <2>4
  <2>5. CASE ~New(right) /\ New(down)
    BY <1>9, <1>10, <2>1, <2>5
  <2>6. CASE ~New(right) /\ ~New(down)
    BY <1>9, <1>10, <2>2, <2>6
  <2>7. QED
    BY <2>3, <2>4, <2>5, <2>6
<1> HIDE DEF New
<1>12. /\ Len(places) \in Nat /\ DOMAIN places = 1 .. Len(places)
       /\ \A n \in DOMAIN places :
            \E d \in {right, down} : New(d) /\ places[n] = <<e, d>>
       /\ \A d \in {right, down} : New(d) => \E n \in DOMAIN places : places[n] = <<e, d>>
       /\ \A m, n \in DOMAIN places : places[m] = places[n] => m = n
  <2>1. CASE New(right) /\ New(down) /\ places = <<<<e, right>>, <<e, down>>>>
    <3>1. Len(places) = 2 /\ DOMAIN places = {1, 2} /\ places[1] = <<e, right>>
          /\ places[2] = <<e, down>>
      BY <2>1
    <3>2. places[1] # places[2]
      BY <1>7, <3>1
    <3>3. QED
      BY <2>1, <3>1, <3>2
  <2>2. CASE New(right) /\ ~New(down) /\ places = <<<<e, right>>>>
    <3>1. Len(places) = 1 /\ DOMAIN places = {1} /\ places[1] = <<e, right>>
      BY <2>2
    <3>2. QED
      BY <2>2, <3>1
  <2>3. CASE ~New(right) /\ New(down) /\ places = <<<<e, down>>>>
    <3>1. Len(places) = 1 /\ DOMAIN places = {1} /\ places[1] = <<e, down>>
      BY <2>3
    <3>2. QED
      BY <2>3, <3>1
  <2>4. CASE ~New(right) /\ ~New(down) /\ places = <<>>
    <3>1. Len(places) = 0 /\ DOMAIN places = {}
      BY <2>4
    <3>2. QED
      BY <2>4, <3>1
  <2>5. QED
    BY <1>11, <2>1, <2>2, <2>3, <2>4
<1>13. \A d \in {right, down} : New(d) <=> d \in Places(edges[e]) /\ d \notin edges[e].seen
  BY <1>8 DEF New
<1>14. \A n \in DOMAIN places : /\ places[n] = <<places[n][1], places[n][2]>>
                                /\ places[n][1] = e
                                /\ places[n][2] \in Places(edges[e])
                                /\ places[n][2] \notin edges[e].seen
  <2>1. TAKE n \in DOMAIN places
  <2>2. PICK d \in {right, down} : New(d) /\ places[n] = <<e, d>>
    BY <1>12
  <2>3. places[n][1] = e /\ places[n][2] = d
    BY <2>2
  <2>4. QED
    BY <1>13, <2>2, <2>3
<1>15. \A d \in Neighbours(c) \cap Places(edges[e]) :
         d \in edges[e].seen \/ \E n \in DOMAIN places : places[n] = <<e, d>>
  BY <1>7, <1>12, <1>13
<1>16. QED
  BY <1>2, <1>3, <1>12, <1>14, <1>15 DEF MayGrow

\* The arc lists stay a function.
LEMMA CubeAddPruneArcs ==
  ASSUME NEW H, NEW cf, NEW stk, NEW ar, NEW h,
         NEW out, out = CubeAddPrune(H, cf, stk, ar, h)
  PROVE  out.arcs = [x \in DOMAIN out.arcs |-> out.arcs[x]]
<1>1. \A s, a, g, n : LET o == CubeOutcome(s, a, g, n)
                      IN  o.arcs = [x \in DOMAIN o.arcs |-> o.arcs[x]]
  BY DEF CubeOutcome
<1>2. \E s, a, g, n : out = CubeOutcome(s, a, g, n)
  <2>1. ASSUME NEW t, NEW b, NEW l, NEW m, out = CubeAdded(H, cf, t, b, h, l, m)
        PROVE  \E s, a, g, n : out = CubeOutcome(s, a, g, n)
    BY <2>1 DEF CubeAdded
  <2>2. CASE H[h].total < stk.worst
    BY <2>2 DEF CubeAddPrune
  <2>3. CASE ~(H[h].total < stk.worst) /\ Twins(H, stk, h) = {}
    <3>1. out = CubeAdded(H, cf, stk, ar, h, {}, TRUE)
      BY <2>3 DEF CubeAddPrune
    <3>2. QED
      BY <2>1, <3>1
  <2>4. CASE ~(H[h].total < stk.worst) /\ Twins(H, stk, h) # {}
    <3>1. PICK x : out = CubeRecombine(H, cf, stk, ar, h, x)
      BY <2>4 DEF CubeAddPrune
    <3>2. \/ \E t, b, l, m : out = CubeAdded(H, cf, t, b, h, l, m)
          \/ \E b, g, m : out = CubeOutcome(stk, b, g, m)
      <4>1. CASE H[h].total > H[x].total /\ cf.nBest
        BY <3>1, <4>1 DEF CubeRecombine
      <4>2. CASE H[h].total > H[x].total /\ ~cf.nBest
        BY <3>1, <4>2 DEF CubeRecombine
      <4>3. CASE ~(H[h].total > H[x].total)
        <5>1. CASE H[h].total <= H[x].total /\ cf.nBest
          BY <3>1, <4>3, <5>1 DEF CubeRecombine
        <5>2. CASE ~(H[h].total <= H[x].total /\ cf.nBest)
          BY <3>1, <4>3, <5>2 DEF CubeRecombine
        <5>3. QED
          BY <5>1, <5>2
      <4>4. QED
        BY <4>1, <4>2, <4>3
    <3>3. QED
      BY <2>1, <3>2
  <2>5. QED
    BY <2>2, <2>3, <2>4
<1>3. QED
  BY <1>1, <1>2

\* What comes to the stack in hand: out is what AddPrune makes of it.
LEMMA PopComes ==
  ASSUME IInv, pc = "pop", NEW q \in queue, Cardinality(Target(q.edge)) = ind,
         NEW h, h = q.hypo,
         NEW out, out = CubeAddPrune(hypo, conf, stack[ind], arcs, h)
  PROVE  /\ CubeArrived(hypo, conf, Came(ind), arcs, Living(ind), h, out)
         /\ h \in Ids /\ h \in Waits /\ Covered(h) = ind
         /\ out.arcs \in [Ids -> SUBSET Ids]
         /\ ~conf.nBest => NoArcs(out.arcs)
<1> DEFINE I == Came(ind)
           G == Living(ind)
<1>1. /\ Types /\ Derived /\ StacksSound /\ ArcsKept /\ EdgesSound /\ QueueSound
  BY DEF IInv
<1>2. /\ h \in Ids /\ h \in Waits /\ Covered(h) = ind
  BY <1>1, ItemIs
<1>3. ind \in Stacks /\ ~Closed(ind)
  BY <1>1 DEF Types, Closed, Stacks
<1>4. /\ CubeHolds(hypo, conf, I, stack[ind], arcs, G)
      /\ CubeRefuses(hypo, conf, I, stack[ind])
  BY <1>1, <1>3 DEF StacksSound
<1>5. h \notin I /\ I \subseteq Ids /\ G \subseteq I
  BY <1>2 DEF Came, Living
<1>6. /\ AreHypotheses(hypo, I) /\ AreHypotheses(hypo, Ids) /\ IsCubeConf(conf)
  BY <1>1, Facts
<1>7. AreHypotheses(hypo, I \cup {h})
  <2>1. IsFiniteSet(I \cup {h})
    BY <1>6, FS_AddElement DEF AreHypotheses
  <2>2. I \cup {h} \subseteq Ids
    BY <1>2, <1>5
  <2> HIDE DEF I
  <2>3. QED
    BY <1>6, <2>1, <2>2 DEF AreHypotheses
<1>8. arcs[h] = {} /\ arcs \in [Ids -> SUBSET Ids] /\ DOMAIN arcs = Ids
  BY <1>1, <1>2 DEF ArcsKept, Types
<1>9. IsArcs(arcs)
  BY <1>8 DEF IsArcs
<1> HIDE DEF I, G
<1>10. CubeArrives(hypo, conf, I, stack[ind], arcs, G, h)
  BY <1>2, <1>4, <1>5, <1>7, <1>8, <1>9 DEF CubeArrives, CubeHolds
<1>11. CubeArrived(hypo, conf, I, arcs, G, h, out)
  BY <1>6, <1>10, CubeAddPruneSound
<1>12. OutcomeOwned(hypo, G \cup {h}, arcs, out)
  BY <1>11 DEF CubeArrived
<1>13. out.arcs \in [Ids -> SUBSET Ids]
  <2>1. /\ DOMAIN out.arcs = Ids
        /\ Owned(out.stack.hypos, out.arcs, (G \cup {h}) \ out.gone)
        /\ \A x \in Ids \ (G \cup {h}) : out.arcs[x] = arcs[x]
        /\ \A x \in out.gone : out.arcs[x] = {}
    BY <1>8, <1>12 DEF OutcomeOwned
  <2>2. \A x \in Ids : out.arcs[x] \subseteq Ids
    <3>1. TAKE x \in Ids
    <3>2. CASE x \notin G \cup {h}
      BY <1>8, <2>1, <3>2
    <3>3. CASE x \in out.gone
      BY <2>1, <3>3
    <3>4. CASE x \in (G \cup {h}) \ out.gone
      BY <1>2, <1>5, <2>1, <3>4 DEF Owned
    <3>5. QED
      BY <3>2, <3>3, <3>4
  <2>3. out.arcs = [x \in DOMAIN out.arcs |-> out.arcs[x]]
    BY CubeAddPruneArcs
  <2>4. QED
    BY <2>1, <2>2, <2>3
<1>14. ~conf.nBest => NoArcs(out.arcs)
  <2>1. HAVE ~conf.nBest
  <2>2. NoArcs(arcs)
    BY <1>1, <2>1 DEF ArcsKept
  <2>3. IsCubeStack(I, stack[ind])
    BY <1>4 DEF CubeHolds, CubeSound
  <2>4. (\A x \in stack[ind].hypos : hypo[x].total \in Int) /\ hypo[h].total \in Int
    BY <1>2, <1>5, <1>6, <2>3, CubeFinite DEF AreHypotheses, Hypotheses
  <2>5. QED
    BY <2>1, <2>2, <2>4, CubeAddPruneNoArcs
<1>15. QED
  BY <1>2, <1>11, <1>13, <1>14 DEF I, G

\* The neighbours of the popped cell are queued.
LEMMA ProcessGrows ==
  ASSUME IInv, pc = "pop", NEW q \in queue, Cardinality(Target(q.edge)) = ind,
         ProcessBestHypothesis(q), UNCHANGED <<input, conf, pc, ind, todos>>,
         NEW places, places = Successors(q.edge, q.cell),
         NEW out, out = CubeAddPrune(hypo, conf, stack[ind], arcs, q.hypo)
  PROVE  Grow(places, {q}, out.arcs)
<1>1. ind \in Stacks /\ ~Closed(ind) /\ DOMAIN stack = Stacks
  BY DEF IInv, Types, Closed, Stacks
<1>2. stack' = [stack EXCEPT ![ind] = out.stack] /\ Enqueue(places, {q}, out.arcs)
  BY DEF ProcessBestHypothesis
<1>3. \A k \in Stacks : Closed(k) => stack'[k] = stack[k]
  BY <1>1, <1>2
<1>4. out.arcs \in [Ids -> SUBSET Ids]
  <2>1. PICK h : h = q.hypo
    OBVIOUS
  <2>2. out = CubeAddPrune(hypo, conf, stack[ind], arcs, h)
    BY <2>1
  <2>3. QED
    BY <2>1, <2>2, PopComes
<1>5. MayGrow(places, {q})
  BY SuccessorsGrow
<1>6. QED
  BY <1>2, <1>3, <1>4, <1>5 DEF Grow

\* A pop counts, or not.
LEMMA ProcessIInv ==
  ASSUME IInv, pc = "pop", NEW q \in queue, Cardinality(Target(q.edge)) = ind,
         ProcessBestHypothesis(q), UNCHANGED <<input, conf, pc, ind, todos>>,
         pops' = pops \/ (pops' = pops + 1 /\ pops < conf.popLimit)
  PROVE  IInv'
<1>1. /\ Types /\ Derived /\ StacksSound /\ ArcsKept /\ EdgesSound /\ QueueSound /\ Begun
  BY DEF IInv
<1>2. PICK h : h = q.hypo
  OBVIOUS
<1>3. PICK out : out = CubeAddPrune(hypo, conf, stack[ind], arcs, h)
  OBVIOUS
<1>4. PICK places : places = Successors(q.edge, q.cell)
  OBVIOUS
<1>5. /\ stack' = [stack EXCEPT ![ind] = out.stack]
      /\ deleted' = deleted \cup out.gone
      /\ inserted' = [inserted EXCEPT ![Target(q.edge)] = @ + (IF out.isNew THEN 1 ELSE 0)]
      /\ Enqueue(places, {q}, out.arcs)
  BY <1>2, <1>3, <1>4 DEF ProcessBestHypothesis
<1>6. /\ CubeArrived(hypo, conf, Came(ind), arcs, Living(ind), h, out)
      /\ h \in Ids /\ h \in Waits /\ Covered(h) = ind
      /\ out.arcs \in [Ids -> SUBSET Ids]
      /\ ~conf.nBest => NoArcs(out.arcs)
  BY <1>2, <1>3, PopComes
<1>7. ind \in Stacks /\ ~Closed(ind) /\ DOMAIN stack = Stacks
  BY <1>1 DEF Types, Closed, Stacks
<1>8. /\ stack'[ind] = out.stack /\ DOMAIN stack' = Stacks
      /\ \A k \in Stacks : k # ind => stack'[k] = stack[k]
  BY <1>5, <1>7
<1>9. out = CubeAddPrune(hypo, conf, stack[ind], arcs, q.hypo)
  BY <1>2, <1>3
<1>10. Grow(places, {q}, out.arcs)
  BY <1>4, <1>9, ProcessGrows
<1>11. Grown(places, {q}, out.arcs)
  BY <1>10, Grows
<1>12. /\ Derived' /\ hypo' \in Seq(Hypotheses) /\ Len(hypo') >= 1
       /\ PrevClosed' /\ NothingBuiltTwice' /\ Onward' /\ GridsSound'
       /\ \A k : Closed(k)' <=> Closed(k)
  BY <1>10, GrownMade, GrownData, GrownGrids
<1>13. /\ \A x \in Ids' : x \in Waits' <=> x \notin Ids \/ (x \in Waits /\ x # h)
       /\ \A k : Came(k)' = Came(k) \cup {x \in Ids : Covered(x) = k /\ h = x}
  BY <1>2, <1>10, GrownCame
<1>14. \A k : Came(k)' = IF k = ind THEN Came(k) \cup {h} ELSE Came(k)
  BY <1>6, <1>13
<1>15. PICK a, gone : a = out.arcs /\ gone = out.gone
  OBVIOUS
<1>16. /\ OutcomeOwned(hypo, Living(ind) \cup {h}, arcs, out)
       /\ CubeSound(hypo, conf, Came(ind) \cup {h}, out.stack)
       /\ CubeRefuses(hypo, conf, Came(ind) \cup {h}, out.stack)
  BY <1>6 DEF CubeArrived
<1>17. /\ gone \subseteq Living(ind) \cup {h}
       /\ Owned(out.stack.hypos, a, (Living(ind) \cup {h}) \ gone)
       /\ Dominated(hypo, out.stack.hypos, a)
       /\ \A x \in Ids \ (Living(ind) \cup {h}) : a[x] = arcs[x]
       /\ \A x \in gone : a[x] = {}
  BY <1>1, <1>15, <1>16 DEF OutcomeOwned, Types
<1>18. /\ \A k, l : k # l => Came(k) \cap Came(l) = {}
       /\ \A k : Living(k) \subseteq Came(k) /\ Came(k) \subseteq Ids \ Waits
       /\ deleted \subseteq Ids \ Waits
  BY <1>1, Apart DEF Types
<1>19. \A k : Living(k)' = IF k = ind THEN (Living(k) \cup {h}) \ gone ELSE Living(k)
  <2>1. \A k : k # ind => Came(k) \cap gone = {}
    BY <1>6, <1>17, <1>18
  <2>2. \A k : Living(k)' = (IF k = ind THEN Came(k) \cup {h} ELSE Came(k)) \ (deleted \cup gone)
    BY <1>5, <1>14, <1>15 DEF Living
  <2>3. h \notin deleted
    BY <1>6, <1>18
  <2>4. QED
    BY <2>1, <2>2, <2>3 DEF Living
<1>20. PICK F, new : F = hypo' /\ new = arcs'
  OBVIOUS
<1>21. \A x \in Ids : F[x] = hypo[x] /\ new[x] = a[x]
  BY <1>11, <1>15, <1>20 DEF Grown
<1>22. StacksSound'
  <2>1. ASSUME NEW k \in Stacks, k # ind
        PROVE  /\ CubeHolds(F, conf, Came(k), stack[k], new, Living(k))
               /\ ~Closed(k) => CubeRefuses(F, conf, Came(k), stack[k])
    <3>1. \A x \in Came(k) : F[x] = hypo[x]
      BY <1>18, <1>21
    <3>2. Living(k) \subseteq Came(k)
      BY <1>18
    <3>3. \A x \in Living(k) : new[x] = arcs[x]
      <4>1. \A x \in Living(k) : x \in Ids \ (Living(ind) \cup {h})
        BY <1>6, <1>18, <2>1
      <4>2. QED
        BY <1>17, <1>21, <4>1
    <3>4. /\ CubeHolds(hypo, conf, Came(k), stack[k], arcs, Living(k))
          /\ ~Closed(k) => CubeRefuses(hypo, conf, Came(k), stack[k])
      BY <1>1 DEF StacksSound
    <3>5. QED
      BY <3>1, <3>2, <3>3, <3>4, OthersHold
  <2>2. /\ CubeHolds(F, conf, Came(ind) \cup {h}, out.stack, new, (Living(ind) \cup {h}) \ gone)
        /\ CubeRefuses(F, conf, Came(ind) \cup {h}, out.stack)
    <3>1. PICK I, G : I = Came(ind) \cup {h} /\ G = (Living(ind) \cup {h}) \ gone
      OBVIOUS
    <3>2. G \subseteq I /\ I \subseteq Ids
      BY <1>6, <1>18, <3>1
    <3>3. CubeHolds(hypo, conf, I, out.stack, a, G)
      BY <1>16, <1>17, <3>1 DEF CubeHolds
    <3>4. (\A x \in I : F[x] = hypo[x]) /\ \A x \in G : new[x] = a[x]
      BY <1>21, <3>2
    <3>5. CubeHolds(F, conf, I, out.stack, new, G) /\ CubeRefuses(F, conf, I, out.stack)
      BY <1>16, <3>1, <3>2, <3>3, <3>4, OthersHold
    <3>6. QED
      BY <3>1, <3>5
  <2>3. ASSUME NEW k \in Stacks
        PROVE  /\ CubeHolds(F, conf, Came(k)', stack'[k], new, Living(k)')
               /\ ~Closed(k) => CubeRefuses(F, conf, Came(k)', stack'[k])
    <3>1. CASE k = ind
      BY <1>8, <1>14, <1>19, <2>2, <3>1
    <3>2. CASE k # ind
      <4>1. Came(k)' = Came(k) /\ Living(k)' = Living(k) /\ stack'[k] = stack[k]
        BY <1>8, <1>14, <1>19, <3>2
      <4>2. QED
        BY <2>1, <3>2, <4>1
    <3>3. QED
      BY <3>1, <3>2
  <2>4. conf' = conf
    OBVIOUS
  <2>5. QED
    BY <1>12, <1>20, <2>3, <2>4 DEF StacksSound
<1>23. ArcsKept'
  <2>1. ASSUME NEW x \in deleted' \cup Waits'
        PROVE  arcs'[x] = {}
    <3>1. CASE x \in gone
      BY <1>6, <1>17, <1>18, <1>20, <1>21, <3>1
    <3>2. CASE x \in Ids /\ x \in (deleted \cup Waits) /\ x # h
      <4>1. x \notin Living(ind) \cup {h}
        BY <1>18, <3>2 DEF Living
      <4>2. a[x] = arcs[x] /\ arcs[x] = {}
        BY <1>1, <1>17, <3>2, <4>1 DEF ArcsKept
      <4>3. QED
        BY <1>20, <1>21, <3>2, <4>2
    <3>3. CASE x \in Ids' \ Ids
      BY <1>11, <3>3 DEF Grown
    <3>4. x \in Waits' => x \in Ids'
      BY <1>12 DEF GridsSound, QueueSound, Waits
    <3>5. x \in deleted => x \in Ids /\ x # h
      BY <1>6, <1>18
    <3>6. QED
      BY <1>5, <1>13, <1>15, <2>1, <3>1, <3>2, <3>3, <3>4, <3>5
  <2>2. ~conf.nBest => NoArcs(arcs')
    <3>1. HAVE ~conf.nBest
    <3>2. NoArcs(a) /\ DOMAIN a = Ids
      BY <1>6, <1>15, <3>1
    <3>3. \A x \in Ids' : arcs'[x] = {}
      BY <1>11, <1>15, <3>2 DEF Grown, NoArcs
    <3>4. QED
      BY <1>11, <3>3 DEF Grown, NoArcs
  <2>3. QED
    BY <2>1, <2>2 DEF ArcsKept
<1>24. Types'
  <2>1. deleted' \subseteq Ids' \ Waits'
    <3>1. gone \subseteq Ids /\ \A x \in gone : x \notin Waits \/ x = h
      BY <1>6, <1>17, <1>18
    <3>2. \A x \in Ids : x \in Ids'
      BY <1>11 DEF Grown
    <3>3. \A x \in deleted' : x \in Ids /\ (x \notin Waits \/ x = h)
      BY <1>5, <1>15, <1>18, <3>1
    <3>4. QED
      BY <1>13, <3>2, <3>3
  <2>2. \A f \in DOMAIN edges' : edges'[f] \in Grids
    BY <1>11 DEF Grown
  <2>3. arcs' \in [Ids' -> SUBSET Ids'] /\ winning' \in [Ids' -> Ids' \cup {Unset}]
    BY <1>11 DEF Grown
  <2>4. inserted' \in [Bitmaps -> Nat]
    <3>1. inserted \in [Bitmaps -> Nat] /\ Target(q.edge) \in Bitmaps
      BY <1>1, ItemIs DEF Types
    <3>2. inserted[Target(q.edge)] + (IF out.isNew THEN 1 ELSE 0) \in Nat
      BY <3>1
    <3>3. QED
      BY <1>5, <3>1, <3>2
  <2>5. pops' \in 0 .. conf'.popLimit
    BY <1>1, ConfAssumption DEF Types
  <2>6. QED
    BY <1>1, <1>8, <1>12, <2>1, <2>2, <2>3, <2>4, <2>5 DEF Types
<1>25. Begun'
  <2>1. \A f \in DOMAIN edges : /\ edges[f].seen \subseteq edges'[f].seen
                                /\ Places(edges'[f]) = Places(edges[f])
    BY <1>11 DEF Grown, Places
  <2>2. ASSUME NEW f \in DOMAIN edges', Filled(Cardinality(Target(f)))',
               Places(edges'[f]) # {}
        PROVE  edges'[f].seen # {}
    <3>1. f \in DOMAIN edges
      BY <1>11 DEF Grown
    <3>2. Filled(Cardinality(Target(f)))
      BY <2>2 DEF Filled, Target
    <3>3. QED
      BY <1>1, <2>1, <2>2, <3>1, <3>2 DEF Begun
  <2>3. pops' <= Cardinality(Came(ind)')
    <3>1. IsFiniteSet(Came(ind)) /\ h \notin Came(ind)
      BY <1>1, <1>6, <1>18, Facts DEF AreHypotheses
    <3>2. Cardinality(Came(ind) \cup {h}) = Cardinality(Came(ind)) + 1
      BY <3>1, FS_AddElement
    <3>3. Cardinality(Came(ind)) \in Nat /\ pops \in Nat /\ pops <= Cardinality(Came(ind))
      BY <1>1, <3>1, FS_CardinalityType, ConfAssumption DEF Begun, Types
    <3>4. QED
      BY <1>14, <3>2, <3>3
  <2>4. ind' = ind
    OBVIOUS
  <2>5. QED
    BY <1>14, <2>2, <2>3, <2>4 DEF Begun
<1>26. QED
  BY <1>12, <1>22, <1>23, <1>24, <1>25 DEF IInv, GridsSound

LEMMA PopBestIInv ==
  ASSUME IInv, PopBest
  PROVE  IInv'
<1>1. PICK q \in Top(Waiting) : ProcessBestHypothesis(q)
  BY DEF PopBest
<1>2. q \in queue /\ Cardinality(Target(q.edge)) = ind
  BY DEF Top, Waiting
<1>3. /\ pc = "pop" /\ UNCHANGED <<input, conf, pc, ind, todos>>
      /\ pops' = pops + 1 /\ pops < conf.popLimit
  BY DEF PopBest
<1>4. QED
  BY <1>1, <1>2, <1>3, ProcessIInv

LEMMA EnsureIInv ==
  ASSUME IInv, EnsureMinStackHyps
  PROVE  IInv'
<1>1. PICK b \in Starved : \E q \in Top(WaitingFor(b)) : ProcessBestHypothesis(q)
  BY DEF EnsureMinStackHyps
<1>2. PICK q \in Top(WaitingFor(b)) : ProcessBestHypothesis(q)
  BY <1>1
<1>3. q \in queue /\ Target(q.edge) = b
  BY DEF Top, WaitingFor
<1>4. Cardinality(b) = ind
  BY DEF Starved, Waiting
<1>5. pc = "pop" /\ UNCHANGED <<input, conf, pc, ind, todos, pops>>
  BY DEF EnsureMinStackHyps
<1>6. QED
  BY <1>2, <1>3, <1>4, <1>5, ProcessIInv

------------------------------------------------------------------------------
(****************************************************************************)
(* Closing a stack.                                                         *)
(****************************************************************************)

\* A hypothesis in a stack whose edges are made and an option that may follow it
\* have a cell.
LEMMA HasCell ==
  ASSUME IInv, NEW k \in Stacks, Closed(k), NEW x \in stack[k].hypos,
         hypo[x].bitmap \notin todos, NEW j \in MayFollow(input, hypo[x])
  PROVE  \E e \in DOMAIN edges :
           /\ e[1] = hypo[x].bitmap /\ e[2] = input.options[j].span
           /\ \E c \in Places(edges[e]) : Row(e, c) = x /\ Column(e, c) = j
<1> DEFINE d == input.maxDistortion
<1>1. Types /\ Derived /\ StacksSound /\ EdgesSound /\ EdgesComplete
  BY DEF IInv
<1>2. x \in Ids /\ Covered(x) = k
  BY <1>1, Apart DEF Came
<1>3. PICK b, r : b = hypo[x].bitmap /\ r = input.options[j].span
  OBVIOUS
<1>4. Cardinality(b) = k /\ OnPath(input.rc, b, hypo[x].range, d)
  BY <1>1, <1>2, <1>3 DEF Covered, Derived, EndsDerivation
<1>5. /\ j \in DOMAIN input.options /\ r \in PhraseSpans
      /\ NormalMayExtend(input.rc, b, hypo[x].range, r, OptionSpans(input), d)
  <2>1. input.options \in Seq(TranslationOptions) /\ j \in 1 .. Len(input.options)
    BY <1>1, InputAssumption DEF Types, MayFollow
  <2>2. j \in DOMAIN input.options /\ input.options[j] \in TranslationOptions
    BY <2>1
  <2>3. QED
    BY <1>3, <2>2 DEF MayFollow, TranslationOptions
<1>6. ~Overlap(b, r) /\ NormalDistortionOK(b, hypo[x].range, r, d) /\ Check(input.rc, b, r, d)
  BY <1>5 DEF NormalMayExtend
<1>7. /\ EdgeTakes(b, hypo[x].range, r, d)
      /\ \/ d < 0
         \/ GetFirstGapPos(b) = r[1]
         \/ RequiredDistortion(b, r) <= d
  <2>1. /\ IsLimit(d) /\ Typed(b, hypo[x].range) /\ Window(b, d)
        /\ LastSpanNear(b, hypo[x].range, d)
    BY <1>1, <1>4, Facts DEF OnPath
  <2>2. QED
    BY <1>5, <1>6, <2>1, EdgeAgrees
<1>8. r \in ForwardSpans(b)
  BY <1>3, <1>5, <1>6, <1>7 DEF ForwardSpans, CheckDistortion, OptionsOf
<1>9. PICK e \in DOMAIN edges : e = <<b, r>>
  BY <1>1, <1>3, <1>8 DEF EdgesComplete
<1>10. e[1] = b /\ e[2] = r
  BY <1>9
<1>11. /\ Lists(edges[e].hypos, {y \in stack[k].hypos :
                  hypo[y].bitmap = b /\ EdgeTakes(b, hypo[y].range, r, d)})
       /\ Lists(edges[e].translations, {m \in DOMAIN input.options : input.options[m].span = r})
  BY <1>1, <1>4, <1>10 DEF EdgesSound, IsGrid
<1>12. PICK n \in DOMAIN edges[e].hypos : edges[e].hypos[n] = x
  BY <1>3, <1>7, <1>11 DEF Lists
<1>13. PICK m \in DOMAIN edges[e].translations : edges[e].translations[m] = j
  BY <1>3, <1>5, <1>11 DEF Lists
<1>14. PICK c : c = <<n, m>>
  OBVIOUS
<1>15. c \in Places(edges[e]) /\ c[1] = n /\ c[2] = m
  BY <1>14 DEF Places
<1>16. Row(e, c) = x /\ Column(e, c) = j
  BY <1>12, <1>13, <1>15 DEF Row, Column
<1>17. QED
  BY <1>3, <1>10, <1>15, <1>16

\* Something came to the stack whose pops are done.
LEMMA SomethingCame ==
  ASSUME IInv, pc = "pop", PopsDone, Consistent(input.rc)
  PROVE  Came(ind) # {}
<1> DEFINE d == input.maxDistortion
<1>1. /\ Types /\ Derived /\ StacksSound /\ EdgesSound /\ EdgesComplete /\ QueueSound
      /\ Origins /\ Begun /\ Onward
  BY DEF IInv
<1>2. ind \in Nat /\ ind > 0 /\ ind <= SourceSize /\ SourceSize \in Nat
  BY <1>1, SourceSizeAssumption DEF Types, Stacks
<1>3. PICK k \in Stacks : k = ind - 1 /\ Closed(k)
  BY <1>2 DEF Stacks, Closed
<1>4. PICK x \in stack[k].hypos : TRUE
  BY <1>1, <1>3 DEF Onward
<1>5. x \in Ids /\ Covered(x) = k
  BY <1>1, Apart DEF Came
<1>6. PICK b : b = hypo[x].bitmap
  OBVIOUS
<1>7. /\ hypo[x] \in Hypotheses /\ b \in Bitmaps /\ Cardinality(b) = k
      /\ OnPath(input.rc, b, hypo[x].range, d)
  BY <1>1, <1>5, <1>6, Facts DEF Hypotheses, Covered, Derived, EndsDerivation
<1>8. ~IsComplete(b)
  <2>1. SUFFICES ASSUME IsComplete(b) PROVE FALSE
    OBVIOUS
  <2>2. b = 0 .. SourceSize - 1
    BY <1>7, <2>1, FullBitmap DEF Positions
  <2>3. Cardinality(0 .. SourceSize - 1) = SourceSize
    <3>1. PICK m : m = SourceSize - 1 /\ m \in Int /\ m >= 0 /\ m - 0 + 1 = SourceSize
      BY <1>2
    <3>2. Cardinality(0 .. m) = IF 0 > m THEN 0 ELSE m - 0 + 1
      BY <3>1, FS_Interval
    <3>3. QED
      BY <3>1, <3>2
  <2>4. QED
    BY <1>2, <1>3, <1>7, <2>2, <2>3
<1>9. input \in Inputs /\ input.constraint = <<>>
  BY <1>1, ConstraintAssumption DEF Types
<1>10. WordPending(input, MayFollow(input, hypo[x]))
  BY <1>6, <1>7, <1>8, <1>9, WordFollows
<1>11. PICK j \in MayFollow(input, hypo[x]) : \E p \in Positions : input.options[j].span = <<p, p>>
  BY <1>10 DEF WordPending
<1>12. PICK p \in Positions : input.options[j].span = <<p, p>>
  BY <1>11
<1>13. todos = {}
  BY <1>1 DEF EdgesComplete
<1>14. PICK e \in DOMAIN edges :
         /\ e[1] = b /\ e[2] = <<p, p>>
         /\ Places(edges[e]) # {} /\ Explored(e)
  <2>1. PICK e \in DOMAIN edges :
          /\ e[1] = hypo[x].bitmap /\ e[2] = input.options[j].span
          /\ \E c \in Places(edges[e]) : Row(e, c) = x /\ Column(e, c) = j
    BY <1>3, <1>13, HasCell
  <2>2. QED
    BY <1>1, <1>6, <1>12, <2>1 DEF EdgesSound
<1>15. SpanPositions(<<p, p>>) = {p} /\ p \notin b
  <2>1. ~Overlap(b, <<p, p>>)
    BY <1>6, <1>12 DEF MayFollow, NormalMayExtend
  <2>2. QED
    BY <2>1, WordIsPhrase DEF Overlap
<1>16. Target(e) = b \cup {p} /\ Cardinality(Target(e)) = ind
  <2>1. Target(e) = b \cup {p} /\ p \notin b
    BY <1>14, <1>15 DEF Target
  <2>2. IsFiniteSet(b)
    <3>1. IsFiniteSet(Positions) /\ b \subseteq Positions
      BY <1>2, <1>7, FS_Interval DEF Positions, Bitmaps
    <3>2. QED
      BY <3>1, FS_Subset
  <2>3. Cardinality(b \cup {p}) = Cardinality(b) + 1
    BY <2>1, <2>2, FS_AddElement
  <2>4. QED
    BY <1>2, <1>3, <1>7, <2>1, <2>3
<1>17. PICK c \in edges[e].seen : TRUE
  <2>1. Filled(Cardinality(Target(e)))
    BY <1>16 DEF Filled
  <2>2. QED
    BY <1>1, <1>14, <2>1 DEF Begun
<1>18. PICK h \in Ids : hypo[h] = CreateHypothesis(e, c)
  BY <1>1 DEF Origins
<1>19. Covered(h) = ind
  <2>1. c \in Places(edges[e])
    BY <1>14 DEF Explored
  <2>2. PICK g, m : g = Row(e, c) /\ m = Column(e, c)
    OBVIOUS
  <2>3. /\ hypo[g].bitmap = e[1] /\ input.options[m].span = e[2]
        /\ CreateHypothesis(e, c) = CreateNext(g, hypo[g], input.options[m])
    BY <1>1, <2>1, <2>2, CellIs
  <2>4. hypo[h].bitmap = Target(e)
    BY <1>18, <2>3 DEF CreateNext, Target
  <2>5. QED
    BY <1>16, <2>4 DEF Covered
<1>20. CASE h \notin Waits
  BY <1>19, <1>20 DEF Came
<1>21. CASE h \in Waits
  <2>1. PICK q \in queue : q.hypo = h
    BY <1>21 DEF Waits
  <2>2. q \in Waiting
    BY <1>1, <1>19, <2>1, ItemIs DEF Waiting
  <2>3. pops = conf.popLimit /\ pops <= Cardinality(Came(ind))
    BY <1>1, <2>2 DEF PopsDone, Begun
  <2>4. conf.popLimit \in Nat \ {0}
    BY <1>1, ConfAssumption DEF Types
  <2>5. Cardinality({}) = 0
    BY FS_EmptySet
  <2>6. QED
    BY <2>3, <2>4, <2>5
<1>22. QED
  BY <1>20, <1>21

\* How a stack is closed: s is left of it, a of the arc lists, gone goes.
Closes(H, cf, stk, ar, s, a, gone) ==
  LET out == Outcome(s, ar, Deleted(ar, stk.hypos \ s.hypos))
  IN  /\ s = CubePruneToSize(H, cf, stk, cf.stackSize)
      /\ a \in CleanupArcList(H, cf, s, out.arcs)
      /\ gone = out.gone \cup CutArcs(out.arcs, a, s.hypos)

\* What is left is a stack as it should be.
ClosedWell(H, cf, I, stk, ar, G, s, a, gone) ==
  /\ CubeHolds(H, cf, I, s, a, G \ gone)
  /\ Touched(ar, G, a, gone)
  /\ s.hypos \subseteq stk.hypos
  /\ NoArcs(ar) => NoArcs(a)
  /\ \A x \in DOMAIN ar : a[x] \subseteq ar[x]
  /\ a = [x \in DOMAIN ar |-> a[x]]

LEMMA CloseHolds ==
  ASSUME NEW H, NEW cf, IsCubeConf(cf), NEW I, AreHypotheses(H, I), NEW stk, NEW ar, NEW G,
         G \subseteq I, CubeHolds(H, cf, I, stk, ar, G), G \subseteq DOMAIN ar,
         NEW s, NEW a, NEW gone, Closes(H, cf, stk, ar, s, a, gone)
  PROVE  ClosedWell(H, cf, I, stk, ar, G, s, a, gone)
<1>1. PICK out :
        /\ out = Outcome(s, ar, Deleted(ar, stk.hypos \ s.hypos))
        /\ s = CubePruneToSize(H, cf, stk, cf.stackSize)
        /\ a \in CleanupArcList(H, cf, s, out.arcs)
        /\ gone = out.gone \cup CutArcs(out.arcs, a, s.hypos)
  BY DEF Closes
<1>2. /\ CubeSound(H, cf, I, stk)
      /\ Owned(stk.hypos, ar, G) /\ Dominated(H, stk.hypos, ar)
  BY DEF CubeHolds
<1>3. CubeSound(H, cf, I, s) /\ s.hypos \subseteq stk.hypos
  <2>1. CASE I # {}
    BY <1>1, <1>2, <2>1, CubePruneSound
  <2>2. CASE I = {}
    <3>1. stk.hypos = {}
      BY <1>2, <2>2 DEF Owned
    <3>2. Cardinality(stk.hypos) <= cf.stackSize
      BY <3>1, FS_EmptySet DEF IsCubeConf
    <3>3. s = stk
      BY <1>1, <3>2 DEF CubePruneToSize
    <3>4. QED
      BY <1>2, <3>3
  <2>3. QED
    BY <2>1, <2>2
<1>4. OutcomeOwned(H, G, ar, [stack |-> s, arcs |-> a, gone |-> gone])
  BY <1>1, <1>2, <1>3, OpenOwned
<1> DEFINE o == [stack |-> s, arcs |-> a, gone |-> gone]
<1>5. o.stack = s /\ o.arcs = a /\ o.gone = gone
  OBVIOUS
<1> HIDE DEF o
<1>6. OutcomeOwned(H, G, ar, o)
  BY <1>4 DEF o
<1>7. Owned(s.hypos, a, G \ gone) /\ Dominated(H, s.hypos, a) /\ Touched(ar, G, a, gone)
  BY <1>5, <1>6 DEF OutcomeOwned, Touched
<1>8. DOMAIN out.arcs = DOMAIN ar /\ \A x \in DOMAIN ar : out.arcs[x] \subseteq ar[x]
  BY <1>1 DEF Outcome
<1>9. Shortened(out.arcs, a, s.hypos)
  BY <1>1, CleanupIs
<1>10. \A x \in DOMAIN ar : a[x] \subseteq ar[x]
  BY <1>8, <1>9 DEF Shortened
<1>11. NoArcs(ar) => NoArcs(a)
  BY <1>8, <1>9, <1>10 DEF Shortened, NoArcs
<1>12. a = [x \in DOMAIN ar |-> a[x]]
  BY <1>1, <1>8 DEF CleanupArcList
<1>13. QED
  BY <1>3, <1>7, <1>10, <1>11, <1>12 DEF CubeHolds, ClosedWell

LEMMA CloseStackIInv ==
  ASSUME IInv, CloseStack
  PROVE  IInv'
<1>1. /\ UNCHANGED <<input, conf, hypo, ind, edges, queue, inserted, pops>>
      /\ pc = "pop" /\ pc' = "todos" /\ PopsDone
  BY DEF CloseStack
<1>2. PICK s : s = CubePruneToSize(hypo, conf, stack[ind], conf.stackSize)
  OBVIOUS
<1>3. PICK out : out = Outcome(s, arcs, Deleted(arcs, stack[ind].hypos \ s.hypos))
  OBVIOUS
<1>4. /\ stack' = [stack EXCEPT ![ind] = s]
      /\ \E a \in CleanupArcList(hypo, conf, s, out.arcs) :
           /\ arcs' = a
           /\ winning' = Winners(conf, s, a, winning)
           /\ deleted' = deleted \cup out.gone \cup UNION {out.arcs[x] \ a[x] : x \in s.hypos}
      /\ todos' = Coverages(hypo, s.hypos)
  <2> DEFINE T == CubePruneToSize(hypo, conf, stack[ind], conf.stackSize)
             O == Outcome(T, arcs, Deleted(arcs, stack[ind].hypos \ T.hypos))
  <2>1. /\ stack' = [stack EXCEPT ![ind] = T]
        /\ \E a \in CleanupArcList(hypo, conf, T, O.arcs) :
             /\ arcs' = a
             /\ winning' = Winners(conf, T, a, winning)
             /\ deleted' = deleted \cup O.gone \cup UNION {O.arcs[x] \ a[x] : x \in T.hypos}
        /\ todos' = Coverages(hypo, T.hypos)
    BY Zenon DEF CloseStack
  <2>2. T = s /\ O = out
    BY <1>2, <1>3
  <2> HIDE DEF T, O
  <2>3. QED
    BY <2>1, <2>2
<1>5. PICK a \in CleanupArcList(hypo, conf, s, out.arcs) :
        /\ arcs' = a
        /\ winning' = Winners(conf, s, a, winning)
        /\ deleted' = deleted \cup out.gone \cup UNION {out.arcs[x] \ a[x] : x \in s.hypos}
  BY <1>4
<1>6. PICK gone : gone = out.gone \cup CutArcs(out.arcs, a, s.hypos)
  OBVIOUS
<1>7. /\ arcs' = a /\ winning' = Winners(conf, s, a, winning)
      /\ deleted' = deleted \cup gone
      /\ stack' = [stack EXCEPT ![ind] = s]
      /\ todos' = Coverages(hypo, s.hypos)
  BY <1>4, <1>5, <1>6 DEF CutArcs
<1>8. /\ Types /\ Derived /\ StacksSound /\ ArcsKept /\ PrevClosed
      /\ EdgesSound /\ EdgesComplete /\ QueueSound /\ Origins
      /\ NothingBuiltTwice /\ Begun /\ Onward
  BY DEF IInv
<1>9. /\ ind \in Stacks /\ ind \in Nat /\ IsCubeConf(conf) /\ AreHypotheses(hypo, Came(ind))
      /\ \A h \in Ids : Covered(h) \in Stacks /\ hypo[h] \in Hypotheses
  BY <1>8, Facts DEF Types, Stacks
<1>10. /\ DOMAIN arcs = Ids /\ DOMAIN winning = Ids
       /\ \A k : Living(k) \subseteq Came(k) /\ Came(k) \subseteq Ids \ Waits
       /\ \A k, l : k # l => Came(k) \cap Came(l) = {}
       /\ \A k \in Stacks : stack[k].hypos \subseteq Living(k)
  BY <1>8, Apart
<1>11. CubeHolds(hypo, conf, Came(ind), stack[ind], arcs, Living(ind))
  BY <1>8, <1>9 DEF StacksSound
<1>12. /\ CubeHolds(hypo, conf, Came(ind), s, a, Living(ind) \ gone)
       /\ Touched(arcs, Living(ind), a, gone)
       /\ s.hypos \subseteq stack[ind].hypos
       /\ NoArcs(arcs) => NoArcs(a)
       /\ \A x \in Ids : a[x] \subseteq arcs[x]
       /\ a = [x \in Ids |-> a[x]]
  <2>1. PICK H, cf, I, stk, ar, G :
          /\ H = hypo /\ cf = conf /\ I = Came(ind) /\ stk = stack[ind] /\ ar = arcs
          /\ G = Living(ind)
    OBVIOUS
  <2>2. /\ IsCubeConf(cf) /\ AreHypotheses(H, I) /\ G \subseteq I
        /\ CubeHolds(H, cf, I, stk, ar, G) /\ G \subseteq DOMAIN ar
    BY <1>9, <1>10, <1>11, <2>1
  <2>3. Closes(H, cf, stk, ar, s, a, gone)
    BY <1>2, <1>3, <1>5, <1>6, <2>1 DEF Closes
  <2>4. ClosedWell(H, cf, I, stk, ar, G, s, a, gone)
    BY <2>2, <2>3, CloseHolds
  <2>5. DOMAIN ar = Ids
    BY <1>10, <2>1
  <2>6. QED
    BY <2>1, <2>4, <2>5 DEF ClosedWell
<1>13. /\ gone \subseteq Living(ind) /\ DOMAIN a = Ids
       /\ \A x \in Ids \ Living(ind) : a[x] = arcs[x]
       /\ \A x \in gone : a[x] = {}
  BY <1>10, <1>12 DEF Touched
<1>14. s.hypos \subseteq Came(ind) /\ s.hypos \subseteq Ids
  <2>1. Came(ind) \subseteq Ids
    BY DEF Came
  <2>2. stack[ind].hypos \subseteq Living(ind) /\ Living(ind) \subseteq Came(ind)
    BY <1>9, <1>10
  <2>3. s.hypos \subseteq stack[ind].hypos
    BY <1>12
  <2>4. QED
    BY <2>1, <2>2, <2>3
<1>15. stack'[ind] = s /\ \A k \in Stacks \ {ind} : stack'[k] = stack[k]
  BY <1>7, <1>8, <1>9 DEF Types
<1>16. /\ Ids' = Ids /\ Waits' = Waits
       /\ \A h : Covered(h)' = Covered(h)
       /\ \A k : Came(k)' = Came(k)
       /\ \A b : ForwardSpans(b)' = ForwardSpans(b)
       /\ \A e : Target(e)' = Target(e)
  <2>1. Ids' = Ids /\ Waits' = Waits /\ \A h : Covered(h)' = Covered(h)
    BY <1>1 DEF Ids, Waits, Covered
  <2>2. QED
    BY <1>1, <2>1 DEF Came, ForwardSpans, OptionsOf, Target
<1>17. \A k : Living(k)' = IF k = ind THEN Living(k) \ gone ELSE Living(k)
  <2>1. \A k : k # ind => Came(k) \cap gone = {}
    BY <1>10, <1>13
  <2>2. \A k : Living(k)' = Came(k) \ (deleted \cup gone)
    BY <1>7, <1>16 DEF Living
  <2>3. QED
    BY <2>1, <2>2 DEF Living
<1>18. \A k : (Closed(k)' <=> Closed(k) \/ k = ind) /\ (Filled(k)' <=> Filled(k))
  BY <1>1 DEF Closed, Filled
<1>19. ~Closed(ind) /\ todos = {}
  BY <1>1, <1>8, <1>9 DEF Closed, EdgesComplete
<1>20. Derived'
  <2>1. hypo' = hypo /\ input' = input
    BY <1>1
  <2>2. QED
    BY <1>8, <1>16, <2>1 DEF Derived
<1>21. StacksSound'
  <2>1. ASSUME NEW k \in Stacks
        PROVE  /\ CubeHolds(hypo, conf, Came(k), stack'[k], a, Living(k)')
               /\ ~Closed(k) /\ k # ind => CubeRefuses(hypo, conf, Came(k), stack'[k])
    <3>1. CASE k = ind
      BY <1>12, <1>15, <1>17, <3>1
    <3>2. CASE k # ind
      <4>1. /\ CubeHolds(hypo, conf, Came(k), stack[k], arcs, Living(k))
            /\ ~Closed(k) => CubeRefuses(hypo, conf, Came(k), stack[k])
        BY <1>8 DEF StacksSound
      <4>2. \A x \in Living(k) : a[x] = arcs[x]
        BY <1>10, <1>13, <3>2
      <4>3. CubeHolds(hypo, conf, Came(k), stack[k], a, Living(k))
        BY <1>10, <4>1, <4>2, OthersHold
      <4>4. QED
        BY <1>15, <1>17, <3>2, <4>1, <4>3
    <3>3. QED
      BY <3>1, <3>2
  <2>2. hypo' = hypo /\ conf' = conf
    BY <1>1
  <2>3. QED
    BY <1>7, <1>16, <1>18, <2>1, <2>2 DEF StacksSound
<1>22. Types'
  <2>1. DOMAIN stack' = Stacks
    BY <1>7, <1>8 DEF Types
  <2>2. winning' \in [Ids -> Ids \cup {Unset}]
    <3>1. winning \in [Ids -> Ids \cup {Unset}]
      BY <1>8 DEF Types
    <3>2. Winners(conf, s, a, winning) \in [Ids -> Ids \cup {Unset}]
      BY <1>14, <3>1, WinnersTyped
    <3>3. QED
      BY <1>7, <3>2
  <2>3. arcs' \in [Ids -> SUBSET Ids]
    BY <1>7, <1>8, <1>12 DEF Types
  <2>4. deleted' \subseteq Ids \ Waits
    BY <1>7, <1>8, <1>10, <1>13 DEF Types
  <2>5. todos' \subseteq Bitmaps
    <3>1. \A x \in s.hypos : hypo[x].bitmap \in Bitmaps
      BY <1>9, <1>14 DEF Hypotheses
    <3>2. QED
      BY <1>7, <3>1 DEF Coverages
  <2>6. QED
    BY <1>1, <1>8, <1>16, <2>1, <2>2, <2>3, <2>4, <2>5 DEF Types
<1>23. ArcsKept'
  <2>1. \A h \in deleted' \cup Waits' : arcs'[h] = {}
    <3>1. \A h \in deleted \cup Waits : h \in Ids \ Living(ind) /\ arcs[h] = {}
      BY <1>8, <1>10 DEF ArcsKept, Living, Types, Waits, QueueSound
    <3>2. QED
      BY <1>7, <1>13, <1>16, <3>1
  <2>2. ~conf.nBest => NoArcs(arcs')
    BY <1>7, <1>8, <1>12 DEF ArcsKept
  <2>3. conf' = conf
    BY <1>1
  <2>4. QED
    BY <2>1, <2>2, <2>3 DEF ArcsKept
<1>24. PrevClosed'
  <2>1. ASSUME NEW h \in Ids, hypo[h].prev # NoHypothesis
        PROVE  LET g == hypo[h].prev
               IN  /\ g \in Ids /\ Covered(g) \in Stacks
                   /\ Closed(Covered(g))' /\ g \in stack'[Covered(g)].hypos
    <3> DEFINE g == hypo[h].prev
    <3>1. /\ g \in Ids /\ Covered(g) \in Stacks /\ Closed(Covered(g))
          /\ g \in stack[Covered(g)].hypos
      BY <1>8, <2>1 DEF PrevClosed
    <3>2. PICK k : k = Covered(g)
      OBVIOUS
    <3>3. Closed(k)' /\ stack'[k] = stack[k]
      BY <1>15, <1>18, <1>19, <3>1, <3>2
    <3>4. Closed(Covered(g))'
      BY <1>1, <3>2, <3>3 DEF Closed, Covered
    <3>5. QED
      BY <3>1, <3>2, <3>3, <3>4
  <2>2. hypo' = hypo
    BY <1>1
  <2>3. QED
    BY <1>16, <2>1, <2>2 DEF PrevClosed, Closed
<1>25. EdgesSound'
  <2>1. ASSUME NEW e \in DOMAIN edges
        PROVE  /\ Closed(Cardinality(e[1]))' /\ Cardinality(e[1]) \in Stacks
               /\ e[1] \notin todos'
               /\ IsGrid(input, hypo, stack'[Cardinality(e[1])], e, edges[e])
               /\ Explored(e)'
    <3>1. /\ Closed(Cardinality(e[1])) /\ Cardinality(e[1]) \in Stacks
          /\ IsGrid(input, hypo, stack[Cardinality(e[1])], e, edges[e])
          /\ Explored(e)
      BY <1>8 DEF EdgesSound
    <3>2. Cardinality(e[1]) # ind
      BY <1>19, <3>1
    <3>3. e[1] \notin todos'
      <4>1. ASSUME e[1] \in todos' PROVE FALSE
        <5>1. PICK x \in s.hypos : hypo[x].bitmap = e[1]
          BY <1>7, <4>1 DEF Coverages
        <5>2. x \in Came(ind)
          BY <1>14, <5>1
        <5>3. QED
          BY <3>2, <5>1, <5>2 DEF Came, Covered
      <4>2. QED
        BY <4>1
    <3>4. Closed(Cardinality(e[1]))'
      BY <1>1, <3>1 DEF Closed
    <3>5. stack'[Cardinality(e[1])] = stack[Cardinality(e[1])]
      BY <1>15, <3>1, <3>2
    <3>6. Explored(e)'
      BY <1>1, <3>1 DEF Explored, Queued
    <3>7. QED
      BY <3>1, <3>3, <3>4, <3>5, <3>6
  <2>2. input' = input /\ hypo' = hypo /\ edges' = edges
    BY <1>1
  <2>3. QED
    BY <2>1, <2>2 DEF EdgesSound
<1>26. EdgesComplete'
  <2>1. pc' = "todos" /\ stack'[ind'] = s /\ hypo' = hypo /\ edges' = edges
    BY <1>1, <1>15
  <2>2. todos' \subseteq Coverages(hypo', stack'[ind'].hypos)
    BY <1>7, <2>1
  <2>3. ASSUME NEW k \in Stacks, Closed(k) \/ k = ind, NEW x \in stack'[k].hypos,
               hypo[x].bitmap \notin todos', NEW r \in ForwardSpans(hypo[x].bitmap)
        PROVE  <<hypo[x].bitmap, r>> \in DOMAIN edges
    <3>1. CASE k = ind
      <4>1. x \in s.hypos
        BY <1>15, <2>3, <3>1
      <4>2. hypo[x].bitmap \in todos'
        BY <1>7, <4>1 DEF Coverages
      <4>3. QED
        BY <2>3, <4>2
    <3>2. CASE k # ind
      <4>1. x \in stack[k].hypos /\ Closed(k) /\ hypo[x].bitmap \notin todos
        BY <1>15, <1>19, <2>3, <3>2
      <4>2. QED
        BY <1>8, <2>3, <4>1 DEF EdgesComplete
    <3>3. QED
      BY <3>1, <3>2
  <2>4. QED
    BY <1>16, <1>18, <2>1, <2>2, <2>3 DEF EdgesComplete
<1>27. \A e, c : CreateHypothesis(e, c)' = CreateHypothesis(e, c)
  BY <1>1 DEF CreateHypothesis
<1>28. QueueSound' /\ Origins' /\ NothingBuiltTwice'
  <2>1. queue' = queue /\ edges' = edges /\ hypo' = hypo /\ input' = input
    BY <1>1
  <2>2. QueueSound'
    BY <1>8, <1>16, <1>27, <2>1 DEF QueueSound
  <2>3. Origins'
    BY <1>8, <1>16, <1>27, <2>1 DEF Origins
  <2>4. NothingBuiltTwice'
    BY <1>8, <1>16, <2>1 DEF NothingBuiltTwice, OptionsDiffer
  <2>5. QED
    BY <2>2, <2>3, <2>4
<1>29. Begun'
  <2>1. pc' # "pop" /\ edges' = edges
    BY <1>1
  <2>2. \A k : Filled(k)' <=> Filled(k)
    BY <1>18
  <2>3. ASSUME NEW e \in DOMAIN edges, Filled(Cardinality(Target(e)))', Places(edges[e]) # {}
        PROVE  edges[e].seen # {}
    <3>1. Filled(Cardinality(Target(e)))
      BY <1>1, <2>3 DEF Filled, Target
    <3>2. QED
      BY <1>8, <2>3, <3>1 DEF Begun
  <2>4. QED
    BY <2>1, <2>3 DEF Begun
<1>30. Onward'
  <2>1. ASSUME Consistent(input.rc), NEW k \in Stacks, Closed(k) \/ k = ind
        PROVE  stack'[k].hypos # {}
    <3>1. CASE k = ind
      <4>1. Came(ind) # {}
        BY <1>1, <2>1, SomethingCame
      <4>2. s.hypos # {}
        BY <1>12, <4>1, NotEmptied
      <4>3. QED
        BY <1>15, <3>1, <4>2
    <3>2. CASE k # ind
      BY <1>8, <1>15, <2>1, <3>2 DEF Onward
    <3>3. QED
      BY <3>1, <3>2
  <2>2. input' = input
    BY <1>1
  <2>3. QED
    BY <1>18, <2>1, <2>2 DEF Onward
<1>31. QED
  BY <1>20, <1>21, <1>22, <1>23, <1>24, <1>25, <1>26, <1>28, <1>29, <1>30 DEF IInv

------------------------------------------------------------------------------
(****************************************************************************)
(* The invariant.                                                           *)
(****************************************************************************)

LEMMA StepIInv ==
  ASSUME IInv, [Next]_vars
  PROVE  IInv'
BY CreateForwardTodosIInv, NextStackIInv, BeforePopsIInv,
   InitializeEdgesIInv, StartPopsIInv, PopBestIInv, EnsureIInv, CloseStackIInv DEF Next

\* Whatever step of SearchCubePruning::ProcessSentence has been taken, stacks,
\* grids, queues and arc lists are related as IInv says.
THEOREM Invariant == Spec => []IInv
<1>1. Init => IInv
  BY InitIInv
<1>2. IInv /\ [Next]_vars => IInv'
  BY StepIInv
<1>3. QED
  BY <1>1, <1>2, PTL DEF Spec

------------------------------------------------------------------------------
(****************************************************************************)
(* Ownership.                                                               *)
(****************************************************************************)

LEMMA TypesFollow == IInv => TypeOK
<1> SUFFICES ASSUME IInv PROVE TypeOK
  OBVIOUS
<1>1. /\ Types /\ Derived /\ StacksSound /\ EdgesSound /\ QueueSound
  BY DEF IInv
<1>2. \A h \in Ids : /\ hypo[h].prev \in 0 .. h - 1
                     /\ hypo[h].bitmap \in Bitmaps
                     /\ hypo[h].range \in PhraseSpans \cup {NoSpan}
                     /\ hypo[h].total = hypo[h].score
                          + (IF h = 1 THEN 0 ELSE FutureScore(hypo[h].bitmap))
  <2>1. \A h \in Ids : hypo[h] \in Hypotheses /\ EndsDerivation(input, hypo, h)
    BY <1>1, Facts DEF Derived
  <2>2. QED
    BY <2>1 DEF Hypotheses, EndsDerivation
<1>3. \A k \in Stacks : stack[k].hypos \subseteq {h \in Ids : Covered(h) = k}
  BY <1>1, Apart DEF Came
<1>4. \A h \in Ids : arcs[h] \subseteq Ids /\ winning[h] \in Ids \cup {Unset}
  BY <1>1 DEF Types
<1>5. \A e \in DOMAIN edges : /\ e \in Bitmaps \X PhraseSpans
                              /\ \A c \in edges[e].seen : InGrid(e, c)
  <2>1. TAKE e \in DOMAIN edges
  <2>2. e \in Bitmaps \X PhraseSpans /\ edges[e].seen \subseteq Places(edges[e])
    BY <1>1 DEF EdgesSound, IsGrid, Explored
  <2>3. QED
    BY <2>2 DEF Places, InGrid
<1>6. \A q \in queue : /\ q.hypo \in Ids /\ q.edge \in DOMAIN edges
                       /\ q.cell \in edges[q.edge].seen
                       /\ hypo[q.hypo].bitmap = Target(q.edge)
  BY <1>1, ItemIs
<1>7. QED
  BY <1>1, <1>2, <1>3, <1>4, <1>5, <1>6 DEF Types, TypeOK

\* Who holds arcs is in a stack, and holds them alone.
LEMMA HoldersAlone ==
  ASSUME IInv, NEW x \in Ids, NEW h \in arcs[x]
  PROVE  /\ h \in Ids /\ h \notin deleted /\ h \notin Waits
         /\ Covered(h) = Covered(x) /\ Covered(x) \in Stacks
         /\ x \in stack[Covered(x)].hypos /\ h \notin stack[Covered(h)].hypos
<1>1. Types /\ Derived /\ ArcsKept
  BY DEF IInv
<1>2. Covered(x) \in Stacks
  BY <1>1, Facts
<1>3. x \notin deleted /\ x \notin Waits
  BY <1>1 DEF ArcsKept
<1>4. x \in Living(Covered(x))
  BY <1>3 DEF Living, Came
<1>5. Owned(stack[Covered(x)].hypos, arcs, Living(Covered(x)))
  BY <1>2 DEF IInv, StacksSound, CubeHolds
<1>6. x \in stack[Covered(x)].hypos
  BY <1>4, <1>5 DEF Owned
<1>7. h \in Living(Covered(x)) /\ h \notin stack[Covered(x)].hypos
  BY <1>5, <1>6 DEF Owned
<1>8. h \in Ids /\ h \notin deleted /\ h \notin Waits /\ Covered(h) = Covered(x)
  BY <1>7 DEF Living, Came
<1>9. QED
  BY <1>2, <1>6, <1>7, <1>8

LEMMA OwnedFollows == IInv => OwnedOnce
<1> SUFFICES ASSUME IInv PROVE OwnedOnce
  OBVIOUS
<1>1. ASSUME NEW x \in Ids, arcs[x] # {}
      PROVE  \E k \in Stacks : x \in stack[k].hypos
  <2>1. PICK h : h \in arcs[x]
    BY <1>1
  <2>2. QED
    BY <2>1, HoldersAlone
<1>2. Types /\ Derived /\ StacksSound /\ QueueSound
  BY DEF IInv
<1>3. ASSUME NEW h \in Ids
      PROVE  Cardinality({k \in Stacks : h \in stack[k].hypos})
               + Cardinality({x \in Ids : h \in arcs[x]})
               + Cardinality({q \in queue : q.hypo = h})
               = IF h \in deleted THEN 0 ELSE 1
  <2> DEFINE K == {k \in Stacks : h \in stack[k].hypos}
             X == {x \in Ids : h \in arcs[x]}
             Q == {q \in queue : q.hypo = h}
             c == Covered(h)
  <2> SUFFICES Cardinality(K) + Cardinality(X) + Cardinality(Q)
                 = IF h \in deleted THEN 0 ELSE 1
    OBVIOUS
  <2>1. c \in Stacks /\ deleted \subseteq Ids \ Waits
    BY <1>2, Facts DEF Types
  <2>2. \A k \in K : k = c /\ h \notin deleted /\ h \notin Waits
    BY <1>2, Apart DEF Came, Living
  <2>3. \A x \in X : /\ h \notin deleted /\ h \notin Waits /\ Covered(x) = c
                     /\ x \in stack[c].hypos /\ h \notin stack[c].hypos
    BY HoldersAlone
  <2>4. Owned(stack[c].hypos, arcs, Living(c))
    BY <1>2, <2>1 DEF StacksSound, CubeHolds
  <2>5. Cardinality({}) = 0 /\ \A a : Cardinality({a}) = 1
    BY FS_EmptySet, FS_Singleton
  <2>6. h \notin Waits => Q = {}
    BY DEF Waits
  <2>7. CASE h \in deleted
    <3>1. K = {} /\ X = {} /\ Q = {}
      BY <2>1, <2>2, <2>3, <2>6, <2>7
    <3> HIDE DEF K, X, Q
    <3>2. QED
      BY <2>5, <2>7, <3>1
  <2>8. CASE h \in Waits
    <3>1. K = {} /\ X = {} /\ h \notin deleted
      BY <2>1, <2>2, <2>3, <2>8
    <3>2. PICK q \in queue : q.hypo = h
      BY <2>8 DEF Waits
    <3>3. Q = {q}
      BY <1>2, <3>2 DEF QueueSound
    <3>4. Cardinality({q}) = 1
      BY <2>5
    <3> HIDE DEF K, X, Q
    <3>5. QED
      BY <2>5, <3>1, <3>3, <3>4
  <2>9. CASE h \notin deleted /\ h \notin Waits /\ h \in stack[c].hypos
    <3>1. K = {c}
      BY <2>1, <2>2, <2>9
    <3>2. X = {} /\ Q = {}
      BY <2>3, <2>6, <2>9
    <3>3. Cardinality({c}) = 1
      BY <2>5
    <3> HIDE DEF K, X, Q, c
    <3>4. QED
      BY <2>5, <2>9, <3>1, <3>2, <3>3
  <2>10. CASE h \notin deleted /\ h \notin Waits /\ h \notin stack[c].hypos
    <3>1. K = {} /\ Q = {}
      BY <2>2, <2>6, <2>10
    <3>2. h \in Living(c)
      BY <2>10 DEF Living, Came
    <3>3. PICK y \in stack[c].hypos : h \in arcs[y]
      BY <2>4, <2>10, <3>2 DEF Owned
    <3>4. y \in Ids
      BY <1>2, <2>1, <3>3, Apart
    <3>5. \A x \in X : x = y
      <4>1. TAKE x \in X
      <4>2. x \in stack[c].hypos /\ h \in arcs[x]
        BY <2>3
      <4>3. QED
        BY <2>4, <3>3, <4>2 DEF Owned
    <3>6. X = {y}
      BY <3>3, <3>4, <3>5
    <3>7. Cardinality({y}) = 1
      BY <2>5
    <3> HIDE DEF K, X, Q
    <3>8. QED
      BY <2>5, <2>10, <3>1, <3>6, <3>7
  <2>11. QED
    BY <2>7, <2>8, <2>9, <2>10
<1>4. QED
  BY <1>1, <1>3 DEF OwnedOnce

LEMMA GridsFollow == IInv => GridsAlive
<1> SUFFICES ASSUME IInv PROVE GridsAlive
  OBVIOUS
<1>1. ASSUME NEW e \in DOMAIN edges, NEW x \in DOMAIN edges[e].hypos
      PROVE  edges[e].hypos[x] \in stack[Cardinality(e[1])].hypos
  BY DEF IInv, EdgesSound, IsGrid, Lists
<1>2. \A h \in Ids : hypo[h].prev # NoHypothesis =>
        hypo[h].prev \in stack[Covered(hypo[h].prev)].hypos
  BY DEF IInv, PrevClosed
<1>3. QED
  BY <1>1, <1>2 DEF GridsAlive

\* Nothing leaks and nothing dangles, whatever is recombined and pruned, and
\* the grids and the back pointers lead to what the stacks still hold
\* (HypothesisStackCubePruning::AddPrune, PruneToSize, CleanupArcList,
\* BackwardsEdge).
THEOREM Ownership == Spec => []HypothesesOwned
<1>1. IInv => HypothesesOwned
  BY TypesFollow, OwnedFollows, GridsFollow DEF HypothesesOwned
<1>2. QED
  BY <1>1, Invariant, PTL

------------------------------------------------------------------------------
(****************************************************************************)
(* Pruning.                                                                 *)
(****************************************************************************)

LEMMA JustifiedFollows == IInv => PruningJustified
<1> SUFFICES ASSUME IInv, NEW h \in Ids \ Waits
             PROVE  LET stk    == stack[Covered(h)]
                        asGood == {x \in stk.hypos : hypo[x].total >= hypo[h].total}
                        came   == {RecombineKey(hypo[x]) :
                                     x \in {y \in Ids : Covered(y) = Covered(h)} \ Waits}
                    IN  \/ \E x \in asGood : RecombineKey(hypo[x]) = RecombineKey(hypo[h])
                        \/ Cardinality(asGood) >= conf.stackSize
                        \/ hypo[h].total <= stk.best + conf.beamWidth
                        \/ asGood = stk.hypos /\ asGood # {}
                             /\ Cardinality(came) >= 2 * conf.stackSize
  BY DEF PruningJustified, Waits
<1> DEFINE k == Covered(h)
           stk == stack[k]
           asGood == {x \in stk.hypos : hypo[x].total >= hypo[h].total}
<1>1. k \in Stacks
  BY Facts DEF IInv
<1>2. CubeSound(hypo, conf, Came(k), stk) /\ h \in Came(k)
  BY <1>1 DEF IInv, StacksSound, CubeHolds, Came
<1>3. asGood = AtLeast(hypo, stk.hypos, hypo[h].total)
  BY DEF AtLeast
<1>4. \/ \E y \in stk.hypos : /\ RecombineKey(hypo[y]) = RecombineKey(hypo[h])
                              /\ hypo[y].total >= hypo[h].total
      \/ CubeMayGo(hypo, conf, Came(k), stk, hypo[h].total)
  BY <1>2 DEF CubeSound, CubeJustified
<1>5. {y \in Ids : Covered(y) = k} \ Waits = Came(k)
  BY DEF Came
<1>6. {RecombineKey(hypo[x]) : x \in {y \in Ids : Covered(y) = k} \ Waits}
        = AllKeys(hypo, Came(k))
  BY <1>5 DEF AllKeys
<1>7. stk.hypos # {}
  BY <1>2 DEF CubeSound, BestSeen
<1>8. (\A y \in stk.hypos : hypo[y].total >= hypo[h].total) => asGood = stk.hypos
  OBVIOUS
<1>9. QED
  BY <1>3, <1>4, <1>6, <1>7, <1>8 DEF CubeMayGo

\* Whatever became of a hypothesis that left its queue, pruning was allowed to
\* drop it: something that recombines with it, as many as fit or the beam are
\* as good, or the stack has overflowed (HypothesisStackCubePruning::AddPrune,
\* PruneToSize).
THEOREM Pruning == Spec => []PruningJustified
BY JustifiedFollows, Invariant, PTL

------------------------------------------------------------------------------
(****************************************************************************)
(* The grids.                                                               *)
(****************************************************************************)

\* What has been seen of the cells P has its neighbours seen, or is ready.
Leading(P, seen, ready) ==
  /\ seen \subseteq P /\ <<1, 1>> \in seen
  /\ \A c \in seen : c \in ready \/ Neighbours(c) \cap P \subseteq seen

\* Of the cells before c that have been seen, the nearest is in the queue.
LEMMA Leads ==
  ASSUME NEW m \in Nat, NEW n \in Nat,
         NEW P, P = (1 .. m) \X (1 .. n), NEW seen, NEW ready, Leading(P, seen, ready),
         NEW c \in P, c \notin seen
  PROVE  \E x \in seen : x \in ready /\ x[1] <= c[1] /\ x[2] <= c[2]
<1> DEFINE R == {x \in seen : x[1] <= c[1] /\ x[2] <= c[2]}
           far(x) == (c[1] - x[1]) + (c[2] - x[2])
           D == {far(x) : x \in R}
<1>1. c = <<c[1], c[2]>> /\ c[1] \in 1 .. m /\ c[2] \in 1 .. n
  OBVIOUS
<1>2. \A x \in seen : x = <<x[1], x[2]>> /\ x[1] \in 1 .. m /\ x[2] \in 1 .. n
  BY DEF Leading
<1>3. <<1, 1>> \in R
  BY <1>1 DEF Leading
<1>4. D # {} /\ D \subseteq Nat
  BY <1>1, <1>2, <1>3
<1> HIDE DEF D
<1>5. PICK l \in D : \A k \in D : l <= k
  BY <1>4, LeastNatural
<1>6. PICK x \in R : l = far(x)
  BY <1>5 DEF D
<1>7. x \in seen /\ x[1] <= c[1] /\ x[2] <= c[2] /\ x # c
  BY <1>6
<1>8. CASE x \in ready
  BY <1>7, <1>8
<1>9. CASE x \notin ready
  <2>1. Neighbours(x) \cap P \subseteq seen
    BY <1>7, <1>9 DEF Leading
  <2>2. x[1] < c[1] \/ x[2] < c[2]
    BY <1>1, <1>2, <1>7
  <2>3. ASSUME NEW y \in Neighbours(x), y[1] <= c[1], y[2] <= c[2], y \in P,
               far(y) = far(x) - 1
        PROVE  FALSE
    <3>1. y \in R
      BY <2>1, <2>3
    <3>2. far(y) \in D
      BY <3>1 DEF D
    <3>3. far(x) \in Nat /\ far(x) <= far(x) - 1
      BY <1>4, <1>5, <1>6, <2>3, <3>2
    <3>4. QED
      BY <3>3
  <2>4. CASE x[1] < c[1]
    <3> DEFINE y == <<x[1] + 1, x[2]>>
    <3>1. y \in Neighbours(x)
      BY DEF Neighbours
    <3>2. /\ y[1] <= c[1] /\ y[2] <= c[2] /\ y \in P /\ far(y) = far(x) - 1
      BY <1>1, <1>2, <1>7, <2>4
    <3>3. QED
      BY <2>3, <3>1, <3>2
  <2>5. CASE x[2] < c[2]
    <3> DEFINE y == <<x[1], x[2] + 1>>
    <3>1. y \in Neighbours(x)
      BY DEF Neighbours
    <3>2. /\ y[1] <= c[1] /\ y[2] <= c[2] /\ y \in P /\ far(y) = far(x) - 1
      BY <1>1, <1>2, <1>7, <2>5
    <3>3. QED
      BY <2>3, <3>1, <3>2
  <2>6. QED
    BY <2>2, <2>4, <2>5
<1>10. QED
  BY <1>8, <1>9

LEMMA NoneLostFollows == IInv => NoCellLost
<1> SUFFICES ASSUME IInv, NEW e \in DOMAIN edges, edges[e].seen # {},
                    NEW c \in (DOMAIN edges[e].hypos) \X (DOMAIN edges[e].translations),
                    c \notin edges[e].seen
             PROVE  \E q \in queue : q.edge = e /\ q.cell[1] <= c[1] /\ q.cell[2] <= c[2]
  BY DEF NoCellLost
<1>1. Types /\ EdgesSound
  BY DEF IInv
<1>2. PICK seen, P : seen = edges[e].seen /\ P = Places(edges[e])
  OBVIOUS
<1>3. PICK m \in Nat : DOMAIN edges[e].hypos = 1 .. m
  <2>1. edges[e].hypos \in Seq(Nat)
    BY <1>1 DEF Types, Grids
  <2>2. QED
    BY <2>1
<1>4. PICK n \in Nat : DOMAIN edges[e].translations = 1 .. n
  <2>1. edges[e].translations \in Seq(Nat)
    BY <1>1 DEF Types, Grids
  <2>2. QED
    BY <2>1
<1>5. P = (1 .. m) \X (1 .. n) /\ c \in P
  BY <1>2, <1>3, <1>4 DEF Places
<1>6. /\ seen \subseteq P /\ <<1, 1>> \in seen
      /\ \A x \in seen : Queued(e, x) \/ Neighbours(x) \cap P \subseteq seen
  BY <1>1, <1>2 DEF EdgesSound, Explored
<1>7. \E x \in seen : Queued(e, x) /\ x[1] <= c[1] /\ x[2] <= c[2]
  <2>1. PICK ready : ready = {x \in seen : Queued(e, x)}
    OBVIOUS
  <2>2. Leading(P, seen, ready)
    BY <1>6, <2>1 DEF Leading
  <2>3. \E x \in seen : x \in ready /\ x[1] <= c[1] /\ x[2] <= c[2]
    BY <1>2, <1>5, <2>2, Leads
  <2>4. QED
    BY <2>1, <2>3
<1>8. QED
  BY <1>7 DEF Queued

\* Whatever cell of a grid has not been seen, an item in the queue can lead to
\* it, and no cell is tried twice (BackwardsEdge::PushSuccessors,
\* SeenPosition, InitializeEdges).
THEOREM Exploration == Spec => []GridsExplored
<1>1. IInv => GridsExplored
  BY NoneLostFollows DEF GridsExplored, IInv
<1>2. QED
  BY <1>1, Invariant, PTL

------------------------------------------------------------------------------
(****************************************************************************)
(* The promise of a decoder.                                                *)
(****************************************************************************)

\* The derivations of the promise are those of this module.
LEMMA SameSteps ==
  \A i, S : Promise!Steps(i, S) = Steps(i, S)
<1>1. \A s : Promise!Cardinality(s) = Cardinality(s)
  BY DEF Promise!Cardinality, Cardinality
<1>2. \A b : Promise!GetFirstGapPos(b) = GetFirstGapPos(b)
  BY DEF Promise!GetFirstGapPos, GetFirstGapPos,
         Promise!Gaps, Gaps,
         Promise!Positions, Positions,
         Promise!NOT_FOUND, NOT_FOUND
<1>3. \A r, s : Promise!ComputeDistortionDistance(r, s) = ComputeDistortionDistance(r, s)
  BY DEF Promise!ComputeDistortionDistance, ComputeDistortionDistance,
         Promise!Abs, Abs,
         Promise!NOT_FOUND, NOT_FOUND
<1>4. \A rc, b, r : Promise!PassesWalls(rc, b, r) <=> PassesWalls(rc, b, r)
  BY <1>2 DEF Promise!PassesWalls, PassesWalls
<1>5. \A b, r : Promise!IsMonotone(b, r) <=> IsMonotone(b, r)
  BY <1>2 DEF Promise!IsMonotone, IsMonotone,
         Promise!GetLastPos, GetLastPos,
         Promise!NOT_FOUND, NOT_FOUND
<1>6. \A b, z : Promise!InZone(b, z) = InZone(b, z)
  BY DEF Promise!InZone, InZone,
         Promise!SpanPositions, SpanPositions
<1>7. \A rc, b, z, r : Promise!PassesLocalWalls(rc, b, z, r) <=> PassesLocalWalls(rc, b, z, r)
  BY DEF Promise!PassesLocalWalls, PassesLocalWalls,
         Promise!GapBeforePhrase, GapBeforePhrase
<1>8. \A rc, b, z, r, d :
        Promise!PassesInsideZone(rc, b, z, r, d) <=> PassesInsideZone(rc, b, z, r, d)
  BY <1>1, <1>2, <1>6, <1>7 DEF Promise!PassesInsideZone, PassesInsideZone
<1>9. \A rc, b, z, r, d : Promise!PassesZone(rc, b, z, r, d) <=> PassesZone(rc, b, z, r, d)
  BY <1>2, <1>6, <1>8 DEF Promise!PassesZone, PassesZone,
         Promise!SpanPositions, SpanPositions
<1>10. \A rc, b, r, d : Promise!Check(rc, b, r, d) <=> Check(rc, b, r, d)
  BY <1>4, <1>5, <1>9 DEF Promise!Check, Check
<1>11. \A b, p, r, d : Promise!NormalDistortionOK(b, p, r, d) <=> NormalDistortionOK(b, p, r, d)
  BY <1>2, <1>3 DEF Promise!NormalDistortionOK, NormalDistortionOK,
         Promise!RequiredDistortion, RequiredDistortion,
         Promise!ToInt, ToInt,
         Promise!NOT_FOUND, NOT_FOUND
<1>12. \A rc, b, p, r, o, d :
         Promise!NormalMayExtend(rc, b, p, r, o, d) <=> NormalMayExtend(rc, b, p, r, o, d)
  BY <1>2, <1>10, <1>11 DEF Promise!NormalMayExtend, NormalMayExtend,
         Promise!Overlap, Overlap,
         Promise!SpanPositions, SpanPositions
<1>13. \A c, h, o : Promise!FitsConstraint(c, h, o) <=> FitsConstraint(c, h, o)
  BY DEF Promise!FitsConstraint, FitsConstraint
<1>14. \A i, h : Promise!MayFollow(i, h) = MayFollow(i, h)
  BY <1>12, <1>13 DEF Promise!MayFollow, MayFollow,
         Promise!OptionSpans, OptionSpans
<1>15. \A r, s : Promise!DistortionScore(r, s) = DistortionScore(r, s)
  BY <1>3 DEF Promise!DistortionScore, DistortionScore
<1>16. \A l, w, c : /\ Promise!LMScore(l, w, c) = LMScore(l, w, c)
                    /\ Promise!LMState(l, w, c) = LMState(l, w, c)
  BY DEF Promise!LMScore, LMScore,
         Promise!LMState, LMState
<1>17. \A b : Promise!IsComplete(b) <=> IsComplete(b)
  BY DEF Promise!IsComplete, IsComplete,
         Promise!Gaps, Gaps,
         Promise!Positions, Positions
<1>18. \A n, h, o : Promise!CreateNext(n, h, o) = CreateNext(n, h, o)
  BY DEF Promise!CreateNext, CreateNext,
         Promise!SpanPositions, SpanPositions,
         Promise!LMScore, LMScore,
         Promise!LMState, LMState,
         Promise!IsComplete, IsComplete,
         Promise!Gaps, Gaps,
         Promise!Positions, Positions,
         Promise!DistortionScore, DistortionScore,
         Promise!ComputeDistortionDistance, ComputeDistortionDistance,
         Promise!Abs, Abs,
         Promise!LexicalScore, LexicalScore,
         Promise!GetOrientationType, GetOrientationType,
         Promise!IsMonotoneStep, IsMonotoneStep,
         Promise!IsSwap, IsSwap,
         Promise!IsRight, IsRight,
         Promise!DecodeDirection, DecodeDirection,
         Promise!NoSpan, NoSpan,
         Promise!NOT_FOUND, NOT_FOUND
<1>19. QED
  BY <1>14, <1>18 DEF Promise!Steps, Steps,
         Promise!NoHypothesis, NoHypothesis

LEMMA SamePromise ==
  /\ \A i : Promise!AllDerivations(i) = AllDerivations(i)
  /\ \A i : Promise!CompleteDerivations(i) = CompleteDerivations(i)
  /\ \A rc : Promise!Consistent(rc) <=> Consistent(rc)
<1>1. Promise!Seed = Seed
  BY DEF Promise!Seed, Seed,
         Promise!NoHypothesis, NoHypothesis,
         Promise!NoLexScores, NoLexScores,
         Promise!Orientations, Orientations,
         Promise!NoSpan, NoSpan,
         Promise!NOT_FOUND, NOT_FOUND
<1>2. \A i : Promise!Derivations(i) = Derivations(i)
  BY SameSteps, <1>1 DEF Promise!Derivations, Derivations
<1>3. \A i : Promise!AllDerivations(i) = AllDerivations(i)
  BY <1>2 DEF Promise!AllDerivations, AllDerivations
<1>4. \A i : Promise!CompleteDerivations(i) = CompleteDerivations(i)
  BY <1>3 DEF Promise!CompleteDerivations, CompleteDerivations,
         Promise!IsComplete, IsComplete,
         Promise!Gaps, Gaps,
         Promise!Positions, Positions
<1>5. \A rc : Promise!Consistent(rc) <=> Consistent(rc)
  BY DEF Promise!Consistent, Consistent,
         Promise!ZonesNest, ZonesNest,
         Promise!LocalWallsApart, LocalWallsApart
<1>6. QED
  BY <1>3, <1>4, <1>5

\* The best of the last stack are complete, there is one if any is there, and
\* they have one score.
LEMMA BestAnswers ==
  ASSUME IInv
  PROVE  /\ \A x \in Answers : /\ x \in Ids /\ x \in stack[SourceSize].hypos
                               /\ Content(hypo[x]) \in CompleteDerivations(input)
         /\ stack[SourceSize].hypos # {} => Answers # {}
         /\ \A x, y \in Answers : Content(hypo[x]).total = Content(hypo[y]).total
<1> DEFINE stk == stack[SourceSize]
<1>1. SourceSize \in Stacks
  BY SourceSizeAssumption DEF Stacks
<1>2. stk.hypos \subseteq Came(SourceSize)
  BY <1>1, Apart DEF IInv
<1>3. CubeSound(hypo, conf, Came(SourceSize), stk)
  BY <1>1 DEF IInv, StacksSound, CubeHolds
<1>4. \A x \in Ids : /\ hypo[x] \in Hypotheses
                     /\ Content(hypo[x]) \in AllDerivations(input)
                     /\ Content(hypo[x]).bitmap = hypo[x].bitmap
                     /\ Content(hypo[x]).total = hypo[x].total
                     /\ hypo[x].total \in Int
  BY Facts, ContentIs DEF IInv, Hypotheses
<1>5. /\ Answers \subseteq stk.hypos
      /\ \A x \in Answers, y \in stk.hypos : hypo[x].total >= hypo[y].total
  BY DEF Answers, GetBestHypothesis
<1>6. ASSUME NEW x \in Answers
      PROVE  x \in Ids /\ Content(hypo[x]) \in CompleteDerivations(input)
  <2>1. x \in Ids /\ Cardinality(hypo[x].bitmap) = SourceSize
    BY <1>2, <1>5 DEF Came, Covered
  <2>2. hypo[x].bitmap \subseteq Positions
    BY <1>4, <2>1 DEF Hypotheses, Bitmaps
  <2>3. IsFiniteSet(Positions) /\ Cardinality(Positions) = SourceSize
    BY SourceSizeAssumption, FS_Interval DEF Positions
  <2>4. hypo[x].bitmap = Positions
    BY <2>1, <2>2, <2>3, FS_Subset
  <2>5. IsComplete(Content(hypo[x]).bitmap)
    BY <1>4, <2>1, <2>4 DEF IsComplete, Gaps
  <2>6. QED
    BY <1>4, <2>1, <2>5 DEF CompleteDerivations
<1>7. ASSUME stk.hypos # {} PROVE Answers # {}
  <2>1. PICK z \in stk.hypos : hypo[z].total = stk.best
    BY <1>2, <1>3, <1>7 DEF CubeSound, BestSeen
  <2>2. \A y \in stk.hypos : hypo[y].total <= stk.best
    BY <1>3 DEF CubeSound, BestSeen
  <2>3. \A y \in stk.hypos : hypo[y].total \in Int
    BY <1>2, <1>4 DEF Came
  <2>4. \A y \in stk.hypos : hypo[z].total >= hypo[y].total
    BY <2>1, <2>2, <2>3
  <2>5. QED
    BY <2>1, <2>4 DEF Answers, GetBestHypothesis
<1>8. ASSUME NEW x \in Answers, NEW y \in Answers
      PROVE  Content(hypo[x]).total = Content(hypo[y]).total
  <2>1. hypo[x].total >= hypo[y].total /\ hypo[y].total >= hypo[x].total
    BY <1>5
  <2>2. hypo[x].total \in Int /\ hypo[y].total \in Int
    BY <1>4, <1>6
  <2>3. hypo[x].total = hypo[y].total
    BY <2>1, <2>2
  <2>4. QED
    BY <1>4, <1>6, <2>3
<1>9. QED
  BY <1>5, <1>6, <1>7, <1>8

\* Cube pruning keeps the safety of what a decoder promises: it ends once,
\* with the best of the complete derivations it has, one of them at least, or
\* with parts of one when the time is up (SearchCubePruning::ProcessSentence
\* and GetBestHypothesis).
THEOREM ImplementsSafety == Spec => Promise!Safety
<1> DEFINE phase == IF Terminated THEN pc ELSE "searching"
           answers == IF Terminated THEN {Content(hypo[x]) : x \in Answers} ELSE {}
<1>1. Init => Promise!Init
  BY DEF Init, Promise!Init, Terminated
<1>2. ASSUME IInv, [Next]_vars
      PROVE  [Promise!Next]_<<input, phase, answers>>
  <2>1. CASE TimeOut
    <3>1. /\ UNCHANGED <<input, hypo, stack>> /\ pc = "stack" /\ pc' = "interrupted"
      BY <2>1 DEF TimeOut
    <3>2. phase = "searching" /\ phase' = "interrupted"
      BY <3>1 DEF Terminated
    <3>3. Answers' = Answers
      BY <3>1 DEF Answers, GetBestHypothesis
    <3>4. answers' = {Content(hypo[x]) : x \in Answers}
      BY <3>1, <3>3 DEF Terminated
    <3>5. \A x \in Answers : Content(hypo[x]) \in AllDerivations(input)
      BY <1>2, BestAnswers DEF CompleteDerivations
    <3>6. answers' \in SUBSET Promise!AllDerivations(input)
      BY <3>4, <3>5, SamePromise
    <3>7. Promise!Interrupt
      BY <3>1, <3>2, <3>6 DEF Promise!Interrupt
    <3>8. QED
      BY <3>7 DEF Promise!Next
  <2>2. CASE NextStack /\ ind = SourceSize
    <3>1. /\ UNCHANGED <<input, hypo, stack>> /\ pc = "todos" /\ pc' = "done"
      BY <2>2 DEF NextStack
    <3>2. phase = "searching" /\ phase' = "done"
      BY <3>1 DEF Terminated
    <3>3. Answers' = Answers
      BY <3>1 DEF Answers, GetBestHypothesis
    <3>4. answers' = {Content(hypo[x]) : x \in Answers}
      BY <3>1, <3>3 DEF Terminated
    <3>5. /\ \A x \in Answers : Content(hypo[x]) \in CompleteDerivations(input)
          /\ stack[SourceSize].hypos # {} => Answers # {}
          /\ \A x, y \in Answers : Content(hypo[x]).total = Content(hypo[y]).total
      BY <1>2, BestAnswers
    <3>6. answers' \in SUBSET Promise!CompleteDerivations(input)
      BY <3>4, <3>5, SamePromise
    <3>7. input.constraint = <<>> /\ Promise!Consistent(input.rc) => answers' # {}
      <4>1. SUFFICES ASSUME Consistent(input.rc)
                     PROVE  answers' # {}
        BY SamePromise
      <4>2. SourceSize \in Stacks /\ Closed(SourceSize)
        BY <2>2, <3>1, SourceSizeAssumption DEF Stacks, Closed
      <4>3. stack[SourceSize].hypos # {}
        BY <1>2, <4>1, <4>2 DEF IInv, Onward
      <4>4. QED
        BY <3>4, <3>5, <4>3
    <3>8. \A g, h \in answers' : g.total = h.total
      BY <3>4, <3>5
    <3>9. Promise!Finish
      BY <3>1, <3>2, <3>6, <3>7, <3>8 DEF Promise!Finish
    <3>10. QED
      BY <3>9 DEF Promise!Next
  <2>3. CASE \/ CreateForwardTodos \/ StartStack \/ InitializeEdges \/ StartPops \/ PopBest
             \/ EnsureMinStackHyps \/ CloseStack \/ (NextStack /\ ind # SourceSize)
    <3>1. /\ input' = input /\ pc \notin {"done", "interrupted"}
          /\ pc' \notin {"done", "interrupted"}
      BY <2>3 DEF CreateForwardTodos, StartStack, InitializeEdges, StartPops, PopBest,
                  EnsureMinStackHyps, CloseStack, NextStack
    <3>2. UNCHANGED <<input, phase, answers>>
      BY <3>1 DEF Terminated
    <3>3. QED
      BY <3>2
  <2>4. CASE UNCHANGED vars
    <3>1. UNCHANGED <<input, hypo, stack, pc>>
      BY <2>4 DEF vars
    <3>2. Answers' = Answers /\ (Terminated' <=> Terminated)
      BY <3>1 DEF Answers, GetBestHypothesis, Terminated
    <3>3. phase' = phase
      BY <3>1, <3>2
    <3>4. answers' = answers
      BY <3>1, <3>2
    <3>5. QED
      BY <3>1, <3>3, <3>4
  <2>5. QED
    BY <1>2, <2>1, <2>2, <2>3, <2>4 DEF Next
<1>3. QED
  BY <1>1, <1>2, Invariant, PTL DEF Spec, Promise!Safety

------------------------------------------------------------------------------
(****************************************************************************)
(* Exactness: without pruning, every derivation has a hypothesis on the     *)
(* stacks that recombines with it and is as good.                           *)
(****************************************************************************)

\* Without pruning no item is left behind when a stack is closed.
Drained ==
  Exhaustive => \A q \in queue : Cardinality(Target(q.edge)) = ind /\ pc \in {"edges", "pop"}

\* What is made later leaves less room.
LEMMA GrownExhaustive ==
  ASSUME IInv, NEW places, NEW gone, NEW a, Grow(places, gone, a), Exhaustive'
  PROVE  Exhaustive
<1>1. /\ Ids \subseteq Ids' /\ \A h \in Ids : hypo'[h] = hypo[h]
      /\ Ids = 1 .. Len(hypo) /\ Ids' = 1 .. NewId(Len(places))
      /\ Len(hypo) \in Nat /\ NewId(Len(places)) \in Nat
  <2>1. Grown(places, gone, a)
    BY Grows
  <2>2. Len(places) \in Nat
    BY DEF Grow, MayGrow
  <2>3. QED
    BY <2>1, <2>2 DEF Grown, NewId
<1>2. conf' = conf /\ IsCubeConf(conf)
  BY Facts DEF Grow, IInv
<1>3. /\ Cardinality(Ids) \in Nat /\ Cardinality(Ids') \in Nat
      /\ Cardinality(Ids) <= Cardinality(Ids')
  <2>1. PICK I, J : I = Ids /\ J = Ids' /\ I \subseteq J
    BY <1>1
  <2>2. IsFiniteSet(J)
    BY <1>1, <2>1, FS_Interval
  <2>3. IsFiniteSet(I) /\ Cardinality(I) <= Cardinality(J)
    BY <2>1, <2>2, FS_Subset
  <2>4. Cardinality(I) \in Nat /\ Cardinality(J) \in Nat
    BY <2>2, <2>3, FS_CardinalityType
  <2>5. QED
    BY <2>1, <2>3, <2>4
<1>4. conf.stackSize \in Nat /\ conf.popLimit \in Nat
  BY ConfAssumption DEF IInv, Types
<1>5. Cardinality(Ids) < conf.stackSize /\ Cardinality(Ids) < conf.popLimit
  BY <1>2, <1>3, <1>4 DEF Exhaustive
<1>6. \A g, h \in Ids : hypo[h].total > hypo[g].total + conf.beamWidth
  BY <1>1, <1>2 DEF Exhaustive
<1>7. QED
  BY <1>5, <1>6 DEF Exhaustive

LEMMA ProcessDrained ==
  ASSUME IInv, Drained, pc = "pop", NEW q \in queue, Cardinality(Target(q.edge)) = ind,
         ProcessBestHypothesis(q), UNCHANGED <<input, conf, pc, ind, todos>>
  PROVE  Drained'
<1>1. PICK places : places = Successors(q.edge, q.cell)
  OBVIOUS
<1>2. PICK out : out = CubeAddPrune(hypo, conf, stack[ind], arcs, q.hypo)
  OBVIOUS
<1>3. Grow(places, {q}, out.arcs)
  BY <1>1, <1>2, ProcessGrows
<1>4. Grown(places, {q}, out.arcs)
  BY <1>3, Grows
<1>5. \A n \in DOMAIN places : places[n][1] = q.edge
  BY <1>1 DEF Successors, IfNew
<1>6. ASSUME Exhaustive', NEW p \in queue'
      PROVE  Cardinality(Target(p.edge)) = ind
  <2>1. Exhaustive
    BY <1>3, <1>6, GrownExhaustive
  <2>2. CASE p \in queue
    BY <2>1, <2>2 DEF Drained
  <2>3. CASE \E n \in DOMAIN places : p = Item(places, n)
    BY <1>5, <2>3 DEF Item
  <2>4. QED
    BY <1>4, <1>6, <2>2, <2>3 DEF Grown
<1>7. QED
  BY <1>6 DEF Drained, Target

LEMMA StepDrained ==
  ASSUME IInv, Drained, [Next]_vars
  PROVE  Drained'
<1>1. /\ Types /\ Derived /\ StacksSound /\ EdgesSound /\ QueueSound /\ Begun
  BY DEF IInv
<1>2. CASE CreateForwardTodos \/ NextStack \/ TimeOut \/ StartStack \/ StartPops \/ UNCHANGED vars
  <2>1. UNCHANGED <<conf, hypo, queue>>
    BY <1>2 DEF CreateForwardTodos, NextStack, TimeOut, StartStack, StartPops, vars
  <2>2. \/ pc \in {"todos", "stack"}
        \/ pc = "edges" /\ pc' = "pop" /\ ind' = ind
        \/ pc' = pc /\ ind' = ind
    BY <1>2 DEF CreateForwardTodos, NextStack, TimeOut, StartStack, StartPops, vars
  <2>3. Exhaustive' <=> Exhaustive
    BY <2>1 DEF Exhaustive, Ids
  <2>4. QED
    BY <2>1, <2>2, <2>3 DEF Drained, Target
<1>3. CASE InitializeEdges
  <2>1. PICK e \in Uninitialized : Enqueue(<<<<e, <<1, 1>>>>>>, {}, arcs)
    BY <1>3 DEF InitializeEdges
  <2>2. PICK places : places = <<<<e, <<1, 1>>>>>>
    OBVIOUS
  <2>3. Grow(places, {}, arcs) /\ pc = "edges" /\ pc' = pc /\ ind' = ind
    BY <1>3, <2>1, <2>2, FirstGrows
  <2>4. Grown(places, {}, arcs)
    BY <2>3, Grows
  <2>5. Cardinality(Target(e)) = ind /\ DOMAIN places = {1} /\ places[1][1] = e
    BY <2>1, <2>2 DEF Uninitialized
  <2>6. ASSUME Exhaustive', NEW p \in queue'
        PROVE  Cardinality(Target(p.edge)) = ind
    <3>1. Exhaustive
      BY <2>3, <2>6, GrownExhaustive
    <3>2. CASE p \in queue
      BY <3>1, <3>2 DEF Drained
    <3>3. CASE \E n \in DOMAIN places : p = Item(places, n)
      BY <2>5, <3>3 DEF Item
    <3>4. QED
      BY <2>4, <2>6, <3>2, <3>3 DEF Grown
  <2>7. QED
    BY <2>3, <2>6 DEF Drained, Target
<1>4. CASE PopBest
  <2>1. PICK q \in Top(Waiting) : ProcessBestHypothesis(q)
    BY <1>4 DEF PopBest
  <2>2. q \in queue /\ Cardinality(Target(q.edge)) = ind
    BY DEF Top, Waiting
  <2>3. pc = "pop" /\ UNCHANGED <<input, conf, pc, ind, todos>>
    BY <1>4 DEF PopBest
  <2>4. QED
    BY <2>1, <2>2, <2>3, ProcessDrained
<1>5. CASE EnsureMinStackHyps
  <2>1. PICK b \in Starved : \E q \in Top(WaitingFor(b)) : ProcessBestHypothesis(q)
    BY <1>5 DEF EnsureMinStackHyps
  <2>2. PICK q \in Top(WaitingFor(b)) : ProcessBestHypothesis(q)
    BY <2>1
  <2>3. q \in queue /\ Cardinality(Target(q.edge)) = ind
    BY DEF Top, WaitingFor, Starved, Waiting
  <2>4. pc = "pop" /\ UNCHANGED <<input, conf, pc, ind, todos>>
    BY <1>5 DEF EnsureMinStackHyps
  <2>5. QED
    BY <2>2, <2>3, <2>4, ProcessDrained
<1>6. CASE CloseStack
  <2>1. UNCHANGED <<conf, hypo, queue>> /\ pc = "pop" /\ PopsDone
    BY <1>6 DEF CloseStack
  <2>2. Exhaustive' <=> Exhaustive
    BY <2>1 DEF Exhaustive, Ids
  <2>3. ASSUME Exhaustive PROVE queue = {}
    <3>1. pops <= Cardinality(Came(ind)) /\ pops \in Int
      BY <1>1, <2>1 DEF Begun, Types
    <3>2. /\ Cardinality(Came(ind)) \in Nat /\ Cardinality(Ids) \in Nat
          /\ Cardinality(Came(ind)) <= Cardinality(Ids)
      BY <1>1, Facts, FS_Subset, FS_CardinalityType
    <3>3. conf.popLimit \in Nat
      BY <1>1, ConfAssumption DEF Types
    <3>4. pops # conf.popLimit
      BY <2>3, <3>1, <3>2, <3>3 DEF Exhaustive
    <3>5. Waiting = {}
      BY <2>1, <3>4 DEF PopsDone
    <3>6. QED
      BY <2>3, <3>5 DEF Drained, Waiting
  <2>4. QED
    BY <2>1, <2>2, <2>3 DEF Drained
<1>7. QED
  BY <1>2, <1>3, <1>4, <1>5, <1>6 DEF Next

LEMMA Drains == Spec => [](IInv /\ Drained)
<1>1. Init => IInv /\ Drained
  BY InitIInv DEF Init, Drained
<1>2. (IInv /\ Drained) /\ [Next]_vars => (IInv /\ Drained)'
  BY StepIInv, StepDrained
<1>3. QED
  BY <1>1, <1>2, PTL DEF Spec

\* There are at most as many keys as hypotheses.
LEMMA KeysAtMost ==
  ASSUME NEW H, NEW I, IsFiniteSet(I)
  PROVE  /\ Cardinality(AllKeys(H, I)) \in Nat
         /\ Cardinality(AllKeys(H, I)) <= Cardinality(I)
<1> DEFINE f == [x \in I |-> RecombineKey(H[x])]
<1>1. f \in Surjection(I, AllKeys(H, I))
  BY DEF Surjection, AllKeys
<1>2. QED
  BY <1>1, FS_Surjection, FS_CardinalityType

\* Nothing is pruned: each hypothesis has an equal or better twin.
LEMMA TwinStays ==
  ASSUME IInv, Drained, Exhaustive, pc = "done", NEW h \in Ids
  PROVE  \E y \in stack[Covered(h)].hypos :
           /\ y \in Ids
           /\ RecombineKey(hypo[y]) = RecombineKey(hypo[h])
           /\ hypo[y].total >= hypo[h].total
<1> DEFINE k == Covered(h)
           stk == stack[k]
           asGood == AtLeast(hypo, stk.hypos, hypo[h].total)
<1>1. /\ k \in Stacks /\ IsFiniteSet(Ids) /\ IsCubeConf(conf)
      /\ \A x \in Ids : hypo[x].total \in Int
      /\ IsFiniteSet(Came(k)) /\ Came(k) \subseteq Ids
  BY Facts DEF IInv, AreHypotheses, Hypotheses
<1>2. stk.hypos \subseteq Ids
  BY <1>1, Apart DEF IInv, Came
<1>3. queue = {} /\ h \in Came(k)
  BY DEF Drained, Came, Waits
<1>4. CubeSound(hypo, conf, Came(k), stk)
  BY <1>1 DEF IInv, StacksSound, CubeHolds
<1>5. conf.stackSize \in Nat /\ Cardinality(Ids) < conf.stackSize /\ Cardinality(Ids) \in Nat
  BY <1>1, FS_CardinalityType, ConfAssumption DEF Exhaustive, IInv, Types
<1>6. ~(Cardinality(asGood) >= conf.stackSize)
  <2>1. asGood \subseteq Ids
    BY <1>2 DEF AtLeast
  <2>2. Cardinality(asGood) \in Nat /\ Cardinality(asGood) <= Cardinality(Ids)
    BY <1>1, <2>1, FS_Subset, FS_CardinalityType
  <2>3. QED
    BY <1>5, <2>2
<1>7. ~(hypo[h].total <= stk.best + conf.beamWidth)
  <2>1. PICK x \in stk.hypos : hypo[x].total = stk.best
    BY <1>3, <1>4 DEF CubeSound, BestSeen
  <2>2. hypo[h].total > stk.best + conf.beamWidth
    BY <1>2, <2>1 DEF Exhaustive
  <2>3. hypo[h].total \in Int /\ stk.best \in Int /\ conf.beamWidth \in Int
    BY <1>1, <1>2, <2>1, ConfAssumption DEF IInv, Types
  <2>4. QED
    BY <2>2, <2>3
<1>8. ~(Cardinality(AllKeys(hypo, Came(k))) >= 2 * conf.stackSize)
  <2>1. /\ Cardinality(AllKeys(hypo, Came(k))) \in Nat
        /\ Cardinality(AllKeys(hypo, Came(k))) <= Cardinality(Came(k))
    BY <1>1, KeysAtMost
  <2>2. Cardinality(Came(k)) <= Cardinality(Ids) /\ Cardinality(Came(k)) \in Nat
    BY <1>1, FS_Subset, FS_CardinalityType
  <2>3. QED
    BY <1>5, <2>1, <2>2
<1>9. \E y \in stk.hypos : /\ RecombineKey(hypo[y]) = RecombineKey(hypo[h])
                           /\ hypo[y].total >= hypo[h].total
  BY <1>3, <1>4, <1>6, <1>7, <1>8 DEF CubeSound, CubeJustified, CubeMayGo
<1>10. QED
  BY <1>2, <1>9

\* A hypothesis on the stacks recombines with the derivation d and is as good.
Found(d) ==
  \E x \in Ids : /\ x \in stack[Covered(x)].hypos
                 /\ RecombineKey(hypo[x]) = RecombineKey(d)
                 /\ hypo[x].score >= d.score
                 /\ hypo[x].total >= d.total

\* The seed is never lost.
LEMMA SeedFound ==
  ASSUME IInv, Drained, Exhaustive, pc = "done"
  PROVE  Seed \in Hypotheses /\ Found(Seed)
<1>1. 1 \in Ids /\ hypo[1] = Seed
  BY Facts DEF IInv, Types, Derived
<1>2. PICK y \in stack[Covered(1)].hypos :
        y \in Ids /\ RecombineKey(hypo[y]) = RecombineKey(Seed)
  BY <1>1, TwinStays
<1>3. hypo[y].bitmap = Seed.bitmap /\ Cardinality(Seed.bitmap) = 0
  BY <1>2, KeyTells, SeedTyped
<1>4. PICK n \in 0 .. Cardinality(hypo[y].bitmap) : Content(hypo[y]) \in Derivations(input)[n]
  BY <1>2 DEF IInv, Derived, EndsDerivation
<1>5. n = 0
  BY <1>3, <1>4
<1>6. Content(hypo[y]) = Seed
  BY <1>4, <1>5, DerivationsAre
<1>7. hypo[y].score = 0 /\ hypo[y].total = 0
  <2>1. hypo[y] \in Hypotheses
    BY <1>2, Facts DEF IInv
  <2>2. QED
    BY <1>6, <2>1, ContentIs DEF Seed
<1>8. Covered(y) = Covered(1)
  BY <1>1, <1>3 DEF Covered
<1>9. Seed.score = 0 /\ Seed.total = 0
  BY DEF Seed
<1>10. Found(Seed)
  BY <1>2, <1>7, <1>8, <1>9 DEF Found
<1>11. QED
  BY <1>10, SeedTyped

\* When the queues are drained, whatever may follow a hypothesis has been tried.
LEMMA AllTried ==
  ASSUME IInv, queue = {}, pc = "done", NEW x \in Ids, x \in stack[Covered(x)].hypos,
         NEW j \in MayFollow(input, hypo[x])
  PROVE  \E h \in Ids : hypo[h] = CreateNext(x, hypo[x], input.options[j])
<1>1. /\ Types /\ Derived /\ StacksSound /\ EdgesSound /\ EdgesComplete /\ Origins /\ Begun
      /\ NoCellLost
  BY NoneLostFollows DEF IInv
<1>2. PICK k \in Stacks : k = Covered(x)
  BY <1>1, Facts
<1>3. Closed(k) /\ todos = {} /\ ind = SourceSize
  BY <1>1, <1>2, SourceSizeAssumption DEF Closed, Types, Stacks, EdgesComplete
<1>4. PICK e \in DOMAIN edges :
        \E c \in Places(edges[e]) : Row(e, c) = x /\ Column(e, c) = j
  BY <1>2, <1>3, HasCell
<1>5. PICK c \in Places(edges[e]) : Row(e, c) = x /\ Column(e, c) = j
  BY <1>4
<1>6. edges[e].seen # {}
  <2>1. Cardinality(Target(e)) \in Stacks
    BY <1>1, TargetLater DEF EdgesSound
  <2>2. Filled(Cardinality(Target(e)))
    BY <1>3, <2>1, SourceSizeAssumption DEF Filled, Stacks
  <2>3. QED
    BY <1>1, <1>5, <2>2 DEF Begun
<1>7. c \in edges[e].seen
  BY <1>1, <1>5, <1>6 DEF NoCellLost, Places
<1>8. PICK h \in Ids : hypo[h] = CreateHypothesis(e, c)
  BY <1>1, <1>7 DEF Origins
<1>9. CreateHypothesis(e, c) = CreateNext(x, hypo[x], input.options[j])
  <2>1. PICK g, m : g = Row(e, c) /\ m = Column(e, c)
    OBVIOUS
  <2>2. CreateHypothesis(e, c) = CreateNext(g, hypo[g], input.options[m])
    BY <1>1, <1>5, <2>1, CellIs
  <2>3. QED
    BY <1>5, <2>1, <2>2
<1>10. QED
  BY <1>8, <1>9

\* What a step adds to a derivation that is found is found.
LEMMA NextFound ==
  ASSUME IInv, Drained, Exhaustive, pc = "done", ReorderingComparable,
         NEW p \in Hypotheses, Found(p), NEW j \in MayFollow(input, p),
         NEW d, d = CreateNext(NoHypothesis, p, input.options[j])
  PROVE  d \in Hypotheses /\ Found(d)
<1> DEFINE opt == input.options[j]
<1>1. Types /\ Derived
  BY DEF IInv
<1>2. opt \in TranslationOptions
  <2>1. input.options \in Seq(TranslationOptions) /\ j \in 1 .. Len(input.options)
    BY <1>1, InputAssumption DEF Types, MayFollow
  <2>2. QED
    BY <2>1
<1>3. PICK x \in Ids : /\ x \in stack[Covered(x)].hypos
                       /\ RecombineKey(hypo[x]) = RecombineKey(p)
                       /\ hypo[x].score >= p.score
  BY DEF Found
<1>4. hypo[x] \in Hypotheses /\ Covered(x) \in Stacks /\ x \in Nat /\ NoHypothesis \in Nat
  BY <1>1, Facts DEF NoHypothesis
<1>5. PICK b : b = CreateNext(x, hypo[x], opt)
  OBVIOUS
<1>6. /\ j \in MayFollow(input, hypo[x])
      /\ RecombineKey(d) = RecombineKey(b)
      /\ d.score - p.score = b.score - hypo[x].score
      /\ d.total - p.score = b.total - hypo[x].score
  <2>1. input \in Inputs /\ input.constraint = <<>>
    BY <1>1, ConstraintAssumption DEF Types
  <2>2. QED
    BY <1>2, <1>3, <1>4, <1>5, <2>1, RecombinationSafe
<1>7. /\ d \in Hypotheses /\ b \in Hypotheses
      /\ b.total = b.score + FutureScore(b.bitmap)
      /\ b.bitmap = hypo[x].bitmap \cup SpanPositions(opt.span)
  BY <1>2, <1>4, <1>5, CreateNextTyped
<1>8. PICK h \in Ids : hypo[h] = b
  <2>1. queue = {}
    BY DEF Drained
  <2>2. QED
    BY <1>3, <1>5, <1>6, <2>1, AllTried
<1>9. PICK y \in stack[Covered(h)].hypos :
        /\ y \in Ids /\ RecombineKey(hypo[y]) = RecombineKey(b)
        /\ hypo[y].total >= b.total
  BY <1>8, TwinStays
<1>10. hypo[y] \in Hypotheses /\ hypo[y].bitmap = b.bitmap /\ Covered(y) = Covered(h)
  BY <1>1, <1>8, <1>9, Facts, KeyTells DEF Covered
<1>11. b.bitmap # {}
  <2>1. opt.span \in PhraseSpans
    BY <1>2 DEF TranslationOptions
  <2>2. opt.span[1] \in SpanPositions(opt.span)
    BY <2>1, SourceSizeAssumption DEF PhraseSpans, Spans, Positions, SpanPositions
  <2>3. QED
    BY <1>7, <2>2
<1>12. y # 1
  BY <1>1, <1>10, <1>11 DEF Derived, Seed
<1>13. hypo[y].total = hypo[y].score + FutureScore(b.bitmap)
  BY <1>1, <1>9, <1>10, <1>12 DEF Derived, EndsDerivation
<1>14. /\ hypo[y].score \in Int /\ hypo[y].total \in Int /\ b.score \in Int /\ b.total \in Int
       /\ d.score \in Int /\ d.total \in Int /\ p.score \in Int /\ hypo[x].score \in Int
       /\ FutureScore(b.bitmap) \in Int
  BY <1>4, <1>7, <1>10, ScoreAssumption DEF Hypotheses
<1>15. hypo[y].score >= d.score /\ hypo[y].total >= d.total
  BY ONLY <1>3, <1>6, <1>7, <1>9, <1>13, <1>14
<1>16. RecombineKey(hypo[y]) = RecombineKey(d)
  BY <1>6, <1>9
<1>17. QED
  BY <1>7, <1>9, <1>10, <1>15, <1>16 DEF Found

\* Every derivation is found.
LEMMA AllFound ==
  ASSUME IInv, Drained, Exhaustive, pc = "done", ReorderingComparable,
         NEW n \in 0 .. SourceSize, NEW d \in Derivations(input)[n]
  PROVE  d \in Hypotheses /\ Found(d)
<1> DEFINE Good(m) == \A f \in Derivations(input)[m] : f \in Hypotheses /\ Found(f)
           Bad == {m \in 0 .. SourceSize : ~Good(m)}
<1>1. SUFFICES ASSUME Bad # {} PROVE FALSE
  OBVIOUS
<1>2. PICK m \in Bad : \A l \in Bad : m <= l
  <2>1. Bad \subseteq Nat
    BY SourceSizeAssumption
  <2> HIDE DEF Bad
  <2>2. QED
    BY <1>1, <2>1, LeastNatural
<1>3. CASE m = 0
  BY <1>2, <1>3, DerivationsAre, SeedFound
<1>4. CASE m # 0
  <2>1. m - 1 \in 0 .. SourceSize - 1 /\ m - 1 \in 0 .. SourceSize /\ ~(m <= m - 1)
        /\ (m - 1) + 1 = m
    BY <1>2, <1>4, SourceSizeAssumption
  <2>2. Good(m - 1)
    BY <1>2, <2>1
  <2>3. Derivations(input)[m] = Steps(input, Derivations(input)[m - 1])
    BY <2>1, DerivationsAre
  <2>4. ASSUME NEW f \in Derivations(input)[m]
        PROVE  f \in Hypotheses /\ Found(f)
    <3>1. PICK p \in Derivations(input)[m - 1] :
            \E j \in MayFollow(input, p) :
              f = CreateNext(NoHypothesis, p, input.options[j])
      BY <2>3, <2>4 DEF Steps
    <3>2. PICK j \in MayFollow(input, p) :
            f = CreateNext(NoHypothesis, p, input.options[j])
      BY <3>1
    <3>3. p \in Hypotheses /\ Found(p)
      BY <2>2
    <3>4. QED
      BY <3>2, <3>3, NextFound
  <2>5. QED
    BY <1>2, <2>4
<1>5. QED
  BY <1>3, <1>4

LEMMA ExactFollows == IInv /\ Drained => ExactWithoutPruning
<1> SUFFICES ASSUME IInv, Drained, Exhaustive, pc = "done", ReorderingComparable,
                    NEW x \in Answers
             PROVE  hypo[x].total = Max({h.total : h \in CompleteDerivations(input)})
  BY DEF ExactWithoutPruning
<1> DEFINE totals == {h.total : h \in CompleteDerivations(input)}
           stk == stack[SourceSize]
<1>1. x \in GetBestHypothesis(hypo, stk)
  BY DEF Answers
<1>2. x \in Ids /\ Content(hypo[x]) \in CompleteDerivations(input)
  BY BestAnswers
<1>3. hypo[x] \in Hypotheses /\ hypo[x].total \in Int /\ hypo[x].total \in totals
  <2>1. hypo[x] \in Hypotheses
    BY <1>2, Facts DEF IInv
  <2>2. Content(hypo[x]).total = hypo[x].total
    BY <2>1, ContentIs
  <2>3. QED
    BY <1>2, <2>1, <2>2 DEF Hypotheses
<1>4. \A y \in stk.hypos : hypo[x].total >= hypo[y].total
  BY <1>1 DEF GetBestHypothesis
<1>5. ASSUME NEW d \in CompleteDerivations(input)
      PROVE  d.total \in Int /\ hypo[x].total >= d.total
  <2>1. PICK n \in 0 .. SourceSize : d \in Derivations(input)[n]
    BY DEF CompleteDerivations, AllDerivations
  <2>2. d \in Hypotheses /\ Found(d)
    BY <2>1, AllFound
  <2>3. PICK y \in Ids : /\ y \in stack[Covered(y)].hypos
                         /\ RecombineKey(hypo[y]) = RecombineKey(d)
                         /\ hypo[y].total >= d.total
    BY <2>2 DEF Found
  <2>4. hypo[y].bitmap = d.bitmap /\ d.bitmap \subseteq Positions /\ IsComplete(d.bitmap)
    BY <2>2, <2>3, KeyTells DEF Hypotheses, Bitmaps, CompleteDerivations
  <2>5. hypo[y].bitmap = Positions
    BY <2>4 DEF IsComplete, Gaps
  <2>6. Covered(y) = SourceSize
    BY <2>5, SourceSizeAssumption, FS_Interval DEF Covered, Positions
  <2>7. hypo[x].total >= hypo[y].total /\ hypo[y] \in Hypotheses
    BY <1>4, <2>3, <2>6, Facts DEF IInv
  <2>8. hypo[y].total \in Int /\ d.total \in Int
    BY <2>2, <2>7 DEF Hypotheses
  <2>9. QED
    BY <1>3, <2>3, <2>7, <2>8
<1>6. \A t \in totals : t \in Int /\ hypo[x].total >= t
  BY <1>5
<1> HIDE DEF totals
<1>7. Max(totals) \in totals /\ \A t \in totals : Max(totals) >= t
  <2>1. Max(totals) = CHOOSE t \in totals : \A u \in totals : t >= u
    BY DEF Max
  <2>2. QED
    BY <1>3, <1>6, <2>1
<1>8. hypo[x].total = Max(totals)
  BY <1>3, <1>6, <1>7
<1>9. QED
  BY <1>8 DEF totals

\* Without pruning and with pops enough, cube pruning finds the best of all
\* derivations of stack decoding: the grids hold all their extensions, and the
\* queues are drained (SearchCubePruning::ProcessSentence, BackwardsEdge,
\* Hypothesis::RecombineCompare).
THEOREM Exactness == Spec => []ExactWithoutPruning
<1>1. IInv /\ Drained => ExactWithoutPruning
  BY ExactFollows
<1>2. QED
  BY <1>1, Drains, PTL
================================================================================
