--------------------------- MODULE SearchCubePruning ---------------------------
(****************************************************************************)
(* Cube pruning of one sentence (SearchCubePruning, BitmapContainer and     *)
(* BackwardsEdge).                                                          *)
(*                                                                          *)
(* When a stack is finished, every bitmap in it and every span that may     *)
(* follow give an edge: a grid of the hypotheses with that bitmap and the   *)
(* translations of the span.  An edge leads to the container of the bitmap  *)
(* they make together, in a later stack.  When that stack comes up, the     *)
(* first cell of each grid is put into the queue of its container; the best *)
(* item of all containers is moved to the stack and its neighbours in the   *)
(* grid are queued instead, until the pop limit is reached.                 *)
(*                                                                          *)
(* conf holds [stackSize, beamWidth, nBest, nBestSize, distinct, timeLimit, *)
(* popLimit, minPerCoverage], the last -cube-pruning-diversity.  Grids      *)
(* count from 1.                                                            *)
(****************************************************************************)
EXTENDS HypothesisStackCubePruning

CONSTANT Confs(_)   \* the settings a sentence is decoded with

ASSUME ConfAssumption ==
  \A i \in Inputs : \A c \in Confs(i) :
    /\ c.stackSize \in Nat \ {0} /\ c.popLimit \in Nat \ {0}
    /\ c.minPerCoverage \in Nat
    /\ c.beamWidth \in Int /\ c.beamWidth < 0
    /\ c.nBest => c.distinct \/ c.nBestSize > 0

\* TranslationOptionCollection::Sort: the options of a span come best first.
ASSUME SortAssumption ==
  \A i \in Inputs : \A j, k \in 1 .. Len(i.options) :
    j < k /\ i.options[j].span = i.options[k].span
      => i.options[j].score >= i.options[k].score

\* CreateHypothesis passes no constraint.
ASSUME ConstraintAssumption == \A i \in Inputs : i.constraint = <<>>

Unset == -1   \* a pointer nobody has assigned

VARIABLES
  input,      \* m_source, m_transOptColl, the distortion limit
  conf,       \* StaticData
  hypo,       \* every hypothesis ever made, in the order of their ids
  stack,      \* m_hypoStackColl
  arcs,       \* Hypothesis::m_arcList, as sets of ids
  winning,    \* Hypothesis::m_winningHypo
  deleted,    \* the hypotheses that were deleted
  pc,         \* where ProcessSentence is
  ind,        \* the stack being visited
  todos,      \* the bitmaps CreateForwardTodos has not come to yet
  edges,      \* the edges by <<bitmap, span>>: [hypos, translations, seen]
  queue,      \* the items of all containers: [hypo, edge, cell]
  inserted,   \* m_numStackInsertions by bitmap
  pops        \* numpops - 1

vars == <<input, conf, hypo, stack, arcs, winning, deleted,
          pc, ind, todos, edges, queue, inserted, pops>>

Stacks     == 0 .. SourceSize
Ids        == DOMAIN hypo
Covered(h) == Cardinality(hypo[h].bitmap)
Target(e)  == e[1] \cup SpanPositions(e[2])   \* the bitmap of m_parent

\* The elements of S as a sequence, in the order of the strict total order R.
InOrder(S, R) ==
  [n \in 1 .. Cardinality(S) |->
     CHOOSE x \in S : Cardinality({y \in S : <<y, x>> \in R}) = n - 1]

\* The translation option list of a span, as indices of the options.
OptionsOf(r) == {j \in DOMAIN input.options : input.options[j].span = r}
Translations(r) == InOrder(OptionsOf(r), {p \in OptionsOf(r) \X OptionsOf(r) : p[1] < p[2]})

------------------------------------------------------------------------------
(****************************************************************************)
(* Edges and grids.                                                         *)
(****************************************************************************)

\* The spans CreateForwardTodos makes edges for.
ForwardSpans(b) ==
  {r \in PhraseSpans : /\ ~Overlap(b, r)
                       /\ CheckDistortion(input.rc, b, r, input.maxDistortion)
                       /\ OptionsOf(r) # {}}

\* The orders in which the hypotheses S may lie in memory.
Addresses(S) ==
  {address \in [S -> 1 .. Cardinality(S)] :
     \A g, h \in S : address[g] = address[h] => g = h}

\* The hypotheses S of an edge, in the order of its grid: best first, with the
\* cost of the jump unless there is no limit, and equals by address.
GridHypotheses(S, r, address) ==
  LET Key(h) == IF input.maxDistortion # -1
                THEN hypo[h].score + DistortionScore(hypo[h].range, r)
                ELSE hypo[h].total
  IN  InOrder(S, {p \in S \X S : \/ Key(p[1]) > Key(p[2])
                                \/ /\ Key(p[1]) = Key(p[2])
                                   /\ address[p[1]] < address[p[2]]})

\* The edges from the hypotheses S of the bitmap b.
ForwardEdges(b, S, address) ==
  [e \in {b} \X ForwardSpans(b) |->
     [hypos |-> GridHypotheses({h \in S : EdgeTakes(b, hypo[h].range, e[2],
                                                     input.maxDistortion)}, e[2], address),
      translations |-> Translations(e[2]),
      seen  |-> {}]]

\* The order of the edges: that of their bitmaps, then that of their spans.
EdgeBefore(e, f) ==
  \/ CoverageBefore(e[1], f[1])
  \/ e[1] = f[1] /\ e[2][1] < f[2][1]
  \/ e[1] = f[1] /\ e[2][1] = f[2][1] /\ e[2][2] < f[2][2]

InGrid(e, c) ==
  /\ c[1] \in DOMAIN edges[e].hypos
  /\ c[2] \in DOMAIN edges[e].translations

\* CreateHypothesis for a cell of the grid of e.
CreateHypothesis(e, c) ==
  LET h == edges[e].hypos[c[1]]
  IN  CreateNext(h, hypo[h], input.options[edges[e].translations[c[2]]])

\* Hypotheses are made for the places, a sequence of <<edge, cell>>, and put
\* into the queue, from which the items in gone are taken.
Enqueue(places, gone, a) ==
  /\ hypo' = hypo \o [i \in DOMAIN places |-> CreateHypothesis(places[i][1], places[i][2])]
  /\ arcs' = a \o [i \in DOMAIN places |-> {}]
  /\ winning' = winning \o [i \in DOMAIN places |-> Unset]
  /\ queue' = (queue \ gone) \cup
                {[hypo |-> Len(hypo) + i, edge |-> places[i][1], cell |-> places[i][2]]
                   : i \in DOMAIN places}
  /\ edges' = [e \in DOMAIN edges |->
                 [edges[e] EXCEPT !.seen = @ \cup
                    {places[i][2] : i \in {j \in DOMAIN places : places[j][1] = e}}]]

\* The cell as a place, if the grid has it and it has not been seen.
IfNew(e, c) == IF InGrid(e, c) /\ c \notin edges[e].seen THEN <<<<e, c>>>> ELSE <<>>

\* Mutant: only the next translation is queued.
Successors_OneWay(e, c) == IfNew(e, <<c[1], c[2] + 1>>)

\* PushSuccessors: the neighbours that have not been seen.
Successors(e, c) == IfNew(e, <<c[1], c[2] + 1>>) \o IfNew(e, <<c[1] + 1, c[2]>>)

------------------------------------------------------------------------------
(****************************************************************************)
(* ProcessSentence.                                                         *)
(****************************************************************************)

\* The constructor; the seed on stack 0, and its arc list cleaned up.
Init ==
  /\ input \in Inputs
  /\ conf \in Confs(input)
  /\ hypo = <<Seed>>
  /\ arcs = <<{}>>
  /\ stack = [k \in Stacks |-> IF k = 0 THEN CubeAdd(<<Seed>>, conf, CubeEmptyStack, 1)
                               ELSE CubeEmptyStack]
  /\ winning = Winners(conf, stack[0], arcs, <<Unset>>)
  /\ deleted = {}
  /\ pc = "todos"
  /\ ind = 0
  /\ todos = {{}}
  /\ edges = <<>>
  /\ queue = {}
  /\ inserted = [b \in Bitmaps |-> 0]
  /\ pops = 0

\* SetBitmapAccessor: the new edges are added to their containers.
AddEdges(new) ==
  edges' = [e \in DOMAIN edges \cup DOMAIN new |->
              IF e \in DOMAIN new THEN new[e] ELSE edges[e]]

\* Mutant: the container has every hypothesis that was made for its bitmap.
CreateForwardTodos_BeforePruning ==
  /\ pc = "todos"
  /\ \E b \in todos :
       /\ \A c \in todos : ~CoverageBefore(c, b)
       /\ todos' = todos \ {b}
       /\ LET S == Covering(hypo, Ids, b)
          IN  \E address \in Addresses(S) :
                AddEdges(ForwardEdges(b, S, address))
  /\ UNCHANGED <<input, conf, hypo, stack, arcs, winning, deleted, pc, ind,
                 queue, inserted, pops>>

\* CreateForwardTodos for the next bitmap of the stack: its hypotheses are
\* sorted and make one grid with the translations of every span.
CreateForwardTodos ==
  /\ pc = "todos"
  /\ \E b \in todos :
       /\ \A c \in todos : ~CoverageBefore(c, b)
       /\ todos' = todos \ {b}
       /\ LET S == Covering(hypo, stack[ind].hypos, b)
          IN  \E address \in Addresses(S) :
                AddEdges(ForwardEdges(b, S, address))
  /\ UNCHANGED <<input, conf, hypo, stack, arcs, winning, deleted, pc, ind,
                 queue, inserted, pops>>

\* The loop goes on to the next stack, or ends with the last one.
NextStack ==
  /\ pc = "todos" /\ todos = {}
  /\ IF ind = SourceSize THEN pc' = "done" /\ ind' = ind
     ELSE pc' = "stack" /\ ind' = ind + 1
  /\ UNCHANGED <<input, conf, hypo, stack, arcs, winning, deleted, todos, edges,
                 queue, inserted, pops>>

\* The clock is past -time-out when the next stack comes up.
TimeOut ==
  /\ pc = "stack"
  /\ conf.timeLimit
  /\ pc' = "interrupted"
  /\ UNCHANGED <<input, conf, hypo, stack, arcs, winning, deleted, ind, todos,
                 edges, queue, inserted, pops>>

\* The time is not up: the containers of the stack are filled.
StartStack ==
  /\ pc = "stack"
  /\ pc' = "edges"
  /\ UNCHANGED <<input, conf, hypo, stack, arcs, winning, deleted, ind, todos,
                 edges, queue, inserted, pops>>

\* The edges of the stack whose first cell has not been queued yet.
Uninitialized == {e \in DOMAIN edges : /\ Cardinality(Target(e)) = ind
                                       /\ InGrid(e, <<1, 1>>)
                                       /\ edges[e].seen = {}}

\* InitializeEdges, edge by edge: the first cell of the grid is queued.  The
\* loop goes through the containers; in which order tells only in the ids.
InitializeEdges ==
  /\ pc = "edges"
  /\ \E e \in Uninitialized :
       /\ \A f \in Uninitialized : ~EdgeBefore(f, e)
       /\ Enqueue(<<<<e, <<1, 1>>>>>>, {}, arcs)
  /\ UNCHANGED <<input, conf, stack, deleted, pc, ind, todos, inserted, pops>>

StartPops ==
  /\ pc = "edges" /\ Uninitialized = {}
  /\ pc' = "pop"
  /\ pops' = 0
  /\ UNCHANGED <<input, conf, hypo, stack, arcs, winning, deleted, ind, todos,
                 edges, queue, inserted>>

\* The items in the containers of the stack, or in that of b.
Waiting    == {q \in queue : Cardinality(Target(q.edge)) = ind}
WaitingFor(b) == {q \in queue : Target(q.edge) = b}

\* The items that may be on top of a priority queue, or of the best of several.
Top(Q) == {q \in Q : \A p \in Q : hypo[q.hypo].total >= hypo[p.hypo].total}

\* ProcessBestHypothesis: the item goes to the stack, its neighbours into the
\* queue.
ProcessBestHypothesis(q) ==
  LET out == CubeAddPrune(hypo, conf, stack[ind], arcs, q.hypo)
  IN  /\ stack' = [stack EXCEPT ![ind] = out.stack]
      /\ deleted' = deleted \cup out.gone
      /\ inserted' = [inserted EXCEPT ![Target(q.edge)] = @ + (IF out.isNew THEN 1 ELSE 0)]
      /\ Enqueue(Successors(q.edge, q.cell), {q}, out.arcs)

\* The main search loop: the container whose top is the best comes first.
PopBest ==
  /\ pc = "pop"
  /\ pops < conf.popLimit
  /\ \E q \in Top(Waiting) : ProcessBestHypothesis(q)
  /\ pops' = pops + 1
  /\ UNCHANGED <<input, conf, pc, ind, todos>>

PopsDone == pops = conf.popLimit \/ Waiting = {}

\* The coverages of the stack that have not got their minimum yet.
Starved ==
  {Target(q.edge) : q \in {p \in Waiting : inserted[Target(p.edge)] < conf.minPerCoverage}}

\* EnsureMinStackHyps, container by container.
EnsureMinStackHyps ==
  /\ pc = "pop"
  /\ PopsDone
  /\ \E b \in Starved :
       /\ \A c \in Starved : ~CoverageBefore(c, b)
       /\ \E q \in Top(WaitingFor(b)) : ProcessBestHypothesis(q)
  /\ UNCHANGED <<input, conf, pc, ind, todos, pops>>

\* The stack is pruned and its arc lists are cleaned up.
CloseStack ==
  /\ pc = "pop"
  /\ PopsDone
  /\ Starved = {}
  /\ LET s   == CubePruneToSize(hypo, conf, stack[ind], conf.stackSize)
         out == Outcome(s, arcs, Deleted(arcs, stack[ind].hypos \ s.hypos))
     IN  /\ stack' = [stack EXCEPT ![ind] = s]
         /\ \E a \in CleanupArcList(hypo, conf, s, out.arcs) :
              /\ arcs' = a
              /\ winning' = Winners(conf, s, a, winning)
              /\ deleted' = deleted \cup out.gone
                              \cup UNION {out.arcs[x] \ a[x] : x \in s.hypos}
         /\ todos' = Coverages(hypo, s.hypos)
  /\ pc' = "todos"
  /\ UNCHANGED <<input, conf, hypo, ind, edges, queue, inserted, pops>>

Next ==
  \/ CreateForwardTodos
  \/ NextStack
  \/ TimeOut
  \/ StartStack
  \/ InitializeEdges
  \/ StartPops
  \/ PopBest
  \/ EnsureMinStackHyps
  \/ CloseStack

Spec == Init /\ [][Next]_vars /\ WF_vars(Next)

Terminated == pc \in {"done", "interrupted"}

\* SearchCubePruning::GetBestHypothesis: always from the last stack.
Answers == GetBestHypothesis(hypo, stack[SourceSize])

\* Nothing is pruned and every cell is popped: neither the stack size nor the
\* pop limit is reached, and no two scores differ by the beam.
Exhaustive ==
  /\ Cardinality(Ids) < conf.stackSize /\ Cardinality(Ids) < conf.popLimit
  /\ \A g, h \in Ids : hypo[h].total > hypo[g].total + conf.beamWidth

\* No two options of the sentence are the same.
OptionsDiffer ==
  \A j, k \in DOMAIN input.options : input.options[j] = input.options[k] => j = k

------------------------------------------------------------------------------
(****************************************************************************)
(* Properties.                                                              *)
(****************************************************************************)
TypeOK ==
  /\ input \in Inputs /\ conf \in Confs(input)
  /\ \A h \in Ids :
       /\ hypo[h].prev \in 0 .. h - 1
       /\ hypo[h].bitmap \in Bitmaps
       /\ hypo[h].range \in PhraseSpans \cup {NoSpan}
       /\ hypo[h].total = hypo[h].score
            + (IF h = 1 THEN 0 ELSE FutureScore(hypo[h].bitmap))
  /\ DOMAIN stack = Stacks
  /\ \A k \in Stacks : stack[k].hypos \subseteq {h \in Ids : Covered(h) = k}
  /\ DOMAIN arcs = Ids /\ \A h \in Ids : arcs[h] \subseteq Ids
  /\ DOMAIN winning = Ids /\ \A h \in Ids : winning[h] \in Ids \cup {Unset}
  /\ deleted \subseteq Ids
  /\ pc \in {"todos", "stack", "edges", "pop", "done", "interrupted"}
  /\ ind \in Stacks /\ todos \subseteq Bitmaps
  /\ \A e \in DOMAIN edges : /\ e \in Bitmaps \X PhraseSpans
                             /\ \A c \in edges[e].seen : InGrid(e, c)
  /\ \A q \in queue : /\ q.hypo \in Ids /\ q.edge \in DOMAIN edges
                      /\ q.cell \in edges[q.edge].seen
                      /\ hypo[q.hypo].bitmap = Target(q.edge)
  /\ inserted \in [Bitmaps -> Nat] /\ pops \in 0 .. conf.popLimit

\* Every hypothesis that is not deleted has exactly one owner: a queue item,
\* the stack or one arc list.  Those that a queue still holds when its stack
\* is done stay there, for the destructor of the container.
OwnedOnce ==
  /\ \A h \in Ids :
       Cardinality({k \in Stacks : h \in stack[k].hypos})
         + Cardinality({x \in Ids : h \in arcs[x]})
         + Cardinality({q \in queue : q.hypo = h})
         = IF h \in deleted THEN 0 ELSE 1
  /\ \A x \in Ids : arcs[x] # {} => \E k \in Stacks : x \in stack[k].hypos

\* Nothing dangles: the hypotheses in the grids, from which cells are still
\* to be made, and those that living hypotheses were made from are on the
\* stacks, though stacks are pruned lazily while the search goes on.
GridsAlive ==
  /\ \A e \in DOMAIN edges : \A x \in DOMAIN edges[e].hypos :
       edges[e].hypos[x] \in stack[Cardinality(e[1])].hypos
  /\ \A h \in Ids \ deleted : hypo[h].prev # NoHypothesis =>
       hypo[h].prev \in stack[Covered(hypo[h].prev)].hypos

\* No part of a grid is cut off: whatever cell has not been seen, an item
\* that can lead to it is in the queue, so an exhausted queue means that
\* the whole grid was tried.
NoCellLost ==
  \A e \in DOMAIN edges : edges[e].seen # {} =>
    \A c \in (DOMAIN edges[e].hypos) \X (DOMAIN edges[e].translations) :
      \/ c \in edges[e].seen
      \/ \E q \in queue : q.edge = e /\ q.cell[1] <= c[1] /\ q.cell[2] <= c[2]

\* No cell is tried twice, though two neighbours lead to it: no two
\* hypotheses are the same extension of the same hypothesis, unless the
\* tables list the same option twice.
NothingBuiltTwice ==
  OptionsDiffer => \A g, h \in Ids : hypo[g] = hypo[h] => g = h

\* Ownership as a whole: stacks, arc lists and queues are what their types say,
\* hypotheses have one owner, and nothing dangles.
HypothesesOwned == TypeOK /\ OwnedOnce /\ GridsAlive

\* Grids as a whole: every cell is tried, in the end, and none twice.
GridsExplored == NoCellLost /\ NothingBuiltTwice

\* Pruning loses only what it may: whatever became of a hypothesis that left
\* its queue, the stack has one that recombines with it and is as good, or
\* as many as fit that are as good, or the best is better by the beam.  Once
\* the stack has overflowed, the last hypothesis within the beam counts as
\* the worst allowed, also if there is room for more.
PruningJustified ==
  \A h \in Ids \ {q.hypo : q \in queue} :
    LET stk    == stack[Covered(h)]
        asGood == {x \in stk.hypos : hypo[x].total >= hypo[h].total}
        came   == {RecombineKey(hypo[x]) :
                     x \in {y \in Ids : Covered(y) = Covered(h)} \ {q.hypo : q \in queue}}
    IN  \/ \E x \in asGood : RecombineKey(hypo[x]) = RecombineKey(hypo[h])
        \/ Cardinality(asGood) >= conf.stackSize
        \/ hypo[h].total <= stk.best + conf.beamWidth
        \/ asGood = stk.hypos /\ asGood # {} /\ Cardinality(came) >= 2 * conf.stackSize

\* Without pruning and with pops enough, cube pruning is exact: the answer
\* has the best score any derivation of stack decoding has.
ExactWithoutPruning ==
  pc = "done" /\ ReorderingComparable /\ Exhaustive =>
    \A x \in Answers :
      hypo[x].total = Max({h.total : h \in CompleteDerivations(input)})

\* Cube pruning does what a decoder promises.  It ends, since there is but
\* one thread, every pop counts and every cell is queued at most once.
Promise ==
  INSTANCE Decoder WITH
    sentence <- input,
    phase    <- IF Terminated THEN pc ELSE "searching",
    answers  <- IF Terminated THEN {Content(hypo[x]) : x \in Answers} ELSE {}

ImplementsDecoder == Promise!Spec
================================================================================
