-------------------------------- MODULE NBest --------------------------------
(****************************************************************************)
(* What is mined from the stacks and arc lists that stack decoding leaves:  *)
(* the n-best list (Manager::CalcNBest with TrellisPath and                 *)
(* TrellisPathCollection) and the search graph (Manager::GetSearchGraph).   *)
(*                                                                          *)
(* A trellis path is a record [edges, changed, score]: the hypotheses from  *)
(* the last one back to the seed, the edge at which it deviates from the    *)
(* path it was made from (0 for a pure path, NOT_FOUND in the code), and    *)
(* its total score.                                                         *)
(*                                                                          *)
(* conf has two more fields here: onlyDistinct, for the distinct n-best     *)
(* list, and nBestFactor.  nBestSize is the number of paths asked for.      *)
(****************************************************************************)
EXTENDS SearchNormal

ASSUME FactorAssumption == \A c \in Confs : c.nBestFactor \in Nat

VARIABLES
  step,        \* "search" before CalcNBest, "loop" in its main loop, "listed"
  contenders,  \* the collection of paths that may be listed next
  list,        \* ret
  iteration    \* how often the main loop has run

nbestVars == <<step, contenders, list, iteration>>

FinalStack == stack[SourceSize].hypos

\* The hypotheses from h back to the seed.
BackPath(h) ==
  LET back[n \in 0 .. Covered(h)] ==
        IF n = 0 THEN <<h>>
        ELSE LET path == back[n - 1]
             IN  IF path[Len(path)] = 1 THEN path
                 ELSE Append(path, hypo[path[Len(path)]].prev)
  IN  back[Covered(h)]

\* The score of a deviant path: that of the winner it ends with, corrected at
\* each edge that is not a winner.
PathScore(edges) ==
  LET changes == {e \in DOMAIN edges : edges[e] # winning[edges[e]]}
  IN  hypo[winning[edges[1]]].total
        + MapThenSumSet(LAMBDA e : hypo[edges[e]].total - hypo[winning[edges[e]]].total,
                        changes)

PurePath(h) == [edges |-> BackPath(h), changed |-> 0, score |-> hypo[h].total]

\* TrellisPath(copy, edgeIndex, arc): the arc instead of the edge, and from
\* there the best path backwards.
DeviantPath(path, edge, arc) ==
  LET edges == SubSeq(path.edges, 1, edge - 1) \o BackPath(arc)
  IN  [edges |-> edges, changed |-> edge, score |-> PathScore(edges)]

\* Mutant: the edge that was changed last is changed again.
CreateDeviantPaths_Again(path) ==
  UNION {{DeviantPath(path, e, a) : a \in arcs[path.edges[e]]}
           : e \in Max({path.changed - 1, 1}) .. Len(path.edges)}

\* Every arc instead of an edge, behind the edge that was changed last.
CreateDeviantPaths(path) ==
  UNION {{DeviantPath(path, e, a) : a \in arcs[path.edges[e]]}
           : e \in path.changed + 1 .. Len(path.edges)}

\* TrellisPathCollection::Prune.  Which of those that tie are dropped depends
\* on the order in which they came.
PruneContenders(coll, newSize) ==
  LET better(p, q) == p.score > q.score
      sure == {p \in coll : Cardinality({q \in coll : q = p \/ ~better(p, q)}) <= newSize}
      most == {p \in coll : Cardinality({q \in coll : better(q, p)}) < newSize}
  IN  IF Cardinality(coll) <= newSize THEN {coll}
      ELSE {sure \cup tied : tied \in kSubset(newSize - Cardinality(sure), most \ sure)}

\* TrellisPath::GetSurfacePhrase: the target words of the edges.
CurrTargetPhrase(h) ==
  SubSeq(hypo[h].target, Len(hypo[hypo[h].prev].target) + 1, Len(hypo[h].target))

Surface(edges) ==
  LET words[e \in DOMAIN edges] ==
        IF edges[e] = 1 THEN <<>> ELSE words[e + 1] \o CurrTargetPhrase(edges[e])
  IN  words[1]

Surfaces == {Surface(list[i].edges) : i \in DOMAIN list}

\* How many distinct candidates are looked at for one that is listed.
Factor == IF conf.nBestFactor < 1 THEN 1000 ELSE conf.nBestFactor

------------------------------------------------------------------------------
NBestInit ==
  /\ Init
  /\ step = "search" /\ contenders = {} /\ list = <<>> /\ iteration = 0

Search ==
  /\ Next
  /\ UNCHANGED nbestVars

\* CalcNBest begins: the pure paths of the last stack.
StartNBest ==
  /\ pc = "done" /\ step = "search"
  /\ conf.nBest /\ conf.nBestSize > 0 /\ FinalStack # {}
  /\ contenders' = {PurePath(h) : h \in FinalStack}
  /\ step' = "loop"
  /\ UNCHANGED <<vars, list, iteration>>

\* The path goes to the list, unless only distinct ones do.
Listed(path) == conf.onlyDistinct => Surface(path.edges) \notin Surfaces

Looking ==
  /\ step = "loop"
  /\ Len(list) < conf.nBestSize
  /\ contenders # {}
  /\ iteration < conf.nBestSize * Factor

\* The contenders that stay after the deviant paths have been added.
Contenders(coll) ==
  CASE conf.onlyDistinct /\ conf.nBestFactor > 0 ->
         PruneContenders(coll, conf.nBestSize * conf.nBestFactor)
    [] conf.onlyDistinct /\ conf.nBestFactor = 0 -> {coll}
    [] OTHER -> PruneContenders(coll, conf.nBestSize)

\* One turn of the main loop, with the best contender.
NextPath(path) ==
  /\ Looking
  /\ \A q \in contenders : q.score <= path.score
  /\ list' = IF Listed(path) THEN Append(list, path) ELSE list
  /\ contenders' \in Contenders((contenders \ {path}) \cup CreateDeviantPaths(path))
  /\ iteration' = iteration + 1
  /\ UNCHANGED <<vars, step>>

FinishNBest ==
  /\ step = "loop" /\ ~Looking
  /\ step' = "listed"
  /\ UNCHANGED <<vars, contenders, list, iteration>>

NBestNext ==
  \/ Search
  \/ StartNBest
  \/ \E path \in contenders : NextPath(path)
  \/ FinishNBest

NBestSpec == NBestInit /\ [][NBestNext]_<<vars, nbestVars>>

------------------------------------------------------------------------------
(****************************************************************************)
(* The search graph (GetConnectedGraph, GetSearchGraph).                    *)
(****************************************************************************)

\* The hypotheses on a way to the last stack, arcs included, without the seed.
Connected ==
  LET grown[n \in 0 .. SourceSize] ==
        IF n = 0 THEN FinalStack
        ELSE LET known == grown[n - 1] \cup UNION {arcs[h] : h \in grown[n - 1]}
             IN  known \cup ({hypo[h].prev : h \in known} \ {1})
  IN  grown[SourceSize] \ {1}

\* Mutant: an arc makes no play.
Plays_NoArcs(k, w) == {<<x, x>> : x \in {y \in stack[k].hypos \cap Connected : hypo[y].prev = w}}

\* Who makes a play for w from the stack k: a hypothesis of the stack and the
\* edge, itself or one of its arcs, that leads back to w.
Plays(k, w) ==
  LET connected == Connected
  IN  UNION {{<<x, e>> : e \in {y \in {x} \cup arcs[x] : hypo[y].prev = w}}
               : x \in stack[k].hypos \cap connected}

\* The best score from a hypothesis on, stack by stack from the last one.
ForwardScore ==
  LET from[k \in 1 .. SourceSize + 1] ==
        IF k > SourceSize
        THEN [h \in Ids |-> IF h \in FinalStack THEN 0 ELSE NegInf]
        ELSE LET later == from[k + 1]
             IN  [w \in Ids |->
                    Max({later[w]} \cup
                        {later[xe[1]] + hypo[xe[2]].score - hypo[w].score
                           : xe \in Plays(k, w)})]
  IN  from[1]

\* What a hypothesis adds to the score of the one before it.
Transition(h) == hypo[h].score - hypo[hypo[h].prev].score

\* GetSearchGraph looks at its connected hypotheses, and the seed, stack by stack.
Shown == UNION {stack[k].hypos : k \in Stacks} \cap (Connected \cup {1})

\* The best player for h: the play of the latest stack, as only a better one
\* from an earlier stack replaces it.  In a stack it is the first of equals.
Forward(h, forwardScore) ==
  LET best(k) == {xe[2] : xe \in {y \in Plays(k, h) :
                              forwardScore[y[1]] + Transition(y[2]) = forwardScore[h]}}
  IN  IF h \in FinalStack THEN {-1}
      ELSE best(Max({k \in 1 .. SourceSize : best(k) # {}}))

\* The lines of the search graph: a recombined hypothesis has the forward
\* pointer and score of the one it lost to.
OutputSearchGraph(h, e, forward, fscore) ==
  [hyp |-> e, back |-> IF e = 1 THEN Unset ELSE hypo[e].prev,
   transition |-> IF e = 1 THEN 0 ELSE Transition(e),
   recombined |-> IF e = h THEN Unset ELSE h, forward |-> forward, fscore |-> fscore]

SearchGraph ==
  LET score == ForwardScore
      lines(h) == {OutputSearchGraph(h, e, f, score[h]) : e \in {h} \cup arcs[h], f \in Forward(h, score)}
  IN  UNION {lines(h) : h \in Shown}

\* The word graph has a link for every hypothesis of a stack, connected or
\* not, and if outputNBest for those it has recombined; a link ends in the
\* hypothesis itself, and its scores are those of the whole hypothesis.
GetWordGraph(outputNBest) ==
  {[from |-> hypo[e].prev, to |-> e, score |-> hypo[e].score, words |-> CurrTargetPhrase(e)] :
     e \in UNION {{h} \cup (IF outputNBest THEN arcs[h] ELSE {}) :
                    h \in UNION {stack[k].hypos : k \in 1 .. SourceSize}}}

\* The hypergraph: node 0 is the goal, -1 the source; the edges of a
\* hypothesis and of those it has recombined lead to one node.
SerializeSearchGraphPB ==
  {[head |-> 0, tail |-> h, by |-> 0, value |-> 0] : h \in {x \in Shown : IsComplete(hypo[x].bitmap)}}
    \cup UNION {{[head |-> h, tail |-> IF e = 1 THEN -1 ELSE hypo[e].prev, by |-> e,
                  value |-> IF e = 1 THEN 0 ELSE -Transition(e)] : e \in {h} \cup arcs[h]}
                 : h \in Shown}

------------------------------------------------------------------------------
(****************************************************************************)
(* What the list and the graph are compared with.                           *)
(****************************************************************************)

\* All the paths there are from w back to the seed: at each hypothesis of a
\* stack, itself or one of its arcs.
PathsFrom(w) ==
  LET paths[h \in Ids] ==
        IF h = 1 THEN {<<1>>}
        ELSE UNION {{<<e>> \o rest : rest \in paths[hypo[e].prev]}
                      : e \in {h} \cup arcs[h]}
  IN  paths[w]

AllPaths == UNION {PathsFrom(w) : w \in FinalStack}

\* The translation option an edge was made with.
OptionOf(h) ==
  CHOOSE j \in DOMAIN input.options :
    /\ input.options[j].span = hypo[h].range
    /\ input.options[j].words = CurrTargetPhrase(h)

\* The hypothesis one gets who takes the edges of a path one by one.
Retraced(edges) ==
  LET at[e \in DOMAIN edges] ==
        IF edges[e] = 1 THEN Seed
        ELSE CreateNext(NoHypothesis, at[e + 1], input.options[OptionOf(edges[e])])
  IN  at[1]

\* The complete derivations of the sentence, each with the options it takes.
OptionSequences ==
  LET built[n \in 0 .. SourceSize] ==
        IF n = 0 THEN {<<<<>>, Seed>>}
        ELSE UNION {{<<Append(d[1], j), CreateNext(NoHypothesis, d[2], input.options[j])>>
                       : j \in MayFollow(input, d[2])} : d \in built[n - 1]}
  IN  {d \in UNION {built[n] : n \in 0 .. SourceSize} : IsComplete(d[2].bitmap)}

\* What the edges before the i-th one, those behind it in the sentence, score.
ScoreBehind(edges, i) ==
  MapThenSumSet(LAMBDA e : hypo[edges[e]].score - hypo[hypo[edges[e]].prev].score,
                1 .. i - 1)

\* The ways through a hypergraph from its goal to its source.
WaysThrough(edges) ==
  LET Out(node) == {x \in edges : x.head = node}
      down[h \in Ids] ==
        UNION {{<<x.by>> \o rest : rest \in IF x.tail = -1 THEN {<<>>} ELSE down[x.tail]}
                 : x \in Out(h)}
  IN  UNION {down[x.tail] : x \in Out(0)}

------------------------------------------------------------------------------
(****************************************************************************)
(* Properties.                                                              *)
(****************************************************************************)

\* A path has the score of its translation, the one its options have when
\* they are taken one after the other, though it is computed from scores of
\* hypotheses with other pasts: recombined hypotheses have the same future.
PathScoreTrue ==
  \A p \in contenders \cup Range(list) : p.score = Retraced(p.edges).total

\* The list has the best paths there are, best first, as many as are asked
\* for and none twice: no path that is better than a listed one was cut or
\* never made, though a path is changed only behind its last change.
ListIsBest ==
  step = "listed" /\ ~conf.onlyDistinct =>
    /\ Cardinality({p.edges : p \in Range(list)}) = Len(list)
    /\ Len(list) = Min({conf.nBestSize, Cardinality(AllPaths)})
    /\ \A i \in 1 .. Len(list) - 1 : list[i].score >= list[i + 1].score
    /\ \A e \in AllPaths \ {p.edges : p \in Range(list)} :
         PathScore(e) <= list[Len(list)].score

\* The distinct list says nothing twice, has the best path of everything it
\* says and leaves out nothing better; it is short only if there is nothing
\* else, or if so many candidates have been looked at as the factor allows.
DistinctIsBest ==
  step = "listed" /\ conf.onlyDistinct =>
    /\ Cardinality(Surfaces) = Len(list)
    /\ \A e \in AllPaths :
         \/ PathScore(e) <= list[Len(list)].score
         \/ \E i \in DOMAIN list :
              Surface(list[i].edges) = Surface(e) /\ list[i].score >= PathScore(e)
    /\ \/ Len(list) = conf.nBestSize
       \/ Surfaces = {Surface(e) : e \in AllPaths}
       \/ iteration = conf.nBestSize * Factor

\* Without pruning of the stacks the list has the scores of the best
\* derivations of the sentence: neither recombination nor the cut of the arc
\* lists costs a translation its place.
ListIsExact ==
  step = "listed" /\ ~conf.onlyDistinct /\ Exhaustive /\ input.constraint = <<>> =>
    LET all == OptionSequences
    IN  \A i \in DOMAIN list :
          Cardinality({j \in DOMAIN list : list[j].score >= list[i].score}) =
            Min({conf.nBestSize,
                 Cardinality({d \in all : d[2].total >= list[i].score})})

\* Lists of both kinds have the best paths of the trellis, once, in order and
\* with their true scores, and the best of all derivations where nothing was
\* pruned.
NBestIsBest == PathScoreTrue /\ ListIsBest /\ DistinctIsBest /\ ListIsExact

\* The search graph has the hypotheses that a translation passes, and the
\* forward score of each is the best a translation has behind it.
ForwardExact ==
  pc = "done" /\ step = "search" /\ conf.nBest =>
    LET all == AllPaths
        score == ForwardScore
        connected == Connected
    IN  \A h \in UNION {stack[k].hypos : k \in 1 .. SourceSize} :
          LET through == {<<e, i>> \in all \X (1 .. SourceSize) :
                            i < Len(e) /\ winning[e[i]] = h}
          IN  /\ h \in connected <=> through # {}
              /\ through # {} =>
                   score[h] = Max({ScoreBehind(x[1], x[2]) : x \in through})

\* Who follows the forward pointers of the lines, from a recombined line as
\* from the one it lost to, comes to the end with the score they promise.
ForwardLeads ==
  pc = "done" /\ step = "search" /\ conf.nBest /\ FinalStack # {} =>
    LET graph == SearchGraph
    IN  \A l \in graph :
          IF l.forward = -1 THEN l.fscore = 0
          ELSE \E m \in graph :
                 /\ m.hyp = l.forward
                 /\ m.back = IF l.recombined = Unset THEN l.hyp ELSE l.recombined
                 /\ l.fscore = m.transition + m.fscore

\* The hypergraph has the paths of the trellis and their scores, and no edge
\* comes from a node that is not there yet.
HypergraphExact ==
  pc = "done" /\ step = "search" /\ conf.nBest /\ FinalStack # {} =>
    LET edges == SerializeSearchGraphPB
        ways  == WaysThrough(edges)
        value == [e \in {x.by : x \in edges} |-> (CHOOSE x \in edges : x.by = e).value]
    IN  /\ ways = AllPaths
        /\ \A way \in ways : PathScore(way) = -MapThenSumSet(LAMBDA i : value[way[i]], DOMAIN way)
        /\ \A x \in edges : x.head # 0 /\ x.tail # -1 => Covered(x.tail) < Covered(x.head)

\* A link of the word graph begins at the seed or where another ends, so that
\* each can be followed back, whatever was pruned.
WordGraphConnected ==
  pc = "done" /\ step = "search" /\ conf.nBest =>
    LET ends == {l.to : l \in GetWordGraph(FALSE)}
    IN  \A l \in GetWordGraph(TRUE) : l.from \in ends \cup {1}

\* The three graphs say of the translations what the trellis says.
SearchGraphExact == ForwardExact /\ ForwardLeads /\ HypergraphExact /\ WordGraphConnected
==============================================================================
