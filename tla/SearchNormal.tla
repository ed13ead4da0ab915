----------------------------- MODULE SearchNormal -----------------------------
(****************************************************************************)
(* Stack decoding of one sentence (SearchNormal::ProcessSentence).          *)
(*                                                                          *)
(* The stacks are visited in order.  Opening one checks the clock, prunes   *)
(* the stack and cleans up its arc lists; then each of its hypotheses is    *)
(* expanded with every translation option that may follow it, and each new  *)
(* hypothesis is added to the stack of its number of translated words,      *)
(* which may recombine it, discard it or prune that stack at once.          *)
(*                                                                          *)
(* input is the sentence.  conf holds the switches: [stackSize, diversity,  *)
(* beamWidth, nBest, nBestSize, distinct, timeLimit], where nBest is        *)
(* IsNBestEnabled, distinct says that CleanupArcList keeps all arcs, and    *)
(* timeLimit that -time-out is given.                                       *)
(****************************************************************************)
EXTENDS HypothesisStackNormal

CONSTANT Confs   \* the settings of the switches

ASSUME ConfAssumption ==
  \A c \in Confs : /\ c.stackSize \in Nat \ {0} /\ c.diversity \in Nat
                   /\ c.beamWidth \in Int /\ c.beamWidth < 0
                   /\ c.nBest => c.distinct \/ c.nBestSize > 0

\* StaticData refuses stack diversity with a limit above 15; with no limit
\* the shift by -1 in Add has no defined result.
ASSUME DiversityAssumption ==
  \A c \in Confs, i \in Inputs : c.diversity > 0 => i.maxDistortion \in 0 .. 15

Unset == -1   \* a pointer nobody has assigned

VARIABLES
  input,     \* m_source, m_transOptColl, m_constraint, the distortion limit
  conf,      \* StaticData
  hypo,      \* every hypothesis ever made, in the order of their ids
  stack,     \* m_hypoStackColl
  arcs,      \* Hypothesis::m_arcList, as sets of ids
  winning,   \* Hypothesis::m_winningHypo
  deleted,   \* the hypotheses that were deleted
  pc,        \* where ProcessSentence is
  ind,       \* the stack being visited
  queue,     \* its hypotheses that have not been expanded yet
  current,   \* the hypothesis ProcessOneHypothesis works on
  pending,   \* the options it has not been expanded with yet
  actual     \* actual_hypoStack

vars == <<input, conf, hypo, stack, arcs, winning, deleted,
          pc, ind, queue, current, pending, actual>>

Stacks   == 0 .. SourceSize
Ids      == DOMAIN hypo
Covered(h) == Cardinality(hypo[h].bitmap)

\* The options ProcessOneHypothesis and CreateNext let through.
Allowed(h) == MayFollow(input, hypo[h])

------------------------------------------------------------------------------
\* The constructor, and the seed on stack 0.
Init ==
  /\ input \in Inputs
  /\ conf \in Confs
  /\ hypo = <<Seed>>
  /\ stack = [k \in Stacks |->
                IF k = 0 THEN Insert(<<Seed>>, conf, EmptyStack, 1)
                ELSE EmptyStack]
  /\ arcs = <<{}>>
  /\ winning = <<Unset>>
  /\ deleted = {}
  /\ pc = "stack"
  /\ ind = 0
  /\ queue = {}
  /\ current = Unset
  /\ pending = {}
  /\ actual = Unset

\* The clock is past -time-out when the next stack comes up.
TimeOut ==
  /\ pc = "stack"
  /\ conf.timeLimit
  /\ pc' = "interrupted"
  /\ UNCHANGED <<input, conf, hypo, stack, arcs, winning, deleted, ind, queue,
                 current, pending, actual>>

\* The next stack is pruned and its arc lists are cleaned up.
OpenStack ==
  /\ pc = "stack"
  /\ \E s \in PruneToSize(hypo, conf, stack[ind], conf.stackSize) :
       LET out == Outcome(s, arcs, Deleted(arcs, stack[ind].hypos \ s.hypos))
       IN  \E a \in CleanupArcList(hypo, conf, s, out.arcs) :
             LET cut == UNION {out.arcs[x] \ a[x] : x \in s.hypos}
             IN  /\ stack' = [stack EXCEPT ![ind] = s]
                 /\ arcs' = a
                 /\ deleted' = deleted \cup out.gone \cup cut
                 /\ winning' = Winners(conf, s, a, winning)
                 /\ queue' = s.hypos
  /\ pc' = "expand"
  /\ UNCHANGED <<input, conf, hypo, ind, current, pending, actual>>

\* ProcessOneHypothesis begins with the next hypothesis of the stack.
ProcessOneHypothesis(h) ==
  /\ pc = "expand" /\ pending = {}
  /\ h \in queue
  /\ \A g \in queue : ~OrderedBefore(hypo[g], hypo[h])
  /\ queue' = queue \ {h}
  /\ current' = h
  /\ pending' = Allowed(h)
  /\ UNCHANGED <<input, conf, hypo, stack, arcs, winning, deleted, pc, ind, actual>>

\* Mutant: the words of the option are not counted.
ExpandHypothesis_SameStack ==
  /\ pc = "expand" /\ pending # {}
  /\ LET j == Min(pending)
         h == Len(hypo) + 1
     IN  /\ hypo' = Append(hypo, CreateNext(current, hypo[current], input.options[j]))
         /\ winning' = Append(winning, Unset)
         /\ pending' = pending \ {j}
         /\ \E out \in AddPrune(hypo', conf, input.maxDistortion, stack[ind],
                                Append(arcs, {}), h) :
              /\ stack' = [stack EXCEPT ![ind] = out.stack]
              /\ arcs' = out.arcs
              /\ deleted' = deleted \cup out.gone
  /\ UNCHANGED <<input, conf, pc, ind, queue, current, actual>>

\* ExpandHypothesis with the next option: CreateNext, CalcScore, AddPrune.
ExpandHypothesis ==
  /\ pc = "expand" /\ pending # {}
  /\ LET j    == Min(pending)
         made == CreateNext(current, hypo[current], input.options[j])
         h    == Len(hypo) + 1
         n    == Cardinality(made.bitmap)
     IN  /\ hypo' = Append(hypo, made)
         /\ winning' = Append(winning, Unset)
         /\ pending' = pending \ {j}
         /\ \E out \in AddPrune(hypo', conf, input.maxDistortion, stack[n],
                                Append(arcs, {}), h) :
              /\ stack' = [stack EXCEPT ![n] = out.stack]
              /\ arcs' = out.arcs
              /\ deleted' = deleted \cup out.gone
  /\ UNCHANGED <<input, conf, pc, ind, queue, current, actual>>

\* Mutant: the last stack is visited again and again.
FinishStack_NeverDone ==
  /\ pc = "expand" /\ pending = {} /\ queue = {}
  /\ actual' = ind
  /\ ind' = IF ind = SourceSize THEN ind ELSE ind + 1
  /\ pc' = "stack"
  /\ current' = Unset
  /\ UNCHANGED <<input, conf, hypo, stack, arcs, winning, deleted, queue, pending>>

\* Every hypothesis of the stack has been expanded.
FinishStack ==
  /\ pc = "expand" /\ pending = {} /\ queue = {}
  /\ actual' = ind
  /\ ind' = ind + 1
  /\ pc' = IF ind = SourceSize THEN "done" ELSE "stack"
  /\ current' = Unset
  /\ UNCHANGED <<input, conf, hypo, stack, arcs, winning, deleted, queue, pending>>

Next ==
  \/ TimeOut
  \/ OpenStack
  \/ \E h \in queue : ProcessOneHypothesis(h)
  \/ ExpandHypothesis
  \/ FinishStack

Spec == Init /\ [][Next]_vars /\ WF_vars(Next)

Terminated == pc \in {"done", "interrupted"}

\* SearchNormal::GetBestHypothesis.  An unset actual_hypoStack is read as any
\* pointer at all.
Answers ==
  IF pc = "done"             THEN GetBestHypothesis(hypo, stack[SourceSize])
  ELSE IF actual \in Stacks THEN GetBestHypothesis(hypo, stack[actual])
  ELSE Ids

------------------------------------------------------------------------------
\* The settings under which nothing is pruned: the stacks have room for all
\* hypotheses that were made, and the beam for their scores.
Exhaustive ==
  /\ conf.diversity = 0
  /\ Cardinality(Ids) < conf.stackSize
  /\ \A g, h \in Ids : hypo[h].total > hypo[g].total + conf.beamWidth

------------------------------------------------------------------------------
(****************************************************************************)
(* Properties.                                                              *)
(****************************************************************************)
TypeOK ==
  /\ input \in Inputs /\ conf \in Confs
  /\ \A h \in Ids :
       /\ hypo[h].prev \in 0 .. h - 1
       /\ hypo[h].bitmap \in Bitmaps
       /\ hypo[h].range \in PhraseSpans \cup {NoSpan}
       /\ hypo[h].total = hypo[h].score
            + (IF h = 1 THEN 0 ELSE FutureScore(hypo[h].bitmap))
  /\ DOMAIN stack = Stacks
  /\ \A k \in Stacks : stack[k].hypos \subseteq {h \in Ids : Covered(h) = k}
  /\ DOMAIN arcs = Ids /\ \A h \in Ids : arcs[h] \subseteq Ids
  /\ DOMAIN winning = Ids /\ \A h \in Ids : winning[h] \in Ids \cup {Unset}
  /\ deleted \subseteq Ids
  /\ pc \in {"stack", "expand", "done", "interrupted"}
  /\ ind \in 0 .. SourceSize + 1
  /\ queue \subseteq Ids /\ current \in Ids \cup {Unset}
  /\ pending \subseteq 1 .. Len(input.options)
  /\ actual \in Stacks \cup {Unset}

\* Every hypothesis that is not deleted has exactly one owner, the stack or
\* one arc list, and arc lists do not nest: so nothing leaks, nothing is
\* deleted twice, and a walk over an arc list sees all the alternatives.
OwnedOnce ==
  /\ \A h \in Ids :
       Cardinality({k \in Stacks : h \in stack[k].hypos})
         + Cardinality({x \in Ids : h \in arcs[x]})
         = IF h \in deleted THEN 0 ELSE 1
  /\ \A x \in Ids : arcs[x] # {} => \E k \in Stacks : x \in stack[k].hypos

\* No back pointer dangles: what a living hypothesis was made from, loser or
\* not, is still on an earlier stack, though each stack deletes hypotheses
\* whenever it is pruned or recombines.
PrevAlive ==
  /\ \A h \in Ids \ deleted : hypo[h].prev # NoHypothesis =>
       /\ hypo[h].prev \in stack[Covered(hypo[h].prev)].hypos
       /\ Covered(hypo[h].prev) < Covered(h)
  /\ current # Unset => current \notin deleted

\* A stack does not change while its hypotheses are being expanded, nor
\* later: ProcessSentence iterates over the set itself.
OpenedStackFrozen ==
  [][\A k \in Stacks :
       k < ind \/ (k = ind /\ pc = "expand") => stack'[k] = stack[k]]_vars

\* An arc recombines with the hypothesis that holds it and is not better, and
\* once their stack is opened it knows it.
WinnerDominates ==
  \A w \in Ids : \A a \in arcs[w] :
    /\ RecombineKey(hypo[a]) = RecombineKey(hypo[w])
    /\ hypo[a].total <= hypo[w].total
    /\ (Covered(w) < ind \/ (Covered(w) = ind /\ pc = "expand")) =>
         winning[a] = w /\ winning[w] = w

\* Histogram and beam pruning lose only what they may: whatever became of a
\* hypothesis, the stack has one that recombines with it and is as good, or
\* as many as fit that are as good, or the best is better by the beam.  The
\* worst score that discards hypotheses unseen is a cached value, from the
\* last time the stack was pruned.
PruningJustified ==
  conf.diversity = 0 =>
    \A h \in Ids :
      LET stk  == stack[Covered(h)]
          asGood == {x \in stk.hypos : hypo[x].total >= hypo[h].total}
      IN  \/ \E x \in asGood : RecombineKey(hypo[x]) = RecombineKey(hypo[h])
          \/ Cardinality(asGood) >= conf.stackSize
          \/ hypo[h].total <= stk.best + conf.beamWidth

\* "minimum number of hypothesis in stack for each source word coverage":
\* every coverage keeps its share, or all it ever had.
DiversityKept ==
  conf.diversity > 0 =>
    \A b \in {hypo[h].bitmap : h \in Ids} :
      Cardinality(Covering(hypo, stack[Cardinality(b)].hypos, b)) >=
        Min({conf.diversity,
             Cardinality({RecombineKey(hypo[h]) :
                            h \in {x \in Ids : hypo[x].bitmap = b}})})

\* The tolerance of lazy pruning is enough: a stack never stays over it,
\* since a limit of D leaves at most 2^D coverages with the same number of
\* words, and the shares of the coverages fit.
StackWithinTolerance ==
  \A k \in Stacks :
    Cardinality(stack[k].hypos) <= ToleratedSize(conf, input.maxDistortion)

\* Recombination loses nothing: without pruning the answer has the best score
\* any derivation has, as long as lexical reordering looks at nothing that
\* recombination does not compare.
ExactWithoutPruning ==
  pc = "done" /\ ReorderingComparable /\ input.constraint = <<>> /\ Exhaustive =>
    \A x \in Answers :
      hypo[x].total = Max({h.total : h \in CompleteDerivations(input)})

\* However little pruning leaves and whatever the reordering rules forbid, as
\* long as these do not contradict each other, no stack comes up empty when it
\* is opened: from any hypotheses of one stack some go on to the next, so an
\* interrupted search has a partial answer too.
NoStackEmpty ==
  input.constraint = <<>> /\ Consistent(input.rc) =>
    \A k \in Stacks :
      k < ind \/ (k = ind /\ pc = "expand") => stack[k].hypos # {}

\* Stack decoding does what a decoder promises.  It ends, with or without a
\* time limit, since there is but one thread and each step makes progress.
Promise ==
  INSTANCE Decoder WITH
    sentence <- input,
    phase    <- IF Terminated THEN pc ELSE "searching",
    answers  <- IF Terminated THEN {Content(hypo[x]) : x \in Answers} ELSE {}

ImplementsDecoder == Promise!Spec

\* Ownership as a whole: the stacks, arc lists and back pointers are what their
\* types say, hypotheses have one owner, and what they point back to lives.
HypothesesOwned == TypeOK /\ OwnedOnce /\ PrevAlive

\* Pruning as a whole: it loses only what it may, each coverage keeps its
\* share, a stack stays within what lazy pruning tolerates, and none is empty
\* when its turn comes.
PruningSound ==
  PruningJustified /\ DiversityKept /\ StackWithinTolerance /\ NoStackEmpty

------------------------------------------------------------------------------
(****************************************************************************)
(* What the documentation says and the code does not do.                    *)
(****************************************************************************)

\* Parameter.cpp says of -constraint "Target sentence to produce": what an
\* exhaustive search answers is that sentence, if a derivation has it.
ProducesConstraint ==
  (/\ pc = "done" /\ Exhaustive /\ input.constraint # <<>>
   /\ \E h \in CompleteDerivations(input) : h.target = input.constraint)
  => Answers # {} /\ \A x \in Answers : hypo[x].target = input.constraint
==============================================================================
