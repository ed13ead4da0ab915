------------------------------ MODULE MertMoses ------------------------------
(****************************************************************************)
(* Minimum error rate training: scripts/training/mert-moses.pl.  The script *)
(* decodes the development set with the current weights, adds the n-best    *)
(* list to those of all earlier runs, lets cmert optimise the weights on    *)
(* all of them, and so on until nothing changes.  It may be interrupted at  *)
(* any point, and be started again with --continue in the directory that    *)
(* it left.  The decoder is MosesParallel, as with --jobs.                  *)
(****************************************************************************)
EXTENDS MosesParallel

CONSTANTS
  Confs,           \* settings: those of MosesParallel, and efficient
  Weights, Seed,   \* weight vectors, and the one to begin with
  NBestOf(_, _),   \* the n-best list of a sentence under some weights
  Optimal(_, _),   \* may cmert find these weights for some candidates?
  MaxInterrupts    \* bound on interruptions

ASSUME MertAssumption ==
  /\ Seed \in Weights /\ <<>> \notin Weights /\ MaxInterrupts \in Nat
  /\ \A w \in Weights : \A s \in 0 .. SentenceN - 1 : IsFiniteSet(NBestOf(w, s))
  /\ \A c \in Confs : c.jobs \in Nat \ {0} /\ {c.oldSGE, c.efficient} \subseteq BOOLEAN

VARIABLES
  pc,
  memory,      \* $run, %used_triples, $prev_aggregate_nbl_size, $skip_decoder
  disk,        \* the files that a later --continue finds
  pool,        \* cands.opt and feats.opt: the candidates to optimise on
  interrupts,
  optimum,     \* history: the last weights that cmert found
  damage       \* history: what an interruption or a crash destroyed

mertVars == <<pc, memory, disk, pool, interrupts, optimum, damage>>
vars == <<parallelVars, mertVars>>

None == <<>>

\* Files: the n-best lists of the runs, zipped or not; all.sorted of the
\* runs; weights.txt; finished_step.txt, 0 if there is none; moses.ini.
EmptyDisk == [list |-> <<>>, sorted |-> <<>>, weights |-> None, finished |-> 0, ini |-> None]

\* A file system: the files of some runs.
With(files, run, content) == [r \in DOMAIN files \cup {run} |-> IF r = run THEN content ELSE files[r]]
Without(files, run) == [r \in DOMAIN files \ {run} |-> files[r]]
Zip(files, zipped) == [r \in DOMAIN files |-> [files[r] EXCEPT !.zipped = zipped]]

Zipped == {r \in DOMAIN disk.list : disk.list[r].zipped}
AllListed == UNION {disk.list[r].cands : r \in Zipped}
Found(run) == IF run \in Zipped THEN disk.list[run].cands ELSE {}

Init ==
  /\ conf \in Confs /\ script = "idle" /\ todo = {} /\ job = <<>> /\ file = <<>>
  /\ seen = <<>> /\ failed = {} /\ waits = 0 /\ stale = FALSE /\ crashes = 0 /\ result = NoResult
  /\ pc = "start" /\ disk = EmptyDisk /\ pool = {} /\ interrupts = 0
  /\ memory = [run |-> 0, weights |-> Seed, prev |-> -1, skip |-> FALSE]
  /\ optimum = Seed /\ damage = {}

------------------------------------------------------------------------------
(****************************************************************************)
(* Starting, and continuing after an interruption.                          *)
(****************************************************************************)
\* Without a finished step there is nothing to continue from.
Start ==
  /\ pc = "start" \/ (pc \in {"down", "down in mert"} /\ disk.finished = 0)
  /\ memory' = [run |-> 0, weights |-> Seed, prev |-> -1, skip |-> FALSE]
  /\ pc' = "loop" /\ optimum' = Seed
  /\ UNCHANGED <<parallelVars, disk, pool, interrupts, damage>>

\* The step to continue from: the one behind the last that was finished if
\* it was decoded.
LastStep ==
  IF disk.finished + 1 \in Zipped THEN disk.finished + 1 ELSE disk.finished

\* --skip-decoder is for interruptions "during optimization".
SkipChoices == IF pc = "down in mert" THEN BOOLEAN ELSE {FALSE}

\* Mutant: the weights of the last step are not loaded.
Continue_SeedAgain ==
  /\ pc \in {"down", "down in mert"} /\ disk.finished > 0
  /\ IF LastStep \notin Zipped \/ disk.weights = None
     THEN pc' = "failed" /\ UNCHANGED memory
     ELSE /\ pc' = "loop"
          /\ \E skip \in SkipChoices :
               memory' = [run |-> LastStep, weights |-> Seed, prev |-> -1, skip |-> skip]
  /\ UNCHANGED <<parallelVars, disk, pool, interrupts, optimum, damage>>

Continue ==
  /\ pc \in {"down", "down in mert"} /\ disk.finished > 0
  /\ IF LastStep \notin Zipped \/ disk.weights = None
     THEN pc' = "failed" /\ UNCHANGED memory
     ELSE /\ pc' = "loop"
          /\ \E skip \in SkipChoices :
               memory' = [run |-> LastStep, weights |-> disk.weights, prev |-> -1, skip |-> skip]
  /\ UNCHANGED <<parallelVars, disk, pool, interrupts, optimum, damage>>

------------------------------------------------------------------------------
(****************************************************************************)
(* One run of the loop.                                                     *)
(****************************************************************************)
\* run_decoder starts the parallel script, unless it is to be skipped.
NextRun ==
  /\ pc = "loop"
  /\ memory' = [memory EXCEPT !.run = @ + 1, !.skip = FALSE]
  /\ IF memory.skip
     THEN pc' = "score" /\ UNCHANGED parallelVars
     ELSE /\ pc' = "decode" /\ StartScript
          /\ UNCHANGED <<conf, crashes, result>>
  /\ UNCHANGED <<disk, pool, interrupts, optimum, damage>>

\* What the merged n-best list has of each sentence.
Candidates ==
  UNION {LET e == result.nbest[k]
         IN  {<<e.code, h>> : h \in IF e.of = Empty THEN {Empty}
                                    ELSE NBestOf(memory.weights, e.of)}
           : k \in DOMAIN result.nbest}

DecoderDone ==
  /\ pc = "decode" /\ script = "done"
  /\ disk' = [disk EXCEPT !.list =
                With(@, memory.run, [cands |-> Candidates, zipped |-> FALSE])]
  /\ damage' = IF ~stale /\ 0 .. SentenceN - 1 \subseteq ListedSentences \cup Untranslatable
               THEN damage ELSE damage \cup {"lists"}
  /\ pc' = "gzip" /\ LeaveScript
  /\ UNCHANGED <<conf, crashes, memory, pool, interrupts, optimum>>

\* "The decoder died."
DecoderDied ==
  /\ pc = "decode" /\ script = "quit"
  /\ pc' = "down" /\ LeaveScript
  /\ UNCHANGED <<conf, crashes, memory, disk, pool, interrupts, optimum, damage>>

Gzip ==
  /\ pc = "gzip"
  /\ disk' = [disk EXCEPT !.list = Zip(@, TRUE)]
  /\ pc' = "score"
  /\ UNCHANGED <<parallelVars, memory, pool, interrupts, optimum, damage>>

\* Mutant: the traditional way scores the list of this run only.
ScoreAll_ThisRun ==
  /\ pc = "score" /\ ~conf.efficient
  /\ pool' = Found(memory.run)
  /\ pc' = "scored"
  /\ UNCHANGED <<parallelVars, memory, disk, interrupts, optimum, damage>>

\* The traditional way: all lists that are there are scored.
ScoreAll ==
  /\ pc = "score" /\ ~conf.efficient
  /\ pool' = AllListed
  /\ pc' = "scored"
  /\ UNCHANGED <<parallelVars, memory, disk, interrupts, optimum, damage>>

\* The efficient way: the list of this run is merged into the sorted file of
\* the run before, an empty one for the first run; if that is missing, the
\* sorted file is made again of all lists.
Sorted ==
  IF memory.run = 1 THEN Found(1)
  ELSE IF memory.run - 1 \in DOMAIN disk.sorted
    THEN disk.sorted[memory.run - 1] \cup Found(memory.run)
  ELSE AllListed

MergeSorted ==
  /\ pc = "score" /\ conf.efficient
  /\ disk' = [disk EXCEPT !.sorted = With(@, memory.run, Sorted)]
  /\ pc' = "merged"
  /\ UNCHANGED <<parallelVars, memory, pool, interrupts, optimum, damage>>

\* The old sorted file is removed, the new one scored.
ScoreSorted ==
  /\ pc = "merged"
  /\ disk' = [disk EXCEPT !.sorted = Without(@, memory.run - 1)]
  /\ pool' = disk.sorted[memory.run]
  /\ pc' = "scored"
  /\ UNCHANGED <<parallelVars, memory, interrupts, optimum, damage>>

\* "No new hypotheses in nbest list. Stopping."
NothingNew ==
  /\ pc = "scored" /\ Cardinality(pool) <= memory.prev
  /\ pc' = "finish"
  /\ UNCHANGED <<parallelVars, memory, disk, pool, interrupts, optimum, damage>>

\* weights.txt is removed before cmert starts.
Prepare ==
  /\ pc = "scored" /\ Cardinality(pool) > memory.prev
  /\ memory' = [memory EXCEPT !.prev = Cardinality(pool)]
  /\ disk' = [disk EXCEPT !.weights = None]
  /\ pc' = "cmert"
  /\ UNCHANGED <<parallelVars, pool, interrupts, optimum, damage>>

Cmert ==
  /\ pc = "cmert"
  /\ \E w \in Weights :
       /\ Optimal(w, pool)
       /\ disk' = [disk EXCEPT !.weights = w] /\ optimum' = w
  /\ pool' = {} /\ pc' = "store"
  /\ UNCHANGED <<parallelVars, memory, interrupts, damage>>

\* store_new_lambda_values, finished_step.txt, and the second way to stop:
\* "None of the weights changed".
FinishStep ==
  /\ pc = "store"
  /\ memory' = [memory EXCEPT !.weights = disk.weights]
  /\ disk' = [disk EXCEPT !.finished = memory.run]
  /\ pc' = IF disk.weights = memory.weights THEN "finish" ELSE "loop"
  /\ UNCHANGED <<parallelVars, pool, interrupts, optimum, damage>>

Finish ==
  /\ pc = "finish"
  /\ disk' = [disk EXCEPT !.ini = memory.weights, !.finished = memory.run,
                          !.sorted = Without(@, memory.run)]
  /\ pc' = "done"
  /\ UNCHANGED <<parallelVars, memory, pool, interrupts, optimum, damage>>

------------------------------------------------------------------------------
(****************************************************************************)
(* Interruptions.                                                           *)
(****************************************************************************)
Stopped == {"start", "down", "down in mert", "failed", "done"}

\* The script dies: a signal, which the parallel script gets too, or one of
\* its commands failed.  A file that sort is writing stays incomplete, and
\* lists that were unzipped to be sorted stay unzipped.
Interrupt ==
  /\ pc \notin Stopped /\ interrupts < MaxInterrupts
  /\ interrupts' = interrupts + 1
  /\ pc' = IF pc \in {"score", "merged", "scored", "cmert"} THEN "down in mert" ELSE "down"
  /\ \/ UNCHANGED <<disk, damage>>
     \/ /\ pc = "score" /\ conf.efficient
        /\ disk' = [disk EXCEPT
             !.sorted = With(@, memory.run, {}),
             !.list = IF memory.run = 1 \/ memory.run - 1 \in DOMAIN disk.sorted THEN @
                      ELSE Zip(@, FALSE)]
        /\ damage' = damage \cup {"sorted"}
  /\ LeaveScript /\ pool' = {}
  /\ UNCHANGED <<conf, crashes, memory, optimum>>

------------------------------------------------------------------------------
Decoding ==
  pc = "decode" /\ ParallelNext /\ UNCHANGED mertVars

Next ==
  \/ Start \/ Continue \/ NextRun \/ Decoding \/ DecoderDone \/ DecoderDied
  \/ Gzip \/ ScoreAll \/ MergeSorted \/ ScoreSorted \/ NothingNew \/ Prepare
  \/ Cmert \/ FinishStep \/ Finish \/ Interrupt

\* The steps of the two scripts and of the jobs, each of which goes on by
\* itself; crashes, interruptions and what the user does need not happen.
Steps ==
  \/ NextRun \/ DecoderDone \/ DecoderDied \/ Gzip \/ ScoreAll \/ MergeSorted
  \/ ScoreSorted \/ NothingNew \/ Prepare \/ Cmert \/ FinishStep \/ Finish
  \/ Decoding

\* Files come into sight in the end, and there is always another wait.
Appearing == pc = "decode" /\ (\E i \in DOMAIN job : Appear(i)) /\ UNCHANGED mertVars

Spec == Init /\ [][Next]_vars /\ WF_vars(Steps) /\ SF_vars(Appearing)

------------------------------------------------------------------------------
(****************************************************************************)
(* Properties.                                                              *)
(****************************************************************************)
AllCandidates == UNION {disk.list[r].cands : r \in DOMAIN disk.list}

\* However often the training was interrupted, and whichever way of scoring
\* is used: the weights are optimised on the lists of all runs there were.
PoolComplete ==
  pc = "scored" /\ "sorted" \notin damage => pool = AllCandidates

\* From the jobs to the optimiser: each run is decoded as by one decoder, and
\* no list is lost on the way from one run to the next.
PoolFaithful == MergedAsOne /\ PoolComplete

\* The training stops at a fixed point: the weights in moses.ini are optimal
\* for all candidates, and the decoder finds no candidate with them that is
\* not there yet.
Converged ==
  pc = "done" /\ damage = {} =>
    /\ Optimal(disk.ini, AllCandidates)
    /\ \A s \in (0 .. SentenceN - 1) \ Untranslatable :
         \A h \in NBestOf(disk.ini, s) : <<s, h>> \in AllCandidates

\* The decoder runs with the weights cmert found last, in whichever process.
DecodesWithOptimum == pc = "decode" => memory.weights = optimum

\* Both: in whichever process it goes on, tuning goes from optimum to optimum,
\* and ends at one that decodes to no new candidate.
TuningOptimal == Converged /\ DecodesWithOptimum

\* The training ends, unless interrupted: each run adds candidates or is the
\* last, and there are only so many candidates.
TrainingEnds == <>[](pc \in Stopped)

------------------------------------------------------------------------------
(****************************************************************************)
(* What the documentation says and the code does not do.                    *)
(****************************************************************************)
\* --continue: "continue from the last achieved state", and --skip-decoder is
\* for those who "got interrupted during optimization": an interruption does
\* not make it impossible.
ContinuesAfterInterruption == pc # "failed"
==============================================================================
