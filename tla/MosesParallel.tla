---------------------------- MODULE MosesParallel ----------------------------
(****************************************************************************)
(* Decoding on a cluster: scripts/generic/moses-parallel.pl, the jobs it    *)
(* submits and the queue that runs them.  The input is split into parts, a  *)
(* job translates each part, the script waits for all of them, submits      *)
(* those again whose translation is incomplete, and in the end puts the     *)
(* results together as if one decoder had made them.                        *)
(*                                                                          *)
(* Sentences are numbered from 0.  A file is the number of sentences it has *)
(* something about.  Jobs run side by side; a decoder may crash and a node  *)
(* may fail at any point, MaxCrashes times in all.                          *)
(****************************************************************************)
EXTENDS Integers, FiniteSetsExt, Sequences

CONSTANTS
  SentenceN,       \* the number of sentences of the input
  Untranslatable,  \* the sentences for which no n-best list is written
  MaxCrashes,      \* bound on crashes of decoders and nodes
  MaxWaits         \* 60 in the code

ASSUME ParallelAssumption ==
  /\ SentenceN \in Nat \ {0} /\ Untranslatable \subseteq 0 .. SentenceN - 1
  /\ MaxCrashes \in Nat /\ MaxWaits \in Nat \ {0}

VARIABLES
  conf,     \* -jobs and -old-sge; -robust is the default and has no negation
  script,   \* where the script is
  todo,     \* @idx_todo, the parts to submit
  job,      \* the job of each part, and what it has written to $tmpdir
  file,     \* the files that were moved to the working directory
  seen,     \* those files as the submitting host sees them
  failed,   \* the parts whose output has "exit status 1"
  waits,    \* extra waits of this round
  stale,    \* history: a check took an older output for that of the last job
  crashes,
  result    \* the files made of all parts, in the end

parallelVars == <<conf, script, todo, job, file, seen, failed, waits, stale, crashes, result>>

------------------------------------------------------------------------------
(****************************************************************************)
(* The parts.                                                               *)
(****************************************************************************)
SplitN(c) ==
  LET jobs == Min({c.jobs, SentenceN})
  IN  SentenceN \div jobs + (IF SentenceN % jobs = 0 THEN 0 ELSE 1)

\* The last part may be short, and there may be fewer parts than jobs.
Parts(c) == 1 .. (SentenceN + SplitN(c) - 1) \div SplitN(c)

PartSize(i) == Min({SplitN(conf), SentenceN - (i - 1) * SplitN(conf)})

\* The sentence at position k, from 0, of a part.
Sentence(i, k) == (i - 1) * SplitN(conf) + k

Missing == [lines |-> -1, lists |-> -1]

\* The two files that are made of all parts, and where the loops are: the
\* part, what it has of each file, its next list, the last number written
\* and the number of sentences before it.
NoResult == [best |-> <<>>, nbest |-> <<>>, part |-> 1, open |-> Missing, list |-> 0,
             oldcode |-> 0, offset |-> 0]

\* The script starts: the input split, nothing translated.
StartScript ==
  /\ script' = "submit" /\ todo' = Parts(conf)
  /\ job' = [i \in Parts(conf) |-> [step |-> "none", lines |-> 0, lists |-> 0]]
  /\ file' = [i \in Parts(conf) |-> Missing] /\ seen' = file'
  /\ failed' = {} /\ waits' = 0 /\ stale' = FALSE

\* And ends: its temporary files, named after its process, mean no more.
LeaveScript ==
  /\ script' = "idle" /\ todo' = {} /\ job' = <<>> /\ file' = <<>> /\ seen' = <<>>
  /\ failed' = {} /\ waits' = 0 /\ stale' = FALSE /\ result' = NoResult

------------------------------------------------------------------------------
(****************************************************************************)
(* A job: the decoder, which writes each translation and then its n-best    *)
(* list, and the two moves of the script that runs it.                      *)
(****************************************************************************)
Submit ==
  /\ script = "submit"
  /\ job' = [i \in DOMAIN job |->
               IF i \in todo THEN [step |-> "decode", lines |-> 0, lists |-> 0]
               ELSE job[i]]
  /\ script' = "hold" /\ waits' = 0
  /\ UNCHANGED <<conf, todo, file, seen, failed, stale, crashes, result>>

InJob(i, step) == i \in DOMAIN job /\ job[i].step = step

OutputBestHypo(i) ==
  /\ InJob(i, "decode") /\ job[i].lines = job[i].lists /\ job[i].lines < PartSize(i)
  /\ job' = [job EXCEPT ![i].lines = @ + 1]
  /\ UNCHANGED <<conf, script, todo, file, seen, failed, waits, stale, crashes, result>>

OutputNBestList(i) ==
  /\ InJob(i, "decode") /\ job[i].lists < job[i].lines
  /\ job' = [job EXCEPT ![i].lists = @ + 1]
  /\ UNCHANGED <<conf, script, todo, file, seen, failed, waits, stale, crashes, result>>

DecoderEnds(i) ==
  /\ InJob(i, "decode") /\ job[i].lists = PartSize(i)
  /\ job' = [job EXCEPT ![i].step = "move nbest"]
  /\ UNCHANGED <<conf, script, todo, file, seen, failed, waits, stale, crashes, result>>

\* The script of the job goes on after a crash and moves what there is.
DecoderCrashes(i) ==
  /\ InJob(i, "decode") /\ crashes < MaxCrashes
  /\ job' = [job EXCEPT ![i].step = "move nbest"]
  /\ failed' = failed \cup {i} /\ crashes' = crashes + 1
  /\ UNCHANGED <<conf, script, todo, file, seen, waits, stale, result>>

MoveNBest(i) ==
  /\ InJob(i, "move nbest")
  /\ file' = [file EXCEPT ![i].lists = job[i].lists]
  /\ job' = [job EXCEPT ![i].step = "move trans"]
  /\ UNCHANGED <<conf, script, todo, seen, failed, waits, stale, crashes, result>>

MoveTrans(i) ==
  /\ InJob(i, "move trans")
  /\ file' = [file EXCEPT ![i].lines = job[i].lines]
  /\ job' = [job EXCEPT ![i].step = "ended"]
  /\ UNCHANGED <<conf, script, todo, seen, failed, waits, stale, crashes, result>>

\* The node fails or the queue kills the job: nothing more is moved.
NodeFails(i) ==
  /\ i \in DOMAIN job /\ job[i].step \notin {"none", "ended"} /\ crashes < MaxCrashes
  /\ job' = [job EXCEPT ![i].step = "ended"]
  /\ crashes' = crashes + 1
  /\ UNCHANGED <<conf, script, todo, file, seen, failed, waits, stale, result>>

\* Files come into sight of the submitting host with a delay.
Appear(i) ==
  /\ conf.oldSGE /\ InJob(i, "ended") /\ seen[i] # file[i]
  /\ seen' = [seen EXCEPT ![i] = file[i]]
  /\ UNCHANGED <<conf, script, todo, job, file, failed, waits, stale, crashes, result>>

------------------------------------------------------------------------------
(****************************************************************************)
(* Waiting, checking, and submitting again.                                 *)
(****************************************************************************)
\* Where the code has the extra wait, files may be out of sight.
Visible(i) == IF conf.oldSGE THEN seen[i] ELSE file[i]

check_translation == {i \in todo : Visible(i).lines # PartSize(i)}

check_exit_status == failed # {}

JobsEnded ==
  /\ script = "hold" /\ \A i \in todo : job[i].step = "ended"
  /\ script' = IF conf.oldSGE THEN "extra wait" ELSE "check"
  /\ UNCHANGED <<conf, todo, job, file, seen, failed, waits, stale, crashes, result>>

\* Mutant: the waits are not counted.
ExtraWait_NotCounted ==
  /\ script = "extra wait"
  /\ IF check_exit_status \/ check_translation # {}
     THEN UNCHANGED <<waits, script>>
     ELSE script' = "check" /\ UNCHANGED waits
  /\ UNCHANGED <<conf, todo, job, file, seen, failed, stale, crashes, result>>

\* While something looks wrong: MaxWaits times.
ExtraWait ==
  /\ script = "extra wait"
  /\ IF (check_exit_status \/ check_translation # {}) /\ waits + 1 < MaxWaits
     THEN waits' = waits + 1 /\ UNCHANGED script
     ELSE script' = "check" /\ UNCHANGED waits
  /\ UNCHANGED <<conf, todo, job, file, seen, failed, stale, crashes, result>>

kill_all_and_quit ==
  /\ script' = "quit"
  /\ job' = [i \in DOMAIN job |-> [job[i] EXCEPT !.step = "none"]]
  /\ UNCHANGED <<conf, todo, file, seen, failed, waits, stale, crashes, result>>

\* Everything crashed: not to be submitted again.
GiveUp ==
  /\ script = "check" /\ check_translation = DOMAIN job
  /\ kill_all_and_quit

\* What is seen of the part is what its last job has made, all of it.
Fresh(i) ==
  /\ Visible(i) = file[i]
  /\ file[i] = [lines |-> job[i].lines, lists |-> job[i].lists]

\* Some parts crashed, or none: the exit status no longer counts.
CheckJobs ==
  /\ script = "check" /\ check_translation # DOMAIN job
  /\ todo' = check_translation
  /\ script' = IF check_translation = {} THEN "merge" ELSE "submit"
  /\ stale' = (stale \/ \E i \in todo \ check_translation : ~Fresh(i))
  /\ UNCHANGED <<conf, job, file, seen, failed, waits, crashes, result>>

------------------------------------------------------------------------------
(****************************************************************************)
(* Putting the parts together.                                              *)
(****************************************************************************)
\* The translations of a part.
LinesOf(i) == [k \in 1 .. Visible(i).lines |-> Sentence(i, k - 1)]

\* concatenate_1best, part by part.
concatenate_1best ==
  /\ script = "merge"
  /\ result' = [result EXCEPT !.best = @ \o LinesOf(result.part),
                              !.part = IF @ = Len(job) THEN 1 ELSE @ + 1]
  /\ script' = IF result.part = Len(job) THEN "open" ELSE "merge"
  /\ UNCHANGED <<conf, todo, job, file, seen, failed, waits, stale, crashes>>

\* concatenate_nbest counts the translations of a part and opens its lists.
OpenLists ==
  /\ script = "open"
  /\ result' = [result EXCEPT !.open = Visible(result.part)]
  /\ script' = "lists"
  /\ UNCHANGED <<conf, todo, job, file, seen, failed, waits, stale, crashes>>

\* An entry of the merged n-best list: its number, and the sentence the list
\* is of, or Empty for the fictitious list that fills a hole.
Empty == -1

\* Sentences between two numbers; the number before the first list is 0.
Holes(oldcode, code) ==
  [k \in 1 .. code - oldcode - 1 |-> [code |-> oldcode + k, of |-> Empty]]

\* The next list of the part is numbered from where the part begins.
AddList ==
  /\ script = "lists" /\ result.list < result.open.lists
  /\ LET sentence == Sentence(result.part, result.list)
         code     == result.offset + result.list
         holes    == Holes(result.oldcode, code)
     IN  result' = IF sentence \in Untranslatable
                   THEN [result EXCEPT !.list = @ + 1]
                   ELSE [result EXCEPT
                           !.nbest = @ \o holes \o <<[code |-> code, of |-> sentence]>>,
                           !.oldcode = code, !.list = @ + 1]
  /\ UNCHANGED <<conf, script, todo, job, file, seen, failed, waits, stale, crashes>>

\* The holes at the end of the part.
EndPart ==
  /\ script = "lists" /\ result.list >= result.open.lists
  /\ LET end == result.offset + result.open.lines
     IN  result' = [result EXCEPT !.nbest = @ \o Holes(result.oldcode, end),
                                  !.oldcode = IF @ < end THEN end - 1 ELSE @,
                                  !.offset = end, !.part = @ + 1, !.list = 0]
  /\ script' = IF result.part = Len(job) THEN "done" ELSE "open"
  /\ UNCHANGED <<conf, todo, job, file, seen, failed, waits, stale, crashes>>

------------------------------------------------------------------------------
ParallelNext ==
  \/ Submit \/ JobsEnded \/ ExtraWait \/ CheckJobs \/ GiveUp
  \/ concatenate_1best \/ OpenLists \/ AddList \/ EndPart
  \/ \E i \in DOMAIN job :
       \/ OutputBestHypo(i) \/ OutputNBestList(i) \/ DecoderEnds(i)
       \/ MoveNBest(i) \/ MoveTrans(i)
       \/ DecoderCrashes(i) \/ NodeFails(i) \/ Appear(i)

------------------------------------------------------------------------------
(****************************************************************************)
(* Properties.                                                              *)
(****************************************************************************)
\* The sentences of which the merged n-best list has a list.
ListedSentences == {e.of : e \in {result.nbest[k] : k \in DOMAIN result.nbest}} \ {Empty}

\* Whatever crashed and was submitted again, the merged files are those of
\* one decoder: each translation once and in order; each n-best list under
\* the number of its sentence, in order; a fictitious list for each sentence
\* without one (but the first: see the hazards).  A list is missing only if
\* the decoder crashed in between the last translation of a part and its
\* list: the lists come from the same attempt as the translations.  (Unless
\* the output of an earlier attempt came into sight after all the waits, when
\* the part was submitted again: then it may be taken for the new one.)
MergedAsOne ==
  script = "done" /\ ~stale =>
    LET nbest == result.nbest
    IN  /\ result.best = [k \in 1 .. SentenceN |-> k - 1]
        /\ \A k \in DOMAIN nbest : nbest[k].of \in {nbest[k].code, Empty}
        /\ \A k, l \in DOMAIN nbest : k < l => nbest[k].code < nbest[l].code
        /\ {nbest[k].code : k \in DOMAIN nbest} \cup {0} = 0 .. SentenceN - 1
        /\ \A i \in DOMAIN job : \A k \in 0 .. PartSize(i) - 2 :
             Sentence(i, k) \in ListedSentences \cup Untranslatable
==============================================================================
