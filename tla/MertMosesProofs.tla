--------------------------- MODULE MertMosesProofs ---------------------------
(****************************************************************************)
(* What the tuning run of mert-moses.pl promises, for any number of         *)
(* sentences, runs, crashes and interruptions, any weights and n-best lists, *)
(* and any cmert that finds weights which are optimal for the candidates it *)
(* is given.                                                                *)
(*                                                                          *)
(* TuningInv is inductive.  Its first part, ParallelInv, is about the       *)
(* script that decodes in parallel.  FilesInv says which files of which     *)
(* runs can be left in the directory, however often a training was          *)
(* interrupted and continued, so that no run ever reads the sorted file of  *)
(* a run that has since been decoded again; WeightsInv that every process   *)
(* decodes with what cmert found last; Fixpoint that the weights are optimal *)
(* for the candidates of the runs before, which is what ends the loop when  *)
(* no run adds one.  They are claimed only where damage and stale record no *)
(* accident that the scripts cannot see.                                    *)
(****************************************************************************)
EXTENDS MertMoses, FiniteSetTheorems, SequenceTheorems, TLAPS

------------------------------------------------------------------------------
(****************************************************************************)
(* The script that decodes in parallel: the merged files are those of one   *)
(* decoder, MergedAsOne, for any number of sentences, jobs, crashes and     *)
(* waits.                                                                   *)
(*                                                                          *)
(* ParallelInv is inductive for the steps of the script and its jobs.  It   *)
(* says of the jobs that none runs behind the back of a check (JobsStand);  *)
(* of a part that is no longer to be submitted that what is seen of it is   *)
(* all that its last job has made (Accepted), unless a check was deceived,  *)
(* which stale records; of the merge that the files have exactly the        *)
(* sentences before the place where the loops are (Merged); and of a        *)
(* cluster without the delay that nothing old is ever seen (Prompt).        *)
(****************************************************************************)

Sentences == 0 .. SentenceN - 1
Counts(j) == [lines |-> j.lines, lists |-> j.lists]
JobSteps == {"none", "decode", "move nbest", "move trans", "ended"}
Jobs  == [step : JobSteps, lines : Nat, lists : Nat]
Files == [lines : Int, lists : Int]
Entries == [code : Int, of : Sentences \cup {Empty}]
Scripts == {"idle", "submit", "hold", "extra wait", "check", "quit",
            "merge", "open", "lists", "done"}
Merging == {"merge", "open", "lists", "done"}

\* What one decoder can have written of a part.
JobOK(i) ==
  /\ job[i].lines <= PartSize(i)
  /\ job[i].lists \in {job[i].lines - 1, job[i].lines}

FileOK(f, i) == f.lists <= PartSize(i)

Results == [best : Seq(Int), nbest : Seq(Entries), part : Nat, open : Files, list : Nat,
            oldcode : Int, offset : Int]

RunningType ==
  /\ job \in [Parts(conf) -> Jobs] /\ \A i \in Parts(conf) : JobOK(i)
  /\ file \in [Parts(conf) -> Files] /\ \A i \in Parts(conf) : FileOK(file[i], i)
  /\ seen \in [Parts(conf) -> Files] /\ \A i \in Parts(conf) : FileOK(seen[i], i)
  /\ todo \subseteq Parts(conf)
  /\ script \in {"merge", "open", "lists"} => result.part \in Parts(conf)
  /\ script \in Merging => todo = {}
  /\ script = "lists" => FileOK(result.open, result.part)

ParallelType ==
  /\ conf.jobs \in Nat \ {0} /\ conf.oldSGE \in BOOLEAN /\ conf.efficient \in BOOLEAN
  /\ script \in Scripts /\ result \in Results /\ stale \in BOOLEAN
  /\ script = "idle" \/ (script = "quit" /\ ~conf.oldSGE) => ~stale
  /\ script \notin Merging => result = NoResult
  /\ script # "idle" => RunningType

Working == script \notin {"idle", "quit"}

\* The part is done: all of its translations, as its last job made them.
Done(i) ==
  /\ job[i].step = "ended" /\ Fresh(i) /\ file[i].lines = PartSize(i)

JobsStand ==
  /\ Working /\ script # "hold" => \A i \in todo : job[i].step \in {"none", "ended"}
  /\ script \in {"extra wait", "check"} => \A i \in todo : job[i].step = "ended"

Accepted == Working /\ ~stale => \A i \in Parts(conf) \ todo : Done(i)

Before(i) == (i - 1) * SplitN(conf)
UpTo(n) == [k \in 1 .. n |-> k - 1]

Numbers(s) == {s[k].code : k \in DOMAIN s}
ListsOf(s) == {s[k].of : k \in DOMAIN s}

\* A merged list s of the sentences before cur, old its last number.
ListOK(s, old, cur) ==
  /\ old \in Nat
  /\ \A k \in DOMAIN s : s[k].of \in {s[k].code, Empty} /\ s[k].code <= old
  /\ \A k, l \in DOMAIN s : k < l => s[k].code < s[l].code
  /\ Numbers(s) \cup {0} = 0 .. old
  /\ old < cur \/ (s = <<>> /\ old = 0)

Has(i, k) == Sentence(i, k) \in ListsOf(result.nbest) \cup Untranslatable
HasPart(i) == \A k \in 0 .. PartSize(i) - 2 : Has(i, k)

MergedBest ==
  /\ script = "merge" =>
       /\ result.best = UpTo(Before(result.part))
       /\ result = [NoResult EXCEPT !.best = result.best, !.part = result.part]
  /\ script \in {"open", "lists", "done"} => result.best = UpTo(SentenceN)

MergedLists ==
  /\ script \in {"open", "lists"} =>
       /\ result.offset = Before(result.part)
       /\ ListOK(result.nbest, result.oldcode, result.offset + result.list)
       /\ \A i \in Parts(conf) : i < result.part => HasPart(i)
       /\ \A k \in 0 .. result.list - 1 : Has(result.part, k)
  /\ script = "open" => result.list = 0
  /\ script = "lists" => result.open = file[result.part] /\ result.list <= result.open.lists
  /\ script = "done" =>
       /\ ListOK(result.nbest, SentenceN - 1, SentenceN)
       /\ \A i \in Parts(conf) : HasPart(i)

Merged == Working /\ ~stale => MergedBest /\ MergedLists

\* Without the delay a check never reads anything old.
Prompt ==
  ~conf.oldSGE /\ Working =>
    /\ ~stale /\ script # "extra wait"
    /\ script = "submit" => \A i \in todo : file[i].lines # PartSize(i)
    /\ script \in {"hold", "check"} =>
         \A i \in todo : file[i].lines = PartSize(i) =>
                           job[i].step = "ended" /\ file[i] = Counts(job[i])
    /\ \A i \in Parts(conf) : job[i].step = "move trans" => file[i].lists = job[i].lists

ParallelInv == ParallelType /\ JobsStand /\ Accepted /\ Merged /\ Prompt

------------------------------------------------------------------------------
(****************************************************************************)
(* The parts: they cut the input at Before(i), and no sentence is lost.     *)
(****************************************************************************)
\* The smaller of two numbers.
LEMMA MinOfTwo ==
  ASSUME NEW a \in Int, NEW c \in Int
  PROVE  Min({a, c}) = IF a <= c THEN a ELSE c
<1>1. \E x \in {a, c} : \A y \in {a, c} : x <= y
  BY SMT
<1>2. Min({a, c}) \in {a, c} /\ \A y \in {a, c} : Min({a, c}) <= y
  BY <1>1 DEF Min
<1>3. QED
  BY <1>2

\* Division of natural numbers.
LEMMA Quotient ==
  ASSUME NEW a \in Nat, NEW b \in Nat \ {0}
  PROVE  /\ a \div b \in Nat /\ a % b \in 0 .. b - 1
         /\ a = b * (a \div b) + (a % b)
<1>1. a \div b \in Int /\ a % b \in Int
  OBVIOUS
<1>2. a % b \in 0 .. b - 1
  OBVIOUS
<1>3. a = b * (a \div b) + (a % b)
  OBVIOUS
<1>4. a \div b >= 0
  <2>1. a \div b < 0 => b * (a \div b) <= -b
    <3> DEFINE q == a \div b
    <3> HIDE DEF q
    <3>1. q \in Int
      BY <1>1 DEF q
    <3>2. q < 0 => (-1 - q) * b >= 0
      BY ONLY <3>1, b \in Nat
    <3>3. QED
      BY <3>1, <3>2 DEF q
  <2>2. QED
    BY <1>1, <1>2, <1>3, <2>1
<1>5. QED
  BY <1>1, <1>2, <1>3, <1>4

\* A part has at least one sentence and at most all.
LEMMA SplitNIs ==
  ASSUME conf.jobs \in Nat \ {0}
  PROVE  SplitN(conf) \in 1 .. SentenceN
<1> DEFINE jobs == Min({conf.jobs, SentenceN})
<1>1. SentenceN \in Nat \ {0}
  BY ParallelAssumption
<1>2. jobs \in Nat \ {0} /\ jobs <= SentenceN
  BY <1>1, MinOfTwo
<1> HIDE DEF jobs
<1> DEFINE q == SentenceN \div jobs
           r == SentenceN % jobs
<1>3. q \in Nat /\ r \in 0 .. jobs - 1 /\ SentenceN = jobs * q + r
  BY <1>1, <1>2, Quotient
<1> HIDE DEF q, r
<1>4. SplitN(conf) = q + (IF r = 0 THEN 0 ELSE 1)
  BY DEF SplitN, jobs, q, r
<1>5. q > 0
  <2>1. q = 0 => jobs * q = 0
    BY ONLY <1>2, <1>3
  <2>2. QED
    BY ONLY <1>1, <1>2, <1>3, <2>1
<1>6. CASE jobs = 1
  BY ONLY <1>1, <1>3, <1>4, <1>5, <1>6
<1>7. CASE jobs > 1
  <2>1. jobs * q >= 2 * q
    <3>1. (jobs - 2) * q >= 0
      BY ONLY <1>2, <1>3, <1>7
    <3>2. QED
      BY ONLY <1>2, <1>3, <3>1
  <2>2. QED
    BY ONLY <1>1, <1>2, <1>3, <1>4, <1>5, <2>1, jobs * q \in Nat
<1>8. QED
  BY <1>2, <1>6, <1>7

\* The parts are numbered from 1, and the last is not empty.
LEMMA PartsAre ==
  ASSUME conf.jobs \in Nat \ {0}
  PROVE  \E last \in Nat \ {0} :
           /\ Parts(conf) = 1 .. last
           /\ (last - 1) * SplitN(conf) < SentenceN
           /\ SentenceN <= last * SplitN(conf)
<1> DEFINE n == SplitN(conf)
<1>1. n \in Nat \ {0} /\ SentenceN \in Nat \ {0}
  BY SplitNIs, ParallelAssumption
<1>2. Parts(conf) = 1 .. (SentenceN + n - 1) \div n
  BY DEF Parts
<1> HIDE DEF n
<1>3. SentenceN + n - 1 \in Nat
  BY <1>1
<1> DEFINE a == SentenceN + n - 1
           last == a \div n
           r == a % n
<1>4. last \in Nat /\ r \in 0 .. n - 1 /\ a = n * last + r
  <2> HIDE DEF a
  <2>1. QED
    BY <1>1, a \in Nat, Quotient DEF a
<1>5. Parts(conf) = 1 .. last
  BY <1>2
<1>6. a = SentenceN + n - 1
  OBVIOUS
<1> HIDE DEF a, last, r
<1>7. n * last = last * n /\ (last - 1) * n = last * n - n /\ last * n \in Nat
  BY ONLY <1>1, <1>4
<1>8. (last - 1) * n < SentenceN /\ SentenceN <= last * n
  BY ONLY <1>1, <1>4, <1>6, <1>7
<1>9. last # 0
  BY ONLY <1>1, <1>8, <1>4
<1>10. QED
  BY <1>4, <1>5, <1>8, <1>9 DEF n

\* A part begins where the one before it ends, and the last ends with the
\* input.
LEMMA PartFacts ==
  ASSUME conf.jobs \in Nat \ {0}, NEW i \in Parts(conf)
  PROVE  /\ i \in Nat \ {0} /\ Before(i) \in Nat
         /\ PartSize(i) \in Nat \ {0}
         /\ Before(i) + PartSize(i) <= SentenceN
         /\ i + 1 \in Parts(conf) => Before(i + 1) = Before(i) + PartSize(i)
         /\ i + 1 \notin Parts(conf) => Before(i) + PartSize(i) = SentenceN
         /\ 1 \in Parts(conf) /\ Before(1) = 0
<1> DEFINE n == SplitN(conf)
<1>1. n \in Nat \ {0} /\ SentenceN \in Nat \ {0}
  BY SplitNIs, ParallelAssumption
<1>2. PICK last \in Nat \ {0} : /\ Parts(conf) = 1 .. last
                                /\ (last - 1) * n < SentenceN
                                /\ SentenceN <= last * n
  BY PartsAre
<1>3. /\ Before(i) = (i - 1) * n
      /\ Before(i + 1) = (i + 1 - 1) * n
      /\ Before(1) = (1 - 1) * n
  <2>1. Before(i) = (i - 1) * n
    BY DEF Before
  <2>2. Before(1) = (1 - 1) * n
    BY DEF Before
  <2>3. Before(i + 1) = (i + 1 - 1) * n
    <3>1. i + 1 \in Int /\ i \in Int
      BY <1>2
    <3>2. QED
      BY <1>1, <3>1 DEF Before
  <2>4. QED
    BY <2>1, <2>2, <2>3
<1>4. PartSize(i) = Min({n, SentenceN - (i - 1) * n})
  BY DEF PartSize
<1> HIDE DEF n
<1>5. i \in Nat \ {0} /\ i <= last
  BY <1>2
<1>6. (i - 1) * n \in Nat /\ (i + 1 - 1) * n = (i - 1) * n + n /\ (1 - 1) * n = 0
  BY ONLY <1>1, <1>5
<1>7. PartSize(i) = IF n <= SentenceN - (i - 1) * n THEN n ELSE SentenceN - (i - 1) * n
  BY <1>1, <1>4, <1>6, MinOfTwo
<1>8. (i - 1) * n <= (last - 1) * n
  <2>1. (last - i) * n >= 0
    BY ONLY <1>1, <1>2, <1>5
  <2>2. QED
    BY ONLY <1>1, <1>2, <1>5, <2>1
<1>9. i # last => (i - 1) * n + n <= (last - 1) * n
  <2>1. i # last => (last - 1 - i) * n >= 0
    BY ONLY <1>1, <1>2, <1>5
  <2>2. QED
    BY ONLY <1>1, <1>2, <1>5, <2>1
<1>10. i = last => last * n = (i - 1) * n + n
  BY ONLY <1>1, <1>2, <1>5
<1>11. (last - 1) * n \in Int /\ last * n \in Int
  BY <1>1, <1>2
<1>12. i + 1 \in Parts(conf) <=> i # last
  BY <1>2, <1>5
<1>13. 1 \in Parts(conf)
  BY <1>2
<1>14. QED
  BY <1>1, <1>2, <1>3, <1>5, <1>6, <1>7, <1>8, <1>9, <1>10, <1>11, <1>12, <1>13

\* The number of the next list, and its sentence.
LEMMA SentenceIs ==
  ASSUME conf.jobs \in Nat \ {0}, NEW i \in Parts(conf), NEW k \in Nat
  PROVE  /\ Sentence(i, k) = Before(i) + k
         /\ k < PartSize(i) => Sentence(i, k) \in Sentences
<1>1. Sentence(i, k) = Before(i) + k
  BY DEF Sentence, Before
<1>2. SentenceN \in Nat
  BY ParallelAssumption
<1>3. QED
  BY <1>1, <1>2, PartFacts DEF Sentences

------------------------------------------------------------------------------
(****************************************************************************)
(* The pieces of the merged files.                                          *)
(****************************************************************************)
\* The fictitious lists between two numbers.
LEMMA HolesAre ==
  ASSUME NEW a \in Int, NEW b \in Int
  PROVE  /\ Holes(a, b) \in Seq(Entries)
         /\ Len(Holes(a, b)) = IF b - a - 1 > 0 THEN b - a - 1 ELSE 0
         /\ \A k \in 1 .. Len(Holes(a, b)) :
              Holes(a, b)[k].code = a + k /\ Holes(a, b)[k].of = Empty
<1> DEFINE n == IF b - a - 1 > 0 THEN b - a - 1 ELSE 0
<1>1. n \in Nat /\ 1 .. b - a - 1 = 1 .. n
  OBVIOUS
<1> HIDE DEF n
<1>2. Holes(a, b) = [k \in 1 .. n |-> [code |-> a + k, of |-> Empty]]
  BY <1>1 DEF Holes
<1>3. \A k \in 1 .. n : [code |-> a + k, of |-> Empty] \in Entries
  BY <1>1 DEF Entries
<1>4. Holes(a, b) \in [1 .. n -> Entries]
  BY <1>2, <1>3
<1>5. Holes(a, b) \in Seq(Entries) /\ Len(Holes(a, b)) = n
  BY <1>1, <1>4, SeqDef
<1>6. \A k \in 1 .. n : Holes(a, b)[k].code = a + k /\ Holes(a, b)[k].of = Empty
  BY <1>2
<1>7. QED
  BY <1>5, <1>6 DEF n

\* The translations of a part continue those of the parts before.
LEMMA LinesAre ==
  ASSUME conf.jobs \in Nat \ {0}, NEW i \in Parts(conf), Visible(i).lines \in Int
  PROVE  /\ LinesOf(i) \in Seq(Int)
         /\ Visible(i).lines \in Nat =>
              LinesOf(i) = [k \in 1 .. Visible(i).lines |-> Before(i) + k - 1]
<1> DEFINE m == Visible(i).lines
           n == IF m > 0 THEN m ELSE 0
<1>1. n \in Nat /\ 1 .. m = 1 .. n
  OBVIOUS
<1>2. Before(i) \in Nat
  BY PartFacts
<1> HIDE DEF m, n
<1>3. \A k \in 1 .. n : Sentence(i, k - 1) = Before(i) + k - 1
  <2>1. SUFFICES ASSUME NEW k \in 1 .. n
                 PROVE  Sentence(i, k - 1) = Before(i) + k - 1
    OBVIOUS
  <2>2. k - 1 \in Nat
    BY <1>1
  <2>3. Sentence(i, k - 1) = Before(i) + (k - 1)
    BY <2>2, SentenceIs
  <2>4. QED
    BY <1>1, <1>2, <2>3
<1>4. LinesOf(i) = [k \in 1 .. n |-> Before(i) + k - 1]
  BY <1>1, <1>3 DEF LinesOf, m
<1>5. \A k \in 1 .. n : Before(i) + k - 1 \in Int
  BY <1>1, <1>2
<1>6. QED
  BY <1>1, <1>4, <1>5 DEF m, n

------------------------------------------------------------------------------
(****************************************************************************)
(* The jobs.                                                                *)
(****************************************************************************)
\* Every step of a job, and the files that appear.
PartStep(i) ==
  \/ OutputBestHypo(i) \/ OutputNBestList(i) \/ DecoderEnds(i)
  \/ MoveNBest(i) \/ MoveTrans(i)
  \/ DecoderCrashes(i) \/ NodeFails(i) \/ Appear(i)

\* What is seen of a part is some file of it.
LEMMA VisibleType ==
  ASSUME RunningType, conf.oldSGE \in BOOLEAN, NEW i \in Parts(conf)
  PROVE  Visible(i) \in Files /\ FileOK(Visible(i), i)
BY DEF RunningType, Visible

\* A step of a job, or of its files, touches this part only, and a part
\* whose job has not been submitted or has ended only comes into sight.
LEMMA PartStepIs ==
  ASSUME ParallelType, RunningType, NEW i \in Parts(conf), PartStep(i)
  PROVE  /\ conf' = conf /\ script' = script /\ todo' = todo /\ result' = result
         /\ stale' = stale
         /\ job' \in [Parts(conf) -> Jobs] /\ file' \in [Parts(conf) -> Files]
         /\ seen' \in [Parts(conf) -> Files]
         /\ JobOK(i)' /\ FileOK(file'[i], i) /\ FileOK(seen'[i], i)
         /\ \A j \in Parts(conf) \ {i} :
              job'[j] = job[j] /\ file'[j] = file[j] /\ seen'[j] = seen[j]
         /\ \/ job[i].step \notin {"none", "ended"}
            \/ Appear(i)
<1>1. /\ job \in [Parts(conf) -> Jobs] /\ file \in [Parts(conf) -> Files]
      /\ seen \in [Parts(conf) -> Files] /\ JobOK(i) /\ FileOK(file[i], i) /\ FileOK(seen[i], i)
      /\ PartSize(i) \in Nat \ {0} /\ DOMAIN job = Parts(conf)
  BY PartFacts DEF RunningType, ParallelType
<1>2. conf' = conf /\ script' = script /\ todo' = todo /\ result' = result /\ stale' = stale
  BY DEF PartStep, OutputBestHypo, OutputNBestList, DecoderEnds, MoveNBest, MoveTrans,
         DecoderCrashes, NodeFails, Appear
<1>3. PartSize(i)' = PartSize(i)
  BY <1>2 DEF PartSize, SplitN
<1>4. CASE OutputBestHypo(i)
  <2>1. job' = [job EXCEPT ![i] = [job[i] EXCEPT !.lines = job[i].lines + 1]] /\
        UNCHANGED <<file, seen>>
    BY <1>4 DEF OutputBestHypo
  <2>2. job[i].lines < PartSize(i) /\ job[i].lists = job[i].lines /\ job[i].step = "decode"
    BY <1>4 DEF OutputBestHypo, InJob
  <2> DEFINE new == [job[i] EXCEPT !.lines = job[i].lines + 1]
  <2>3. job[i] \in Jobs
    BY <1>1
  <2>4. new = [step |-> job[i].step, lines |-> job[i].lines + 1, lists |-> job[i].lists]
    BY <2>3 DEF Jobs
  <2> HIDE DEF new
  <2>5. new \in Jobs /\ new.lines = job[i].lines + 1 /\ new.lists = job[i].lists
    BY <2>3, <2>4 DEF Jobs
  <2>6. job' = [job EXCEPT ![i] = new]
    BY <2>1 DEF new
  <2>7. QED
    BY <1>1, <1>2, <1>3, <2>1, <2>2, <2>3, <2>5, <2>6 DEF JobOK, Jobs
<1>5. CASE OutputNBestList(i)
  <2>1. job' = [job EXCEPT ![i] = [job[i] EXCEPT !.lists = job[i].lists + 1]] /\
        UNCHANGED <<file, seen>>
    BY <1>5 DEF OutputNBestList
  <2>2. job[i].lists < job[i].lines /\ job[i].step = "decode"
    BY <1>5 DEF OutputNBestList, InJob
  <2> DEFINE new == [job[i] EXCEPT !.lists = job[i].lists + 1]
  <2>3. job[i] \in Jobs
    BY <1>1
  <2>4. new = [step |-> job[i].step, lines |-> job[i].lines, lists |-> job[i].lists + 1]
    BY <2>3 DEF Jobs
  <2> HIDE DEF new
  <2>5. new \in Jobs /\ new.lines = job[i].lines /\ new.lists = job[i].lists + 1
    BY <2>3, <2>4 DEF Jobs
  <2>6. job' = [job EXCEPT ![i] = new]
    BY <2>1 DEF new
  <2>7. QED
    BY <1>1, <1>2, <1>3, <2>1, <2>2, <2>3, <2>5, <2>6 DEF JobOK, Jobs
<1>6. CASE DecoderEnds(i)
  BY <1>1, <1>3, <1>6 DEF DecoderEnds, InJob, Jobs, JobSteps, JobOK
<1>7. CASE MoveNBest(i)
  <2>1. /\ file' = [file EXCEPT ![i] = [file[i] EXCEPT !.lists = job[i].lists]]
        /\ job' = [job EXCEPT ![i] = [job[i] EXCEPT !.step = "move trans"]] /\ seen' = seen
    BY <1>7 DEF MoveNBest
  <2>2. job[i].step \notin {"none", "ended"}
    BY <1>7 DEF MoveNBest, InJob
  <2> DEFINE new == [file[i] EXCEPT !.lists = job[i].lists]
             next == [job[i] EXCEPT !.step = "move trans"]
  <2>3. job[i] \in Jobs /\ file[i] \in Files
    BY <1>1
  <2>4. new.lists = job[i].lists /\ new.lines = file[i].lines /\ new \in Files
    BY <2>3 DEF Jobs, Files
  <2>5. next \in Jobs /\ next.lines = job[i].lines /\ next.lists = job[i].lists
    BY <2>3 DEF Jobs, JobSteps
  <2> HIDE DEF new, next
  <2>6. file' = [file EXCEPT ![i] = new] /\ job' = [job EXCEPT ![i] = next]
    BY <2>1 DEF new, next
  <2>7. new.lists <= PartSize(i)
    BY <1>1, <2>3, <2>4 DEF JobOK, FileOK, Jobs, Files
  <2>8. /\ file' \in [Parts(conf) -> Files] /\ job' \in [Parts(conf) -> Jobs]
        /\ file'[i] = new /\ job'[i] = next
        /\ \A j \in Parts(conf) \ {i} : job'[j] = job[j] /\ file'[j] = file[j]
    BY <1>1, <2>4, <2>5, <2>6
  <2>9. JobOK(i)' /\ FileOK(file'[i], i)
    BY <1>1, <1>3, <2>5, <2>7, <2>8 DEF JobOK, FileOK
  <2>10. QED
    BY <1>1, <1>2, <2>1, <2>2, <2>8, <2>9
<1>8. CASE MoveTrans(i)
  <2>1. /\ file' = [file EXCEPT ![i] = [file[i] EXCEPT !.lines = job[i].lines]]
        /\ job' = [job EXCEPT ![i] = [job[i] EXCEPT !.step = "ended"]] /\ seen' = seen
    BY <1>8 DEF MoveTrans
  <2>2. job[i].step \notin {"none", "ended"}
    BY <1>8 DEF MoveTrans, InJob
  <2> DEFINE new == [file[i] EXCEPT !.lines = job[i].lines]
             next == [job[i] EXCEPT !.step = "ended"]
  <2>3. job[i] \in Jobs /\ file[i] \in Files
    BY <1>1
  <2>4. new.lines = job[i].lines /\ new.lists = file[i].lists /\ new \in Files
    BY <2>3 DEF Jobs, Files
  <2>5. next \in Jobs /\ next.lines = job[i].lines /\ next.lists = job[i].lists
    BY <2>3 DEF Jobs, JobSteps
  <2> HIDE DEF new, next
  <2>6. file' = [file EXCEPT ![i] = new] /\ job' = [job EXCEPT ![i] = next]
    BY <2>1 DEF new, next
  <2>7. new.lists <= PartSize(i)
    BY <1>1, <2>3, <2>4 DEF JobOK, FileOK, Jobs, Files
  <2>8. /\ file' \in [Parts(conf) -> Files] /\ job' \in [Parts(conf) -> Jobs]
        /\ file'[i] = new /\ job'[i] = next
        /\ \A j \in Parts(conf) \ {i} : job'[j] = job[j] /\ file'[j] = file[j]
    BY <1>1, <2>4, <2>5, <2>6
  <2>9. JobOK(i)' /\ FileOK(file'[i], i)
    BY <1>1, <1>3, <2>5, <2>7, <2>8 DEF JobOK, FileOK
  <2>10. QED
    BY <1>1, <1>2, <2>1, <2>2, <2>8, <2>9
<1>9. CASE DecoderCrashes(i)
  BY <1>1, <1>3, <1>9 DEF DecoderCrashes, InJob, Jobs, JobSteps, JobOK
<1>10. CASE NodeFails(i)
  BY <1>1, <1>3, <1>10 DEF NodeFails, InJob, Jobs, JobSteps, JobOK
<1>11. CASE Appear(i)
  BY <1>1, <1>3, <1>11 DEF Appear, InJob, Jobs, JobSteps, JobOK, Files, FileOK
<1>12. QED
  BY <1>2, <1>4, <1>5, <1>6, <1>7, <1>8, <1>9, <1>10, <1>11 DEF PartStep

\* What the jobs do.  A part that is done is not touched by any, and without
\* the delay the lists in the working directory are never older than the
\* translations.
LEMMA PartStepKeeps ==
  ASSUME ParallelInv, script # "idle", NEW i \in Parts(conf), PartStep(i)
  PROVE  ParallelInv'
<1>1. ParallelType /\ RunningType /\ JobsStand /\ Accepted /\ Merged /\ Prompt
  BY DEF ParallelInv, ParallelType
<1>2. /\ conf' = conf /\ script' = script /\ todo' = todo /\ result' = result /\ stale' = stale
      /\ job' \in [Parts(conf) -> Jobs] /\ file' \in [Parts(conf) -> Files]
      /\ seen' \in [Parts(conf) -> Files]
      /\ JobOK(i)' /\ FileOK(file'[i], i) /\ FileOK(seen'[i], i)
      /\ \A j \in Parts(conf) \ {i} :
           job'[j] = job[j] /\ file'[j] = file[j] /\ seen'[j] = seen[j]
      /\ \/ job[i].step \notin {"none", "ended"}
         \/ Appear(i)
  BY <1>1, PartStepIs
<1>3. /\ Parts(conf)' = Parts(conf) /\ Working' = Working
      /\ \A j : PartSize(j)' = PartSize(j) /\ Before(j)' = Before(j) /\ HasPart(j)' = HasPart(j)
      /\ \A j, k : Has(j, k)' = Has(j, k)
  BY <1>2 DEF Parts, SplitN, PartSize, Before, HasPart, Has, Sentence, Working
<1>4. ParallelType'
  <2>1. \A j \in Parts(conf) : JobOK(j)' /\ FileOK(file[j], j)' /\ FileOK(seen[j], j)'
    BY <1>1, <1>2, <1>3 DEF RunningType, JobOK, FileOK
  <2>2. RunningType'
    BY <1>1, <1>2, <1>3, <2>1 DEF RunningType, FileOK
  <2>3. QED
    BY <1>1, <1>2, <2>2 DEF ParallelType
<1>5. JobsStand'
  <2>1. \A j \in Parts(conf) : job[j].step \in {"none", "ended"} => job'[j] = job[j]
    BY <1>2 DEF Appear
  <2>2. todo \subseteq Parts(conf)
    BY <1>1 DEF RunningType
  <2>3. QED
    BY <1>1, <1>2, <1>3, <2>1, <2>2 DEF JobsStand
<1>6. \A j \in Parts(conf) : Done(j) => j # i /\ Done(j)'
  <2>1. SUFFICES ASSUME NEW j \in Parts(conf), Done(j)
                 PROVE  j # i /\ Done(j)'
    OBVIOUS
  <2>2. j # i
    BY <1>2, <2>1 DEF Done, Fresh, Visible, Appear
  <2>3. QED
    BY <1>2, <1>3, <2>1, <2>2 DEF Done, Fresh, Visible
<1>7. Accepted'
  BY <1>1, <1>2, <1>3, <1>6 DEF Accepted
<1>8. Merged'
  <2>1. SUFFICES ASSUME Working, ~stale
                 PROVE  MergedBest' /\ MergedLists'
    BY <1>2, <1>3 DEF Merged
  <2>2. MergedBest /\ MergedLists
    BY <1>1, <2>1 DEF Merged
  <2>3. MergedBest'
    BY <1>2, <1>3, <2>2 DEF MergedBest
  <2>4. script = "lists" => file'[result.part] = file[result.part]
    BY <1>1, <1>2, <1>6, <2>1 DEF Accepted, RunningType, Merging
  <2>5. MergedLists'
    BY <1>2, <1>3, <2>2, <2>4 DEF MergedLists
  <2>6. QED
    BY <2>3, <2>5
<1>9. Prompt'
  <2>1. SUFFICES ASSUME ~conf.oldSGE, Working
                 PROVE  Prompt'
    BY <1>2, <1>3 DEF Prompt
  <2>2. /\ ~stale /\ script # "extra wait"
        /\ script = "submit" => \A j \in todo : file[j].lines # PartSize(j)
        /\ script \in {"hold", "check"} =>
             \A j \in todo : file[j].lines = PartSize(j) =>
                               job[j].step = "ended" /\ file[j] = Counts(job[j])
        /\ \A j \in Parts(conf) : job[j].step = "move trans" => file[j].lists = job[j].lists
    BY <1>1, <2>1 DEF Prompt
  <2>3. job[i].step \notin {"none", "ended"}
    BY <1>2, <2>1 DEF Appear
  <2>4. script \in {"submit", "check"} => i \notin todo
    BY <1>1, <2>1, <2>3 DEF JobsStand, Working
  <2>5. job'[i].step = "move trans" => file'[i].lists = job'[i].lists
    <3>1. job \in [Parts(conf) -> Jobs] /\ file \in [Parts(conf) -> Files] /\
          job[i] \in Jobs /\ file[i] \in Files
      BY <1>1 DEF RunningType
    <3>2. CASE MoveNBest(i)
      BY <3>1, <3>2 DEF MoveNBest, Jobs, Files
    <3>3. CASE MoveTrans(i)
      BY <3>1, <3>3 DEF MoveTrans, Jobs, Files
    <3>4. CASE ~MoveNBest(i) /\ ~MoveTrans(i)
      BY <2>1, <3>1, <3>4
         DEF PartStep, OutputBestHypo, OutputNBestList, DecoderEnds, DecoderCrashes, NodeFails,
             Appear, InJob, Jobs
    <3>5. QED
      BY <3>2, <3>3, <3>4
  <2>6. script = "hold" /\ i \in todo /\ file'[i].lines = PartSize(i) =>
          job'[i].step = "ended" /\ file'[i] = Counts(job'[i])
    <3>1. SUFFICES ASSUME script = "hold", i \in todo, file'[i].lines = PartSize(i)
                   PROVE  job'[i].step = "ended" /\ file'[i] = Counts(job'[i])
      OBVIOUS
    <3>2. job \in [Parts(conf) -> Jobs] /\ file \in [Parts(conf) -> Files] /\
          job[i] \in Jobs /\ file[i] \in Files
      BY <1>1 DEF RunningType
    <3>3. file[i].lines # PartSize(i)
      BY <2>2, <2>3, <3>1
    <3>4. ~(file' = file) /\ ~MoveNBest(i)
      BY <3>1, <3>2, <3>3 DEF MoveNBest, Files
    <3>5. MoveTrans(i)
      BY <3>4
         DEF PartStep, OutputBestHypo, OutputNBestList, DecoderEnds, DecoderCrashes, NodeFails,
             Appear
    <3>6. file[i].lists = job[i].lists
      BY <2>2, <3>5 DEF MoveTrans, InJob
    <3>7. /\ job'[i].step = "ended" /\ job'[i].lines = job[i].lines
          /\ job'[i].lists = job[i].lists
          /\ file'[i].lines = job[i].lines /\ file'[i].lists = file[i].lists
      BY <3>2, <3>5 DEF MoveTrans, Jobs, Files
    <3>8. file'[i] = [lines |-> file'[i].lines, lists |-> file'[i].lists]
      BY <1>2 DEF Files
    <3>9. QED
      BY <3>6, <3>7, <3>8 DEF Counts
  <2>7. \A j \in Parts(conf) : job'[j].step = "move trans" => file'[j].lists = job'[j].lists
    BY <1>2, <2>2, <2>5
  <2>8. todo \subseteq Parts(conf)
    BY <1>1 DEF RunningType
  <2>9. script \in {"hold", "check"} =>
          \A j \in todo : file'[j].lines = PartSize(j) =>
                            job'[j].step = "ended" /\ file'[j] = Counts(job'[j])
    BY <1>2, <2>2, <2>4, <2>6, <2>8
  <2>10. script = "submit" => \A j \in todo : file'[j].lines # PartSize(j)
    BY <1>2, <2>2, <2>4, <2>8
  <2>11. QED
    BY <1>2, <1>3, <2>2, <2>7, <2>9, <2>10 DEF Prompt, Counts
<1>10. QED
  BY <1>4, <1>5, <1>7, <1>8, <1>9 DEF ParallelInv

------------------------------------------------------------------------------
(****************************************************************************)
(* Submitting, waiting and checking.                                        *)
(****************************************************************************)
\* The parts depend on the settings only.
LEMMA SameParts ==
  ASSUME conf' = conf
  PROVE  /\ Parts(conf)' = Parts(conf)
         /\ \A j : PartSize(j)' = PartSize(j) /\ Before(j)' = Before(j)
         /\ \A j, k : Sentence(j, k)' = Sentence(j, k)
BY DEF Parts, SplitN, PartSize, Before, Sentence

\* The parts that are submitted again are those that count as not done.
LEMMA SubmitKeeps ==
  ASSUME ParallelInv, Submit
  PROVE  ParallelInv'
<1>1. ParallelType /\ RunningType /\ Accepted /\ Prompt /\ result = NoResult
  BY DEF ParallelInv, ParallelType, Submit, Merging
<1>2. /\ script = "submit" /\ script' = "hold" /\ result' = result /\ stale' = stale
      /\ UNCHANGED <<conf, todo, file, seen>>
  BY DEF Submit
<1>3. /\ DOMAIN job' = Parts(conf)
      /\ \A i \in Parts(conf) :
           job'[i] = IF i \in todo THEN [step |-> "decode", lines |-> 0, lists |-> 0] ELSE job[i]
      /\ job' \in [Parts(conf) -> Jobs]
  BY <1>1 DEF Submit, RunningType, Jobs, JobSteps
<1>4. Parts(conf)' = Parts(conf) /\ \A j : PartSize(j)' = PartSize(j)
  BY <1>2, SameParts
<1>5. ParallelType'
  <2>1. \A i \in Parts(conf) : JobOK(i)'
    <3>1. SUFFICES ASSUME NEW i \in Parts(conf)
                   PROVE  JobOK(i)'
      OBVIOUS
    <3>2. PartSize(i) \in Nat
      BY <1>1, PartFacts DEF ParallelType
    <3>3. QED
      BY <1>1, <1>3, <1>4, <3>2 DEF JobOK, RunningType
  <2>2. RunningType'
    BY <1>1, <1>2, <1>3, <1>4, <2>1 DEF RunningType, FileOK, Merging
  <2>3. QED
    BY <1>1, <1>2, <2>2 DEF ParallelType, Scripts, Merging
<1>6. JobsStand'
  BY <1>2 DEF JobsStand
<1>7. Accepted'
  <2>1. \A i \in Parts(conf) \ todo : Done(i) => Done(i)'
    BY <1>2, <1>3, <1>4 DEF Done, Fresh, Visible
  <2>2. QED
    BY <1>1, <1>2, <1>4, <2>1 DEF Accepted, Working
<1>8. Merged'
  BY <1>2 DEF Merged, MergedBest, MergedLists
<1>9. Prompt'
  <2>1. SUFFICES ASSUME ~conf.oldSGE
                 PROVE  Prompt'
    BY <1>2 DEF Prompt
  <2>2. /\ ~stale /\ \A i \in todo : file[i].lines # PartSize(i)
        /\ \A i \in Parts(conf) : job[i].step = "move trans" => file[i].lists = job[i].lists
    BY <1>1, <1>2, <2>1 DEF Prompt, Working
  <2>3. \A i \in Parts(conf) : i \in todo => job'[i].step = "decode"
    BY <1>3
  <2>4. \A i \in Parts(conf) : job'[i].step = "move trans" => job'[i] = job[i]
    BY <1>3, <2>3
  <2>5. QED
    BY <1>2, <1>4, <2>2, <2>4 DEF Prompt
<1>10. QED
  BY <1>5, <1>6, <1>7, <1>8, <1>9 DEF ParallelInv

\* Waiting ends, or goes on.
LEMMA WaitKeeps ==
  ASSUME ParallelInv, JobsEnded \/ ExtraWait
  PROVE  ParallelInv'
<1>1. ParallelType /\ RunningType /\ Accepted /\ Prompt /\ JobsStand /\ result = NoResult
  BY DEF ParallelInv, ParallelType, JobsEnded, ExtraWait, Merging
<1>2. /\ script \in {"hold", "extra wait"} /\ script' \in {"extra wait", "check"}
      /\ script' = "extra wait" => conf.oldSGE
      /\ \A i \in todo : job[i].step = "ended"
      /\ result' = result /\ stale' = stale
      /\ UNCHANGED <<conf, todo, job, file, seen>>
  BY <1>1 DEF JobsEnded, ExtraWait, JobsStand, Prompt, Working
<1>3. Parts(conf)' = Parts(conf) /\ \A j : PartSize(j)' = PartSize(j)
  BY <1>2, SameParts
<1>4. ParallelType'
  <2>1. \A i \in Parts(conf) : JobOK(i)'
    BY <1>1, <1>2, <1>3 DEF JobOK, RunningType
  <2>2. RunningType'
    BY <1>1, <1>2, <1>3, <2>1 DEF RunningType, FileOK, Merging
  <2>3. QED
    BY <1>1, <1>2, <2>2 DEF ParallelType, Scripts, Merging
<1>5. JobsStand'
  BY <1>2 DEF JobsStand
<1>6. Accepted'
  <2>1. \A i \in Parts(conf) \ todo : Done(i) => Done(i)'
    BY <1>2, <1>3 DEF Done, Fresh, Visible
  <2>2. QED
    BY <1>1, <1>2, <1>3, <2>1 DEF Accepted, Working
<1>7. Merged'
  BY <1>2 DEF Merged, MergedBest, MergedLists
<1>8. Prompt'
  BY <1>1, <1>2, <1>3 DEF Prompt, Working, Counts
<1>9. QED
  BY <1>4, <1>5, <1>6, <1>7, <1>8 DEF ParallelInv

\* A part is accepted: if what is seen of it is fresh, it is done.
LEMMA CheckKeeps ==
  ASSUME ParallelInv, CheckJobs
  PROVE  ParallelInv'
<1>1. ParallelType /\ RunningType /\ Accepted /\ Prompt /\ JobsStand /\ result = NoResult
  BY DEF ParallelInv, ParallelType, CheckJobs, Merging
<1>2. /\ script = "check" /\ result' = result
      /\ script' = IF check_translation = {} THEN "merge" ELSE "submit"
      /\ todo' = check_translation
      /\ stale' = (stale \/ \E i \in todo \ check_translation : ~Fresh(i))
      /\ UNCHANGED <<conf, job, file, seen>>
  BY DEF CheckJobs
<1>3. Parts(conf)' = Parts(conf) /\ \A j : PartSize(j)' = PartSize(j) /\ Before(j)' = Before(j)
  BY <1>2, SameParts
<1>4. check_translation \subseteq todo /\
      \A i \in todo \ check_translation : Visible(i).lines = PartSize(i)
  BY DEF check_translation
<1>5. 1 \in Parts(conf) /\ Before(1) = 0
  BY <1>1, PartFacts, PartsAre DEF ParallelType
<1>6. ParallelType'
  <2>1. \A i \in Parts(conf) : JobOK(i)'
    BY <1>1, <1>2, <1>3 DEF JobOK, RunningType
  <2>2. result.part = 1
    BY <1>1 DEF NoResult
  <2>3. RunningType'
    BY <1>1, <1>2, <1>3, <1>4, <1>5, <2>1, <2>2 DEF RunningType, FileOK, Merging
  <2>4. QED
    BY <1>1, <1>2, <2>3 DEF ParallelType, Scripts, Merging
<1>7. JobsStand'
  BY <1>1, <1>2, <1>4 DEF JobsStand
<1>8. Accepted'
  <2>1. SUFFICES ASSUME ~stale', NEW i \in Parts(conf) \ check_translation
                 PROVE  Done(i)'
    BY <1>2, <1>3 DEF Accepted
  <2>2. Done(i)
    <3>1. CASE i \in todo
      <4>1. Fresh(i) /\ Visible(i).lines = PartSize(i) /\ job[i].step = "ended"
        BY <1>1, <1>2, <1>4, <2>1, <3>1 DEF JobsStand
      <4>2. QED
        BY <4>1 DEF Done, Fresh
    <3>2. CASE i \notin todo
      BY <1>1, <1>2, <2>1, <3>2 DEF Accepted, Working
    <3>3. QED
      BY <3>1, <3>2
  <2>3. QED
    BY <1>2, <1>3, <2>2 DEF Done, Fresh, Visible
<1>9. Merged'
  <2>1. result'.best = UpTo(Before(1)) /\
        result' = [NoResult EXCEPT !.best = result'.best, !.part = result'.part] /\
          result'.part = 1
    <3>1. UpTo(0) = <<>>
      BY DEF UpTo
    <3>2. result' = NoResult
      BY <1>1, <1>2
    <3>3. [NoResult EXCEPT !.best = NoResult.best, !.part = NoResult.part] = NoResult
      BY DEF NoResult
    <3>4. QED
      BY <1>5, <3>1, <3>2, <3>3 DEF NoResult
  <2>2. QED
    BY <1>2, <1>3, <2>1 DEF Merged, MergedBest, MergedLists
<1>10. Prompt'
  <2>1. SUFFICES ASSUME ~conf.oldSGE
                 PROVE  Prompt'
    BY <1>2 DEF Prompt
  <2>2. /\ ~stale
        /\ \A i \in todo : file[i].lines = PartSize(i) => file[i] = Counts(job[i])
        /\ \A i \in Parts(conf) : job[i].step = "move trans" => file[i].lists = job[i].lists
    BY <1>1, <1>2, <2>1 DEF Prompt, Working
  <2>3. \A i \in todo : Visible(i) = file[i]
    BY <2>1 DEF Visible
  <2>4. ~stale'
    BY <1>2, <1>4, <2>2, <2>3 DEF Fresh, Counts
  <2>5. \A i \in check_translation : file[i].lines # PartSize(i)
    BY <2>3 DEF check_translation
  <2>6. QED
    BY <1>2, <1>3, <2>2, <2>4, <2>5 DEF Prompt
<1>11. QED
  BY <1>6, <1>7, <1>8, <1>9, <1>10 DEF ParallelInv

\* The script quits and accepts nothing.
LEMMA GiveUpKeeps ==
  ASSUME ParallelInv, GiveUp
  PROVE  ParallelInv'
<1>1. ParallelType /\ RunningType /\ result = NoResult /\ (~conf.oldSGE => ~stale)
  BY DEF ParallelInv, ParallelType, GiveUp, Merging, Prompt, Working
<1>2. /\ script' = "quit" /\ result' = result /\ stale' = stale
      /\ job' = [i \in DOMAIN job |-> [job[i] EXCEPT !.step = "none"]]
      /\ UNCHANGED <<conf, todo, file, seen>>
  BY DEF GiveUp, kill_all_and_quit
<1>3. Parts(conf)' = Parts(conf) /\ \A j : PartSize(j)' = PartSize(j)
  BY <1>2, SameParts
<1>4. /\ job' \in [Parts(conf) -> Jobs]
      /\ \A i \in Parts(conf) : job'[i].lines = job[i].lines /\ job'[i].lists = job[i].lists
  BY <1>1, <1>2 DEF RunningType, Jobs, JobSteps
<1>5. ParallelType'
  <2>1. \A i \in Parts(conf) : JobOK(i)'
    BY <1>1, <1>2, <1>3, <1>4 DEF JobOK, RunningType
  <2>2. RunningType'
    BY <1>1, <1>2, <1>3, <1>4, <2>1 DEF RunningType, FileOK, Merging
  <2>3. QED
    BY <1>1, <1>2, <2>2 DEF ParallelType, Scripts, Merging
<1>6. QED
  BY <1>2, <1>5 DEF ParallelInv, JobsStand, Accepted, Merged, Prompt, Working

------------------------------------------------------------------------------
(****************************************************************************)
(* Sequences of lines and of lists.                                         *)
(****************************************************************************)
\* The number of parts, as the loops of the merge count them.
LEMMA JobLength ==
  ASSUME ParallelType, RunningType
  PROVE  Len(job) \in Nat \ {0} /\ Parts(conf) = 1 .. Len(job)
<1>1. PICK last \in Nat \ {0} : Parts(conf) = 1 .. last
  BY PartsAre DEF ParallelType
<1>2. job \in [1 .. last -> Jobs]
  BY <1>1 DEF RunningType
<1>3. Len(job) = last
  BY <1>2
<1>4. QED
  BY <1>1, <1>3

\* Numbers in order, and those that come next.
LEMMA CountsUp ==
  ASSUME NEW a \in Nat, NEW b \in Nat
  PROVE  UpTo(a) \o [k \in 1 .. b |-> a + k - 1] = UpTo(a + b)
<1> DEFINE s == UpTo(a)
           t == [k \in 1 .. b |-> a + k - 1]
<1>1. s \in Seq(Int) /\ Len(s) = a /\ \A k \in 1 .. a : s[k] = k - 1
  BY DEF UpTo
<1>2. t \in Seq(Int) /\ Len(t) = b /\ \A k \in 1 .. b : t[k] = a + k - 1
  OBVIOUS
<1>3. UpTo(a + b) \in Seq(Int) /\ Len(UpTo(a + b)) = a + b /\
      \A k \in 1 .. a + b : UpTo(a + b)[k] = k - 1
  BY DEF UpTo
<1> HIDE DEF s, t
<1>4. /\ s \o t \in Seq(Int) /\ Len(s \o t) = a + b
      /\ \A k \in 1 .. a + b : (s \o t)[k] = IF k <= a THEN s[k] ELSE t[k - a]
  BY <1>1, <1>2, ConcatProperties
<1>5. \A k \in 1 .. a + b : (s \o t)[k] = k - 1
  BY <1>1, <1>2, <1>4
<1>6. s \o t = UpTo(a + b)
  BY <1>3, <1>4, <1>5, SeqEqual
<1>7. QED
  BY <1>6 DEF s, t

\* The lists of two sequences of entries.
LEMMA ListsGrow ==
  ASSUME NEW s \in Seq(Entries), NEW t \in Seq(Entries)
  PROVE  ListsOf(s \o t) = ListsOf(s) \cup ListsOf(t)
<1>1. /\ s \o t \in Seq(Entries) /\ Len(s \o t) = Len(s) + Len(t)
      /\ \A k \in 1 .. Len(s) + Len(t) : (s \o t)[k] = IF k <= Len(s) THEN s[k] ELSE t[k - Len(s)]
      /\ Len(s) \in Nat /\ Len(t) \in Nat
  BY ConcatProperties
<1>2. DOMAIN s = 1 .. Len(s) /\ DOMAIN t = 1 .. Len(t) /\ DOMAIN (s \o t) = 1 .. Len(s) + Len(t)
  BY <1>1
<1>3. \A k \in 1 .. Len(s) : (s \o t)[k] = s[k]
  BY <1>1
<1>4. \A k \in 1 .. Len(t) : (s \o t)[Len(s) + k] = t[k] /\ Len(s) + k \in 1 .. Len(s) + Len(t)
  BY <1>1
<1>5. \A k \in 1 .. Len(s) + Len(t) : k \notin 1 .. Len(s) => k - Len(s) \in 1 .. Len(t)
  BY <1>1
<1>6. ListsOf(s) \subseteq ListsOf(s \o t)
  BY <1>1, <1>2, <1>3 DEF ListsOf
<1>7. ListsOf(t) \subseteq ListsOf(s \o t)
  BY <1>2, <1>4 DEF ListsOf
<1>8. ListsOf(s \o t) \subseteq ListsOf(s) \cup ListsOf(t)
  <2>1. SUFFICES ASSUME NEW k \in 1 .. Len(s) + Len(t)
                 PROVE  (s \o t)[k].of \in ListsOf(s) \cup ListsOf(t)
    BY <1>2 DEF ListsOf
  <2>2. CASE k \in 1 .. Len(s)
    BY <1>2, <1>3, <2>2 DEF ListsOf
  <2>3. CASE k \notin 1 .. Len(s)
    BY <1>1, <1>2, <1>5, <2>3 DEF ListsOf
  <2>4. QED
    BY <2>2, <2>3
<1>9. QED
  BY <1>6, <1>7, <1>8

\* The holes in front of a number.
LEMMA HolesFill ==
  ASSUME NEW s \in Seq(Entries), NEW old, NEW cur \in Nat, ListOK(s, old, cur),
         NEW b \in Nat, cur <= b, 0 < b
  PROVE  ListOK(s \o Holes(old, b), b - 1, b)
<1> DEFINE h == Holes(old, b)
           n == Len(s)
           m == Len(h)
           t == s \o h
<1>1. old \in Nat /\ old < b
  BY DEF ListOK
<1>2. h \in Seq(Entries) /\ m = b - old - 1 /\ \A k \in 1 .. m : h[k].code = old + k /\
      h[k].of = Empty
  <2>1. /\ h \in Seq(Entries) /\ m = IF b - old - 1 > 0 THEN b - old - 1 ELSE 0
        /\ \A k \in 1 .. m : h[k].code = old + k /\ h[k].of = Empty
    <3>1. old \in Int /\ b \in Int
      BY <1>1
    <3>2. QED
      BY <3>1, HolesAre
  <2> HIDE DEF h, m
  <2>2. m = b - old - 1
    BY <1>1, <2>1
  <2>3. QED
    BY <2>1, <2>2
<1> HIDE DEF h
<1>3. n \in Nat /\ m \in Nat /\ DOMAIN s = 1 .. n
  BY <1>2
<1>4. /\ t \in Seq(Entries) /\ Len(t) = n + m
      /\ \A k \in 1 .. n + m : t[k] = IF k <= n THEN s[k] ELSE h[k - n]
  BY <1>2, ConcatProperties
<1>5. DOMAIN t = 1 .. n + m
  BY <1>4, <1>3
<1> HIDE DEF n, m, t
<1>6. \A k \in 1 .. n : t[k] = s[k]
  BY <1>3, <1>4
<1>7. \A k \in 1 .. n + m : k > n => t[k].code = old + k - n /\ t[k].of = Empty
  <2>1. SUFFICES ASSUME NEW k \in 1 .. n + m, k > n
                 PROVE  t[k].code = old + k - n /\ t[k].of = Empty
    OBVIOUS
  <2>2. t[k] = h[k - n] /\ k - n \in 1 .. m
    BY <1>3, <1>4, <2>1
  <2>3. h[k - n].code = old + (k - n) /\ h[k - n].of = Empty
    BY <1>2, <2>2
  <2>4. QED
    BY <1>1, <1>3, <2>2, <2>3
<1>8. /\ \A k \in 1 .. n : s[k].of \in {s[k].code, Empty} /\ s[k].code <= old
      /\ \A k, l \in 1 .. n : k < l => s[k].code < s[l].code
      /\ Numbers(s) \cup {0} = 0 .. old
  BY <1>3 DEF ListOK
<1>9. \A k \in 1 .. n : s[k].code \in Int
  <2>1. \A k \in 1 .. n : s[k] \in Entries
    BY <1>3, ElementOfSeq DEF n
  <2>2. QED
    BY <2>1 DEF Entries
<1>10. \A k \in 1 .. n + m : t[k].of \in {t[k].code, Empty} /\ t[k].code <= b - 1
  <2>1. SUFFICES ASSUME NEW k \in 1 .. n + m
                 PROVE  t[k].of \in {t[k].code, Empty} /\ t[k].code <= b - 1
    OBVIOUS
  <2>2. CASE k <= n
    <3>1. k \in 1 .. n
      BY <1>3, <2>2
    <3>2. QED
      BY <1>1, <1>6, <1>8, <1>9, <3>1
  <2>3. CASE k > n
    BY <1>1, <1>2, <1>3, <1>7, <2>3 DEF m
  <2>4. QED
    BY <1>3, <2>2, <2>3
<1>11. \A k, l \in 1 .. n + m : k < l => t[k].code < t[l].code
  <2>1. SUFFICES ASSUME NEW k \in 1 .. n + m, NEW l \in 1 .. n + m, k < l
                 PROVE  t[k].code < t[l].code
    OBVIOUS
  <2>2. CASE l <= n
    <3>1. k \in 1 .. n /\ l \in 1 .. n
      BY <1>3, <2>1, <2>2
    <3>2. QED
      BY <1>6, <1>8, <2>1, <3>1
  <2>3. CASE l > n /\ k <= n
    <3>1. k \in 1 .. n
      BY <1>3, <2>3
    <3>2. t[k].code <= old /\ t[k].code \in Int
      BY <1>6, <1>8, <1>9, <3>1
    <3>3. t[l].code = old + l - n
      BY <1>7, <2>3
    <3>4. QED
      BY <1>1, <1>3, <2>3, <3>2, <3>3
  <2>4. CASE k > n
    BY <1>1, <1>3, <1>7, <2>1, <2>4
  <2>5. QED
    BY <1>3, <2>2, <2>3, <2>4
<1>12. Numbers(t) \cup {0} = 0 .. b - 1
  <2>1. Numbers(s) = {s[k].code : k \in 1 .. n} /\ Numbers(t) = {t[k].code : k \in 1 .. n + m}
    BY <1>3, <1>5 DEF Numbers
  <2>2. Numbers(t) \subseteq 0 .. b - 1
    <3>1. SUFFICES ASSUME NEW k \in 1 .. n + m
                   PROVE  t[k].code \in 0 .. b - 1
      BY <2>1
    <3>2. CASE k <= n
      <4>1. k \in 1 .. n
        BY <1>3, <3>2
      <4>2. s[k].code \in 0 .. old
        BY <1>8, <2>1, <4>1
      <4>3. QED
        BY <1>1, <1>6, <4>1, <4>2
    <3>3. CASE k > n
      BY <1>1, <1>2, <1>3, <1>7, <3>3 DEF m
    <3>4. QED
      BY <1>3, <3>2, <3>3
  <2>3. \A c \in 0 .. b - 1 : c \in Numbers(t) \cup {0}
    <3>1. SUFFICES ASSUME NEW c \in 0 .. b - 1
                   PROVE  c \in Numbers(t) \cup {0}
      OBVIOUS
    <3>2. CASE c <= old
      <4>1. c \in Numbers(s) \cup {0}
        BY <1>1, <1>8, <3>2
      <4>2. \A k \in 1 .. n : k \in 1 .. n + m
        BY <1>3
      <4>3. QED
        BY <1>6, <2>1, <4>1, <4>2
    <3>3. CASE c > old
      <4>1. n + (c - old) \in 1 .. n + m /\ n + (c - old) > n
        BY <1>1, <1>2, <1>3, <3>3 DEF m
      <4>2. t[n + (c - old)].code = old + (n + (c - old)) - n
        BY <1>7, <4>1
      <4>3. old + (n + (c - old)) - n = c
        BY <1>1, <1>3
      <4>4. QED
        BY <2>1, <4>1, <4>2, <4>3
    <3>4. QED
      BY <1>1, <3>2, <3>3
  <2>4. QED
    BY <2>2, <2>3
<1>13. b - 1 \in Nat /\ b - 1 < b
  OBVIOUS
<1>14. QED
  BY <1>5, <1>10, <1>11, <1>12, <1>13 DEF ListOK, h, t

\* A list under the next number.
LEMMA EntryAppended ==
  ASSUME NEW r \in Seq(Entries), NEW cur \in Nat, NEW e \in Entries,
         e.code = cur, e.of = cur,
         \/ cur > 0 /\ ListOK(r, cur - 1, cur)
         \/ cur = 0 /\ r = <<>>
  PROVE  ListOK(r \o <<e>>, cur, cur + 1)
<1> DEFINE n == Len(r)
           t == r \o <<e>>
<1>1. n \in Nat /\ DOMAIN r = 1 .. n
  OBVIOUS
<1>2. <<e>> \in Seq(Entries) /\ Len(<<e>>) = 1 /\ <<e>>[1] = e
  OBVIOUS
<1>3. /\ t \in Seq(Entries) /\ Len(t) = n + 1
      /\ \A k \in 1 .. n + 1 : t[k] = IF k <= n THEN r[k] ELSE <<e>>[k - n]
  BY <1>2, ConcatProperties
<1>4. DOMAIN t = 1 .. n + 1
  BY <1>3
<1>5. /\ \A k \in 1 .. n : r[k].of \in {r[k].code, Empty} /\ r[k].code <= cur - 1
      /\ \A k, l \in 1 .. n : k < l => r[k].code < r[l].code
      /\ {r[k].code : k \in 1 .. n} \cup {0} = IF cur = 0 THEN {0} ELSE 0 .. cur - 1
  <2>1. CASE cur = 0
    BY <2>1, <1>1
  <2>2. CASE cur > 0
    <3>1. ListOK(r, cur - 1, cur)
      BY <2>2
    <3>2. /\ \A k \in 1 .. n : r[k].of \in {r[k].code, Empty} /\ r[k].code <= cur - 1
          /\ \A k, l \in 1 .. n : k < l => r[k].code < r[l].code
          /\ Numbers(r) \cup {0} = 0 .. cur - 1
      BY <1>1, <3>1 DEF ListOK
    <3>3. Numbers(r) = {r[k].code : k \in 1 .. n}
      BY <1>1 DEF Numbers
    <3>4. QED
      BY <2>2, <3>2, <3>3
  <2>3. QED
    BY <2>1, <2>2
<1>6. \A k \in 1 .. n : r[k].code \in Int
  <2>1. \A k \in 1 .. n : r[k] \in Entries
    BY <1>1, ElementOfSeq
  <2>2. QED
    BY <2>1 DEF Entries
<1> HIDE DEF n, t
<1>7. t[n + 1] = e /\ \A k \in 1 .. n : t[k] = r[k]
  <2>1. n + 1 - n = 1 /\ n + 1 \in 1 .. n + 1
    BY <1>1
  <2>2. QED
    BY <1>1, <1>2, <1>3, <2>1
<1>8. \A k \in 1 .. n + 1 : k \in 1 .. n \/ k = n + 1
  BY <1>1
<1>9. \A k \in 1 .. n + 1 : t[k].of \in {t[k].code, Empty} /\ t[k].code <= cur
  <2>1. \A k \in 1 .. n : r[k].code <= cur
    BY <1>5, <1>6
  <2>2. QED
    BY <1>5, <1>7, <1>8, <2>1
<1>10. \A k, l \in 1 .. n + 1 : k < l => t[k].code < t[l].code
  <2>1. SUFFICES ASSUME NEW k \in 1 .. n + 1, NEW l \in 1 .. n + 1, k < l
                 PROVE  t[k].code < t[l].code
    OBVIOUS
  <2>2. k \in 1 .. n
    BY <1>1, <2>1
  <2>3. CASE l \in 1 .. n
    BY <1>5, <1>7, <2>1, <2>2, <2>3
  <2>4. CASE l = n + 1
    <3>1. r[k].code <= cur - 1 /\ r[k].code \in Int
      BY <1>5, <1>6, <2>2
    <3>2. t[k].code = r[k].code /\ t[l].code = cur
      BY <1>7, <2>2, <2>4
    <3>3. QED
      BY <3>1, <3>2
  <2>5. QED
    BY <1>8, <2>3, <2>4
<1>11. Numbers(t) \cup {0} = 0 .. cur
  <2>1. Numbers(t) = {t[k].code : k \in 1 .. n + 1}
    BY <1>4 DEF Numbers
  <2>2. Numbers(t) = {r[k].code : k \in 1 .. n} \cup {cur}
    BY <1>7, <1>8, <1>1, <2>1
  <2>3. (IF cur = 0 THEN {0} ELSE 0 .. cur - 1) \cup {cur} = 0 .. cur
    OBVIOUS
  <2>4. QED
    BY <1>5, <2>2, <2>3
<1>12. cur < cur + 1
  OBVIOUS
<1>13. QED
  BY <1>4, <1>9, <1>10, <1>11, <1>12 DEF ListOK, t

\* A list behind the holes in front of it.
LEMMA ListAdded ==
  ASSUME NEW s \in Seq(Entries), NEW old \in Int, NEW cur \in Nat, cur \in Sentences,
         ListOK(s, old, cur)
  PROVE  LET e == [code |-> cur, of |-> cur]
             t == s \o Holes(old, cur) \o <<e>>
         IN  /\ ListOK(t, cur, cur + 1)
             /\ ListsOf(s) \cup {cur} \subseteq ListsOf(t)
<1> DEFINE e == [code |-> cur, of |-> cur]
           h == Holes(old, cur)
           r == s \o h
<1>1. e \in Entries /\ <<e>> \in Seq(Entries)
  BY DEF Entries
<1>2. h \in Seq(Entries) /\ Len(h) = IF cur - old - 1 > 0 THEN cur - old - 1 ELSE 0
  <2>1. cur \in Int
    OBVIOUS
  <2>2. QED
    BY <2>1, HolesAre
<1>3. r \in Seq(Entries)
  BY <1>2, ConcatProperties
<1>4. ListsOf(r) = ListsOf(s) \cup ListsOf(h) /\
      ListsOf(r \o <<e>>) = ListsOf(r) \cup ListsOf(<<e>>)
  BY <1>1, <1>2, <1>3, ListsGrow
<1>5. cur \in ListsOf(<<e>>)
  BY DEF ListsOf
<1>6. ListOK(r \o <<e>>, cur, cur + 1)
  <2>1. CASE cur > 0
    <3>1. ListOK(r, cur - 1, cur)
      BY <2>1, HolesFill
    <3>2. QED
      BY <1>1, <1>3, <2>1, <3>1, EntryAppended
  <2>2. CASE cur = 0
    <3>1. s = <<>> /\ old = 0
      BY <2>2 DEF ListOK
    <3>2. Len(h) = 0
      BY <1>2, <2>2, <3>1
    <3>3. h = <<>>
      <4> HIDE DEF h
      <4>1. QED
        BY <1>2, <3>2, EmptySeq
    <3>4. r = <<>>
      BY <3>1, <3>3
    <3>5. QED
      BY <1>1, <1>3, <2>2, <3>4, EntryAppended
  <2>3. QED
    BY <2>1, <2>2
<1>7. QED
  BY <1>4, <1>5, <1>6

------------------------------------------------------------------------------
(****************************************************************************)
(* Putting the parts together.                                              *)
(****************************************************************************)
\* A step of the merge changes result only.
LEMMA MergeFrame ==
  ASSUME ParallelInv, script \in Merging, script' \in Merging,
         UNCHANGED <<conf, todo, job, file, seen, stale>>,
         result' \in Results,
         script' # "done" => result'.part \in Parts(conf),
         script' = "lists" => result'.open.lists <= PartSize(result'.part),
         Merged'
  PROVE  ParallelInv'
<1>1. ParallelType /\ RunningType /\ Accepted /\ Prompt /\ todo = {}
  BY DEF ParallelInv, ParallelType, RunningType, Merging
<1>2. Parts(conf)' = Parts(conf) /\ \A j : PartSize(j)' = PartSize(j)
  BY SameParts
<1>3. \A i \in Parts(conf) : JobOK(i)' /\ FileOK(file[i], i)' /\ FileOK(seen[i], i)'
  BY <1>1, <1>2 DEF RunningType, JobOK, FileOK
<1>4. RunningType'
  BY <1>1, <1>2, <1>3 DEF RunningType, FileOK, Merging
<1>5. ParallelType'
  BY <1>1, <1>4 DEF ParallelType, Merging, Scripts
<1>6. Accepted'
  <2>1. \A i \in Parts(conf) : Done(i) => Done(i)'
    BY <1>2 DEF Done, Fresh, Visible
  <2>2. QED
    BY <1>1, <1>2, <2>1 DEF Accepted, Working, Merging
<1>7. JobsStand'
  BY <1>1 DEF JobsStand, Merging
<1>8. Prompt'
  BY <1>1, <1>2 DEF Prompt, Working, Merging
<1>9. QED
  BY <1>5, <1>6, <1>7, <1>8 DEF ParallelInv

\* What is known of the part that is merged.
LEMMA PartKnown ==
  ASSUME ParallelInv, script \in {"merge", "open", "lists"}
  PROVE  /\ ParallelType /\ RunningType /\ result \in Results
         /\ result.part \in Parts(conf) /\ result.part \in Nat
         /\ PartSize(result.part) \in Nat \ {0} /\ Before(result.part) \in Nat
         /\ Visible(result.part) \in Files /\ FileOK(Visible(result.part), result.part)
         /\ result.part = Len(job) =>
              Before(result.part) + PartSize(result.part) = SentenceN
         /\ result.part # Len(job) =>
              /\ result.part + 1 \in Parts(conf)
              /\ Before(result.part + 1) = Before(result.part) + PartSize(result.part)
         /\ Before(result.part) + PartSize(result.part) <= SentenceN
         /\ 1 \in Parts(conf) /\ Before(1) = 0
         /\ ~stale => /\ Visible(result.part) = file[result.part]
                      /\ file[result.part].lines = PartSize(result.part)
                      /\ file[result.part].lists \in {PartSize(result.part) - 1, PartSize(result.part)}
                      /\ MergedBest /\ MergedLists
<1> DEFINE i == result.part
<1>1. /\ ParallelType /\ RunningType /\ Accepted /\ Merged /\ result \in Results
      /\ todo = {} /\ i \in Parts(conf)
  BY DEF ParallelInv, ParallelType, RunningType, Merging
<1>2. Visible(i) \in Files /\ FileOK(Visible(i), i)
  BY <1>1, VisibleType DEF ParallelType
<1>3. Len(job) \in Nat \ {0} /\ Parts(conf) = 1 .. Len(job)
  BY <1>1, JobLength
<1>4. /\ i \in Nat \ {0} /\ Before(i) \in Nat /\ PartSize(i) \in Nat \ {0}
      /\ Before(i) + PartSize(i) <= SentenceN
      /\ i + 1 \in Parts(conf) => Before(i + 1) = Before(i) + PartSize(i)
      /\ i + 1 \notin Parts(conf) => Before(i) + PartSize(i) = SentenceN
      /\ 1 \in Parts(conf) /\ Before(1) = 0
  <2> HIDE DEF i
  <2>1. QED
    BY <1>1, PartFacts DEF ParallelType
<1>5. i + 1 \in Parts(conf) <=> i # Len(job)
  BY <1>1, <1>3, <1>4
<1>6. ~stale => /\ Visible(i) = file[i] /\ file[i].lines = PartSize(i)
                /\ file[i].lists \in {PartSize(i) - 1, PartSize(i)}
                /\ MergedBest /\ MergedLists
  <2>1. SUFFICES ASSUME ~stale
                 PROVE  /\ Visible(i) = file[i] /\ file[i].lines = PartSize(i)
                        /\ file[i].lists \in {PartSize(i) - 1, PartSize(i)}
                        /\ MergedBest /\ MergedLists
    OBVIOUS
  <2>2. MergedBest /\ MergedLists /\ Done(i)
    BY <1>1, <2>1 DEF Merged, Accepted, Working
  <2>3. Visible(i) = file[i] /\ file[i].lines = PartSize(i) /\
        file[i].lines = job[i].lines /\ file[i].lists = job[i].lists
    BY <2>2 DEF Done, Fresh
  <2>4. JobOK(i)
    BY <1>1 DEF RunningType
  <2>5. QED
    BY <2>2, <2>3, <2>4 DEF JobOK
<1>7. QED
  BY <1>1, <1>2, <1>4, <1>5, <1>6

\* The translations of one part more.
LEMMA BestKeeps ==
  ASSUME ParallelInv, concatenate_1best
  PROVE  ParallelInv'
<1> DEFINE i == result.part
           lines == LinesOf(i)
           next == IF i = Len(job) THEN 1 ELSE i + 1
<1>1. /\ script = "merge" /\ script' = IF i = Len(job) THEN "open" ELSE "merge"
      /\ UNCHANGED <<conf, todo, job, file, seen, stale>>
      /\ result' = [result EXCEPT !.best = result.best \o lines, !.part = next]
  BY DEF concatenate_1best
<1>2. /\ ParallelType /\ RunningType /\ result \in Results
      /\ i \in Parts(conf) /\ i \in Nat
      /\ PartSize(i) \in Nat \ {0} /\ Before(i) \in Nat
      /\ Visible(i) \in Files
      /\ i = Len(job) => Before(i) + PartSize(i) = SentenceN
      /\ i # Len(job) => i + 1 \in Parts(conf) /\ Before(i + 1) = Before(i) + PartSize(i)
      /\ 1 \in Parts(conf) /\ Before(1) = 0
      /\ ~stale => /\ Visible(i) = file[i] /\ file[i].lines = PartSize(i)
                   /\ MergedBest /\ MergedLists
  BY <1>1, PartKnown
<1>3. /\ lines \in Seq(Int)
      /\ Visible(i).lines \in Nat => lines = [k \in 1 .. Visible(i).lines |-> Before(i) + k - 1]
  <2> HIDE DEF i
  <2>1. Visible(i).lines \in Int
    BY <1>2 DEF Files
  <2>2. QED
    BY <1>2, <2>1, LinesAre DEF ParallelType
<1> HIDE DEF lines
<1>4. result.best \o lines \in Seq(Int)
  BY <1>2, <1>3, ConcatProperties DEF Results
<1>5. next \in Nat /\ next \in Parts(conf)
  BY <1>2
<1> HIDE DEF next
<1>6. result' \in Results /\ result'.part = next /\ result'.best = result.best \o lines
  BY <1>1, <1>2, <1>4, <1>5 DEF Results
<1>7. Merged'
  <2>1. SUFFICES ASSUME ~stale
                 PROVE  MergedBest' /\ MergedLists'
    BY <1>1 DEF Merged
  <2>2. /\ result.best = UpTo(Before(i))
        /\ result = [NoResult EXCEPT !.best = result.best, !.part = result.part]
    BY <1>1, <1>2, <2>1 DEF MergedBest
  <2>3. lines = [k \in 1 .. PartSize(i) |-> Before(i) + k - 1]
    BY <1>2, <1>3, <2>1
  <2>4. result'.best = UpTo(Before(i) + PartSize(i))
    BY <1>2, <1>6, <2>2, <2>3, CountsUp
  <2>5. result' = [NoResult EXCEPT !.best = result'.best, !.part = result'.part]
    BY <1>1, <1>2, <1>6, <2>2 DEF NoResult, Results
  <2>6. \A j : Before(j)' = Before(j) /\ PartSize(j)' = PartSize(j)
    BY <1>1, SameParts
  <2>7. CASE i = Len(job)
    <3>1. script' = "open" /\ next = 1 /\ result'.best = UpTo(SentenceN)
      BY <1>1, <1>2, <2>4, <2>7 DEF next
    <3>2. /\ result'.offset = 0 /\ result'.nbest = <<>> /\ result'.oldcode = 0
          /\ result'.list = 0
      BY <2>5 DEF NoResult
    <3>3. ListOK(<<>>, 0, 0)
      BY DEF ListOK, Numbers
    <3>4. \A j \in Parts(conf) : ~(j < 1)
      <4>1. SUFFICES ASSUME NEW j \in Parts(conf)
                     PROVE  ~(j < 1)
        OBVIOUS
      <4>2. j \in Nat \ {0}
        BY <1>2, PartFacts DEF ParallelType
      <4>3. QED
        BY <4>2
    <3>5. Before(1)' = 0 /\ Parts(conf)' = Parts(conf)
      BY <1>1, <1>2, SameParts
    <3>6. MergedLists'
      BY <1>6, <3>1, <3>2, <3>3, <3>4, <3>5 DEF MergedLists
    <3>7. MergedBest'
      BY <3>1 DEF MergedBest
    <3>8. QED
      BY <3>6, <3>7
  <2>8. CASE i # Len(job)
    <3>1. script' = "merge" /\ next = i + 1
      BY <1>1, <2>8 DEF next
    <3>2. result'.best = UpTo(Before(result'.part))
      BY <1>2, <1>6, <2>4, <2>8, <3>1
    <3>3. QED
      BY <1>6, <2>5, <2>6, <3>1, <3>2 DEF MergedBest, MergedLists
  <2>9. QED
    BY <2>7, <2>8
<1>8. QED
  BY <1>1, <1>5, <1>6, <1>7, MergeFrame DEF Merging

\* The lists of the next part, which are those of the attempt that made its
\* translations.
LEMMA OpenKeeps ==
  ASSUME ParallelInv, OpenLists
  PROVE  ParallelInv'
<1> DEFINE i == result.part
<1>1. /\ script = "open" /\ script' = "lists"
      /\ UNCHANGED <<conf, todo, job, file, seen, stale>>
      /\ result' = [result EXCEPT !.open = Visible(i)]
  BY DEF OpenLists
<1>2. /\ ParallelType /\ result \in Results /\ i \in Parts(conf)
      /\ PartSize(i) \in Nat \ {0}
      /\ Visible(i) \in Files /\ FileOK(Visible(i), i)
      /\ ~stale => /\ Visible(i) = file[i]
                   /\ file[i].lists \in {PartSize(i) - 1, PartSize(i)}
                   /\ MergedBest /\ MergedLists
  BY <1>1, PartKnown
<1>3. /\ result' \in Results /\ result'.open = Visible(i)
      /\ result'.part = i /\ result'.list = result.list /\ result'.offset = result.offset
      /\ result'.best = result.best /\ result'.nbest = result.nbest
      /\ result'.oldcode = result.oldcode
  BY <1>1, <1>2 DEF Results
<1>4. result'.open.lists <= PartSize(result'.part)
  BY <1>2, <1>3 DEF FileOK
<1>5. Merged'
  <2>1. SUFFICES ASSUME ~stale
                 PROVE  MergedBest' /\ MergedLists'
    BY <1>1 DEF Merged
  <2>2. MergedBest /\ MergedLists /\ result.list = 0 /\ Visible(i) = file[i] /\
        file[i].lists >= 0
    BY <1>1, <1>2, <2>1 DEF MergedLists
  <2>3. /\ Parts(conf)' = Parts(conf) /\ \A j : Before(j)' = Before(j) /\
           PartSize(j)' = PartSize(j)
        /\ \A j, k : Sentence(j, k)' = Sentence(j, k)
    BY <1>1, SameParts
  <2>4. /\ \A j, k : Has(j, k)' = Has(j, k)
        /\ \A j : HasPart(j)' = HasPart(j)
    BY <1>3, <2>3 DEF Has, HasPart
  <2>5. MergedBest'
    BY <1>1, <1>3, <2>2 DEF MergedBest
  <2>6. MergedLists'
    BY <1>1, <1>3, <2>2, <2>3, <2>4 DEF MergedLists
  <2>7. QED
    BY <2>5, <2>6
<1>6. QED
  BY <1>1, <1>2, <1>3, <1>4, <1>5, MergeFrame DEF Merging

\* A sentence without a list moves only the position.
LEMMA SkippedList ==
  ASSUME NEW r \in Results, NEW l \in Nat
  PROVE  [r EXCEPT !.list = l] = [r EXCEPT !.nbest = r.nbest, !.oldcode = r.oldcode, !.list = l]
BY DEF Results

\* One list more, under the number of its sentence.
LEMMA AddListKeeps ==
  ASSUME ParallelInv, AddList
  PROVE  ParallelInv'
<1>1. PICK i, k, code : i = result.part /\ k = result.list /\ code = result.offset + k
  OBVIOUS
<1> DEFINE sentence == Sentence(i, k)
           merged == result.nbest \o Holes(result.oldcode, code)
                       \o <<[code |-> code, of |-> sentence]>>
<1>2. /\ script = "lists" /\ script' = "lists" /\ k < result.open.lists
      /\ UNCHANGED <<conf, todo, job, file, seen, stale>>
      /\ result' = IF sentence \in Untranslatable
                   THEN [result EXCEPT !.list = k + 1]
                   ELSE [result EXCEPT !.nbest = merged, !.oldcode = code, !.list = k + 1]
  BY <1>1 DEF AddList
<1>3. /\ ParallelType /\ RunningType /\ result \in Results /\ i \in Parts(conf) /\ i \in Nat
      /\ PartSize(i) \in Nat \ {0} /\ Before(i) \in Nat
      /\ Before(i) + PartSize(i) <= SentenceN
      /\ ~stale => /\ file[i].lists \in {PartSize(i) - 1, PartSize(i)}
                   /\ MergedBest /\ MergedLists
  BY <1>1, <1>2, PartKnown
<1>4. /\ k \in Nat /\ k < PartSize(i) /\ result.open.lists \in Int
      /\ result.open.lists <= PartSize(i)
      /\ result.offset \in Int /\ result.oldcode \in Int /\ result.nbest \in Seq(Entries)
      /\ code \in Int
  BY <1>1, <1>2, <1>3 DEF RunningType, FileOK, Results, Files
<1>5. sentence = Before(i) + k /\ sentence \in Sentences
  BY <1>3, <1>4, SentenceIs DEF ParallelType
<1>6. merged \in Seq(Entries)
  <2>1. [code |-> code, of |-> sentence] \in Entries
    BY <1>4, <1>5 DEF Entries
  <2>2. <<[code |-> code, of |-> sentence]>> \in Seq(Entries)
    BY <2>1
  <2>3. Holes(result.oldcode, code) \in Seq(Entries)
    BY <1>4, HolesAre
  <2>4. result.nbest \o Holes(result.oldcode, code) \in Seq(Entries)
    BY <1>4, <2>3, ConcatProperties
  <2>5. QED
    BY <2>2, <2>4, ConcatProperties
<1> HIDE DEF merged, sentence
<1>7. /\ result' \in Results /\ result'.open = result.open
      /\ result'.part = i /\ result'.list = k + 1 /\ result'.offset = result.offset
      /\ result'.best = result.best
      /\ result'.nbest = IF sentence \in Untranslatable THEN result.nbest ELSE merged
      /\ result'.oldcode = IF sentence \in Untranslatable THEN result.oldcode ELSE code
  <2>1. k + 1 \in Nat
    BY <1>4
  <2>2. PICK n \in Seq(Entries), o \in Int :
          /\ n = IF sentence \in Untranslatable THEN result.nbest ELSE merged
          /\ o = IF sentence \in Untranslatable THEN result.oldcode ELSE code
    BY <1>4, <1>6
  <2>3. result' = [result EXCEPT !.nbest = n, !.oldcode = o, !.list = k + 1]
    <3>1. CASE sentence \in Untranslatable
      BY <1>2, <1>3, <2>1, <2>2, <3>1, SkippedList
    <3>2. CASE sentence \notin Untranslatable
      BY <1>2, <2>2, <3>2
    <3>3. QED
      BY <3>1, <3>2
  <2>4. /\ result' \in Results /\ result'.best = result.best /\ result'.part = result.part
        /\ result'.open = result.open /\ result'.offset = result.offset
        /\ result'.nbest = n /\ result'.oldcode = o /\ result'.list = k + 1
    <3>1. PICK r \in Results : r = result
      BY <1>3
    <3>2. PICK l \in Nat : l = k + 1
      BY <2>1
    <3>3. PICK new : new = result'
      OBVIOUS
    <3>4. new = [r EXCEPT !.nbest = n, !.oldcode = o, !.list = l]
      BY ONLY <2>3, <3>1, <3>2, <3>3
    <3>5. /\ new \in Results /\ new.best = r.best /\ new.part = r.part
          /\ new.open = r.open /\ new.offset = r.offset
          /\ new.nbest = n /\ new.oldcode = o /\ new.list = l
      BY ONLY <3>4, r \in Results, l \in Nat, n \in Seq(Entries), o \in Int DEF Results
    <3>6. QED
      BY ONLY <3>1, <3>2, <3>3, <3>5
  <2>5. QED
    BY <1>1, <2>2, <2>4
<1>8. Merged'
  <2>1. SUFFICES ASSUME ~stale
                 PROVE  MergedBest' /\ MergedLists'
    BY <1>2 DEF Merged
  <2>2. /\ MergedBest /\ result.offset = Before(i)
        /\ ListOK(result.nbest, result.oldcode, code)
        /\ \A j \in Parts(conf) : j < i => HasPart(j)
        /\ \A l \in 0 .. k - 1 : Has(i, l)
        /\ result.open = file[i]
    BY <1>1, <1>2, <1>3, <2>1 DEF MergedLists
  <2>3. /\ Parts(conf)' = Parts(conf) /\ \A j : Before(j)' = Before(j) /\
           PartSize(j)' = PartSize(j)
        /\ \A j, l : Sentence(j, l)' = Sentence(j, l)
    BY <1>2, SameParts
  <2>4. code = sentence /\ code \in Nat /\ code \in Sentences
    <3>1. code = sentence
      BY <1>1, <1>5, <2>2
    <3>2. QED
      BY <3>1, <1>3, <1>4, <1>5
  <2>5. /\ ListOK(result'.nbest, result'.oldcode, code + 1)
        /\ ListsOf(result.nbest) \subseteq ListsOf(result'.nbest)
        /\ sentence \in ListsOf(result'.nbest) \cup Untranslatable
    <3>1. CASE sentence \in Untranslatable
      <4>1. ListOK(result.nbest, result.oldcode, code + 1)
        BY <2>2, <2>4 DEF ListOK
      <4>2. QED
        BY <1>7, <3>1, <4>1
    <3>2. CASE sentence \notin Untranslatable
      <4>1. merged = result.nbest \o Holes(result.oldcode, code) \o <<[code |-> code, of |-> code]>>
        BY <2>4 DEF merged
      <4>2. ListOK(merged, code, code + 1) /\
            ListsOf(result.nbest) \cup {code} \subseteq ListsOf(merged)
        BY <1>4, <2>2, <2>4, <4>1, ListAdded
      <4>3. QED
        BY <1>7, <2>4, <3>2, <4>2
    <3>3. QED
      BY <3>1, <3>2
  <2>6. \A j, l : Has(j, l) => Has(j, l)'
    BY <2>3, <2>5 DEF Has
  <2>7. \A j : HasPart(j) => HasPart(j)'
    BY <2>3, <2>6 DEF HasPart
  <2>8. Has(i, k)'
    BY <2>3, <2>5 DEF Has, sentence
  <2>9. \A l \in 0 .. (k + 1) - 1 : Has(i, l)'
    BY <1>4, <2>2, <2>6, <2>8
  <2>10. /\ MergedBest'
    BY <1>2, <1>7, <2>2 DEF MergedBest
  <2>11. result'.offset + result'.list = code + 1 /\ result'.offset = Before(i)
    BY <1>1, <1>4, <1>7, <2>2
  <2>12. k + 1 <= result.open.lists
    BY <1>2, <1>4
  <2>13. MergedLists'
    <3>1. ListOK(result'.nbest, result'.oldcode, result'.offset + result'.list)
      BY <2>5, <2>11
    <3>2. \A l \in 0 .. result'.list - 1 : Has(i, l)'
      BY <1>7, <2>9
    <3>3. QED
      BY <1>2, <1>7, <2>2, <2>3, <2>7, <2>11, <2>12, <3>1, <3>2 DEF MergedLists, Has
  <2>14. QED
    BY <2>10, <2>13
<1>9. result'.open.lists <= PartSize(result'.part)
  BY <1>4, <1>7
<1>10. QED
  BY <1>2, <1>3, <1>7, <1>8, <1>9, MergeFrame DEF Merging

\* The holes at the end of the part; of its sentences only the last can have
\* lost its list.
LEMMA EndPartKeeps ==
  ASSUME ParallelInv, EndPart
  PROVE  ParallelInv'
<1>1. PICK i, end : i = result.part /\ end = result.offset + result.open.lines
  OBVIOUS
<1> DEFINE merged == result.nbest \o Holes(result.oldcode, end)
           old == IF result.oldcode < end THEN end - 1 ELSE result.oldcode
<1>2. /\ script = "lists" /\ result.list >= result.open.lists
      /\ script' = IF i = Len(job) THEN "done" ELSE "open"
      /\ UNCHANGED <<conf, todo, job, file, seen, stale>>
      /\ result' = [result EXCEPT !.nbest = merged, !.oldcode = old,
                                  !.offset = end, !.part = i + 1, !.list = 0]
  BY <1>1 DEF EndPart
<1>3. /\ ParallelType /\ RunningType /\ result \in Results /\ i \in Parts(conf) /\ i \in Nat
      /\ PartSize(i) \in Nat \ {0} /\ Before(i) \in Nat
      /\ i = Len(job) => Before(i) + PartSize(i) = SentenceN
      /\ i # Len(job) => i + 1 \in Parts(conf) /\ Before(i + 1) = Before(i) + PartSize(i)
      /\ ~stale => /\ file[i].lines = PartSize(i)
                   /\ file[i].lists \in {PartSize(i) - 1, PartSize(i)}
                   /\ MergedBest /\ MergedLists
  BY <1>1, <1>2, PartKnown
<1>4. /\ result.open.lines \in Int /\ result.open.lists \in Int /\ result.offset \in Int
      /\ result.oldcode \in Int /\ result.nbest \in Seq(Entries) /\ result.list \in Nat
      /\ end \in Int /\ i + 1 \in Nat
  BY <1>1, <1>3 DEF Results, Files
<1>5. Holes(result.oldcode, end) \in Seq(Entries)
  BY <1>4, HolesAre
<1>6. merged \in Seq(Entries) /\ old \in Int
  BY <1>4, <1>5, ConcatProperties
<1>7. merged = result.nbest \o Holes(result.oldcode, end)
  OBVIOUS
<1>8. result.oldcode < end => old = end - 1
  OBVIOUS
<1> HIDE DEF merged, old
<1>9. /\ result' \in Results /\ result'.open = result.open /\ result'.best = result.best
      /\ result'.part = i + 1 /\ result'.list = 0 /\ result'.offset = end
      /\ result'.nbest = merged /\ result'.oldcode = old
  BY <1>2, <1>3, <1>4, <1>6 DEF Results
<1>10. Len(job) \in Nat \ {0} /\ Parts(conf) = 1 .. Len(job)
  BY <1>3, JobLength
<1>11. Merged'
  <2>1. SUFFICES ASSUME ~stale
                 PROVE  MergedBest' /\ MergedLists'
    BY <1>2 DEF Merged
  <2>2. /\ MergedBest /\ result.best = UpTo(SentenceN) /\ result.offset = Before(i)
        /\ ListOK(result.nbest, result.oldcode, result.offset + result.list)
        /\ \A j \in Parts(conf) : j < i => HasPart(j)
        /\ \A k \in 0 .. result.list - 1 : Has(i, k)
        /\ result.open = file[i] /\ result.list <= result.open.lists
    BY <1>1, <1>2, <1>3, <2>1 DEF MergedLists, MergedBest
  <2>3. /\ Parts(conf)' = Parts(conf) /\ \A j : Before(j)' = Before(j) /\
           PartSize(j)' = PartSize(j)
        /\ \A j, k : Sentence(j, k)' = Sentence(j, k)
    BY <1>2, SameParts
  <2>4. /\ end = Before(i) + PartSize(i) /\ end \in Nat \ {0}
        /\ result.list >= PartSize(i) - 1 /\ result.list <= PartSize(i)
    <3>1. end = result.offset + result.open.lines
      BY <1>1
    <3>2. result.open.lines = PartSize(i) /\
          result.open.lists \in {PartSize(i) - 1, PartSize(i)}
      BY <1>3, <2>1, <2>2
    <3>3. end = Before(i) + PartSize(i)
      BY ONLY <2>2, <3>1, <3>2
    <3>4. Before(i) \in Nat /\ PartSize(i) \in Nat \ {0} /\ result.list \in Nat
      BY <1>3, <1>4
    <3>5. QED
      BY ONLY <1>2, <2>2, <3>2, <3>3, <3>4
  <2>5. ListOK(merged, end - 1, end) /\ old = end - 1
    <3>1. PICK cur \in Nat : cur = Before(i) + result.list /\ cur <= end
      BY <1>3, <1>4, <2>4
    <3>2. ListOK(result.nbest, result.oldcode, cur)
      BY <2>2, <3>1
    <3>3. result.oldcode < end
      BY <1>4, <2>4, <3>1, <3>2 DEF ListOK
    <3>4. ListOK(merged, end - 1, end)
      BY <1>4, <1>7, <2>4, <3>1, <3>2, HolesFill
    <3>5. QED
      BY <1>8, <3>3, <3>4
  <2>6. ListsOf(result.nbest) \subseteq ListsOf(result'.nbest)
    BY <1>4, <1>5, <1>7, <1>9, ListsGrow
  <2>7. \A j, k : Has(j, k) => Has(j, k)'
    BY <2>3, <2>6 DEF Has
  <2>8. HasPart(i)
    BY <1>3, <1>4, <2>2, <2>4 DEF HasPart
  <2>9. \A j \in Parts(conf) : j < i + 1 => HasPart(j)
    <3>1. SUFFICES ASSUME NEW j \in Parts(conf), j < i + 1
                   PROVE  HasPart(j)
      OBVIOUS
    <3>2. j = i \/ j < i
      BY <1>3, <1>10, <3>1
    <3>3. QED
      BY <2>2, <2>8, <3>2
  <2>10. \A j : HasPart(j) => HasPart(j)'
    BY <2>3, <2>7 DEF HasPart
  <2>11. MergedBest'
    BY <1>2, <1>9, <2>2 DEF MergedBest
  <2>12. CASE i = Len(job)
    <3>1. script' = "done" /\ end = SentenceN
      BY <1>2, <1>3, <2>4, <2>12
    <3>2. \A j \in Parts(conf) : HasPart(j)'
      BY <1>10, <2>9, <2>10, <2>12, <1>3
    <3>3. ListOK(result'.nbest, SentenceN - 1, SentenceN)
      BY <1>9, <2>5, <3>1
    <3>4. MergedLists'
      BY <2>3, <3>1, <3>2, <3>3 DEF MergedLists, HasPart
    <3>5. QED
      BY <2>11, <3>4
  <2>13. CASE i # Len(job)
    <3>1. script' = "open" /\ end = Before(i + 1)
      BY <1>2, <1>3, <2>4, <2>13
    <3>2. ListOK(result'.nbest, result'.oldcode, result'.offset + result'.list)
      BY <1>4, <1>9, <2>5
    <3>3. \A j \in Parts(conf) : j < result'.part => HasPart(j)'
      BY <1>9, <2>9, <2>10
    <3>4. \A k \in 0 .. result'.list - 1 : FALSE
      BY <1>9
    <3>5. result'.offset = Before(result'.part)
      BY <1>9, <3>1
    <3>6. MergedLists'
      BY <1>9, <2>3, <3>1, <3>2, <3>3, <3>4, <3>5 DEF MergedLists, HasPart
    <3>7. QED
      BY <2>11, <3>6
  <2>14. QED
    BY <2>12, <2>13
<1>12. QED
  BY <1>2, <1>3, <1>9, <1>11, MergeFrame DEF Merging

------------------------------------------------------------------------------
(****************************************************************************)
(* The script as a whole, and what the merged files are.                    *)
(****************************************************************************)
\* All that the script and its jobs do.
LEMMA ParallelStep ==
  ASSUME ParallelInv, script # "idle", ParallelNext
  PROVE  ParallelInv'
<1>1. DOMAIN job = Parts(conf)
  BY DEF ParallelInv, ParallelType, RunningType
<1>2. ASSUME NEW i \in DOMAIN job, PartStep(i)
      PROVE  ParallelInv'
  BY <1>1, <1>2, PartStepKeeps
<1>3. QED
  BY <1>2, SubmitKeeps, WaitKeeps, CheckKeeps, GiveUpKeeps, BestKeeps, OpenKeeps, AddListKeeps,
     EndPartKeeps DEF ParallelNext, PartStep

\* The script has nothing to do with what else happens.
LEMMA ParallelStays ==
  ASSUME ParallelInv, UNCHANGED parallelVars
  PROVE  ParallelInv'
<1>1. /\ conf' = conf /\ script' = script /\ todo' = todo /\ job' = job /\ file' = file
      /\ seen' = seen /\ stale' = stale /\ result' = result
  BY DEF parallelVars
<1>2. /\ Parts(conf)' = Parts(conf)
      /\ \A j : PartSize(j)' = PartSize(j) /\ Before(j)' = Before(j)
      /\ \A j, k : Sentence(j, k)' = Sentence(j, k)
  BY <1>1, SameParts
<1>3. /\ RunningType' = RunningType /\ Working' = Working
      /\ \A j : Done(j)' = Done(j) /\ HasPart(j)' = HasPart(j)
      /\ \A j, k : Has(j, k)' = Has(j, k)
  BY <1>1, <1>2 DEF RunningType, JobOK, FileOK, Working, Done, Fresh, Visible, HasPart, Has
<1>4. ParallelType'
  BY <1>1, <1>3 DEF ParallelInv, ParallelType
<1>5. JobsStand' /\ Accepted'
  BY <1>1, <1>2, <1>3 DEF ParallelInv, JobsStand, Accepted
<1>6. Merged'
  BY <1>1, <1>2, <1>3 DEF ParallelInv, Merged, MergedBest, MergedLists
<1>7. Prompt'
  BY <1>1, <1>2, <1>3 DEF ParallelInv, Prompt, Counts
<1>8. QED
  BY <1>4, <1>5, <1>6, <1>7 DEF ParallelInv

\* The script starts, with nothing of an earlier run.
LEMMA StartScriptKeeps ==
  ASSUME ParallelInv, script = "idle", StartScript, conf' = conf, result' = result
  PROVE  ParallelInv'
<1>1. ParallelType /\ result = NoResult
  BY DEF ParallelInv, ParallelType, Merging
<1>2. /\ script' = "submit" /\ todo' = Parts(conf) /\ ~stale' /\ stale' \in BOOLEAN
      /\ job' = [i \in Parts(conf) |-> [step |-> "none", lines |-> 0, lists |-> 0]]
      /\ file' = [i \in Parts(conf) |-> Missing] /\ seen' = [i \in Parts(conf) |-> Missing]
  BY DEF StartScript
<1>3. Parts(conf)' = Parts(conf) /\ \A j : PartSize(j)' = PartSize(j)
  BY SameParts
<1>4. \A i \in Parts(conf) : PartSize(i) \in Nat \ {0}
  BY <1>1, PartFacts DEF ParallelType
<1>5. /\ job' \in [Parts(conf) -> Jobs] /\ file' \in [Parts(conf) -> Files]
      /\ seen' \in [Parts(conf) -> Files]
  BY <1>2 DEF Jobs, JobSteps, Files, Missing
<1>6. \A i \in Parts(conf) : /\ JobOK(i)' /\ FileOK(file[i], i)' /\ FileOK(seen[i], i)'
                             /\ file'[i].lines # PartSize(i) /\ job'[i].step = "none"
  BY <1>2, <1>3, <1>4 DEF JobOK, FileOK, Missing
<1>7. RunningType'
  BY <1>2, <1>3, <1>5, <1>6 DEF RunningType, FileOK, Merging
<1>8. ParallelType'
  BY <1>1, <1>2, <1>7 DEF ParallelType, Scripts, Merging
<1>9. JobsStand'
  BY <1>2, <1>6 DEF JobsStand
<1>10. Accepted'
  BY <1>2, <1>3 DEF Accepted
<1>11. Merged'
  BY <1>2 DEF Merged, MergedBest, MergedLists
<1>12. Prompt'
  BY <1>2, <1>3, <1>6 DEF Prompt
<1>13. QED
  BY <1>8, <1>9, <1>10, <1>11, <1>12 DEF ParallelInv

\* Between two runs of the script.
Idle ==
  /\ conf.jobs \in Nat \ {0} /\ conf.oldSGE \in BOOLEAN /\ conf.efficient \in BOOLEAN
  /\ script = "idle" /\ stale = FALSE /\ result = NoResult

\* Where there is no script, nothing can be wrong with it.
LEMMA IdleIs ==
  ASSUME Idle
  PROVE  ParallelInv
<1>1. NoResult \in Results
  <2>1. <<>> \in Seq(Int) /\ <<>> \in Seq(Entries) /\ Missing \in Files
    BY DEF Missing, Files
  <2>2. QED
    BY <2>1 DEF NoResult, Results
<1>2. QED
  BY <1>1
     DEF Idle, ParallelInv, ParallelType, Scripts, JobsStand, Accepted, Merged, Prompt, Working

\* The script ends, or is interrupted.
LEMMA LeaveKeeps ==
  ASSUME ParallelInv, LeaveScript, conf' = conf
  PROVE  ParallelInv' /\ script' = "idle"
<1>1. Idle'
  BY DEF Idle, LeaveScript, ParallelInv, ParallelType, NoResult, Missing
<1>2. (Idle => ParallelInv)'
  BY IdleIs, PTL
<1>3. QED
  BY <1>1, <1>2 DEF LeaveScript

\* The sentences listed are those of the entries.
LEMMA ListedAre == ListedSentences = ListsOf(result.nbest) \ {Empty}
BY DEF ListedSentences, ListsOf

\* The merged files are those of one decoder.
LEMMA MergedIs ==
  ASSUME ParallelInv
  PROVE  MergedAsOne
<1>1. SUFFICES ASSUME script = "done", ~stale
               PROVE  MergedAsOne
  BY DEF MergedAsOne
<1>2. /\ result.best = UpTo(SentenceN) /\ ListOK(result.nbest, SentenceN - 1, SentenceN)
      /\ \A i \in Parts(conf) : HasPart(i)
      /\ DOMAIN job = Parts(conf) /\ conf.jobs \in Nat \ {0}
  BY <1>1 DEF ParallelInv, ParallelType, RunningType, Merged, Working, MergedBest, MergedLists
<1>3. \A i \in DOMAIN job : \A k \in 0 .. PartSize(i) - 2 :
        Sentence(i, k) \in ListedSentences \cup Untranslatable
  <2>1. SUFFICES ASSUME NEW i \in Parts(conf), NEW k \in 0 .. PartSize(i) - 2
                 PROVE  Sentence(i, k) \in ListedSentences \cup Untranslatable
    BY <1>2
  <2>2. Has(i, k)
    BY <1>2 DEF HasPart
  <2>3. PartSize(i) \in Nat
    BY <1>2, PartFacts
  <2>4. k \in Nat /\ k < PartSize(i)
    BY <2>3
  <2>5. Sentence(i, k) # Empty
    BY <1>2, <2>4, SentenceIs DEF Sentences, Empty
  <2>6. QED
    BY <2>2, <2>5, ListedAre DEF Has
<1>4. Numbers(result.nbest) = {result.nbest[k].code : k \in DOMAIN result.nbest}
  BY DEF Numbers
<1>5. QED
  BY <1>2, <1>3, <1>4 DEF MergedAsOne, ListOK, UpTo

------------------------------------------------------------------------------
(****************************************************************************)
(* The files of the training.                                               *)
(****************************************************************************)

PCs == {"start", "loop", "decode", "gzip", "score", "merged", "scored", "cmert", "store",
        "finish", "down", "down in mert", "failed", "done"}

Hyps == {Empty} \cup UNION {NBestOf(w, s) : w \in Weights, s \in Sentences}
Cands == {c \in SUBSET (Int \X Hyps) : IsFiniteSet(c)}
NBestLists == [cands : Cands, zipped : BOOLEAN]
ListFiles == UNION {[D -> NBestLists] : D \in {E \in SUBSET Nat : IsFiniteSet(E)}}
SortedFiles == UNION {[D -> Cands] : D \in SUBSET Nat}

All(l) == UNION {l[r].cands : r \in DOMAIN l}
Upto(l, r) == UNION {l[q].cands : q \in {p \in DOMAIN l : p <= r}}
ZippedIn(l) == {r \in DOMAIN l : l[r].zipped}
AllZipped(l) == \A r \in DOMAIN l : l[r].zipped

\* The n-best lists of finitely many runs.
LEMMA ListFilesAre ==
  ASSUME NEW l
  PROVE  l \in ListFiles <=> /\ l \in [DOMAIN l -> NBestLists] /\ DOMAIN l \subseteq Nat
                             /\ IsFiniteSet(DOMAIN l)
<1>1. l \in ListFiles <=> \E D \in SUBSET Nat : IsFiniteSet(D) /\ l \in [D -> NBestLists]
  BY DEF ListFiles
<1>2. QED
  BY <1>1

\* The sorted files of some runs.
LEMMA SortedFilesAre ==
  ASSUME NEW f
  PROVE  f \in SortedFiles <=> f \in [DOMAIN f -> Cands] /\ DOMAIN f \subseteq Nat
<1>1. f \in SortedFiles <=> \E D \in SUBSET Nat : f \in [D -> Cands]
  BY DEF SortedFiles
<1>2. QED
  BY <1>1

\* The values of a function on a finite set.
LEMMA FiniteImage ==
  ASSUME NEW f, IsFiniteSet(DOMAIN f), f = [x \in DOMAIN f |-> f[x]]
  PROVE  IsFiniteSet({f[x] : x \in DOMAIN f})
<1> DEFINE T == {f[x] : x \in DOMAIN f}
<1>1. f \in Surjection(DOMAIN f, T)
  BY DEF Surjection
<1>2. QED
  BY <1>1, FS_Surjection

\* A part of some candidates.
LEMMA SomeCands ==
  ASSUME NEW c \in Cands, NEW d \in SUBSET c
  PROVE  d \in Cands
BY FS_Subset DEF Cands

\* The candidates of some runs are among those of all, and all of them when
\* no run is later.
LEMMA ListFacts ==
  ASSUME NEW l \in ListFiles
  PROVE  /\ l \in [DOMAIN l -> NBestLists] /\ DOMAIN l \subseteq Nat
         /\ \A r \in DOMAIN l : l[r].cands \in Cands /\ l[r].zipped \in BOOLEAN
         /\ All(l) \in Cands
         /\ \A r : Upto(l, r) \subseteq All(l)
         /\ \A r \in Nat : (\A q \in DOMAIN l : q <= r) => Upto(l, r) = All(l)
<1>1. l \in [DOMAIN l -> NBestLists] /\ DOMAIN l \subseteq Nat /\ IsFiniteSet(DOMAIN l)
  BY ListFilesAre
<1>2. \A r \in DOMAIN l : l[r].cands \in Cands /\ l[r].zipped \in BOOLEAN
  BY <1>1 DEF NBestLists
<1> DEFINE f == [r \in DOMAIN l |-> l[r].cands]
           all == {f[r] : r \in DOMAIN f}
<1>3. IsFiniteSet(all)
  BY <1>1, FiniteImage
<1>4. \A c \in all : IsFiniteSet(c) /\ c \subseteq Int \X Hyps
  BY <1>2 DEF Cands
<1>5. All(l) = UNION all
  BY DEF All
<1>6. All(l) \in Cands
  BY <1>3, <1>4, <1>5, FS_UNION DEF Cands
<1>7. \A r : Upto(l, r) \subseteq All(l)
  BY DEF All, Upto
<1>8. \A r \in Nat : (\A q \in DOMAIN l : q <= r) => Upto(l, r) = All(l)
  BY DEF All, Upto
<1>9. QED
  BY <1>1, <1>2, <1>6, <1>7, <1>8

\* A list is put beside those of earlier runs.
LEMMA ListWritten ==
  ASSUME NEW l \in ListFiles, NEW r \in Nat, NEW c \in NBestLists
  PROVE  LET m == With(l, r, c)
         IN  /\ m \in ListFiles /\ DOMAIN m = DOMAIN l \cup {r} /\ m[r] = c
             /\ \A q \in DOMAIN l : q # r => m[q] = l[q]
             /\ c.cands \subseteq All(m)
             /\ \A q \in Nat : q < r => Upto(m, q) = Upto(l, q)
<1>1. /\ l \in [DOMAIN l -> NBestLists] /\ DOMAIN l \subseteq Nat /\ IsFiniteSet(DOMAIN l)
  BY ListFilesAre
<1> DEFINE m == With(l, r, c)
<1>2. /\ DOMAIN m = DOMAIN l \cup {r} /\ m[r] = c /\ \A q \in DOMAIN l : q # r => m[q] = l[q]
      /\ m \in [DOMAIN m -> NBestLists]
  BY <1>1 DEF With
<1> HIDE DEF m
<1>3. IsFiniteSet(DOMAIN m)
  BY <1>1, <1>2, FS_AddElement
<1>4. m \in ListFiles
  BY <1>1, <1>2, <1>3, ListFilesAre
<1>5. c.cands \subseteq All(m)
  BY <1>2 DEF All
<1>6. ASSUME NEW q \in Nat, q < r
      PROVE  Upto(m, q) = Upto(l, q)
  <2>1. {p \in DOMAIN m : p <= q} = {p \in DOMAIN l : p <= q} /\
        \A p \in DOMAIN l : p <= q => m[p] = l[p]
    BY <1>1, <1>2, <1>6
  <2>2. QED
    BY <2>1 DEF Upto
<1>7. QED
  BY <1>2, <1>4, <1>5, <1>6 DEF m

\* Zipping the lists changes no candidate.
LEMMA ListsZipped ==
  ASSUME NEW l \in ListFiles, NEW z \in BOOLEAN
  PROVE  LET m == Zip(l, z)
         IN  /\ m \in ListFiles /\ DOMAIN m = DOMAIN l /\ \A r \in DOMAIN l : m[r].zipped = z
             /\ All(m) = All(l) /\ \A q : Upto(m, q) = Upto(l, q)
<1>1. l \in [DOMAIN l -> NBestLists] /\ DOMAIN l \subseteq Nat /\ IsFiniteSet(DOMAIN l)
  BY ListFilesAre
<1> DEFINE m == Zip(l, z)
<1>2. ASSUME NEW r \in DOMAIN l
      PROVE  m[r] \in NBestLists /\ m[r].zipped = z /\ m[r].cands = l[r].cands
  <2>1. PICK c : c = l[r] /\ c \in NBestLists
    BY <1>1, <1>2 DEF NBestLists
  <2>2. m[r] = [c EXCEPT !.zipped = z]
    BY <1>2, <2>1 DEF Zip
  <2>3. [c EXCEPT !.zipped = z] = [cands |-> c.cands, zipped |-> z]
    BY <2>1 DEF NBestLists
  <2>4. QED
    BY <2>1, <2>2, <2>3 DEF NBestLists
<1>3. DOMAIN m = DOMAIN l /\ m = [r \in DOMAIN m |-> m[r]]
  BY DEF Zip
<1> HIDE DEF m
<1>4. m \in ListFiles
  <2>1. m \in [DOMAIN m -> NBestLists]
    BY <1>2, <1>3
  <2>2. QED
    BY <1>1, <1>3, <2>1, ListFilesAre
<1>5. All(m) = All(l) /\ \A q : Upto(m, q) = Upto(l, q)
  BY <1>2, <1>3 DEF All, Upto
<1>6. QED
  BY <1>2, <1>3, <1>4, <1>5 DEF m

\* The sorted file of a run is written.
LEMMA SortedWritten ==
  ASSUME NEW f \in SortedFiles, NEW r \in Nat, NEW c \in Cands
  PROVE  LET g == With(f, r, c)
         IN  /\ g \in SortedFiles /\ DOMAIN g = DOMAIN f \cup {r} /\ g[r] = c
             /\ \A q \in DOMAIN f : q # r => g[q] = f[q]
<1>1. f \in [DOMAIN f -> Cands] /\ DOMAIN f \subseteq Nat
  BY SortedFilesAre
<1> DEFINE g == With(f, r, c)
<1>2. /\ DOMAIN g = DOMAIN f \cup {r} /\ g[r] = c /\ \A q \in DOMAIN f : q # r => g[q] = f[q]
      /\ g \in [DOMAIN g -> Cands]
  BY <1>1 DEF With
<1> HIDE DEF g
<1>3. g \in SortedFiles
  BY <1>1, <1>2, SortedFilesAre
<1>4. QED
  BY <1>2, <1>3 DEF g

\* The sorted file of a run is removed.
LEMMA SortedRemoved ==
  ASSUME NEW f \in SortedFiles, NEW r \in Int
  PROVE  LET g == Without(f, r)
         IN  /\ g \in SortedFiles /\ DOMAIN g = DOMAIN f \ {r}
             /\ \A q \in DOMAIN g : g[q] = f[q]
<1>1. f \in [DOMAIN f -> Cands] /\ DOMAIN f \subseteq Nat
  BY SortedFilesAre
<1> DEFINE g == Without(f, r)
<1>2. /\ DOMAIN g = DOMAIN f \ {r} /\ \A q \in DOMAIN g : g[q] = f[q]
      /\ g \in [DOMAIN g -> Cands]
  BY <1>1 DEF Without
<1> HIDE DEF g
<1>3. g \in SortedFiles
  BY <1>1, <1>2, SortedFilesAre
<1>4. QED
  BY <1>2, <1>3 DEF g

------------------------------------------------------------------------------
(****************************************************************************)
(* The invariant.                                                           *)
(****************************************************************************)
\* The run to continue from.
Resume(d) ==
  IF d.finished = 0 THEN 0
  ELSE IF d.finished + 1 \in ZippedIn(d.list) THEN d.finished + 1 ELSE d.finished

Scoring == {"score", "merged", "scored", "cmert", "store"}
Tuning == Scoring \cup {"loop", "decode", "gzip", "finish"}

MertType ==
  /\ pc \in PCs /\ (pc = "decode" <=> script # "idle")
  /\ memory \in [run : Nat, weights : Weights, prev : Nat \cup {-1}, skip : BOOLEAN]
  /\ disk \in [list : ListFiles, sorted : SortedFiles, weights : Weights \cup {None},
               finished : Nat, ini : Weights \cup {None}]
  /\ pool \in Cands /\ (pc = "merged" => memory.run \in DOMAIN disk.sorted)
  /\ optimum \in Weights
  /\ pc = "start" => disk.finished = 0
  /\ pc \in Tuning \ {"loop"} => memory.run > 0 /\ ~memory.skip
  /\ pc = "store" => disk.weights = optimum
  /\ ~conf.efficient => disk.sorted = <<>>

\* The files, however the training was interrupted: the list of the step
\* behind the last finished one may be there, and if that is zipped the next.
\* The sorted files that a run may use have all candidates of their runs.
OnDisk(d) ==
  LET n == d.finished
      runs == DOMAIN d.list \cup DOMAIN d.sorted
  IN  /\ \A r \in runs : r <= n + 2 /\ (n = 0 => r = 1)
      /\ n + 1 \notin ZippedIn(d.list) => n + 2 \notin runs
      /\ n + 1 \notin ZippedIn(d.list) /\ n > 0 => n + 1 \notin DOMAIN d.sorted
      /\ \A r \in DOMAIN d.sorted : r <= Resume(d) => d.sorted[r] = Upto(d.list, r)

\* All sorted files are complete.
AllSorted(d) == \A r \in DOMAIN d.sorted : d.sorted[r] = Upto(d.list, r)

\* No run is ahead of this one.
Ahead(d, r) == \A q \in DOMAIN d.list \cup DOMAIN d.sorted : q <= r

InRun ==
  LET n == disk.finished
      r == memory.run
  IN  /\ pc = "loop" =>
           r = Resume(disk) /\ (memory.skip => AllZipped(disk.list) /\ r = n + 1 /\ n > 0)
      /\ pc \in {"decode", "gzip"} => r = Resume(disk) + 1
      /\ pc = "gzip" => r \in DOMAIN disk.list
      /\ pc \in Scoring =>
           r \in {n + 1, n + 2} /\ (r = n + 2 => n > 0) /\ n + 1 \in ZippedIn(disk.list)
      /\ pc \in Scoring \cup {"finish"} => AllZipped(disk.list) /\ Ahead(disk, r)
      /\ pc \in {"merged", "scored", "cmert", "store", "finish"} => AllSorted(disk)
      /\ pc \in {"scored", "cmert"} => pool = All(disk.list)
      /\ pc = "down in mert" => AllZipped(disk.list) /\ n + 1 \in ZippedIn(disk.list)

FilesInv == "sorted" \notin damage => OnDisk(disk) /\ InRun

\* In whichever process: memory and weights.txt have what cmert found last.
WeightsInv ==
  /\ pc \in Tuning \ {"store"} => memory.weights = optimum
  /\ disk.finished > 0 /\ disk.weights # None => disk.weights = optimum
  /\ pc \in {"loop", "decode", "gzip", "score", "merged", "scored"} /\ memory.prev \in Nat =>
       disk.finished > 0
  /\ pc = "finish" => disk.finished > 0

\* What the decoder finds with the weights is among the candidates.
Covered(w) ==
  \A s \in Sentences \ Untranslatable : \A h \in NBestOf(w, s) : <<s, h>> \in All(disk.list)

\* The weights are optimal for the candidates there are.
Best(w, P) == memory.prev = Cardinality(P) /\ Optimal(w, P)

Fixpoint ==
  damage = {} =>
    /\ pc \in Scoring \cup {"gzip", "finish"} => Covered(memory.weights)
    /\ pc = "loop" /\ memory.skip => Covered(memory.weights)
    /\ pc = "down in mert" /\ disk.finished > 0 /\ disk.weights # None => Covered(disk.weights)
    /\ pc = "loop" /\ memory.prev \in Nat => Best(memory.weights, Upto(disk.list, memory.run))
    /\ pc \in {"decode", "gzip", "score", "merged", "scored"} /\ memory.prev \in Nat =>
         Best(memory.weights, Upto(disk.list, memory.run - 1))
    /\ pc = "cmert" => memory.prev = Cardinality(All(disk.list))
    /\ pc = "store" => Best(disk.weights, All(disk.list))
    /\ pc = "finish" => Optimal(memory.weights, All(disk.list))
    /\ pc = "done" => Optimal(disk.ini, All(disk.list)) /\ Covered(disk.ini)

MertInv == MertType /\ FilesInv /\ WeightsInv /\ Fixpoint
TuningInv == ParallelInv /\ MertInv

------------------------------------------------------------------------------
(****************************************************************************)
(* Starting and continuing, and the decoder.                                *)
(****************************************************************************)
\* The parts of the invariant.
LEMMA InvParts ==
  ASSUME TuningInv
  PROVE  /\ ParallelInv /\ MertType /\ FilesInv /\ WeightsInv /\ Fixpoint
         /\ Seed \in Weights
         /\ memory.run \in Nat /\ memory.weights \in Weights /\ memory.prev \in Nat \cup {-1}
         /\ memory.skip \in BOOLEAN
         /\ disk.list \in ListFiles /\ disk.sorted \in SortedFiles /\ disk.finished \in Nat
         /\ disk.weights \in Weights \cup {None} /\ pool \in Cands
BY MertAssumption DEF TuningInv, MertInv, MertType

\* A training starts, or starts again where no step was finished.
LEMMA StartKeeps ==
  ASSUME TuningInv, Start
  PROVE  TuningInv'
<1>1. /\ pc' = "loop" /\ disk.finished = 0 /\ optimum' = Seed
      /\ memory' = [run |-> 0, weights |-> Seed, prev |-> -1, skip |-> FALSE]
      /\ disk' = disk /\ damage' = damage /\ pool' = pool /\ UNCHANGED parallelVars
      /\ pc \notin {"decode", "store"}
  BY InvParts DEF Start, MertType
<1>2. ParallelInv' /\ script' = script /\ conf' = conf
  BY <1>1, InvParts, ParallelStays DEF parallelVars
<1>3. MertType'
  BY <1>1, <1>2, InvParts DEF MertType, PCs, Tuning, Scoring
<1>4. FilesInv'
  BY <1>1, InvParts DEF FilesInv, InRun, Resume, Scoring
<1>5. WeightsInv'
  BY <1>1 DEF WeightsInv
<1>6. Fixpoint'
  BY <1>1 DEF Fixpoint, Scoring
<1>7. QED
  BY <1>2, <1>3, <1>4, <1>5, <1>6 DEF TuningInv, MertInv

\* A training continues: with the weights that cmert found last, from the
\* run whose lists are complete, and with the decoder skipped only if they
\* were decoded with these weights.
LEMMA ContinueKeeps ==
  ASSUME TuningInv, Continue
  PROVE  TuningInv'
<1>1. /\ pc \in {"down", "down in mert"} /\ disk.finished > 0
      /\ disk' = disk /\ damage' = damage /\ pool' = pool /\ optimum' = optimum
      /\ UNCHANGED parallelVars
  BY DEF Continue
<1>2. disk.finished \in Nat /\ disk.finished # 0
  <2>1. disk.finished \in Nat
    BY InvParts
  <2>2. disk.finished > 0
    BY <1>1
  <2>3. QED
    BY ONLY <2>1, <2>2
<1>3. ParallelInv' /\ script' = script /\ conf' = conf
  BY <1>1, InvParts, ParallelStays DEF parallelVars
<1>4. CASE pc' = "failed" /\ memory' = memory
  BY <1>1, <1>3, <1>4, InvParts
     DEF TuningInv, MertInv, MertType, PCs, FilesInv, InRun, WeightsInv, Fixpoint, Tuning,
         Scoring
<1>5. CASE /\ pc' = "loop" /\ disk.weights # None
           /\ \E skip \in SkipChoices :
                memory' = [run |-> LastStep, weights |-> disk.weights, prev |-> -1, skip |-> skip]
  <2>1. PICK skip \in SkipChoices :
          memory' = [run |-> LastStep, weights |-> disk.weights, prev |-> -1, skip |-> skip]
    BY <1>5
  <2>2. LastStep = Resume(disk) /\ LastStep \in Nat
    <3>1. Zipped = ZippedIn(disk.list)
      BY DEF Zipped, ZippedIn
    <3>2. QED
      BY <1>2, <3>1 DEF LastStep, Resume
  <2>3. skip \in BOOLEAN /\ (skip => pc = "down in mert")
    BY DEF SkipChoices
  <2>4. disk.weights \in Weights
    BY <1>5, InvParts
  <2>5. /\ memory'.run = LastStep /\ memory'.weights = disk.weights /\ memory'.prev = -1
        /\ memory'.skip = skip
        /\ memory' \in [run : Nat, weights : Weights, prev : Nat \cup {-1}, skip : BOOLEAN]
    BY <2>1, <2>2, <2>3, <2>4
  <2>6. MertType'
    BY <1>1, <1>3, <1>5, <2>5, InvParts DEF MertType, PCs, Tuning, Scoring
  <2>7. FilesInv'
    <3>1. SUFFICES ASSUME "sorted" \notin damage
                   PROVE  OnDisk(disk)' /\ InRun'
      BY <1>1 DEF FilesInv
    <3>2. OnDisk(disk) /\ InRun
      BY <3>1, InvParts DEF FilesInv
    <3>3. skip => AllZipped(disk.list) /\ Resume(disk) = disk.finished + 1 /\ disk.finished > 0
      <4>1. skip => AllZipped(disk.list) /\ disk.finished + 1 \in ZippedIn(disk.list)
        BY <2>3, <3>2 DEF InRun
      <4>2. QED
        BY <1>2, <4>1 DEF Resume
    <3>4. QED
      BY <1>1, <1>5, <2>2, <2>5, <3>2, <3>3 DEF InRun, Scoring
  <2>8. WeightsInv'
    BY <1>1, <1>5, <2>5, InvParts DEF WeightsInv
  <2>9. Fixpoint'
    <3>1. Covered(disk.weights)' = Covered(disk.weights)
      BY <1>1 DEF Covered
    <3>2. memory'.skip /\ damage = {} => Covered(disk.weights)
      BY <1>1, <1>5, <2>3, <2>5, InvParts DEF Fixpoint
    <3>3. memory'.skip /\ damage = {} => Covered(memory.weights)'
      BY <1>1, <2>5, <3>2 DEF Covered
    <3>4. memory'.prev \notin Nat
      BY <2>5
    <3>5. QED
      BY <1>1, <1>5, <3>3, <3>4 DEF Fixpoint, Scoring
  <2>10. QED
    BY <1>3, <2>6, <2>7, <2>8, <2>9 DEF TuningInv, MertInv
<1>6. QED
  BY <1>4, <1>5 DEF Continue

\* The next run: its number is the first without a list.
LEMMA NextRunKeeps ==
  ASSUME TuningInv, NextRun
  PROVE  TuningInv'
<1>1. /\ pc = "loop" /\ memory' = [memory EXCEPT !.run = memory.run + 1, !.skip = FALSE]
      /\ disk' = disk /\ damage' = damage /\ pool' = pool /\ optimum' = optimum
      /\ conf' = conf /\ result' = result
      /\ pc' = IF memory.skip THEN "score" ELSE "decode"
      /\ memory.skip => UNCHANGED parallelVars
      /\ ~memory.skip => StartScript
  BY DEF NextRun, parallelVars
<1>2. script = "idle"
  BY <1>1, InvParts DEF MertType
<1>3. ParallelInv' /\ script' = IF memory.skip THEN "idle" ELSE "submit"
  BY <1>1, <1>2, InvParts, ParallelStays, StartScriptKeeps DEF parallelVars, StartScript
<1>4. /\ memory' \in [run : Nat, weights : Weights, prev : Nat \cup {-1}, skip : BOOLEAN]
      /\ memory'.run = memory.run + 1 /\ memory'.weights = memory.weights
      /\ memory'.prev = memory.prev /\ ~memory'.skip
  <2>1. memory \in [run : Nat, weights : Weights, prev : Nat \cup {-1}, skip : BOOLEAN]
    BY InvParts DEF MertType
  <2>2. memory' = [memory EXCEPT !.run = memory.run + 1, !.skip = FALSE]
    BY <1>1
  <2>3. memory' = [run |-> memory.run + 1, weights |-> memory.weights, prev |-> memory.prev,
                   skip |-> FALSE]
    BY ONLY <2>1, <2>2
  <2>4. memory.run + 1 \in Nat
    BY <2>1
  <2>5. QED
    BY ONLY <2>1, <2>3, <2>4
<1>5. MertType'
  BY <1>1, <1>3, <1>4, InvParts DEF MertType, PCs, Tuning, Scoring
<1>6. FilesInv'
  <2>1. SUFFICES ASSUME "sorted" \notin damage
                 PROVE  OnDisk(disk)' /\ InRun'
    BY <1>1 DEF FilesInv
  <2>2. /\ OnDisk(disk) /\ memory.run = Resume(disk)
        /\ memory.skip => AllZipped(disk.list) /\ memory.run = disk.finished + 1 /\
           disk.finished > 0
    BY <1>1, <2>1, InvParts DEF FilesInv, InRun
  <2>3. CASE memory.skip
    <3>1. disk.finished + 1 \in ZippedIn(disk.list) /\ memory'.run = disk.finished + 2
      BY <1>4, <2>2, <2>3, InvParts DEF Resume
    <3>2. Ahead(disk, memory'.run)
      BY <2>2, <3>1 DEF Ahead, OnDisk
    <3>3. QED
      BY <1>1, <2>2, <2>3, <3>1, <3>2 DEF InRun, Scoring
  <2>4. CASE ~memory.skip
    BY <1>1, <1>4, <2>2, <2>4 DEF InRun, Scoring
  <2>5. QED
    BY <2>3, <2>4
<1>7. WeightsInv'
  BY <1>1, <1>4, InvParts DEF WeightsInv, Tuning, Scoring
<1>8. Fixpoint'
  <2>1. SUFFICES ASSUME damage = {}
                 PROVE  Fixpoint'
    BY <1>1 DEF Fixpoint
  <2>2. /\ memory.skip => Covered(memory.weights)
        /\ memory.prev \in Nat => Best(memory.weights, Upto(disk.list, memory.run))
    BY <1>1, <2>1, InvParts DEF Fixpoint
  <2>3. memory'.run - 1 = memory.run
    BY <1>4, InvParts
  <2>4. memory'.prev \in Nat => Best(memory.weights, Upto(disk.list, memory.run - 1))'
    BY <1>1, <1>4, <2>2, <2>3 DEF Best
  <2>5. memory.skip => Covered(memory.weights)'
    BY <1>1, <1>4, <2>2 DEF Covered
  <2>6. QED
    BY <1>1, <2>4, <2>5 DEF Fixpoint, Scoring
<1>9. QED
  BY <1>3, <1>5, <1>6, <1>7, <1>8 DEF TuningInv, MertInv

\* The parallel script takes a step, or has died.
LEMMA DecodingKeeps ==
  ASSUME TuningInv, Decoding \/ DecoderDied
  PROVE  TuningInv'
<1>1. /\ pc = "decode" /\ script # "idle" /\ conf' = conf
      /\ memory' = memory /\ disk' = disk /\ damage' = damage /\ pool' = pool
      /\ optimum' = optimum
      /\ \/ pc' = "decode" /\ ParallelNext
         \/ pc' = "down" /\ LeaveScript
  <2>1. CASE Decoding
    BY <2>1, InvParts
       DEF Decoding, mertVars, MertType, ParallelNext, Submit, JobsEnded, ExtraWait, CheckJobs,
           GiveUp, kill_all_and_quit, concatenate_1best, OpenLists, AddList, EndPart,
           OutputBestHypo, OutputNBestList, DecoderEnds, MoveNBest, MoveTrans, DecoderCrashes,
           NodeFails, Appear
  <2>2. CASE DecoderDied
    BY <2>2, InvParts DEF DecoderDied, MertType
  <2>3. QED
    BY <2>1, <2>2
<1>2. ParallelInv' /\ (pc' = "decode" <=> script' # "idle")
  <2>1. CASE ParallelNext /\ pc' = "decode"
    <3>1. ParallelInv'
      BY <1>1, <2>1, InvParts, ParallelStep
    <3>2. script' # "idle"
      BY <1>1, <2>1
         DEF ParallelNext, Submit, JobsEnded, ExtraWait, CheckJobs, GiveUp, kill_all_and_quit,
             concatenate_1best, OpenLists, AddList, EndPart, OutputBestHypo, OutputNBestList,
             DecoderEnds, MoveNBest, MoveTrans, DecoderCrashes, NodeFails, Appear
    <3>3. QED
      BY <2>1, <3>1, <3>2
  <2>2. CASE LeaveScript /\ pc' = "down"
    BY <1>1, <2>2, InvParts, LeaveKeeps
  <2>3. QED
    BY <1>1, <2>1, <2>2
<1>3. MertType'
  BY <1>1, <1>2, InvParts DEF MertType, PCs, Tuning, Scoring
<1>4. FilesInv'
  BY <1>1, InvParts DEF FilesInv, InRun, Scoring
<1>5. WeightsInv'
  BY <1>1, InvParts DEF WeightsInv, Tuning, Scoring
<1>6. Fixpoint'
  BY <1>1, InvParts DEF Fixpoint, Scoring, Best
<1>7. QED
  BY <1>2, <1>3, <1>4, <1>5, <1>6 DEF TuningInv, MertInv

------------------------------------------------------------------------------
(****************************************************************************)
(* What the decoder has found.                                              *)
(****************************************************************************)
\* What is added to the lists of the runs.
LEMMA CandidatesAre ==
  ASSUME TuningInv
  PROVE  [cands |-> Candidates, zipped |-> FALSE] \in NBestLists
<1>1. PICK s, w : s = result.nbest /\ w = memory.weights
  OBVIOUS
<1> DEFINE H(e) == IF e.of = Empty THEN {Empty} ELSE NBestOf(w, e.of)
           C(e) == {<<e.code, h>> : h \in H(e)}
           f == [k \in DOMAIN s |-> C(s[k])]
<1>2. s \in Seq(Entries) /\ w \in Weights
  BY <1>1, InvParts DEF ParallelInv, ParallelType, Results
<1>3. DOMAIN s = 1 .. Len(s) /\ IsFiniteSet(DOMAIN s)
  <2>1. Len(s) \in Nat /\ DOMAIN s = 1 .. Len(s)
    BY <1>2
  <2>2. IsFiniteSet(1 .. Len(s))
    BY ONLY <2>1, 1 \in Int, Len(s) \in Int, FS_Interval
  <2>3. QED
    BY <2>1, <2>2
<1>4. ASSUME NEW e \in Entries
      PROVE  C(e) \subseteq Int \X Hyps /\ IsFiniteSet(C(e))
  <2>1. e.code \in Int /\ e.of \in Sentences \cup {Empty}
    BY DEF Entries
  <2>2. H(e) \subseteq Hyps /\ IsFiniteSet(H(e))
    <3>1. CASE e.of = Empty
      <4>1. H(e) = {Empty} /\ IsFiniteSet({Empty})
        BY <3>1, FS_Singleton
      <4>2. QED
        BY <4>1 DEF Hyps
    <3>2. CASE e.of # Empty
      <4>1. H(e) = NBestOf(w, e.of) /\ e.of \in Sentences
        BY <2>1, <3>2
      <4>2. H(e) \subseteq Hyps
        BY <1>2, <4>1 DEF Hyps
      <4>3. IsFiniteSet(H(e))
        BY <1>2, <4>1, MertAssumption DEF Sentences
      <4>4. QED
        BY <4>2, <4>3
    <3>3. QED
      BY <3>1, <3>2
  <2> HIDE DEF H
  <2>3. C(e) \subseteq Int \X Hyps
    BY <2>1, <2>2
  <2> DEFINE g == [h \in H(e) |-> <<e.code, h>>]
  <2>4. IsFiniteSet({g[h] : h \in DOMAIN g})
    BY <2>2, FiniteImage
  <2>5. {g[h] : h \in DOMAIN g} = C(e)
    OBVIOUS
  <2>6. QED
    BY <2>3, <2>4, <2>5
<1>5. Candidates = UNION {C(s[k]) : k \in DOMAIN s}
  BY <1>1 DEF Candidates
<1> HIDE DEF C, H
<1>6. \A k \in DOMAIN s : C(s[k]) \subseteq Int \X Hyps /\ IsFiniteSet(C(s[k]))
  <2>1. \A k \in DOMAIN s : s[k] \in Entries
    BY <1>2, <1>3, ElementOfSeq
  <2>2. QED
    BY <1>4, <2>1
<1>7. IsFiniteSet({f[k] : k \in DOMAIN f})
  BY <1>3, FiniteImage
<1>8. {f[k] : k \in DOMAIN f} = {C(s[k]) : k \in DOMAIN s}
  OBVIOUS
<1>9. \A c \in {f[k] : k \in DOMAIN f} : c \subseteq Int \X Hyps /\ IsFiniteSet(c)
  BY <1>6, <1>8
<1>10. Candidates = UNION {f[k] : k \in DOMAIN f}
  BY <1>5, <1>8
<1> HIDE DEF f
<1>11. IsFiniteSet(Candidates) /\ Candidates \subseteq Int \X Hyps
  BY <1>7, <1>9, <1>10, FS_UNION
<1>12. QED
  BY <1>11 DEF NBestLists, Cands

\* With no crash on the way, they are all that the decoder finds.
LEMMA CandidatesCover ==
  ASSUME TuningInv, script = "done", ~stale, Sentences \subseteq ListedSentences \cup Untranslatable,
         NEW s \in Sentences \ Untranslatable, NEW h \in NBestOf(memory.weights, s)
  PROVE  <<s, h>> \in Candidates
<1>1. MergedAsOne
  BY InvParts, MergedIs
<1>2. s \in ListsOf(result.nbest) /\ s # Empty
  BY ListedAre
<1>3. PICK k \in DOMAIN result.nbest : result.nbest[k].of = s
  BY <1>2 DEF ListsOf
<1>4. result.nbest[k].code = s
  BY <1>1, <1>2, <1>3 DEF MergedAsOne
<1>5. QED
  BY <1>2, <1>3, <1>4 DEF Candidates

\* The list of the run is written.  A sorted file that was left for this run
\* or a later one would be wrong now: there is none that will be used.
LEMMA DecoderDoneKeeps ==
  ASSUME TuningInv, DecoderDone
  PROVE  TuningInv'
<1> DEFINE new == [cands |-> Candidates, zipped |-> FALSE]
<1>1. /\ pc = "decode" /\ script = "done" /\ pc' = "gzip" /\ LeaveScript
      /\ disk' = [disk EXCEPT !.list = With(disk.list, memory.run, new)]
      /\ conf' = conf /\ memory' = memory /\ pool' = pool /\ optimum' = optimum
      /\ damage' = IF ~stale /\ Sentences \subseteq ListedSentences \cup Untranslatable
                   THEN damage ELSE damage \cup {"lists"}
  BY DEF DecoderDone, Sentences
<1>2. ParallelInv' /\ script' = "idle"
  BY <1>1, InvParts, LeaveKeeps
<1>3. new \in NBestLists
  BY CandidatesAre
<1> HIDE DEF new
<1>4. PICK l : l = With(disk.list, memory.run, new)
  OBVIOUS
<1>5. disk \in [list : ListFiles, sorted : SortedFiles, weights : Weights \cup {None},
                finished : Nat, ini : Weights \cup {None}]
  BY InvParts DEF MertType
<1>6. /\ l \in ListFiles /\ DOMAIN l = DOMAIN disk.list \cup {memory.run} /\ l[memory.run] = new
      /\ \A q \in DOMAIN disk.list : q # memory.run => l[q] = disk.list[q]
      /\ new.cands \subseteq All(l)
      /\ \A q \in Nat : q < memory.run => Upto(l, q) = Upto(disk.list, q)
  <2>1. PICK k \in ListFiles, r \in Nat, c \in NBestLists :
          k = disk.list /\ r = memory.run /\ c = new
    BY <1>3, InvParts
  <2>2. l = With(k, r, c)
    BY <1>4, <2>1
  <2>3. /\ l \in ListFiles /\ DOMAIN l = DOMAIN k \cup {r} /\ l[r] = c
        /\ \A q \in DOMAIN k : q # r => l[q] = k[q]
        /\ c.cands \subseteq All(l)
        /\ \A q \in Nat : q < r => Upto(l, q) = Upto(k, q)
    BY <2>2, ListWritten
  <2>4. QED
    BY <2>1, <2>3
<1>7. /\ disk'.list = l /\ disk'.sorted = disk.sorted /\ disk'.weights = disk.weights
      /\ disk'.finished = disk.finished /\ disk'.ini = disk.ini
      /\ disk' \in [list : ListFiles, sorted : SortedFiles, weights : Weights \cup {None},
                    finished : Nat, ini : Weights \cup {None}]
  <2>1. disk' = [disk EXCEPT !.list = l]
    BY <1>1, <1>4
  <2>2. QED
    BY ONLY <1>5, <1>6, <2>1
<1>8. MertType'
  BY <1>1, <1>2, <1>7, InvParts DEF MertType, PCs, Tuning, Scoring
<1>9. FilesInv'
  <2>1. SUFFICES ASSUME "sorted" \notin damage
                 PROVE  OnDisk(disk)' /\ InRun'
    BY <1>1 DEF FilesInv
  <2>2. PICK n \in Nat, r \in Nat : n = disk.finished /\ r = memory.run
    BY InvParts
  <2>3. OnDisk(disk) /\ r = Resume(disk) + 1
    BY <1>1, <2>1, <2>2, InvParts DEF FilesInv, InRun
  <2>4. /\ \A q \in DOMAIN disk.list \cup DOMAIN disk.sorted : q <= n + 2 /\ (n = 0 => q = 1)
        /\ n + 1 \notin ZippedIn(disk.list) =>
             n + 2 \notin DOMAIN disk.list \cup DOMAIN disk.sorted
        /\ n + 1 \notin ZippedIn(disk.list) /\ n > 0 => n + 1 \notin DOMAIN disk.sorted
        /\ \A q \in DOMAIN disk.sorted : q < r => disk.sorted[q] = Upto(disk.list, q)
        /\ DOMAIN disk.sorted \subseteq Nat
    <3>1. DOMAIN disk.sorted \subseteq Nat
      BY InvParts, SortedFilesAre
    <3>2. Resume(disk) \in Nat
      BY <2>2 DEF Resume
    <3>3. \A q \in DOMAIN disk.sorted : q < r => q <= Resume(disk)
      BY <2>3, <3>1, <3>2
    <3>4. QED
      BY <2>2, <2>3, <3>1, <3>3 DEF OnDisk
  <2>5. ZippedIn(l) = ZippedIn(disk.list) \ {r}
    BY <1>6, <2>2 DEF ZippedIn, new
  <2>6. r = IF n = 0 THEN 1 ELSE IF n + 1 \in ZippedIn(disk.list) THEN n + 2 ELSE n + 1
    BY <2>2, <2>3 DEF Resume
  <2>7. Resume(disk') = Resume(disk)
    BY <1>7, <2>2, <2>5, <2>6 DEF Resume
  <2>8. \A q \in DOMAIN l \cup DOMAIN disk.sorted : q <= n + 2 /\ (n = 0 => q = 1)
    BY <1>6, <2>2, <2>4, <2>6
  <2>9. n + 1 \notin ZippedIn(l) => n + 2 \notin DOMAIN l \cup DOMAIN disk.sorted
    BY <1>6, <2>2, <2>4, <2>5, <2>6
  <2>10. n + 1 \notin ZippedIn(l) /\ n > 0 => n + 1 \notin DOMAIN disk.sorted
    BY <2>2, <2>4, <2>5, <2>6
  <2>11. \A q \in DOMAIN disk.sorted : q <= Resume(disk') => disk.sorted[q] = Upto(l, q)
    <3>1. SUFFICES ASSUME NEW q \in DOMAIN disk.sorted, q <= Resume(disk)
                   PROVE  disk.sorted[q] = Upto(l, q)
      BY <2>7
    <3>2. q \in Nat /\ q < r
      <4>1. Resume(disk) \in Nat
        BY <2>2 DEF Resume
      <4>2. QED
        BY <2>3, <2>4, <3>1, <4>1
    <3>3. QED
      BY <1>6, <2>2, <2>4, <3>2
  <2>12. OnDisk(disk')
    BY <1>7, <2>2, <2>8, <2>9, <2>10, <2>11 DEF OnDisk
  <2>13. InRun'
    BY <1>1, <1>6, <1>7, <2>2, <2>3, <2>7 DEF InRun, Scoring
  <2>14. QED
    BY <2>12, <2>13
<1>10. WeightsInv'
  BY <1>1, <1>7, InvParts DEF WeightsInv, Tuning, Scoring
<1>11. Fixpoint'
  <2>1. SUFFICES ASSUME damage' = {}
                 PROVE  Fixpoint'
    BY DEF Fixpoint
  <2>2. damage = {} /\ ~stale /\ Sentences \subseteq ListedSentences \cup Untranslatable
    BY <1>1, <2>1
  <2>3. Covered(memory.weights)'
    <3>1. SUFFICES ASSUME NEW s \in Sentences \ Untranslatable, NEW h \in NBestOf(memory.weights, s)
                   PROVE  <<s, h>> \in All(l)
      BY <1>1, <1>7 DEF Covered, Sentences
    <3>2. <<s, h>> \in Candidates
      BY <1>1, <2>2, CandidatesCover
    <3>3. QED
      BY <1>6, <3>2 DEF new
  <2>4. memory.prev \in Nat => Best(memory.weights, Upto(disk.list, memory.run - 1))
    BY <1>1, <2>2, InvParts DEF Fixpoint
  <2>5. Upto(l, memory.run - 1) = Upto(disk.list, memory.run - 1)
    <3>1. memory.run \in Nat /\ memory.run > 0
      BY <1>1, InvParts DEF MertType, Tuning
    <3>2. memory.run - 1 \in Nat /\ memory.run - 1 < memory.run
      BY ONLY <3>1
    <3>3. QED
      BY <1>6, <3>2
  <2>6. memory'.prev \in Nat => Best(memory.weights, Upto(disk.list, memory.run - 1))'
    BY <1>1, <1>7, <2>4, <2>5 DEF Best
  <2>7. QED
    BY <1>1, <2>3, <2>6 DEF Fixpoint, Scoring
<1>12. QED
  BY <1>2, <1>8, <1>9, <1>10, <1>11 DEF TuningInv, MertInv

------------------------------------------------------------------------------
(****************************************************************************)
(* The candidates of all runs.                                              *)
(****************************************************************************)
\* All lists are zipped, those of earlier runs that were unzipped too.
LEMMA GzipKeeps ==
  ASSUME TuningInv, Gzip
  PROVE  TuningInv'
<1>1. /\ pc = "gzip" /\ pc' = "score"
      /\ disk' = [disk EXCEPT !.list = Zip(disk.list, TRUE)]
      /\ UNCHANGED parallelVars /\ memory' = memory /\ pool' = pool /\ optimum' = optimum
      /\ damage' = damage
  BY DEF Gzip
<1>2. ParallelInv' /\ script' = script /\ conf' = conf
  BY <1>1, InvParts, ParallelStays DEF parallelVars
<1>3. PICK k \in ListFiles : k = disk.list
  BY InvParts
<1>4. PICK l : l = Zip(k, TRUE)
  OBVIOUS
<1>5. /\ l \in ListFiles /\ DOMAIN l = DOMAIN k /\ \A r \in DOMAIN k : l[r].zipped
      /\ All(l) = All(k) /\ \A q : Upto(l, q) = Upto(k, q)
  BY <1>3, <1>4, ListsZipped
<1>6. disk \in [list : ListFiles, sorted : SortedFiles, weights : Weights \cup {None},
                finished : Nat, ini : Weights \cup {None}]
  BY InvParts DEF MertType
<1>7. /\ disk'.list = l /\ disk'.sorted = disk.sorted /\ disk'.weights = disk.weights
      /\ disk'.finished = disk.finished /\ disk'.ini = disk.ini
      /\ disk' \in [list : ListFiles, sorted : SortedFiles, weights : Weights \cup {None},
                    finished : Nat, ini : Weights \cup {None}]
  <2>1. disk' = [disk EXCEPT !.list = l]
    BY <1>1, <1>3, <1>4
  <2>2. QED
    BY ONLY <1>5, <1>6, <2>1
<1>8. MertType'
  BY <1>1, <1>2, <1>7, InvParts DEF MertType, PCs, Tuning, Scoring
<1>9. FilesInv'
  <2>1. SUFFICES ASSUME "sorted" \notin damage
                 PROVE  OnDisk(disk)' /\ InRun'
    BY <1>1 DEF FilesInv
  <2>2. PICK n \in Nat, r \in Nat : n = disk.finished /\ r = memory.run
    BY InvParts
  <2>3. OnDisk(disk) /\ r = Resume(disk) + 1 /\ r \in DOMAIN l
    BY <1>1, <1>3, <1>4, <1>5, <2>1, <2>2, InvParts DEF FilesInv, InRun
  <2>4. /\ \A q \in DOMAIN l \cup DOMAIN disk.sorted : q <= n + 2 /\ (n = 0 => q = 1)
        /\ n + 1 \notin ZippedIn(k) => n + 2 \notin DOMAIN l \cup DOMAIN disk.sorted
        /\ n + 1 \notin ZippedIn(k) /\ n > 0 => n + 1 \notin DOMAIN disk.sorted
        /\ \A q \in DOMAIN disk.sorted : q <= Resume(disk) => disk.sorted[q] = Upto(k, q)
    BY <1>3, <1>4, <1>5, <2>2, <2>3 DEF OnDisk
  <2>5. r = IF n = 0 THEN 1 ELSE IF n + 1 \in ZippedIn(k) THEN n + 2 ELSE n + 1
    BY <1>3, <1>4, <2>2, <2>3 DEF Resume
  <2>6. ZippedIn(l) = DOMAIN l /\ ZippedIn(k) \subseteq DOMAIN l /\ AllZipped(l)
    BY <1>5 DEF ZippedIn, AllZipped
  <2>7. n + 1 \in ZippedIn(l)
    BY <2>2, <2>3, <2>5, <2>6
  <2>8. DOMAIN disk.sorted \subseteq Nat /\ DOMAIN l \subseteq Nat
    BY <1>5, InvParts, SortedFilesAre, ListFilesAre
  <2>9. Resume(disk) = r - 1 /\ Resume(disk') = IF n = 0 THEN 0 ELSE n + 1
    <3>1. Resume(disk) \in Nat
      BY <2>2 DEF Resume
    <3>2. Resume(disk) = r - 1
      BY <2>3, <3>1
    <3>3. QED
      BY <1>7, <2>2, <2>7, <3>2 DEF Resume
  <2>10. \A q \in DOMAIN disk.sorted : q <= Resume(disk') => disk.sorted[q] = Upto(l, q)
    <3>1. SUFFICES ASSUME NEW q \in DOMAIN disk.sorted, q <= Resume(disk')
                   PROVE  disk.sorted[q] = Upto(l, q)
      OBVIOUS
    <3>2. q \in Nat
      BY <2>8
    <3>3. q <= Resume(disk)
      BY <2>2, <2>4, <2>5, <2>9, <3>1, <3>2
    <3>4. QED
      BY <1>5, <2>4, <3>3
  <2>11. OnDisk(disk')
    BY <1>7, <2>2, <2>4, <2>7, <2>10 DEF OnDisk
  <2>12. Ahead(disk', r)
    <3>1. SUFFICES ASSUME NEW q \in DOMAIN l \cup DOMAIN disk.sorted
                   PROVE  q <= r
      BY <1>7 DEF Ahead
    <3>2. q \in Nat
      BY <2>8
    <3>3. QED
      BY <2>2, <2>4, <2>5, <3>2
  <2>13. InRun'
    <3>1. r \in {n + 1, n + 2} /\ (r = n + 2 => n > 0)
      BY <2>5
    <3>2. n + 1 \in ZippedIn(disk'.list) /\ AllZipped(disk'.list)
      BY <1>7, <2>6, <2>7
    <3>3. pc' = "score" /\ memory'.run = r /\ disk'.finished = n
      BY <1>1, <1>7, <2>2
    <3>4. QED
      BY <2>12, <3>1, <3>2, <3>3 DEF InRun, Scoring
  <2>14. QED
    BY <2>11, <2>13
<1>10. WeightsInv'
  BY <1>1, <1>7, InvParts DEF WeightsInv, Tuning, Scoring
<1>11. Fixpoint'
  BY <1>1, <1>3, <1>4, <1>5, <1>7, InvParts DEF Fixpoint, Scoring, Covered, Best
<1>12. QED
  BY <1>2, <1>8, <1>9, <1>10, <1>11 DEF TuningInv, MertInv

\* All lists are found if all are zipped.
LEMMA AllFound ==
  ASSUME AllZipped(disk.list)
  PROVE  AllListed = All(disk.list) /\ Zipped = DOMAIN disk.list
BY DEF AllZipped, AllListed, All, Zipped

\* Only finitely many candidates are listed.
LEMMA AllListedAre ==
  ASSUME disk.list \in ListFiles
  PROVE  AllListed \in Cands
<1>1. AllListed \subseteq All(disk.list)
  BY DEF AllListed, All, Zipped
<1>2. QED
  BY <1>1, ListFacts, SomeCands

\* Without -efficient, the candidates are read from all lists.
LEMMA ScoreAllKeeps ==
  ASSUME TuningInv, ScoreAll
  PROVE  TuningInv'
<1>1. /\ pc = "score" /\ ~conf.efficient /\ pc' = "scored" /\ pool' = AllListed
      /\ UNCHANGED parallelVars /\ memory' = memory /\ disk' = disk /\ optimum' = optimum
      /\ damage' = damage
  BY DEF ScoreAll
<1>2. ParallelInv' /\ script' = script /\ conf' = conf
  BY <1>1, InvParts, ParallelStays DEF parallelVars
<1>3. MertType'
  <2>1. AllListed \in Cands
    BY InvParts, AllListedAre
  <2>2. QED
    BY <1>1, <1>2, <2>1, InvParts DEF MertType, PCs, Tuning, Scoring
<1>4. FilesInv'
  <2>1. SUFFICES ASSUME "sorted" \notin damage
                 PROVE  OnDisk(disk)' /\ InRun'
    BY <1>1 DEF FilesInv
  <2>2. OnDisk(disk) /\ InRun /\ disk.sorted = <<>>
    BY <1>1, <2>1, InvParts DEF FilesInv, MertType
  <2>3. AllSorted(disk)
    BY <2>2 DEF AllSorted
  <2>4. AllZipped(disk.list)
    BY <1>1, <2>2 DEF InRun, Scoring
  <2>5. pool' = All(disk.list)
    BY <1>1, <2>4, AllFound
  <2>6. InRun'
    BY <1>1, <2>2, <2>3, <2>5 DEF InRun, Scoring
  <2>7. QED
    BY <1>1, <2>2, <2>6
<1>5. WeightsInv'
  BY <1>1, InvParts DEF WeightsInv, Tuning, Scoring
<1>6. Fixpoint'
  BY <1>1, InvParts DEF Fixpoint, Scoring, Covered, Best
<1>7. QED
  BY <1>2, <1>3, <1>4, <1>5, <1>6 DEF TuningInv, MertInv

\* With it, they are merged from the sorted file of the run before and the
\* list of this run, and are all there are.
LEMMA SortedIs ==
  ASSUME TuningInv, pc = "score"
  PROVE  /\ Sorted \in Cands
         /\ "sorted" \notin damage => Sorted = Upto(disk.list, memory.run)
<1>1. PICK l \in ListFiles, f \in SortedFiles, n \in Nat, r \in Nat \ {0} :
        l = disk.list /\ f = disk.sorted /\ n = disk.finished /\ r = memory.run
  BY InvParts DEF MertType, Tuning, Scoring
<1>2. /\ f \in [DOMAIN f -> Cands] /\ DOMAIN f \subseteq Nat
      /\ DOMAIN l \subseteq Nat
      /\ \A q \in DOMAIN l : l[q].cands \in Cands
      /\ (\A q \in DOMAIN l : q <= r) => Upto(l, r) = All(l)
  BY SortedFilesAre, ListFacts
<1>3. Zipped = {q \in DOMAIN l : l[q].zipped}
  BY <1>1 DEF Zipped
<1>4. Found(r) \in Cands /\ Found(1) \in Cands /\ AllListed \in Cands
  <2>1. {} \in Cands
    BY FS_EmptySet DEF Cands
  <2>2. QED
    BY <1>1, <1>2, <1>3, <2>1, AllListedAre DEF Found
<1>5. Sorted = IF r = 1 THEN Found(1)
               ELSE IF r - 1 \in DOMAIN f THEN f[r - 1] \cup Found(r) ELSE AllListed
  BY <1>1 DEF Sorted
<1>6. Sorted \in Cands
  <2>1. \A c, d \in Cands : c \cup d \in Cands
    BY FS_Union DEF Cands
  <2>2. QED
    BY <1>2, <1>4, <1>5, <2>1
<1>7. ASSUME "sorted" \notin damage
      PROVE  Sorted = Upto(l, r)
  <2>1. /\ OnDisk(disk) /\ r \in {n + 1, n + 2} /\ (r = n + 2 => n > 0)
        /\ n + 1 \in ZippedIn(l) /\ AllZipped(l)
        /\ \A q \in DOMAIN l : q <= r
        /\ \A q \in DOMAIN l : n = 0 => q = 1
    BY <1>1, <1>7, InvParts DEF FilesInv, InRun, Scoring, Ahead, OnDisk
  <2>2. Zipped = DOMAIN l /\ AllListed = All(l)
    BY <1>1, <2>1, AllFound
  <2>3. Found(r) = IF r \in DOMAIN l THEN l[r].cands ELSE {}
    BY <1>1, <2>2 DEF Found
  <2>4. Upto(l, r) = Upto(l, r - 1) \cup Found(r)
    <3>1. \A q \in DOMAIN l : q <= r <=> q <= r - 1 \/ q = r
      BY <1>2
    <3>2. QED
      BY <2>3, <3>1 DEF Upto
  <2>5. CASE r = 1
    <3>1. \A q \in DOMAIN l : ~(q <= r - 1)
      <4>1. n = 0
        BY <2>1, <2>5
      <4>2. QED
        BY <2>1, <2>5, <4>1
    <3>2. Upto(l, r - 1) = {}
      BY <3>1 DEF Upto
    <3>3. QED
      BY <1>5, <2>4, <2>5, <3>2
  <2>6. CASE r # 1 /\ r - 1 \in DOMAIN f
    <3>1. n > 0
      BY <2>1, <2>6
    <3>2. Resume(disk) = n + 1
      BY <1>1, <2>1, <3>1 DEF Resume
    <3>3. r - 1 <= Resume(disk)
      BY <2>1, <3>2
    <3>4. f[r - 1] = Upto(l, r - 1)
      BY <1>1, <2>1, <2>6, <3>3 DEF OnDisk
    <3>5. QED
      BY <1>5, <2>4, <2>6, <3>4
  <2>7. CASE r # 1 /\ r - 1 \notin DOMAIN f
    BY <1>2, <1>5, <2>1, <2>2, <2>7
  <2>8. QED
    BY <2>5, <2>6, <2>7
<1>8. QED
  BY <1>1, <1>6, <1>7

\* The sorted file of this run is complete.
LEMMA MergeSortedKeeps ==
  ASSUME TuningInv, MergeSorted
  PROVE  TuningInv'
<1>1. /\ pc = "score" /\ conf.efficient /\ pc' = "merged"
      /\ disk' = [disk EXCEPT !.sorted = With(disk.sorted, memory.run, Sorted)]
      /\ UNCHANGED parallelVars /\ memory' = memory /\ pool' = pool /\ optimum' = optimum
      /\ damage' = damage
  BY DEF MergeSorted
<1>2. ParallelInv' /\ script' = script /\ conf' = conf
  BY <1>1, InvParts, ParallelStays DEF parallelVars
<1>3. PICK f \in SortedFiles, r \in Nat, c \in Cands :
        f = disk.sorted /\ r = memory.run /\ c = Sorted
  BY <1>1, InvParts, SortedIs
<1>4. PICK g : g = With(f, r, c)
  OBVIOUS
<1>5. /\ g \in SortedFiles /\ DOMAIN g = DOMAIN f \cup {r} /\ g[r] = c
      /\ \A q \in DOMAIN f : q # r => g[q] = f[q]
  BY <1>4, SortedWritten
<1>6. disk \in [list : ListFiles, sorted : SortedFiles, weights : Weights \cup {None},
                finished : Nat, ini : Weights \cup {None}]
  BY InvParts DEF MertType
<1>7. /\ disk'.list = disk.list /\ disk'.sorted = g /\ disk'.weights = disk.weights
      /\ disk'.finished = disk.finished /\ disk'.ini = disk.ini
      /\ disk' \in [list : ListFiles, sorted : SortedFiles, weights : Weights \cup {None},
                    finished : Nat, ini : Weights \cup {None}]
  <2>1. disk' = [disk EXCEPT !.sorted = g]
    BY <1>1, <1>3, <1>4
  <2>2. QED
    BY ONLY <1>5, <1>6, <2>1
<1>8. MertType'
  <2>1. memory.run \in DOMAIN g
    BY <1>3, <1>5
  <2>2. QED
    BY <1>1, <1>2, <1>7, <2>1, InvParts DEF MertType, PCs, Tuning, Scoring
<1>9. FilesInv'
  <2>1. SUFFICES ASSUME "sorted" \notin damage
                 PROVE  OnDisk(disk)' /\ InRun'
    BY <1>1 DEF FilesInv
  <2>2. PICK n \in Nat, l \in ListFiles : n = disk.finished /\ l = disk.list
    BY InvParts
  <2>3. /\ OnDisk(disk) /\ r \in {n + 1, n + 2} /\ (r = n + 2 => n > 0)
        /\ n + 1 \in ZippedIn(l) /\ AllZipped(l) /\ Ahead(disk, r)
    BY <1>1, <1>3, <2>1, <2>2, InvParts DEF FilesInv, InRun, Scoring
  <2>4. /\ \A q \in DOMAIN l \cup DOMAIN f : q <= n + 2 /\ (n = 0 => q = 1)
        /\ \A q \in DOMAIN l \cup DOMAIN f : q <= r
        /\ \A q \in DOMAIN f : q <= Resume(disk) => f[q] = Upto(l, q)
    BY <1>3, <2>2, <2>3 DEF OnDisk, Ahead
  <2>5. DOMAIN f \subseteq Nat
    BY SortedFilesAre
  <2>6. n > 0 => Resume(disk) = n + 1
    BY <2>2, <2>3 DEF Resume
  <2>7. AllSorted(disk')
    <3>1. c = Upto(l, r)
      BY <1>1, <1>3, <2>1, <2>2, SortedIs
    <3>2. \A q \in DOMAIN f : q # r => q <= r - 1 /\ n > 0
      BY <2>3, <2>4, <2>5
    <3>3. \A q \in DOMAIN f : q # r => q <= Resume(disk)
      <4>1. n > 0 => r - 1 <= Resume(disk)
        BY <2>3, <2>6
      <4>2. n > 0 => Resume(disk) \in Nat
        BY <2>6
      <4>3. QED
        BY <2>5, <3>2, <4>1, <4>2
    <3>4. \A q \in DOMAIN g : g[q] = Upto(l, q)
      BY <1>5, <2>4, <3>1, <3>3
    <3>5. QED
      BY <1>7, <2>2, <3>4 DEF AllSorted
  <2>8. \A q \in DOMAIN l \cup DOMAIN g : q <= n + 2 /\ (n = 0 => q = 1)
    BY <1>5, <2>3, <2>4
  <2>9. OnDisk(disk')
    BY <1>7, <2>2, <2>3, <2>7, <2>8 DEF OnDisk, AllSorted
  <2>10. Ahead(disk', r)
    BY <1>5, <1>7, <2>2, <2>4 DEF Ahead
  <2>11. r \in DOMAIN disk'.sorted
    BY <1>5, <1>7
  <2>12. InRun'
    <3>1. pc' = "merged" /\ memory'.run = r /\ disk'.finished = n /\ disk'.list = l
      BY <1>1, <1>3, <1>7, <2>2
    <3>2. QED
      BY <2>3, <2>7, <2>10, <2>11, <3>1 DEF InRun, Scoring
  <2>13. QED
    BY <2>9, <2>12
<1>10. WeightsInv'
  BY <1>1, <1>7, InvParts DEF WeightsInv, Tuning, Scoring
<1>11. Fixpoint'
  BY <1>1, <1>7, InvParts DEF Fixpoint, Scoring, Covered, Best
<1>12. QED
  BY <1>2, <1>8, <1>9, <1>10, <1>11 DEF TuningInv, MertInv

\* The candidates are those of the sorted file; that of the run before is
\* removed.
LEMMA ScoreSortedKeeps ==
  ASSUME TuningInv, ScoreSorted
  PROVE  TuningInv'
<1>1. /\ pc = "merged" /\ pc' = "scored" /\ pool' = disk.sorted[memory.run]
      /\ disk' = [disk EXCEPT !.sorted = Without(disk.sorted, memory.run - 1)]
      /\ UNCHANGED parallelVars /\ memory' = memory /\ optimum' = optimum
      /\ damage' = damage
  BY DEF ScoreSorted
<1>2. ParallelInv' /\ script' = script /\ conf' = conf
  BY <1>1, InvParts, ParallelStays DEF parallelVars
<1>3. PICK f \in SortedFiles, r \in Nat \ {0} : f = disk.sorted /\ r = memory.run
  BY <1>1, InvParts DEF MertType, Tuning, Scoring
<1>4. PICK g : g = Without(f, r - 1)
  OBVIOUS
<1>5. /\ g \in SortedFiles /\ DOMAIN g = DOMAIN f \ {r - 1}
      /\ \A q \in DOMAIN g : g[q] = f[q]
  BY <1>4, SortedRemoved
<1>6. disk \in [list : ListFiles, sorted : SortedFiles, weights : Weights \cup {None},
                finished : Nat, ini : Weights \cup {None}]
  BY InvParts DEF MertType
<1>7. /\ disk'.list = disk.list /\ disk'.sorted = g /\ disk'.weights = disk.weights
      /\ disk'.finished = disk.finished /\ disk'.ini = disk.ini
      /\ disk' \in [list : ListFiles, sorted : SortedFiles, weights : Weights \cup {None},
                    finished : Nat, ini : Weights \cup {None}]
  <2>1. disk' = [disk EXCEPT !.sorted = g]
    BY <1>1, <1>3, <1>4
  <2>2. QED
    BY ONLY <1>5, <1>6, <2>1
<1>8. r \in DOMAIN f
  BY <1>1, <1>3, InvParts DEF MertType
<1>9. MertType'
  <2>1. ~conf.efficient => g = <<>>
    <3>1. SUFFICES ASSUME ~conf.efficient
                   PROVE  g = <<>>
      OBVIOUS
    <3>2. DOMAIN f = {}
      BY <1>3, <3>1, InvParts DEF MertType
    <3>3. DOMAIN g = {} /\ g = [q \in DOMAIN g |-> g[q]]
      BY <1>5, <3>2, SortedFilesAre
    <3>4. QED
      BY <3>3
  <2>2. pool' \in Cands
    BY <1>1, <1>3, <1>8, SortedFilesAre
  <2>3. QED
    BY <1>1, <1>2, <1>7, <2>1, <2>2, InvParts DEF MertType, PCs, Tuning, Scoring
<1>10. FilesInv'
  <2>1. SUFFICES ASSUME "sorted" \notin damage
                 PROVE  OnDisk(disk)' /\ InRun'
    BY <1>1 DEF FilesInv
  <2>2. PICK n \in Nat, l \in ListFiles : n = disk.finished /\ l = disk.list
    BY InvParts
  <2>3. /\ OnDisk(disk) /\ r \in {n + 1, n + 2} /\ (r = n + 2 => n > 0)
        /\ n + 1 \in ZippedIn(l) /\ AllZipped(l) /\ Ahead(disk, r) /\ AllSorted(disk)
        /\ r \in DOMAIN f
    BY <1>1, <1>3, <1>8, <2>1, <2>2, InvParts DEF FilesInv, InRun, Scoring
  <2>4. AllSorted(disk')
    BY <1>3, <1>5, <1>7, <2>3 DEF AllSorted
  <2>5. DOMAIN g \subseteq DOMAIN f
    BY <1>5
  <2>6. OnDisk(disk')
    BY <1>3, <1>7, <2>2, <2>3, <2>4, <2>5 DEF OnDisk, AllSorted
  <2>7. Ahead(disk', r)
    BY <1>3, <1>7, <2>3, <2>5 DEF Ahead
  <2>8. pool' = All(l)
    <3>1. pool' = Upto(l, r)
      BY <1>1, <1>3, <2>2, <2>3 DEF AllSorted
    <3>2. \A q \in DOMAIN l : q <= r
      BY <2>2, <2>3 DEF Ahead
    <3>3. QED
      BY <3>1, <3>2, ListFacts
  <2>9. InRun'
    <3>1. pc' = "scored" /\ memory'.run = r /\ disk'.finished = n /\ disk'.list = l
      BY <1>1, <1>3, <1>7, <2>2
    <3>2. QED
      BY <2>3, <2>4, <2>7, <2>8, <3>1 DEF InRun, Scoring
  <2>10. QED
    BY <2>6, <2>9
<1>11. WeightsInv'
  BY <1>1, <1>7, InvParts DEF WeightsInv, Tuning, Scoring
<1>12. Fixpoint'
  BY <1>1, <1>7, InvParts DEF Fixpoint, Scoring, Covered, Best
<1>13. QED
  BY <1>2, <1>9, <1>10, <1>11, <1>12 DEF TuningInv, MertInv

\* What was known before, if there is nothing more now.
LEMMA NothingNewIs ==
  ASSUME TuningInv, pc = "scored", damage = {}, memory.prev \in Nat,
         Cardinality(pool) <= memory.prev
  PROVE  Optimal(memory.weights, All(disk.list))
<1>1. PICK l \in ListFiles : l = disk.list
  BY InvParts
<1>2. PICK U : U = Upto(l, memory.run - 1)
  OBVIOUS
<1>3. pool = All(l)
  BY <1>1, InvParts DEF FilesInv, InRun
<1>4. memory.prev = Cardinality(U) /\ Optimal(memory.weights, U)
  BY <1>1, <1>2, InvParts DEF Fixpoint, Best
<1>5. IsFiniteSet(All(l)) /\ U \subseteq All(l)
  BY <1>2, ListFacts DEF Cands
<1>6. /\ Cardinality(U) <= Cardinality(All(l)) /\ Cardinality(All(l)) \in Nat
      /\ Cardinality(All(l)) = Cardinality(U) => All(l) = U
  BY <1>5, FS_Subset, FS_CardinalityType
<1>7. All(l) = U
  <2>1. Cardinality(All(l)) <= Cardinality(U) /\ Cardinality(U) \in Nat
    BY <1>3, <1>4
  <2>2. QED
    BY <1>6, <2>1
<1>8. QED
  BY <1>1, <1>4, <1>7

\* The training ends when there are no more candidates than the weights are
\* optimal for.
LEMMA NothingNewKeeps ==
  ASSUME TuningInv, NothingNew
  PROVE  TuningInv'
<1>1. /\ pc = "scored" /\ Cardinality(pool) <= memory.prev /\ pc' = "finish"
      /\ UNCHANGED parallelVars /\ memory' = memory /\ disk' = disk /\ pool' = pool
      /\ optimum' = optimum /\ damage' = damage
  BY DEF NothingNew
<1>2. ParallelInv' /\ script' = script /\ conf' = conf
  BY <1>1, InvParts, ParallelStays DEF parallelVars
<1>3. memory.prev \in Nat
  <2>1. Cardinality(pool) \in Nat
    BY InvParts, FS_CardinalityType DEF Cands
  <2>2. memory.prev \in Nat \cup {-1}
    BY InvParts
  <2>3. QED
    BY <1>1, <2>1, <2>2
<1>4. MertType'
  BY <1>1, <1>2, InvParts DEF MertType, PCs, Tuning, Scoring
<1>5. FilesInv'
  BY <1>1, InvParts DEF FilesInv, InRun, Scoring
<1>6. WeightsInv'
  BY <1>1, <1>3, InvParts DEF WeightsInv, Tuning, Scoring
<1>7. Fixpoint'
  <2>1. damage = {} => Optimal(memory.weights, All(disk.list))
    BY <1>1, <1>3, NothingNewIs
  <2>2. QED
    BY <1>1, <2>1, InvParts DEF Fixpoint, Scoring, Covered
<1>8. QED
  BY <1>2, <1>4, <1>5, <1>6, <1>7 DEF TuningInv, MertInv

------------------------------------------------------------------------------
(****************************************************************************)
(* Optimising, and the end of a step.                                       *)
(****************************************************************************)
\* The candidates are counted; weights.txt is removed before cmert starts.
LEMMA PrepareKeeps ==
  ASSUME TuningInv, Prepare
  PROVE  TuningInv'
<1>1. /\ pc = "scored" /\ pc' = "cmert"
      /\ memory' = [memory EXCEPT !.prev = Cardinality(pool)]
      /\ disk' = [disk EXCEPT !.weights = None]
      /\ UNCHANGED parallelVars /\ pool' = pool /\ optimum' = optimum /\ damage' = damage
  BY DEF Prepare
<1>2. ParallelInv' /\ script' = script /\ conf' = conf
  BY <1>1, InvParts, ParallelStays DEF parallelVars
<1>3. PICK size \in Nat : size = Cardinality(pool)
  BY InvParts, FS_CardinalityType DEF Cands
<1>4. /\ memory'.run = memory.run /\ memory'.weights = memory.weights /\ memory'.prev = size
      /\ memory'.skip = memory.skip
      /\ memory' \in [run : Nat, weights : Weights, prev : Nat \cup {-1}, skip : BOOLEAN]
  <2>1. memory \in [run : Nat, weights : Weights, prev : Nat \cup {-1}, skip : BOOLEAN]
    BY InvParts DEF MertType
  <2>2. memory' = [memory EXCEPT !.prev = size]
    BY <1>1, <1>3
  <2>3. QED
    BY ONLY <2>1, <2>2, size \in Nat
<1>5. /\ disk'.list = disk.list /\ disk'.sorted = disk.sorted /\ disk'.weights = None
      /\ disk'.finished = disk.finished /\ disk'.ini = disk.ini
      /\ disk' \in [list : ListFiles, sorted : SortedFiles, weights : Weights \cup {None},
                    finished : Nat, ini : Weights \cup {None}]
  <2>1. disk \in [list : ListFiles, sorted : SortedFiles, weights : Weights \cup {None},
                  finished : Nat, ini : Weights \cup {None}]
    BY InvParts DEF MertType
  <2>2. disk' = [disk EXCEPT !.weights = None]
    BY <1>1
  <2>3. QED
    BY ONLY <2>1, <2>2
<1>6. MertType'
  BY <1>1, <1>2, <1>4, <1>5, InvParts DEF MertType, PCs, Tuning, Scoring
<1>7. FilesInv'
  BY <1>1, <1>4, <1>5, InvParts
     DEF FilesInv, OnDisk, Resume, InRun, Ahead, AllSorted, Scoring
<1>8. WeightsInv'
  BY <1>1, <1>4, <1>5, InvParts DEF WeightsInv, Tuning, Scoring
<1>9. Fixpoint'
  <2>1. damage = {} => pool = All(disk.list)
    BY <1>1, InvParts DEF FilesInv, InRun
  <2>2. QED
    BY <1>1, <1>3, <1>4, <1>5, <2>1, InvParts DEF Fixpoint, Scoring, Covered
<1>10. QED
  BY <1>2, <1>6, <1>7, <1>8, <1>9 DEF TuningInv, MertInv

\* cmert finds weights that are optimal for all candidates.
LEMMA CmertKeeps ==
  ASSUME TuningInv, Cmert
  PROVE  TuningInv'
<1>1. /\ pc = "cmert" /\ pc' = "store" /\ pool' = {} /\ memory' = memory
      /\ UNCHANGED parallelVars /\ damage' = damage
  BY DEF Cmert
<1>2. ParallelInv' /\ script' = script /\ conf' = conf
  BY <1>1, InvParts, ParallelStays DEF parallelVars
<1>3. PICK w \in Weights :
        Optimal(w, pool) /\ disk' = [disk EXCEPT !.weights = w] /\ optimum' = w
  BY DEF Cmert
<1>4. /\ disk'.list = disk.list /\ disk'.sorted = disk.sorted /\ disk'.weights = w
      /\ disk'.finished = disk.finished /\ disk'.ini = disk.ini
      /\ disk' \in [list : ListFiles, sorted : SortedFiles, weights : Weights \cup {None},
                    finished : Nat, ini : Weights \cup {None}]
  <2>1. disk \in [list : ListFiles, sorted : SortedFiles, weights : Weights \cup {None},
                  finished : Nat, ini : Weights \cup {None}]
    BY InvParts DEF MertType
  <2>2. disk' = [disk EXCEPT !.weights = w]
    BY <1>3
  <2>3. QED
    BY ONLY <2>1, <2>2, w \in Weights
<1>5. MertType'
  <2>1. {} \in Cands
    BY FS_EmptySet DEF Cands
  <2>2. QED
    BY <1>1, <1>2, <1>3, <1>4, <2>1, InvParts DEF MertType, PCs, Tuning, Scoring
<1>6. FilesInv'
  BY <1>1, <1>4, InvParts
     DEF FilesInv, OnDisk, Resume, InRun, Ahead, AllSorted, Scoring
<1>7. WeightsInv'
  BY <1>1, <1>3, <1>4 DEF WeightsInv, Tuning, Scoring
<1>8. Fixpoint'
  <2>1. damage = {} => pool = All(disk.list)
    BY <1>1, InvParts DEF FilesInv, InRun
  <2>2. QED
    BY <1>1, <1>3, <1>4, <2>1, InvParts DEF Fixpoint, Scoring, Covered, Best
<1>9. QED
  BY <1>2, <1>5, <1>6, <1>7, <1>8 DEF TuningInv, MertInv

\* A step is finished: every file is of it or of a run before.
LEMMA FinishedOnDisk ==
  ASSUME NEW d, NEW e, NEW r \in Nat, r > 0,
         d.list \in ListFiles, d.sorted \in SortedFiles, Ahead(d, r), AllSorted(d),
         e.list = d.list, e.sorted \in SortedFiles, DOMAIN e.sorted \subseteq DOMAIN d.sorted,
         \A q \in DOMAIN e.sorted : e.sorted[q] = d.sorted[q],
         e.finished = r
  PROVE  OnDisk(e) /\ Resume(e) = r /\ Ahead(e, r) /\ AllSorted(e)
<1>1. DOMAIN d.list \subseteq Nat /\ DOMAIN e.sorted \subseteq Nat
  BY ListFilesAre, SortedFilesAre
<1>2. \A q \in DOMAIN e.list \cup DOMAIN e.sorted : q \in Nat /\ q <= r
  BY <1>1 DEF Ahead
<1>3. r + 1 \notin DOMAIN e.list \cup DOMAIN e.sorted /\
      r + 2 \notin DOMAIN e.list \cup DOMAIN e.sorted
  BY <1>2
<1>4. r + 1 \notin ZippedIn(e.list)
  BY <1>3 DEF ZippedIn
<1>5. AllSorted(e)
  BY DEF AllSorted
<1>6. \A q \in DOMAIN e.list \cup DOMAIN e.sorted : q <= r + 2 /\ (r = 0 => q = 1)
  BY <1>2
<1>7. QED
  BY <1>2, <1>3, <1>4, <1>5, <1>6 DEF OnDisk, Resume, Ahead, AllSorted

\* The step counts as finished: what was optimal for all candidates is so for
\* those up to this run.
LEMMA FinishStepKeeps ==
  ASSUME TuningInv, FinishStep
  PROVE  TuningInv'
<1>1. /\ pc = "store" /\ pc' = IF disk.weights = memory.weights THEN "finish" ELSE "loop"
      /\ memory' = [memory EXCEPT !.weights = disk.weights]
      /\ disk' = [disk EXCEPT !.finished = memory.run]
      /\ UNCHANGED parallelVars /\ pool' = pool /\ optimum' = optimum /\ damage' = damage
  BY DEF FinishStep
<1>2. ParallelInv' /\ script' = script /\ conf' = conf
  BY <1>1, InvParts, ParallelStays DEF parallelVars
<1>3. PICK r \in Nat, w \in Weights :
        r = memory.run /\ w = disk.weights /\ w = optimum /\ r > 0 /\ ~memory.skip
  BY <1>1, InvParts DEF MertType, Tuning, Scoring
<1>4. /\ memory'.run = r /\ memory'.weights = w /\ memory'.prev = memory.prev
      /\ memory'.skip = memory.skip
      /\ memory' \in [run : Nat, weights : Weights, prev : Nat \cup {-1}, skip : BOOLEAN]
  <2>1. memory \in [run : Nat, weights : Weights, prev : Nat \cup {-1}, skip : BOOLEAN]
    BY InvParts DEF MertType
  <2>2. memory' = [memory EXCEPT !.weights = w]
    BY <1>1, <1>3
  <2>3. QED
    BY ONLY <1>3, <2>1, <2>2, w \in Weights
<1>5. /\ disk'.list = disk.list /\ disk'.sorted = disk.sorted /\ disk'.weights = w
      /\ disk'.finished = r /\ disk'.ini = disk.ini
      /\ disk' \in [list : ListFiles, sorted : SortedFiles, weights : Weights \cup {None},
                    finished : Nat, ini : Weights \cup {None}]
  <2>1. disk \in [list : ListFiles, sorted : SortedFiles, weights : Weights \cup {None},
                  finished : Nat, ini : Weights \cup {None}]
    BY InvParts DEF MertType
  <2>2. disk' = [disk EXCEPT !.finished = r]
    BY <1>1, <1>3
  <2>3. QED
    BY ONLY <1>3, <2>1, <2>2, r \in Nat
<1>6. MertType'
  BY <1>1, <1>2, <1>3, <1>4, <1>5, InvParts DEF MertType, PCs, Tuning, Scoring
<1>7. FilesInv'
  <2>1. SUFFICES ASSUME "sorted" \notin damage
                 PROVE  OnDisk(disk)' /\ InRun'
    BY <1>1 DEF FilesInv
  <2>2. AllZipped(disk.list) /\ Ahead(disk, r) /\ AllSorted(disk)
    BY <1>1, <1>3, <2>1, InvParts DEF FilesInv, InRun, Scoring
  <2>3. OnDisk(disk') /\ Resume(disk') = r /\ Ahead(disk', r) /\ AllSorted(disk')
    BY <1>3, <1>5, <2>2, InvParts, FinishedOnDisk
  <2>4. QED
    BY <1>1, <1>3, <1>4, <1>5, <2>2, <2>3 DEF InRun, Scoring
<1>8. WeightsInv'
  BY <1>1, <1>3, <1>4, <1>5 DEF WeightsInv
<1>9. Fixpoint'
  <2>1. SUFFICES ASSUME damage = {}
                 PROVE  Fixpoint'
    BY <1>1 DEF Fixpoint
  <2>2. Best(w, All(disk.list)) /\ Covered(memory.weights)
    BY <1>1, <1>3, <2>1, InvParts DEF Fixpoint, Scoring
  <2>3. Upto(disk.list, r) = All(disk.list)
    <3>1. Ahead(disk, r)
      BY <1>1, <1>3, <2>1, InvParts DEF FilesInv, InRun, Scoring
    <3>2. QED
      BY <3>1, InvParts, ListFacts DEF Ahead
  <2>4. QED
    BY <1>1, <1>3, <1>4, <1>5, <2>2, <2>3 DEF Fixpoint, Scoring, Covered, Best
<1>10. QED
  BY <1>2, <1>6, <1>7, <1>8, <1>9 DEF TuningInv, MertInv

\* moses.ini is written with weights that decode nothing new.
LEMMA FinishKeeps ==
  ASSUME TuningInv, Finish
  PROVE  TuningInv'
<1>1. /\ pc = "finish" /\ pc' = "done"
      /\ disk' = [disk EXCEPT !.ini = memory.weights, !.finished = memory.run,
                              !.sorted = Without(disk.sorted, memory.run)]
      /\ UNCHANGED parallelVars /\ memory' = memory /\ pool' = pool /\ optimum' = optimum
      /\ damage' = damage
  BY DEF Finish
<1>2. ParallelInv' /\ script' = script /\ conf' = conf
  BY <1>1, InvParts, ParallelStays DEF parallelVars
<1>3. PICK f \in SortedFiles, r \in Nat, w \in Weights :
        f = disk.sorted /\ r = memory.run /\ r > 0 /\ w = memory.weights
  BY <1>1, InvParts DEF MertType, Tuning
<1>4. PICK g : g = Without(f, r)
  OBVIOUS
<1>5. g \in SortedFiles /\ DOMAIN g = DOMAIN f \ {r} /\ \A q \in DOMAIN g : g[q] = f[q]
  BY <1>4, SortedRemoved
<1>6. /\ disk'.list = disk.list /\ disk'.sorted = g /\ disk'.weights = disk.weights
      /\ disk'.finished = r /\ disk'.ini = w
      /\ disk' \in [list : ListFiles, sorted : SortedFiles, weights : Weights \cup {None},
                    finished : Nat, ini : Weights \cup {None}]
  <2>1. disk \in [list : ListFiles, sorted : SortedFiles, weights : Weights \cup {None},
                  finished : Nat, ini : Weights \cup {None}]
    BY InvParts DEF MertType
  <2>2. disk' = [disk EXCEPT !.ini = w, !.finished = r, !.sorted = g]
    BY <1>1, <1>3, <1>4
  <2>3. disk' = [list |-> disk.list, sorted |-> g, weights |-> disk.weights, finished |-> r,
                 ini |-> w]
    BY ONLY <2>1, <2>2
  <2>4. QED
    BY ONLY <1>5, <2>1, <2>3, r \in Nat, w \in Weights
<1>7. MertType'
  <2>1. ~conf.efficient => g = <<>>
    <3>1. SUFFICES ASSUME ~conf.efficient
                   PROVE  g = <<>>
      OBVIOUS
    <3>2. DOMAIN f = {}
      BY <1>3, <3>1, InvParts DEF MertType
    <3>3. DOMAIN g = {} /\ g = [q \in DOMAIN g |-> g[q]]
      BY <1>5, <3>2, SortedFilesAre
    <3>4. QED
      BY <3>3
  <2>2. QED
    BY <1>1, <1>2, <1>6, <2>1, InvParts DEF MertType, PCs, Tuning, Scoring
<1>8. FilesInv'
  <2>1. SUFFICES ASSUME "sorted" \notin damage
                 PROVE  OnDisk(disk)' /\ InRun'
    BY <1>1 DEF FilesInv
  <2>2. Ahead(disk, r) /\ AllSorted(disk)
    BY <1>1, <1>3, <2>1, InvParts DEF FilesInv, InRun
  <2>3. OnDisk(disk')
    <3>1. disk.list \in ListFiles /\ disk.sorted \in SortedFiles
      BY InvParts
    <3>2. QED
      BY <1>3, <1>5, <1>6, <2>2, <3>1, FinishedOnDisk
  <2>4. QED
    BY <1>1, <2>3 DEF InRun, Scoring
<1>9. WeightsInv'
  BY <1>1, <1>3, <1>6, InvParts DEF WeightsInv, Tuning, Scoring
<1>10. Fixpoint'
  BY <1>1, <1>3, <1>6, InvParts DEF Fixpoint, Scoring, Covered
<1>11. QED
  BY <1>2, <1>7, <1>8, <1>9, <1>10 DEF TuningInv, MertInv

------------------------------------------------------------------------------
(****************************************************************************)
(* An interruption at any point, and the invariant as a whole.              *)
(****************************************************************************)
\* Whatever is interrupted: damage says so if a file is left that misleads a
\* training that continues.
LEMMA InterruptKeeps ==
  ASSUME TuningInv, Interrupt
  PROVE  TuningInv'
<1>1. /\ pc \notin Stopped /\ LeaveScript /\ conf' = conf /\ pool' = {} /\ memory' = memory
      /\ optimum' = optimum
      /\ pc' = IF pc \in {"score", "merged", "scored", "cmert"} THEN "down in mert" ELSE "down"
      /\ \/ disk' = disk /\ damage' = damage
         \/ /\ pc = "score" /\ conf.efficient /\ damage' = damage \cup {"sorted"}
            /\ disk' = [disk EXCEPT
                 !.sorted = With(disk.sorted, memory.run, {}),
                 !.list = IF memory.run = 1 \/ memory.run - 1 \in DOMAIN disk.sorted
                          THEN disk.list ELSE Zip(disk.list, FALSE)]
  BY DEF Interrupt
<1>2. ParallelInv' /\ script' = "idle"
  BY <1>1, InvParts, LeaveKeeps
<1>3. {} \in Cands
  BY FS_EmptySet DEF Cands
<1>4. CASE disk' = disk /\ damage' = damage
  <2>1. MertType'
    BY <1>1, <1>2, <1>3, <1>4, InvParts DEF MertType, PCs, Tuning, Scoring, Stopped
  <2>2. FilesInv'
    BY <1>1, <1>4, InvParts DEF FilesInv, InRun, Scoring
  <2>3. WeightsInv'
    BY <1>1, <1>4, InvParts DEF WeightsInv, Tuning, Scoring
  <2>4. Fixpoint'
    <3>1. SUFFICES ASSUME damage = {}
                   PROVE  Fixpoint'
      BY <1>4 DEF Fixpoint
    <3>2. pc \in {"score", "merged", "scored", "cmert"} =>
            /\ Covered(memory.weights) /\ memory.weights = optimum
            /\ disk.finished > 0 /\ disk.weights # None => disk.weights = optimum
      BY <3>1, InvParts DEF Fixpoint, WeightsInv, Tuning, Scoring
    <3>3. QED
      BY <1>1, <1>4, <3>2 DEF Fixpoint, Scoring, Covered
  <2>5. QED
    BY <1>2, <2>1, <2>2, <2>3, <2>4 DEF TuningInv, MertInv
<1>5. CASE /\ pc = "score" /\ conf.efficient /\ damage' = damage \cup {"sorted"}
           /\ disk' = [disk EXCEPT
                !.sorted = With(disk.sorted, memory.run, {}),
                !.list = IF memory.run = 1 \/ memory.run - 1 \in DOMAIN disk.sorted
                         THEN disk.list ELSE Zip(disk.list, FALSE)]
  <2>1. PICK f \in SortedFiles, k \in ListFiles, r \in Nat :
          f = disk.sorted /\ k = disk.list /\ r = memory.run
    BY InvParts
  <2>2. PICK g, l : g = With(f, r, {}) /\ l \in {k, Zip(k, FALSE)}
                    /\ disk' = [disk EXCEPT !.sorted = g, !.list = l]
    BY <1>5, <2>1
  <2>3. g \in SortedFiles /\ l \in ListFiles
    BY <1>3, <2>2, SortedWritten, ListsZipped
  <2>4. /\ disk'.weights = disk.weights /\ disk'.finished = disk.finished
        /\ disk' \in [list : ListFiles, sorted : SortedFiles, weights : Weights \cup {None},
                      finished : Nat, ini : Weights \cup {None}]
    <3>1. disk \in [list : ListFiles, sorted : SortedFiles, weights : Weights \cup {None},
                    finished : Nat, ini : Weights \cup {None}]
      BY InvParts DEF MertType
    <3>2. QED
      BY ONLY <2>2, <2>3, <3>1
  <2>5. MertType'
    BY <1>1, <1>2, <1>3, <1>5, <2>4, InvParts DEF MertType, PCs, Tuning, Scoring, Stopped
  <2>6. "sorted" \in damage'
    BY <1>5
  <2>7. FilesInv' /\ Fixpoint'
    BY <2>6 DEF FilesInv, Fixpoint
  <2>8. WeightsInv'
    BY <1>1, <1>5, <2>4, InvParts DEF WeightsInv, Tuning, Scoring
  <2>9. QED
    BY <1>2, <2>5, <2>7, <2>8 DEF TuningInv, MertInv
<1>6. QED
  BY <1>1, <1>4, <1>5

\* The invariant holds at the start.
LEMMA InitTuningInv == Init => TuningInv
<1> SUFFICES ASSUME Init
             PROVE  TuningInv
  OBVIOUS
<1>1. /\ conf \in Confs /\ script = "idle" /\ stale = FALSE /\ result = NoResult
      /\ pc = "start" /\ disk = EmptyDisk /\ pool = {} /\ optimum = Seed /\ damage = {}
      /\ memory = [run |-> 0, weights |-> Seed, prev |-> -1, skip |-> FALSE]
  BY DEF Init
<1>2. ParallelInv
  <2>1. Idle
    BY <1>1, MertAssumption DEF Idle
  <2>2. QED
    BY <2>1, IdleIs
<1>3. <<>> \in ListFiles /\ <<>> \in SortedFiles /\ {} \in Cands /\ DOMAIN <<>> = {}
  <2>1. DOMAIN <<>> = {} /\ <<>> \in [DOMAIN <<>> -> NBestLists] /\
        <<>> \in [DOMAIN <<>> -> Cands]
    OBVIOUS
  <2>2. IsFiniteSet(DOMAIN <<>>)
    BY <2>1, FS_EmptySet
  <2>3. QED
    BY <2>1, <2>2, ListFilesAre, SortedFilesAre, FS_EmptySet DEF Cands
<1>4. MertType
  BY <1>1, <1>3, MertAssumption DEF MertType, PCs, Tuning, Scoring, EmptyDisk, None
<1>5. FilesInv
  BY <1>1, <1>3 DEF FilesInv, OnDisk, InRun, Scoring, EmptyDisk
<1>6. WeightsInv /\ Fixpoint
  BY <1>1 DEF WeightsInv, Fixpoint, Tuning, Scoring, EmptyDisk, None
<1>7. QED
  BY <1>2, <1>4, <1>5, <1>6 DEF TuningInv, MertInv

\* And every step keeps it.
LEMMA NextTuningInv == TuningInv /\ [Next]_vars => TuningInv'
<1> SUFFICES ASSUME TuningInv, [Next]_vars
             PROVE  TuningInv'
  OBVIOUS
<1>1. CASE UNCHANGED vars
  <2>1. /\ UNCHANGED parallelVars /\ pc' = pc /\ memory' = memory /\ disk' = disk
        /\ pool' = pool /\ optimum' = optimum /\ damage' = damage
    BY <1>1 DEF vars, mertVars
  <2>2. ParallelInv' /\ script' = script /\ conf' = conf
    BY <2>1, InvParts, ParallelStays DEF parallelVars
  <2>3. MertType'
    BY <2>1, <2>2, InvParts DEF MertType
  <2>4. FilesInv'
    BY <2>1, InvParts DEF FilesInv, InRun
  <2>5. WeightsInv'
    BY <2>1, InvParts DEF WeightsInv
  <2>6. Fixpoint'
    BY <2>1, InvParts DEF Fixpoint, Covered, Best
  <2>7. QED
    BY <2>2, <2>3, <2>4, <2>5, <2>6 DEF TuningInv, MertInv
<1>2. CASE Next
  BY <1>2, StartKeeps, ContinueKeeps, NextRunKeeps, DecodingKeeps, DecoderDoneKeeps, GzipKeeps,
     ScoreAllKeeps, MergeSortedKeeps, ScoreSortedKeeps, NothingNewKeeps, PrepareKeeps,
     CmertKeeps, FinishStepKeeps, FinishKeeps, InterruptKeeps DEF Next
<1>3. QED
  BY <1>1, <1>2

------------------------------------------------------------------------------
(****************************************************************************)
(* What follows for every training.                                         *)
(****************************************************************************)
\* The invariant holds in every state of every training.
THEOREM TuningInvariant == Spec => []TuningInv
BY InitTuningInv, NextTuningInv, PTL DEF Spec

\* The merged n-best lists are those of one decoder, and cmert is given the
\* candidates of all runs: however many decoders and nodes crash, parts are
\* submitted again and trainings are interrupted and continued, and however
\* many sentences and jobs there are (moses-parallel.pl; get_features,
\* mergesort_nbest and the loop of mert-moses.pl).
THEOREM FaithfulPool == Spec => []PoolFaithful
<1>1. TuningInv => PoolFaithful
  <2> SUFFICES ASSUME TuningInv
               PROVE  PoolFaithful
    OBVIOUS
  <2>1. MergedAsOne
    BY InvParts, MergedIs
  <2>2. PoolComplete
    BY InvParts DEF PoolComplete, FilesInv, InRun, AllCandidates, All
  <2>3. QED
    BY <2>1, <2>2 DEF PoolFaithful
<1>2. QED
  BY <1>1, TuningInvariant, PTL

\* A training that ends has weights which are optimal for all candidates and
\* with which the decoder finds nothing else, and every run decodes with the
\* weights that cmert found last, by whichever process of the script
\* (mert-moses.pl, its loop and --continue).
THEOREM OptimalTuning == Spec => []TuningOptimal
<1>1. TuningInv => TuningOptimal
  <2> SUFFICES ASSUME TuningInv
               PROVE  TuningOptimal
    OBVIOUS
  <2>1. Converged
    BY InvParts DEF Converged, Fixpoint, Covered, All, AllCandidates, Sentences
  <2>2. DecodesWithOptimum
    BY InvParts DEF DecodesWithOptimum, WeightsInv, Tuning
  <2>3. QED
    BY <2>1, <2>2 DEF TuningOptimal
<1>2. QED
  BY <1>1, TuningInvariant, PTL

\* Without -old-sge no check ever takes an older output for that of the last
\* job, however jobs crash and nodes fail: the n-best list of a part is moved
\* before its translations, and a part is only submitted again while the
\* moved translations are incomplete.  What MergedAsOne leaves out for stale
\* checks is left out for -old-sge only (moses-parallel.pl,
\* check_translation and the script of a job).
THEOREM PromptNeverStale == Spec => [](~conf.oldSGE => ~stale)
<1>1. TuningInv => (~conf.oldSGE => ~stale)
  BY InvParts DEF ParallelInv, ParallelType, Prompt, Working
<1>2. QED
  BY <1>1, TuningInvariant, PTL
==============================================================================
