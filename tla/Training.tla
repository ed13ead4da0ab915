------------------------------ MODULE Training ------------------------------
(****************************************************************************)
(* Steps 3 to 7 of train-factored-phrase-model.perl with --dont-zip: from   *)
(* the two GIZA alignments of a corpus to the phrase table and the lexical  *)
(* reordering table, through files.                                         *)
(*                                                                          *)
(* The script may be interrupted anywhere and run again, from a first step  *)
(* up to the interrupted one, with or without --continue.  A file is        *)
(* [data, whole]; an interruption leaves a beginning of the files that are  *)
(* being written.                                                           *)
(****************************************************************************)
EXTENDS PhraseExtract, Symal

CONSTANTS Confs,         \* sets of [corpus, options, fileLimit, reordering, restarts]
          Absent,        \* of a file
          PartSize,      \* lines before the extract file is split, 10000000 in the code
          SmoothNum, SmoothDen  \* smoothing of reordering counts, 0.5 by default

ASSUME TrainingAssumption ==
  /\ PartSize \in Nat \ {0} /\ SmoothNum \in Nat \ {0} /\ SmoothDen \in Nat \ {0}
  /\ \A c \in Confs : c.restarts \in Nat /\ c.fileLimit \in BOOLEAN /\ c.reordering \in BOOLEAN

VARIABLES
  conf,      \* the corpus and the command line
  pc,        \* what the script does next
  file,      \* the files of the model directory
  sym,       \* symal: number of the sentence and state of its symmetrization
  continue,  \* --continue
  restarts,  \* how often the script has been run again
  reused     \* whether a run took over a file that is not whole (history)

vars == <<conf, pc, file, sym, continue, restarts, reused>>

Names == {"aligned", "lex.f2e", "lex.e2f", "extract", "extract.inv", "extract.o",
          "extract.sorted", "extract.inv.sorted", "parts", "half.f2e", "half.e2f",
          "half.e2f.sorted", "table", "reordering"}

Exists(name) == file[name] # Absent
Data(name) == file[name].data
Whole(data) == [data |-> data, whole |-> TRUE]

\* The sentences as the programs behind symal see them.
Corpus == [k \in DOMAIN Data("aligned") |->
             [e |-> conf.corpus[k].e, f |-> conf.corpus[k].f, links |-> Data("aligned")[k]]]

\* What is scored: the parts, or the sorted file if it was not split.
Parts(sorted) == IF conf.fileLimit THEN Data("parts") ELSE <<Data(sorted)>>

Pair(k) == ReadBiAlign(conf.corpus[k].giza)

(****************************************************************************)
(* Splitting and lexical reordering                                         *)
(****************************************************************************)

\* split_extract: a new part at the next source phrase once one is full.
SplitExtract(lines) ==
  LET part(acc, i) ==
        IF i > 1 /\ (i - 1) % PartSize = 0
        THEN [acc EXCEPT !.first = lines[i].f, !.split = TRUE,
                         !.parts[Len(acc.parts)] = Append(@, lines[i])]
        ELSE IF acc.split /\ lines[i].f # acc.first
        THEN [acc EXCEPT !.split = FALSE, !.parts = Append(@, <<lines[i]>>)]
        ELSE [acc EXCEPT !.parts[Len(acc.parts)] = Append(@, lines[i])]
  IN  FoldLeft(part, [parts |-> <<<<>>>>, first |-> <<>>, split |-> FALSE],
               [i \in DOMAIN lines |-> i]).parts

Orientations == {"mono", "swap", "other"}
Smoothed == [o \in Orientations |-> SmoothNum]
Shares(counts) ==
  LET total == counts["mono"] + counts["swap"] + counts["other"]
  IN  [o \in Orientations |-> <<counts[o], total>>]

\* store_reordering_fe, store_reordering_f: shares of the orientations.
StoreReordering(c) ==
  [f |-> c.f, e |-> c.e, previous |-> Shares(c.previous), following |-> Shares(c.following)]

\* A new phrase pair: what was counted is stored, the counters are reset.
NextPhrase(acc, l) ==
  [acc EXCEPT !.f = l.f, !.e = l.e, !.previous = Smoothed, !.following = Smoothed,
              !.table = Append(@, StoreReordering(acc))]

\* get_reordering for msd-bidirectional-fe: one pass over the sorted lines.
GetReordering(lines) ==
  LET count(acc, l) == [acc EXCEPT !.previous[l.previous] = @ + SmoothDen,
                                   !.following[l.following] = @ + SmoothDen]
      start == [f |-> <<>>, e |-> <<>>, previous |-> Smoothed, following |-> Smoothed,
                table |-> <<>>]
      step(acc, l) ==
        IF acc.f = <<>> THEN count([acc EXCEPT !.f = l.f, !.e = l.e], l)
        ELSE IF l.f # acc.f \/ l.e # acc.e THEN count(NextPhrase(acc, l), l)
        ELSE count(acc, l)
      last == FoldLeft(step, start, lines)
  IN  Append(last.table, StoreReordering(last))

(****************************************************************************)
(* The steps of the script                                                  *)
(****************************************************************************)

Init ==
  /\ conf \in Confs
  /\ pc = "align"
  /\ file = [n \in Names |-> IF n = "aligned" THEN [data |-> <<>>, whole |-> FALSE] ELSE Absent]
  /\ sym = [n |-> 0, s |-> [stage |-> "done"]]
  /\ continue = FALSE
  /\ restarts = 0
  /\ reused = FALSE

Goto(next) == /\ pc' = next
              /\ UNCHANGED <<conf, sym, continue, restarts>>

Without(f, names) == [n \in Names |-> IF n \in names THEN Absent ELSE f[n]]

\* (3) word_align: giza2bal.pl | symal > aligned
Symmetrize ==
  /\ pc = "align"
  /\ IF sym.s.stage # "done"
     THEN LET s == SymalStep(Pair(sym.n), sym.s, conf.options)
          IN  /\ sym' = [sym EXCEPT !.s = s]
              /\ file' = IF s.stage = "done" THEN [file EXCEPT !["aligned"].data = Append(@, s.line)]
                         ELSE file
              /\ UNCHANGED pc
     ELSE IF sym.n < Len(conf.corpus)
     THEN LET s == StartSentence(Pair(sym.n + 1), conf.options)
          IN  /\ sym' = [n |-> sym.n + 1, s |-> s]
              /\ file' = IF s.stage = "done" THEN [file EXCEPT !["aligned"].data = Append(@, s.line)]
                         ELSE file
              /\ UNCHANGED pc
     ELSE /\ file' = [file EXCEPT !["aligned"].whole = TRUE]
          /\ pc' = "lexical"
          /\ UNCHANGED sym
  /\ UNCHANGED <<conf, continue, restarts, reused>>

\* The files for which the current step is skipped: they are there.  Lexical
\* tables are reused even without --continue.
Skipped ==
  LET those(names) == IF \A n \in names : Exists(n) THEN names ELSE {}
      first(S, T) == IF S # {} THEN S ELSE T
  IN  CASE pc = "lexical" -> those({"lex.f2e", "lex.e2f"})
        [] continue /\ pc = "sort f2e" -> first(those({"half.f2e"}), those({"extract.sorted"}))
        [] continue /\ pc = "sort e2f" -> first(first(those({"half.e2f"}), those({"half.e2f.sorted"})),
                                               those({"extract.inv.sorted"}))
        [] continue /\ pc = "sort half" -> those({"half.e2f.sorted"})
        [] continue /\ pc = "merge" -> those({"table"})
        [] OTHER -> {}

\* The files that the current step writes, with what it writes.  A corpus has
\* some phrase pair: with none, extract opens no file, and the script dies of
\* the next command.
Output ==
  IF Skipped # {} THEN <<>> ELSE
  CASE pc = "lexical" -> ("lex.f2e" :> LexicalF2E(Corpus)) @@ ("lex.e2f" :> LexicalE2F(Corpus))
    [] pc = "extract" ->
         LET lines == Extract(Corpus)
         IN  ("extract" :> lines) @@ ("extract.inv" :> Inverted(lines))
               @@ (IF conf.reordering /\ (conf.fileLimit => Len(lines) > PartSize)
                   THEN "extract.o" :> lines ELSE <<>>)
    [] pc = "sort f2e" -> "extract.sorted" :> Sorted(Data("extract"))
    [] pc = "sort e2f" -> "extract.inv.sorted" :> Sorted(Data("extract.inv"))
    [] pc = "split f2e" -> "parts" :> SplitExtract(Data("extract.sorted"))
    [] pc = "split e2f" -> "parts" :> SplitExtract(Data("extract.inv.sorted"))
    [] pc = "score f2e" ->
         "half.f2e" :> FlattenSeq([k \in DOMAIN Parts("extract.sorted") |->
                                     Score(Parts("extract.sorted")[k], Data("lex.f2e"))])
    [] pc = "score e2f" ->
         "half.e2f" :> FlattenSeq([k \in DOMAIN Parts("extract.inv.sorted") |->
                                     ScoreInverse(Parts("extract.inv.sorted")[k], Data("lex.e2f"))])
    [] pc = "sort half" -> "half.e2f.sorted" :> Sorted(Data("half.e2f"))
    [] pc = "merge" -> "table" :> Consolidated(Data("half.f2e"), Data("half.e2f.sorted"))
    [] pc = "reorder" /\ Exists("extract.o") ->
         "reordering" :> GetReordering(Sorted(Data("extract.o")))
    [] OTHER -> <<>>

\* The step is done: its files are written, others removed.
Write(next, removed) ==
  /\ \E out \in {Output} :
       file' = Without([n \in Names |-> IF n \in DOMAIN out THEN Whole(out[n]) ELSE file[n]],
                       removed)
  /\ Goto(next)
  /\ UNCHANGED reused

\* It is done, or skipped because of its files.
WriteUnlessThere(next, removed, nextIfThere) ==
  IF Skipped = {} THEN Write(next, removed)
  ELSE /\ Goto(nextIfThere)
       /\ reused' = (reused \/ \E n \in Skipped : ~file[n].whole)
       /\ UNCHANGED file

\* (4) get_lexical
GetLexical == pc = "lexical" /\ WriteUnlessThere("extract", {}, "extract")

\* (5) extract_phrase: with a file limit the parts are joined, those with
\* orientations only if there is a second one.
ExtractPhrase == pc = "extract" /\ Write("sort f2e", {})

\* (6) score_phrase, for each direction: sort, split if there is a file limit,
\* score
SortExtract(dir, sorted, next) ==
  LET then == IF conf.fileLimit THEN "split " \o dir ELSE "score " \o dir
  IN  /\ pc = "sort " \o dir
      /\ WriteUnlessThere(then, {}, IF Skipped = {sorted} THEN then ELSE next)

SplitParts(dir, sorted) == pc = "split " \o dir /\ Write("score " \o dir, {sorted})

ScoreHalf(dir, sorted, next) == pc = "score " \o dir /\ Write(next, {sorted, "parts"})

ScorePhrase ==
  \/ SortExtract("f2e", "extract.sorted", "sort e2f")
  \/ SortExtract("e2f", "extract.inv.sorted", "sort half")
  \/ SplitParts("f2e", "extract.sorted")
  \/ SplitParts("e2f", "extract.inv.sorted")
  \/ ScoreHalf("f2e", "extract.sorted", "sort e2f")
  \/ ScoreHalf("e2f", "extract.inv.sorted", "sort half")

\* (6.5) the inverse half in the order of the other one
SortHalf == pc = "sort half" /\ WriteUnlessThere("merge", {"half.e2f"}, "merge")

\* (6.6) the two halves together.  Lines that differ end the script, which
\* leaves a table of those that do not.
Merge ==
  /\ pc = "merge"
  /\ IF Skipped # {} \/ SamePairs(Data("half.f2e"), Data("half.e2f.sorted"))
     THEN WriteUnlessThere("reorder", {"half.f2e", "half.e2f", "half.e2f.sorted"}, "reorder")
     ELSE /\ file' = [file EXCEPT !["table"] = [data |-> Consolidated(Data("half.f2e"), Data("half.e2f.sorted")),
                                                 whole |-> FALSE]]
          /\ Goto("died")
          /\ UNCHANGED reused

\* (7) get_reordering
Reorder ==
  /\ pc = "reorder"
  /\ IF conf.reordering /\ Exists("extract.o") THEN Write("done", {})
     ELSE /\ Goto(IF conf.reordering THEN "died" ELSE "done")
          /\ UNCHANGED <<file, reused>>

Step == Symmetrize \/ GetLexical \/ ExtractPhrase \/ ScorePhrase \/ SortHalf \/ Merge \/ Reorder

(****************************************************************************)
(* Interruptions                                                            *)
(****************************************************************************)

FirstOf(step) == CASE step = 3 -> "align" [] step = 4 -> "lexical" [] step = 5 -> "extract"
                   [] step = 6 -> "sort f2e" [] step = 7 -> "reorder"

StepOf(p) == CASE p = "align" -> 3 [] p = "lexical" -> 4 [] p = "extract" -> 5
               [] p = "reorder" -> 7 [] OTHER -> 6

\* The files as an interruption after n lines of the output leaves them.
Interrupted(out, n) ==
  [x \in Names |->
     IF x \in DOMAIN out
     THEN [data |-> SubSeq(out[x], 1, Min({n, Len(out[x])})), whole |-> n >= Len(out[x])]
     ELSE file[x]]

\* The script is interrupted, or has died, and is run again from a step that it
\* had reached.
RunAgain ==
  /\ pc # "done"
  /\ restarts < conf.restarts
  /\ \E out \in {Output}, step \in 3 .. StepOf(pc), again \in BOOLEAN :
     \E n \in 0 .. Max({0} \cup {Len(out[x]) : x \in DOMAIN out}) :
       /\ file' = IF step = 3
                  THEN [Interrupted(out, n) EXCEPT !["aligned"] = [data |-> <<>>, whole |-> FALSE]]
                  ELSE Interrupted(out, n)
       /\ sym' = IF step = 3 THEN [n |-> 0, s |-> [stage |-> "done"]] ELSE sym
       /\ pc' = FirstOf(step)
       /\ continue' = again
  /\ restarts' = restarts + 1
  /\ UNCHANGED <<conf, reused>>

Next == Step \/ RunAgain

Spec == Init /\ [][Next]_vars

(****************************************************************************)
(* Properties                                                               *)
(****************************************************************************)

\* Every line of the alignment file is the symmetrization of its sentence that
\* the options ask for: between intersection and union, and nothing is left
\* that they tell to add.
AlignmentGrown ==
  \A k \in DOMAIN Data("aligned") :
     IsSymmetrization(Pair(k), Data("aligned")[k], conf.options)

\* A reordering table has the smoothed share of each orientation among the
\* occurrences of each phrase pair.
ReorderingOf(corpus, table) ==
  LET occ == Occurrences(corpus)
      of(l) == {o \in occ : F(corpus, o) = l.f /\ E(corpus, o) = l.e}
      share(O, is(_)) == <<SmoothNum + SmoothDen * Cardinality({o \in O : is(o)}),
                           3 * SmoothNum + SmoothDen * Cardinality(O)>>
  IN  /\ IsInjective([k \in DOMAIN table |-> <<table[k].f, table[k].e>>])
      /\ {<<l.f, l.e>> : l \in Range(table)} = {<<F(corpus, o), E(corpus, o)>> : o \in occ}
      /\ \A l \in Range(table), d \in Orientations :
           /\ l.previous[d] = share(of(l), LAMBDA o : Previous(corpus[o[1]], o[2]) = d)
           /\ l.following[d] = share(of(l), LAMBDA o : Following(corpus[o[1]], o[2]) = d)

\* Unless a file that an interruption left unfinished was reused, a finished
\* training has the phrase table and the reordering table of the corpus, and it
\* finishes unless the orientations were left in their first part.  The lexical
\* weights are those of the commonest alignment of a phrase pair, except under
\* union, where the code has a defect: symal writes the links that only the
\* inverse alignment has behind all others (symal.cpp:131), so that one set of
\* links comes in several orders, which score.cpp:346 takes for different
\* alignments; the commonest spelling wins, and its links may be rarer than others.
TableOfCorpus ==
  /\ pc = "done" /\ ~reused =>
       /\ TableOf(Corpus, Data("table"), conf.options.alignment = "union")
       /\ conf.reordering => ReorderingOf(Corpus, Data("reordering"))
  /\ pc = "died" => reused \/ (conf.fileLimit /\ ~Exists("extract.o"))
==============================================================================
