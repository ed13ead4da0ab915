---------------------------- MODULE MertMosesNew -----------------------------
(****************************************************************************)
(* mert-moses-new.pl: the weights of a model, tuned in runs.  The script    *)
(* reads from the configuration file how many weights there are, hands them *)
(* to the decoder on its command line, has the extractor take features and  *)
(* error counts out of the n-best list, has mert optimise over the files of *)
(* a window of runs, reads the best point back by the labels of the list,   *)
(* and at the end writes a configuration file with the new weights.         *)
(*                                                                          *)
(* A configuration conf of the script: the file (sections), --decoder-flags *)
(* (flags), --inputtype, --lambdas (a function from names to values, empty  *)
(* if not given), --continue, --skip-decoder, --prev-aggregate-nbestlist    *)
(* (window, the doc's number), how many sentences have a reference and how  *)
(* mert regularises.  Jobs of a grid, the asynchronous decoder and the      *)
(* filtering of phrase tables, which leaves the rest of the file alone, are *)
(* left out.                                                                *)
(****************************************************************************)
EXTENDS Optimizer, StaticData

CONSTANTS
  Confs,             \* how the script may be called
  NBestSize,         \* --nbest
  References,        \* a reference for each sentence
  MaxRuns            \* bound: runs of the script

VARIABLES
  pc,         \* what the script does next
  conf,
  triples,    \* used_triples: the values of each abbreviated name
  order,      \* order_of_lambdas_from_decoder: the label of each score
  run,
  decoder,    \* the decoder of this run
  lists,      \* the n-best list of each run
  files,      \* the feature and score files of each run
  curr,       \* CURR, the weights in init.opt
  bestpoint,
  final       \* the sections of the configuration file written at the end

scriptVars == <<pc, conf, triples, order, run, decoder, lists, files, curr, bestpoint, final>>
vars == <<scriptVars, mertVars>>

NoDecoder == [ok |-> FALSE]
minimum_required_change_in_weights == <<1, 100000>>

Names == {"d", "lm", "tm", "w", "g", "I"}

\* The names with a full name: I only for confusion networks.
ABBR2FULL(inputtype) ==
  [d |-> "weight-d", lm |-> "weight-l", tm |-> "weight-t", w |-> "weight-w",
   g |-> "weight-generation", I |-> IF inputtype = ConfusionNetwork THEN "weight-i" ELSE "I"]

FullName(name, inputtype) ==
  IF name \in Names THEN ABBR2FULL(inputtype)[name] ELSE name

------------------------------------------------------------------------------
(****************************************************************************)
(* scan_config: the names and starting values of the weights.               *)
(****************************************************************************)
default_triples(inputtype) ==
  IF inputtype = ConfusionNetwork
  THEN [n \in {"w", "I"} |-> IF n = "w" THEN <<Zero>> ELSE <<One>>]
  ELSE [n \in {"w"} |-> <<Zero>>]

additional_triples ==
  [d |-> <<One, One, One, One, One, One, One>>,
   lm |-> <<One>>,
   g |-> <<One, One>>,
   tm |-> <<<<3, 10>>, <<1, 5>>, <<3, 10>>, <<1, 5>>, Zero>>]

TABLECONFIG2ABBR ==
  [p \in {"ttable-file", "lmodel-file", "distortion-file", "generation-file"} |->
     CASE p = "ttable-file" -> "tm" [] p = "lmodel-file" -> "lm"
       [] p = "distortion-file" -> "d" [] p = "generation-file" -> "g"]

\* The lines of tables: name, file, number of weights.
TableLines(sections) ==
  LET Of(section) ==
        [i \in DOMAIN section.lines |->
           [name |-> TABLECONFIG2ABBR[section.name], file |-> section.lines[i].word,
            n |-> IF section.name = "lmodel-file" THEN 1 ELSE section.lines[i].num[1]]]
  IN  FlattenSeq([k \in DOMAIN sections |->
                    IF sections[k].name \in DOMAIN TABLECONFIG2ABBR THEN Of(sections[k])
                    ELSE <<>>])

Steps(sections, kind) ==
  FoldLeft(LAMBDA n, s : n + Cardinality({i \in DOMAIN s.lines : s.lines[i].word = kind}),
           0, SelectSeq(sections, LAMBDA s : s.name = "mapping"))

Push(used, name, values) ==
  [n \in DOMAIN used \cup {name} |->
     (IF n \in DOMAIN used THEN used[n] ELSE <<>>) \o (IF n = name THEN values ELSE <<>>)]

\* A table with more weights than there are defaults: an error, with
\* --lambdas a reference to an undefined triple.
Scannable(sections) ==
  LET tables == TableLines(sections)
      Given(name) == Len(SelectSeq(tables, LAMBDA t : t.name = name))
  IN  /\ \A i \in DOMAIN tables :
           /\ tables[i].file \in Files
           /\ tables[i].n <= Len(additional_triples[tables[i].name])
      /\ Given("tm") = Steps(sections, "T")
      /\ Given("g") = Steps(sections, "G")

\* The distance comes last, behind the weights of the reordering models.
scan_config(sections, inputtype) ==
  Push(FoldLeft(LAMBDA used, t : Push(used, t.name, SubSeq(additional_triples[t.name], 1, t.n)),
                default_triples(inputtype), TableLines(sections)),
       "d", <<One>>)

\* --lambdas must name the same weights, as many of each.
LambdasFit(lambdas, used) ==
  /\ DOMAIN lambdas = DOMAIN used
  /\ \A n \in DOMAIN used : Len(lambdas[n]) = Len(used[n])

Forbidden == {"config", "f", "ttable-file", "t", "distortion-file", "generation-file", "lmodel-file"}

\* "It is forbidden to supply any of ... in the --decoder-flags."
FlagsAllowed(flags) ==
  \A i \in 1 .. Len(flags) - 1 : flags[i].dash => flags[i].word \notin Forbidden

------------------------------------------------------------------------------
(****************************************************************************)
(* create_config: the file with the values of the flags and the weights in  *)
(* place of its own.                                                        *)
(****************************************************************************)
\* A value needs a flag before it.
FlagsNamed(flags) == flags # <<>> => IsOption(flags[1])

\* The parameters that the flags give, as the flags name them; a flag
\* without a value gives none.
FlagParameters(flags, inputtype) ==
  LET Name(i) == FullName(flags[Max({j \in 1 .. i : IsOption(flags[j])})].word, inputtype)
  IN  FoldLeft(LAMBDA P, i : IF IsOption(flags[i]) THEN P ELSE Push(P, Name(i), <<flags[i]>>),
               <<>>, [i \in DOMAIN flags |-> i])

WithWeights(P, used, inputtype) ==
  LET full == [n \in DOMAIN used |-> FullName(n, inputtype)]
      Named(p) == {n \in DOMAIN used : full[n] = p}
  IN  [p \in (DOMAIN P \ DOMAIN used) \cup Range(full) |->
         IF Named(p) = {} THEN P[p]
         ELSE LET values == used[CHOOSE n \in Named(p) : TRUE]
              IN  [i \in DOMAIN values |-> Number(values[i])]]

\* Sections keep their order; the first of a name has the new values, and
\* parameters without a section follow.
create_config(sections, flags, used, inputtype) ==
  LET P == WithWeights(FlagParameters(flags, inputtype), used, inputtype)
      names == [k \in DOMAIN sections |-> FullName(sections[k].name, inputtype)]
      FirstOfName(k) == \A j \in 1 .. k - 1 : names[j] # names[k]
  IN  [k \in DOMAIN sections |->
         [name |-> names[k],
          lines |-> IF names[k] \in DOMAIN P /\ FirstOfName(k) THEN P[names[k]]
                    ELSE sections[k].lines]]
      \o FoldSet(LAMBDA p, added : Append(added, [name |-> p, lines |-> P[p]]),
                 <<>>, DOMAIN P \ Range(names))

------------------------------------------------------------------------------
(****************************************************************************)
(* run_decoder.                                                             *)
(****************************************************************************)
\* The weights of the first run are divided by the sum of all magnitudes.
Magnitudes(used) ==
  FoldSet(LAMBDA n, sum : FoldLeft(LAMBDA part, v : Plus(part, AbsOf(v)), sum, used[n]),
          Zero, DOMAIN used)

Normalized(used) ==
  LET total == Magnitudes(used)
  IN  [n \in DOMAIN used |-> [i \in DOMAIN used[n] |-> Over(used[n][i], total)]]

WeightSwitches(used) ==
  FoldSet(LAMBDA n, args :
            args \o <<Switch(n)>> \o [i \in DOMAIN used[n] |-> Number(used[n][i])],
          <<>>, DOMAIN used)

\* The flags come before everything that the script adds.
DecoderArguments(flags, inputtype, used) ==
  flags \o <<Switch("config"), Word("moses.ini"),
             Switch("inputtype"), Number(Whole(inputtype))>>
        \o WeightSwitches(used)
        \o <<Switch("n-best-list"), Word("run.best.out"), Number(Whole(NBestSize)),
             Switch("i"), Word("input")>>

DecoderWith(used) == Main(conf.sections, DecoderArguments(conf.flags, conf.inputtype, used))

NextDecoder == DecoderWith(IF run = 0 THEN Normalized(triples) ELSE triples)

\* get_order_of_scores_from_nbestlist: the label before each score of the
\* first line, which must have one before the first.
Ordered(list) == list # <<>> /\ list[1].tokens # <<>> /\ IsLabel(list[1].tokens[1])

get_order_of_scores(tokens) ==
  FoldLeft(LAMBDA acc, t : IF IsLabel(t) THEN [acc EXCEPT !.label = t.label]
                           ELSE [acc EXCEPT !.order = Append(@, acc.label)],
           [label |-> "", order |-> <<>>], tokens).order

------------------------------------------------------------------------------
(****************************************************************************)
(* The weights to mert and back.                                            *)
(****************************************************************************)
\* The labels, each where it is first seen.
Labels(labels) ==
  FoldLeft(LAMBDA seen, l : IF l \in Range(seen) THEN seen ELSE Append(seen, l), <<>>, labels)

WeightsInOrder(used, labels) == FlattenSeq([i \in DOMAIN Labels(labels) |-> used[Labels(labels)[i]]])

\* The files that mert loads, those of earlier runs first.
FirstRun(window, last) == IF window = -1 THEN 1 ELSE Max({1, last - window + 1})
Aggregated(window, now) ==
  LET last == now - 1
  IN  [k \in 1 .. Max({0, last - FirstRun(window, last) + 1}) |->
         files[FirstRun(window, last) + k - 1]] \o <<files[now]>>

\* The value at place i is of the label there, its idx-th.
Idx(labels, i) == Cardinality({j \in 1 .. i : labels[j] = labels[i]})

Storable(used, labels, values) ==
  \A i \in DOMAIN values :
    /\ i \in DOMAIN labels /\ labels[i] \in DOMAIN used
    /\ Idx(labels, i) <= Len(used[labels[i]])

store_new_lambda_values(used, labels, values) ==
  FoldLeft(LAMBDA T, i : [T EXCEPT ![labels[i]][Idx(labels, i)] = values[i]],
           used, [i \in DOMAIN values |-> i])

Unchanged(old, new) ==
  \A i \in DOMAIN old : Less(AbsOf(Minus(old[i], new[i])), minimum_required_change_in_weights)

------------------------------------------------------------------------------
Init ==
  /\ pc = "scan" /\ conf \in Confs
  /\ triples = <<>> /\ order = <<>> /\ run = 0 /\ decoder = NoDecoder
  /\ lists = <<>> /\ files = <<>> /\ curr = <<>> /\ bestpoint = <<>> /\ final = <<>>
  /\ MertInit

Die ==
  /\ pc' = "died"
  /\ UNCHANGED <<conf, triples, order, run, decoder, lists, files, curr, bestpoint, final, mertVars>>

Used == scan_config(conf.sections, conf.inputtype)

Startable ==
  /\ Scannable(conf.sections)
  /\ conf.lambdas # <<>> => LambdasFit(conf.lambdas, Used)
  /\ FlagsAllowed(conf.flags)
  /\ ~conf.continue

ScanConfig ==
  /\ pc = "scan" /\ Startable
  /\ triples' = IF conf.lambdas # <<>> THEN conf.lambdas ELSE Used
  /\ pc' = "decode"
  /\ UNCHANGED <<conf, order, run, decoder, lists, files, curr, bestpoint, final, mertVars>>

\* The error messages of the script before its first run.
ScanConfigDies == pc = "scan" /\ ~Startable /\ Die

\* A run: the decoder writes its list, and the first run reads the order of
\* scores from it.
Decoded(D, list) ==
  /\ run' = run + 1 /\ decoder' = D
  /\ lists' = Append(lists, list)
  /\ order' = IF order = <<>> THEN get_order_of_scores(list[1].tokens) ELSE order

Runs(D, list) == Decodes(D) /\ (order = <<>> => Ordered(list))

\* With weights that are all 0 the script divides by 0.
Runnable ==
  /\ FlagsNamed(conf.flags) /\ ~conf.skip /\ Magnitudes(triples) # Zero
  /\ LET D == NextDecoder IN D.ok /\ Runs(D, OutputNBestList(D))

RunDecoder ==
  /\ pc = "decode" /\ run < MaxRuns /\ Runnable
  /\ LET D == NextDecoder IN Decoded(D, OutputNBestList(D))
  /\ pc' = "extract"
  /\ UNCHANGED <<conf, triples, files, curr, bestpoint, final, mertVars>>

\* create_config dies, the decoder does, or its list has no scores with labels.
RunDecoderDies == pc = "decode" /\ run < MaxRuns /\ ~Runnable /\ Die

\* The last list, which the extractor reads.
Refs == SubSeq(References, 1, conf.references)

ExtractScores ==
  /\ pc = "extract" /\ Extractable(Last(lists), Refs)
  /\ files' = Append(files, Extract(Last(lists), Refs))
  /\ pc' = "optimise"
  /\ UNCHANGED <<conf, triples, order, run, decoder, lists, curr, bestpoint, final, mertVars>>

ExtractScoresDies ==
  pc = "extract" /\ ~Extractable(Last(lists), Refs) /\ Die

\* init.opt, and mert over the files of this run and of those before.
Optimise ==
  /\ pc = "optimise" /\ Range(order) \subseteq DOMAIN triples
  /\ curr' = WeightsInOrder(triples, order)
  /\ StartMert(Aggregated(conf.window, run), conf.regularisation, curr')
  /\ pc' = "mert"
  /\ UNCHANGED <<conf, triples, order, run, decoder, lists, files, bestpoint, final>>

\* "The decoder produced also some scores, but we do not know the ranges".
OptimiseDies == pc = "optimise" /\ ~(Range(order) \subseteq DOMAIN triples) /\ Die

Mert == pc = "mert" /\ MertNext /\ UNCHANGED scriptVars

\* Best point: the weights of the next run, unless it is close to the
\* weights of this one.
StoreWeights ==
  /\ pc = "mert" /\ mert = "ended" /\ Storable(triples, order, result.at)
  /\ bestpoint' = result.at
  /\ triples' = store_new_lambda_values(triples, order, result.at)
  /\ pc' = IF Unchanged(curr, result.at) THEN "finish" ELSE "decode"
  /\ LeaveMert
  /\ UNCHANGED <<conf, order, run, decoder, lists, files, curr, final>>

\* "Moses gave us too many lambdas".
StoreWeightsDies ==
  pc = "mert" /\ mert = "ended" /\ ~Storable(triples, order, result.at) /\ Die

Finish ==
  /\ pc = "finish"
  /\ final' = create_config(conf.sections, conf.flags, triples, conf.inputtype)
  /\ pc' = "finished"
  /\ UNCHANGED <<conf, triples, order, run, decoder, lists, files, curr, bestpoint, mertVars>>

Next ==
  \/ ScanConfig \/ ScanConfigDies
  \/ RunDecoder \/ RunDecoderDies
  \/ ExtractScores \/ ExtractScoresDies
  \/ Optimise \/ OptimiseDies
  \/ Mert
  \/ StoreWeights \/ StoreWeightsDies
  \/ Finish

Spec == Init /\ [][Next]_vars

------------------------------------------------------------------------------
(****************************************************************************)
(* The weights between the script, the decoder and mert.                    *)
(****************************************************************************)
\* The component that each score of a list is from.
Columns(D) == ScoresOf(ScoreField(D, [i \in 1 .. D.last |-> i]))

\* Every score in the list has its weight, and only the penalty of unknown
\* words is not in the list.
CarriesWeights(D, weights) ==
  LET columns == Columns(D)
  IN  /\ Len(weights) = Len(columns)
      /\ \A c \in DOMAIN columns : D.weights[columns[c]] = weights[c]
      /\ \A q \in DOMAIN D.producers :
           LET p == D.producers[q]
           IN  p.kind # "UnknownWordPenalty" => p.begin + 1 .. p.begin + p.n \subseteq Range(columns)

\* The file has not more weights of a name than the script counts, and the
\* flags set none.
OwnWeights ==
  LET full == ABBR2FULL(ConfusionNetwork)
      file == ReadConfigFile(conf.sections)
  IN  /\ \A n \in Names : Len(GetParam(file, full[n])) <= Len(GetParam(triples, n))
      /\ \A i \in DOMAIN conf.flags : conf.flags[i].word \notin Names \cup Range(full)

\* The flags have full names and values, each once.
PlainFlags ==
  LET flags == conf.flags
  IN  \A i \in DOMAIN flags : flags[i].dash =>
        /\ flags[i].word \in Parameters
        /\ i < Len(flags) /\ ~flags[i + 1].dash
        /\ Cardinality(Places(flags, flags[i].word)) = 1

\* The weights reach the scores they are for.  In each run the decoder
\* weighs the component behind each score of its n-best list with the value
\* that mert gave this place, in the first run with the normalised starting
\* value of its label; and the configuration file written at the end makes,
\* without the flags, the decoder that one more run with them would use.
\* (scan_config, run_decoder, store_new_lambda_values, create_config;
\* StaticData and OutputNBestList.)
WeightsComeBack ==
  /\ pc = "extract" /\ OwnWeights =>
       CarriesWeights(decoder, IF run = 1 THEN WeightsInOrder(Normalized(triples), order)
                               ELSE bestpoint)
  /\ pc = "finished" /\ OwnWeights /\ PlainFlags =>
       Main(final, DecoderArguments(<<>>, conf.inputtype, <<>>)) = DecoderWith(triples)

\* What mert optimises over is what the decoder found in the runs of the
\* window: for each sentence the candidates of all of these, once for each
\* time, with the features and the error counts of one candidate at the same
\* place.  (Extractor, FeatureData and ScoreData, which merge on their own.)
PoolParallel ==
  pc = "mert" /\ mert = "searching" =>
    LET first == IF conf.window = -1 THEN 1 ELSE Max({1, run - conf.window})
        found == FlattenSeq([k \in 1 .. run - first + 1 |-> lists[first + k - 1]])
        Of(sent) == SelectSeq(found, LAMBDA l : l.sent = sent)
        features == data.feature.arrays
    IN  /\ Len(features) = Len(data.score)
        /\ Len(features) = Cardinality({found[i].sent : i \in DOMAIN found})
        /\ \A p \in DOMAIN features :
             LET lines == Of(features[p].idx)
             IN  /\ data.score[p].idx = features[p].idx
                 /\ features[p].rows = [i \in DOMAIN lines |-> ScoresOf(lines[i].tokens)]
                 /\ data.score[p].rows =
                      [i \in DOMAIN lines |-> PrepareStats(References[lines[i].sent + 1], lines[i].text)]
==============================================================================
