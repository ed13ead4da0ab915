----------------------------- MODULE StaticData ------------------------------
(****************************************************************************)
(* The parameters of the decoder, those of the configuration file with the  *)
(* switches of the command line over them (Parameter.cpp), and what it      *)
(* makes of them (StaticData.cpp): the settings that bear on n-best lists,  *)
(* the score producers in the order in which they register, each with a     *)
(* range of the score components, and the weight of each component. Then    *)
(* what the command line decoder makes of both: whether it starts, and the  *)
(* n-best list that it writes (Main.cpp, OutputNBestList of IOWrapper.cpp); *)
(* the search finds, of the translations of a sentence, those of the        *)
(* highest weighted scores.  The lines of the configuration file are        *)
(* well-formed, tables can be read if they exist, and there is no weight    *)
(* file.                                                                    *)
(*                                                                          *)
(* A token of the command line begins with a dash or not, and is a word or  *)
(* a number. A line of the configuration file is such a token too; for the  *)
(* line of a table, word is the file and num the number of its scores, and  *)
(* for a mapping step, word is "T" or "G" and num the number of the table.  *)
(****************************************************************************)
EXTENDS MertData

CONSTANTS
  Files,             \* the files that exist
  Binary,            \* the phrase tables of Files that are binary
  Translations,      \* for each sentence of the input its translations
  Model(_, _, _)     \* the score of a translation for component i of a kind

Switch(name) == [dash |-> TRUE, word |-> name, num |-> Zero]
Word(w) == [dash |-> FALSE, word |-> w, num |-> Zero]
Number(x) == [dash |-> FALSE, word |-> "", num |-> x]
Table(file, n) == [dash |-> FALSE, word |-> file, num |-> Whole(n)]

\* The parameters by their abbreviation, and those that have none.  Two have
\* the empty word.
Abbreviated ==
  [b |-> "beam-threshold", f |-> "config", du |-> "drop-unknown", fd |-> "factor-delimiter",
   i |-> "input-file", L |-> "lmstats", da |-> "phrase-drop-allowed",
   t |-> "report-segmentation", s |-> "stack", sd |-> "stack-diversity",
   T |-> "translation-details", ttl |-> "ttable-limit", tot |-> "translation-option-threshold",
   edt |-> "early-discarding-threshold", v |-> "verbose", d |-> "weight-d",
   g |-> "weight-generation", I |-> "weight-i", lm |-> "weight-l", tm |-> "weight-t",
   w |-> "weight-w", u |-> "weight-u", e |-> "weight-e", wf |-> "weight-file",
   dl |-> "distortion-limit", mp |-> "monotone-at-punctuation", xi |-> "xml-input",
   mbr |-> "minimum-bayes-risk", r |-> "recover-input-path", owg |-> "output-word-graph",
   osg |-> "output-search-graph", cbp |-> "cube-pruning-pop-limit",
   cbd |-> "cube-pruning-diversity"]

Nameless == {"search-algorithm", "constraint"}

Unabbreviated ==
  {"generation-file", "input-factors", "inputtype", "labeled-n-best-list",
   "include-alignment-in-n-best", "lmodel-file", "lmodel-dub", "mapping",
   "max-partial-trans-opt", "max-trans-opt-per-coverage", "max-phrase-length", "n-best-list",
   "n-best-factor", "output-factors", "report-all-factors", "ttable-file", "cache-path",
   "distortion-file", "distortion", "mbr-size", "mbr-scale", "use-persistent-cache",
   "persistent-cache-size", "time-out", "use-alignment-info", "print-alignment-info",
   "print-alignment-info-in-n-best", "link-param-count"}

Parameters == {Abbreviated[a] : a \in DOMAIN Abbreviated} \cup Nameless \cup Unabbreviated
Valid == Parameters \cup DOMAIN Abbreviated \cup {""}

Abbreviations(param) ==
  {a \in DOMAIN Abbreviated : Abbreviated[a] = param}
    \cup (IF param \in Nameless THEN {""} ELSE {})

------------------------------------------------------------------------------
\* A dash alone is no option.
IsOption(token) == token.dash /\ token.word # ""

\* The first place of a switch in argv.
Places(argv, switch) == {i \in DOMAIN argv : argv[i].dash /\ argv[i].word = switch}
FirstPlace(argv, switch) == Min(Places(argv, switch))

\* FindParam: what follows the switch, <<>> if nothing does.
FindParam(argv, switch) ==
  IF Places(argv, switch) = {} THEN <<>>
  ELSE LET i == FirstPlace(argv, switch)
       IN  SubSeq(argv, i + 1, Min({i + 1, Len(argv)}))

\* The values after a switch, up to the next option.
ValuesAfter(argv, i) ==
  LET options == {j \in i + 1 .. Len(argv) : IsOption(argv[j])}
  IN  SubSeq(argv, i + 1, Min(options \cup {Len(argv) + 1}) - 1)

\* OverwriteParam: only the first place counts, and what the configuration
\* file has more of stays.
OverwriteParam(old, argv, switch) ==
  IF Places(argv, switch) = {} THEN old
  ELSE LET new == ValuesAfter(argv, FirstPlace(argv, switch))
       IN  new \o SubSeq(old, Len(new) + 1, Len(old))

\* ReadConfigFile: whatever sections there are, those of one name together.
ReadConfigFile(sections) ==
  [p \in {sections[i].name : i \in {j \in DOMAIN sections : sections[j].lines # <<>>}} |->
     FlattenSeq([i \in DOMAIN sections |->
                   IF sections[i].name = p THEN sections[i].lines ELSE <<>>])]

------------------------------------------------------------------------------
GetParam(setting, param) == IF param \in DOMAIN setting THEN setting[param] ELSE <<>>
IsParamSpecified(setting, param) == param \in DOMAIN setting

FilesExist(setting, param) ==
  \A i \in DOMAIN GetParam(setting, param) : GetParam(setting, param)[i].word \in Files

Validate(setting) ==
  LET models == Len(GetParam(setting, "lmodel-file"))
      bounds == Len(GetParam(setting, "lmodel-dub"))
  IN  /\ GetParam(setting, "ttable-file") # <<>>
      /\ bounds \in {0, models}
      /\ models = Len(GetParam(setting, "weight-l"))
      /\ FilesExist(setting, "ttable-file")
      /\ Len(GetParam(setting, "input-file")) = 1 => FilesExist(setting, "input-file")
      /\ FilesExist(setting, "generation-file")
      /\ FilesExist(setting, "distortion-file")

LegalSwitches(argv) == \A i \in DOMAIN argv : IsOption(argv[i]) => argv[i].word \in Valid

\* LoadParam, with the configuration file that -f or -config names: the
\* switches by their full name go over its parameters, then those by their
\* abbreviation.  A parameter is defined when either has it.
Configured(argv) == FindParam(argv, "f") # <<>> \/ FindParam(argv, "config") # <<>>

LoadParam(sections, argv) ==
  LET file == ReadConfigFile(sections)
      given == {p \in Parameters : \E a \in {p} \cup Abbreviations(p) : Places(argv, a) # {}}
      setting == [p \in DOMAIN file \cup given |->
                    FoldSet(LAMBDA a, values : OverwriteParam(values, argv, a),
                            OverwriteParam(GetParam(file, p), argv, p), Abbreviations(p))]
  IN  [setting |-> setting,
       ok |-> Configured(argv) /\ Validate(setting) /\ LegalSwitches(argv)]

------------------------------------------------------------------------------
Sentence == 0        \* input types
ConfusionNetwork == 1
WordLattice == 2

First(setting, param, default) ==
  IF GetParam(setting, param) = <<>> THEN default ELSE GetParam(setting, param)[1]

Numbers(setting, param) ==
  [i \in DOMAIN GetParam(setting, param) |-> GetParam(setting, param)[i].num]

\* Scan<bool>
IsTrue(token) == token.word \in {"yes", "y", "true"} \/ token = Number(One)

\* A parameter without a value is true, one with several keeps the default.
SetBooleanParameter(setting, param, default) ==
  LET values == GetParam(setting, param)
  IN  IF Len(values) = 1 THEN IsTrue(values[1])
      ELSE default \/ (IsParamSpecified(setting, param) /\ values = <<>>)

------------------------------------------------------------------------------
(****************************************************************************)
(* Score producers and weights.  D is the StaticData that is being loaded.  *)
(****************************************************************************)
\* ScoreIndexManager::AddScoreProducer; inputs of the n components come from
\* the input.
AddScoreProducer(D, kind, n, inputs) ==
  [D EXCEPT !.producers = Append(@, [kind |-> kind, begin |-> D.last, n |-> n, inputs |-> inputs]),
            !.last = @ + n]

PushWeights(D, weights) == [D EXCEPT !.weights = @ \o weights]

SetWeightsForScoreProducer(D, producer, weights) ==
  LET end == producer.begin + producer.n
  IN  [D EXCEPT !.weights =
         [i \in 1 .. Max({Len(@), end}) |->
            IF i \in producer.begin + 1 .. end THEN weights[i - producer.begin]
            ELSE IF i <= Len(@) THEN @[i] ELSE Zero]]

Failed(D) == [D EXCEPT !.ok = FALSE]

\* What is loaded next is not loaded after a failure.
FoldLoad(Load(_, _), D, lines) ==
  FoldLeft(LAMBDA E, line : IF E.ok THEN Load(E, line) ELSE E, D, lines)

\* Reordering models take their weights from weight-d behind the first, that
\* of the distance.
Reordering(D, line, weights) ==
  LET n == line.num[1]
      E == AddScoreProducer([D EXCEPT !.used = @ + n], "Reordering", n, 0)
  IN  IF D.used + n > Len(weights) THEN Failed(D)
      ELSE SetWeightsForScoreProducer(E, Last(E.producers),
                                      SubSeq(weights, D.used + 1, D.used + n))

LoadLexicalReorderingModel(D, setting) ==
  FoldLoad(LAMBDA E, line : Reordering(E, line, Numbers(setting, "weight-d")),
           [D EXCEPT !.used = 1], GetParam(setting, "distortion-file"))

\* The weights of all models first, then the models.
LoadLanguageModels(D, setting) ==
  FoldLoad(LAMBDA E, line : AddScoreProducer(E, "LM", 1, 0),
           PushWeights(D, IF GetParam(setting, "lmodel-file") = <<>> THEN <<>>
                          ELSE Numbers(setting, "weight-l")),
           GetParam(setting, "lmodel-file"))

Generation(D, line, weights) ==
  LET n == line.num[1]
  IN  IF D.used + n > Len(weights) THEN Failed(D)
      ELSE PushWeights(AddScoreProducer([D EXCEPT !.used = @ + n], "Generation", n, 0),
                       SubSeq(weights, D.used + 1, D.used + n))

LoadGenerationTables(D, setting) ==
  FoldLoad(LAMBDA E, line : Generation(E, line, Numbers(setting, "weight-generation")),
           [D EXCEPT !.used = 0], GetParam(setting, "generation-file"))

\* The number of weights for the input, of which each link has a score or
\* all but one, the count of real words.
InputWeights(setting) == Len(GetParam(setting, "weight-i"))
LinkParams(setting) == First(setting, "link-param-count", Number(One)).num[1]

\* The first table has the weights of the input before its own.  ttable-limit
\* has a value for each table, unless it has none at all: the code reads beyond
\* its values if there are too few.
PhraseTable(D, line, setting) ==
  LET n == line.num[1]
      all == Numbers(setting, "weight-t")
      first == ~\E i \in DOMAIN D.producers : D.producers[i].kind = "PhraseTable"
      ofInput == IF first /\ D.inputType # Sentence THEN Numbers(setting, "weight-i") ELSE <<>>
      weights == ofInput \o SubSeq(all, D.used + 1, D.used + n)
  IN  IF \/ D.used + n > Len(all)
         \/ GetParam(setting, "ttable-limit") = <<>>
         \/ /\ D.inputType # Sentence
            /\ \/ line.word \notin Binary
               \/ first /\ InputWeights(setting) - LinkParams(setting) \notin {0, 1}
      THEN Failed(D)
      ELSE AddScoreProducer(PushWeights([D EXCEPT !.used = @ + n], weights),
                            "PhraseTable", Len(weights), Len(ofInput))

LoadPhraseTables(D, setting) ==
  FoldLoad(LAMBDA E, line : PhraseTable(E, line, setting),
           [D EXCEPT !.used = 0], GetParam(setting, "ttable-file"))

Producers(D, kind) == SelectSeq(D.producers, LAMBDA p : p.kind = kind)

\* A step of the mapping names a table that was loaded.
MappingStep(D, line) ==
  LET tables == Producers(D, IF line.word = "T" THEN "PhraseTable" ELSE "Generation")
  IN  IF line.num[1] >= Len(tables) THEN Failed(D) ELSE [D EXCEPT !.steps = Append(@, line)]

LoadMapping(D, setting) == FoldLoad(MappingStep, D, GetParam(setting, "mapping"))

------------------------------------------------------------------------------
(****************************************************************************)
(* LoadData.                                                                *)
(****************************************************************************)
\* The settings for which loading ends at once.
Refused(setting, inputType) ==
  LET Values(param) == Len(GetParam(setting, param))
  IN  \/ Values("n-best-list") = 1
      \/ Values("output-search-graph") > 1
      \/ Values("input-factors") = 0
      \/ Values("weight-d") = 0 \/ Values("weight-w") = 0     \* read without a check
      \/ /\ Values("stack-diversity") > 0
         /\ \/ Less(Whole(15), First(setting, "distortion-limit", Number(Whole(-1))).num)
            \/ inputType = WordLattice
      \/ First(setting, "xml-input", Word("pass-through")).word
           \notin {"exclusive", "inclusive", "ignore", "pass-through"}

\* The three producers that are always there.
SmallProducers(D, setting) ==
  LET Small(E, kind, weight) == PushWeights(AddScoreProducer(E, kind, 1, 0), <<weight>>)
  IN  Small(Small(Small(D, "Distortion", GetParam(setting, "weight-d")[1].num),
                  "WordPenalty", GetParam(setting, "weight-w")[1].num),
            "UnknownWordPenalty", First(setting, "weight-u", Number(One)).num)

Settings(setting) ==
  [ok |-> TRUE,
   inputType |-> First(setting, "inputtype", Number(Whole(Sentence))).num[1],
   nBestSize |-> IF Len(GetParam(setting, "n-best-list")) < 2 THEN 0
                 ELSE GetParam(setting, "n-best-list")[2].num[1],
   labeledNBestList |-> SetBooleanParameter(setting, "labeled-n-best-list", TRUE),
   mbr |-> SetBooleanParameter(setting, "minimum-bayes-risk", FALSE),
   maxDistortion |-> First(setting, "distortion-limit", Number(Whole(-1))).num[1],
   searchAlgorithm |-> First(setting, "search-algorithm", Number(Zero)).num[1],
   producers |-> <<>>, last |-> 0, weights |-> <<>>, used |-> 0, steps |-> <<>>]

Then(Load(_, _), D, setting) == IF D.ok THEN Load(D, setting) ELSE D

LoadData(setting) ==
  LET D == Settings(setting)
  IN  IF Refused(setting, D.inputType) THEN Failed(D)
      ELSE Then(LoadMapping,
           Then(LoadPhraseTables,
           Then(LoadGenerationTables,
           Then(LoadLanguageModels,
           Then(LoadLexicalReorderingModel, SmallProducers(D, setting), setting),
                setting), setting), setting), setting)

------------------------------------------------------------------------------
\* ScoreComponentCollection: the scores of one producer among all.
GetScoresForProducer(scores, producer) ==
  SubSeq(scores, producer.begin + 1, producer.begin + producer.n)

------------------------------------------------------------------------------
(****************************************************************************)
(* The scores of a translation, one for each component.                     *)
(****************************************************************************)
\* How many components the producers of this kind have before one.
Earlier(D, q) ==
  LET before == SelectSeq(SubSeq(D.producers, 1, q - 1),
                          LAMBDA p : p.kind = D.producers[q].kind)
  IN  FoldLeft(LAMBDA n, p : n + p.n - p.inputs, 0, before)

\* Scores of the input are the first components of a phrase table.
ProducerScores(D, q, text) ==
  LET p == D.producers[q]
  IN  [i \in 1 .. p.n |-> IF i <= p.inputs THEN Model(text, "Input", i)
                          ELSE Model(text, p.kind, Earlier(D, q) + i - p.inputs)]

Breakdown(D, text) ==
  FlattenSeq([q \in DOMAIN D.producers |-> ProducerScores(D, q, text)])

------------------------------------------------------------------------------
(****************************************************************************)
(* The third field of an n-best list: the scores "in a hardwired order".    *)
(****************************************************************************)
AllScores(D, kind, scores) ==
  LET producers == Producers(D, kind)
  IN  FlattenSeq([q \in DOMAIN producers |-> GetScoresForProducer(scores, producers[q])])

\* The scores of the input, which a table has for an input that is no text.
InputScores(D, scores) ==
  LET first == Producers(D, "PhraseTable")[1]
  IN  SubSeq(GetScoresForProducer(scores, first), 1, first.inputs)

TableScores(D, scores) ==
  LET tables == Producers(D, "PhraseTable")
  IN  FlattenSeq([q \in DOMAIN tables |->
                    SubSeq(GetScoresForProducer(scores, tables[q]),
                           tables[q].inputs + 1, tables[q].n)])

ScoreTokens(scores) == [i \in DOMAIN scores |-> Score(scores[i])]

\* A label, if they are wanted, before the scores.
Labeled(D, name, scores) ==
  (IF D.labeledNBestList THEN <<Label(name)>> ELSE <<>>) \o ScoreTokens(scores)

IfAny(D, name, scores) == IF scores = <<>> THEN <<>> ELSE Labeled(D, name, scores)

\* Mutant: the reordering models come before the distance.
ScoreField_DistanceLast(D, scores) ==
  Labeled(D, "d", AllScores(D, "Reordering", scores) \o AllScores(D, "Distortion", scores))
    \o IfAny(D, "lm", AllScores(D, "LM", scores))
    \o IfAny(D, "I", InputScores(D, scores))
    \o Labeled(D, "tm", TableScores(D, scores))
    \o Labeled(D, "w", AllScores(D, "WordPenalty", scores))
    \o IfAny(D, "g", AllScores(D, "Generation", scores))

ScoreField(D, scores) ==
  Labeled(D, "d", AllScores(D, "Distortion", scores) \o AllScores(D, "Reordering", scores))
    \o IfAny(D, "lm", AllScores(D, "LM", scores))
    \o IfAny(D, "I", InputScores(D, scores))
    \o Labeled(D, "tm", TableScores(D, scores))
    \o Labeled(D, "w", AllScores(D, "WordPenalty", scores))
    \o IfAny(D, "g", AllScores(D, "Generation", scores))

------------------------------------------------------------------------------
(****************************************************************************)
(* The list: the best translations of each sentence, of equals the first.   *)
(****************************************************************************)
Best(totals, n) ==
  LET Rank(j) == Cardinality({k \in DOMAIN totals : \/ Less(totals[j], totals[k])
                                                    \/ k <= j /\ totals[k] = totals[j]})
  IN  [r \in 1 .. Min({n, Len(totals)}) |-> CHOOSE j \in DOMAIN totals : Rank(j) = r]

SentenceList(D, s) ==
  LET texts == Translations[s]
      breakdowns == [j \in DOMAIN texts |-> Breakdown(D, texts[j])]
      best == Best([j \in DOMAIN texts |-> Dot(D.weights, breakdowns[j])], D.nBestSize)
  IN  [r \in DOMAIN best |->
         [sent |-> s - 1, text |-> texts[best[r]],
          tokens |-> ScoreField(D, breakdowns[best[r]])]]

\* With MBR decoding none is written.
OutputNBestList(D) ==
  IF D.mbr THEN <<>> ELSE FlattenSeq([s \in DOMAIN Translations |-> SentenceList(D, s)])

------------------------------------------------------------------------------
\* main: the decoder that these parameters give.  It ends early without a
\* weight for every score, and at the first sentence without a search.
Main(sections, argv) ==
  LET loaded == LoadParam(sections, argv)
  IN  IF loaded.ok THEN LoadData(loaded.setting) ELSE [ok |-> FALSE]

Decodes(D) ==
  D.ok /\ Len(D.weights) = D.last /\ D.searchAlgorithm \in {0, 1}
==============================================================================
