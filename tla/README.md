# A verification model of Moses

Moses translates a sentence by searching for the best sequence of phrase
translations that covers it. Around that decoder the repository has the
programs that train its tables and tune its weights, a script that decodes on a
cluster and a language model server. This directory models the decoder from the
markup of an input line to the n-best list, the tables it reads, and the
programs around it, in TLA+. TLC checks the models on small instances; TLAPS
proves what the reordering rules and the stack decoder promise for sentences of
every length, and the language model server for any number of clients.

Paths below are relative to the repository; `M/` stands for `moses/src/`.

## The system

| Part | State it keeps | Operations | What makes it correct |
|---|---|---|---|
| Bitmaps and spans (`M/WordsBitmap.h`, `M/WordsRange.h`, `M/InputType.cpp`) | translated words of a hypothesis | SetValue, GetFirstGapPos, Overlap, GetID, ComputeDistortionDistance | an id stands for one coverage |
| Reordering constraints (`M/ReorderingConstraint.cpp`) | walls, local walls, zones of a sentence | SetWall, SetZone, SetMonotoneAtPunctuation, FinalizeWalls, Check | no wall is crossed, no zone is left unfinished, and yet something may always follow |
| Expansion rules (`M/SearchNormal.cpp`, `M/SearchCubePruning.cpp`, `M/BitmapContainer.cpp`) | none | which spans may follow a hypothesis | the limit holds for jumps in both directions, both searches allow the same |
| Hypotheses (`M/Hypothesis.cpp`) | back pointer, bitmap, feature states, score, arc list, winner | CreateNext, CalcScore, RecombineCompare, AddArc, CleanupArcList | recombination loses nothing that matters, arc lists own what they hold |
| Stack of stack decoding (`M/HypothesisStackNormal.cpp`) | a set ordered by RecombineCompare, best and worst score, worst score per coverage | Add, AddPrune, PruneToSize | pruning loses only what beam, size and diversity let it lose |
| Stack decoding (`M/SearchNormal.cpp`) | the stacks, `actual_hypoStack` | ProcessSentence, ProcessOneHypothesis, ExpandHypothesis, GetBestHypothesis | it ends with a derivation, the best one if nothing is pruned |
| Stack of cube pruning (`M/HypothesisStackCubePruning.cpp`) | as above, and a map from bitmaps to containers | Add, AddPrune, PruneToSize by threshold | as above |
| Cube pruning (`M/SearchCubePruning.cpp`, `M/BitmapContainer.cpp`) | containers with queues, edges with grids | CreateForwardTodos, InitializeEdges, ProcessBestHypothesis, PushSuccessors, EnsureMinStackHyps | no cell of a grid is lost or tried twice, and as above |
| N-best extraction (`M/Manager.cpp`, `M/TrellisPath.cpp`, `M/TrellisPathCollection.cpp`) | a set of paths ordered by score | CalcNBest, CreateDeviantPaths, Prune, GetSearchGraph, GetWordGraph, SerializeSearchGraphPB | the n best paths, each once, in order, with true scores |
| Translation options (`M/TranslationOptionCollection.cpp`, `M/PartialTranslOptColl.cpp`, `M/DecodeStep*.cpp`) | option lists by span, future costs | CreateTranslationOptions, ProcessUnknownWord, Prune, Sort, CalcFutureScore | every word has an option, the worst are pruned, the tables are read rightly |
| Option cache (`M/StaticData.cpp`) | option lists by source phrase, last use | Find, Add, ReduceTransOptCache | bounded size, right list |
| Future cost (`M/SquareMatrix.cpp`) | a score for each span | CalcFutureScore | the estimate is that of the best filling of the gaps |
| Markup (`M/XmlOption.cpp`, `M/Sentence.cpp`) | options, zones and walls of a line | ProcessAndStripXMLTags | it means what its tags enclose |
| Parallel decoding (`scripts/generic/moses-parallel.pl`) | jobs, files of their results | submit, wait, check, resubmit, merge | the result is that of one decoder |
| Tuning (`scripts/training/mert-moses.pl`) | weights, n-best lists of all runs, files | decode, score, optimise, stop, `--continue` | weights are optimal for all candidates in the end |
| New tuning script (`scripts/training/mert-moses-new.pl`) | weights by name, order of the scores, n-best lists and files of each run | scan_config, run_decoder, extract, mert, store_new_lambda_values, create_config | each weight reaches its score, and the tuned ones the last file |
| Extractor and optimiser (`mert/`) | arrays of features and scores by sentence; points | add, save, load, merge; LineOptimize, TrueRun | the rows of a candidate stay together, the score reported is that of the point |
| Language model server (`lmserver/`) and client (`M/LanguageModelRemote.cpp`) | connections, threads, queues, buffers; cache of scores | accept, dispatch, drive_machine, close; ask | the score is that of the n-gram, everyone is answered |
| Training (`scripts/training/train-factored-phrase-model.perl`, `symal/`, `phrase-extract/`) | files of each step | symmetrize, extract, score, merge, `--continue` | the tables are those of the corpus |
| Sentence loop and timer (`moses-cmd/src/Main.cpp`, `M/Timer.cpp`, `M/Util.cpp`) | one process-wide timer | ResetUserTime, GetUserTime | each sentence has its own time |
| Phrase and reordering tables (`M/PhraseDictionaryTree.cpp`, `M/PDTAimp.h`, `M/PhraseDictionaryMemory.cpp`, `M/LexicalReorderingTable.cpp`, `M/PrefixTree.h`) | files of trees, candidates, offsets, words; caches of a sentence | Create, Read, GetTargetPhraseCollection, CacheSource, GetScore | the answer is what the text of the table says |
| Filtering (`scripts/training/filter-and-binarize-model-given-input.pl`) | a directory | filter, sort, binarize, info | from a directory that is ready a decoder gets the answers of the table; where the binarizer died, those or none (`DecoderReadsTable`) |
| Parameters (`M/Parameter.cpp`, `M/StaticData.cpp`, `M/ScoreIndexManager.cpp`) | settings, score producers, weights | LoadParam, Validate, LoadData, SetWeightsForScoreProducer | the command line goes over the file, each component of the score has one weight |
| Output (`moses-cmd/src/IOWrapper.cpp`, `moses-cmd/src/mbr.cpp`, `scripts/training/mbr/mbr.cpp`) | files | OutputBestHypo, OutputNBestList, OutputWordAlignment, doMBR | each score under its label, the segmentation and alignment are those of the translation |
| Lexical reordering (`M/LexicalReordering.cpp`) | the orientation scores of each option | CalcScore, GetOrientationType, Evaluate | equal hypotheses have equal scores to come |
| `misc/`, analysis scripts, web tools | | | separate programs |

`Manager` makes a `TranslationOptionCollection` and a `Search` for each
sentence. The collection offers options by span and future costs; the search
creates a `Hypothesis` for an option that may follow another hypothesis, scores
it and hands it to the stack of its number of translated words; the stack
recombines and prunes, and owns the hypotheses. After the search, `Manager`
reads the best hypothesis and mines the stacks and arc lists for n-best lists.

The decoder is single-threaded and persists nothing. What is hard about it is
the long sequence of steps in which each one is locally plausible: derivations
in which the limit, walls and zones interact; hypotheses that change owners
between stacks, arc lists, queues and deletion; thresholds cached at one
pruning and used until the next; sets that are iterated while others like them
are being changed; grids that point into finished stacks; a cache that outlives
the sentence; a search that has to end with an answer whatever was pruned.

The programs around it are the opposite: each step is plain, and what is hard
is that they run side by side and are interrupted. The language model server
has threads that hand connections to each other, and buffers and structures
that serve one client after the other. The parallel decoder resubmits jobs that
crashed and reads their files through a network file system. Tuning and
training leave files behind and are told to continue with them.

They meet in files and sockets: `mert-moses.pl` calls `moses-parallel.pl` for
each run, which runs one decoder for each part of the input; a decoder asks the
server for n-grams it has not cached; training writes the tables that decoders
read. `mert-moses-new.pl`, the decoder, the extractor and `mert` meet in the
labels and the order of the scores of an n-best list. `PROJECT.json` lists each hazard at its line.

## The modules

```
Expansion <- HypothesisPath <- MCHypothesisPath
Expansion <- Hypothesis <- Decoder
             Hypothesis <- HypothesisStackNormal <- SearchNormal <- MCSearchNormal
                           HypothesisStackNormal <- HypothesisStackCubePruning
                                     <- SearchCubePruning <- MCSearchCubePruning
Expansion <- ExpansionProofs <- HypothesisPathProofs
HypothesisStackCubePruning, ExpansionProofs <- HypothesisProofs
SearchNormal, HypothesisProofs <- SearchNormalProofs
SearchCubePruning, HypothesisProofs <- SearchCubePruningProofs
SearchNormal, SearchCubePruning: INSTANCE Decoder
SearchNormal <- NBest <- IOWrapper <- MCNBest

DecodeStep, XmlOption <- TranslationOptionCollection <- MCTranslationOptionCollection,
                                                        TranslationOptionCollectionProofs
MosesParallel <- MertMoses <- MCMertMoses, MertMosesProofs
LMServer <- LanguageModelRemote <- MCLanguageModelRemote, LanguageModelRemoteProofs
PhraseExtract, Symal <- Training <- MCTraining
PrefixTree <- PhraseDictionaryTree, LexicalReorderingTable <- PDTAimp <- MCPDTAimp
MertData <- Optimizer, StaticData <- MertMosesNew <- MCMertMosesNew
```

* **Expansion** – first bitmaps as sets of positions, spans as pairs, and the
  distance between two spans. `NoSpan` is the range of the seed hypothesis, whose end
  reads as -1 once it is cast to int. Then the reordering constraint: what `Sentence::Read` builds
  and the whole of `Check`, one operator for each rule it has (only the data
  structure is abstracted: a wall is a member of a set); then the conditions of
  `ProcessOneHypothesis` on the one hand, of `CheckDistortion` and the
  constructor of `BackwardsEdge` on the other. `Consistent` says which zones and
  walls do not contradict each other.
* **HypothesisPath** – a state machine whose behaviours are all derivations: the
  state is one hypothesis, a step extends it. Every hypothesis of every stack
  is the end of such a behaviour, whichever search made it. It also has
  `GetID`, with the width of the pattern (16 in the code) as a constant.
* **Hypothesis** – what `CreateNext` and `CalcScore` make of a hypothesis and an
  option. The language model is a bigram model given as a constant, so its
  state is the last word; the distortion cost depends on the end of the last
  span. Both states are what `RecombineCompare` compares. Lexical reordering
  adds what the table says of an option (its field `lex`) under the orientation
  the step has; its state is NULL, so nothing of it is compared.
  `ReorderingComparable` names the models for which the end of the last span is
  enough: backward ones that do not ask whether two spans are swapped. Its last part
  are the sentences (`Inputs`) and `Derivations`, every hypothesis any sequence of
  steps can build: the yardstick for exactness and for the abstract decoder.
* **HypothesisStackNormal** – one stack as a record, its operations as
  operators. `std::sort`, `nth_element` and heaps do not order equal scores, so
  those operators return the set of all outcomes.
* **SearchNormal** – `ProcessSentence`. `OpenStack` is the head of the loop
  (prune, clean up arc lists), `ProcessOneHypothesis` the next hypothesis of
  the iteration in the order of the set, `ExpandHypothesis` one `CreateNext`
  with the `AddPrune` of its result and everything that deletes, `FinishStack`
  the end of the loop body, `TimeOut` the early return.
* **HypothesisStackCubePruning**, **SearchCubePruning** – the same for cube
  pruning. `CreateForwardTodos` handles one bitmap and makes all its edges;
  an edge is named by its bitmap and span, a container by the bitmap that its
  edges lead to, and the queues of all containers form one set. A grid is two
  sequences, one of hypotheses and one of options, as the edge keeps pointers to
  both; hypotheses that score the same come in any order (`Addresses`: the code
  compares pointers). `InitializeEdges` queues the first cell of one edge; the
  containers are visited in the order of their bitmaps.
  `ProcessBestHypothesis` is the whole method (dequeue, `AddPrune`, count the
  insertion, `PushSuccessors`); `PopBest` and `EnsureMinStackHyps` are its two
  callers and `CloseStack` prunes and cleans up.
* **Decoder** – the abstract specification: a search ends once, and its answer
  is the end of a derivation with the score of that derivation, complete unless
  the time ran out. Manager relies on that and on nothing else.

* **NBest** – goes on where `SearchNormal` ends. `CalcNBest` is a loop over a
  collection of trellis paths: a step takes the best one, lists it (or not, if
  its words are listed already) and adds the paths that deviate from it in one
  edge behind its last changed one. `GetSearchGraph` with the forward pointers of
  its lines, `GetWordGraph` and `SerializeSearchGraphPB` (the hypergraph) are
  operators over the stacks of the finished search.
* **IOWrapper** – what is printed of a finished search and of an n-best list:
  words with segmentation, recovered input, phrase and word alignments, and the
  choice of minimum Bayes risk decoding, inside the decoder and by the separate
  program `mbr`. The alignment columns of the phrase table are a constant;
  BLEU is a constant function of the n-gram counts, which are computed.
* **XmlOption**, **DecodeStep** – markup as a fold over the tokens of a line;
  decode graphs as sequences of translation and generation steps over partial
  options. Words have two factors: a step adds the factors it outputs, and an
  option survives where it agrees with those that are there already.
* **TranslationOptionCollection** – the future cost table and the cache, a
  function from decode graph and phrase to a list and a time; and a session: for each sentence a step for each
  span and decode graph (`CreateTranslationOptionsForRange`), one for each
  unknown word, and `Prune`, `Sort` and `CalcFutureScore` in the order of
  `CreateTranslationOptions`. The cache stays from sentence to sentence.
  `OptionsOfTables` includes what `HypothesisPath` and `SearchNormal` assume of
  their options, and `MarkupRead` that zones made by
  enclosing words are nested or apart (the `span` attribute can make others).
* **MosesParallel** – the script, its jobs and the file system that shows files
  with delay. A part is decoded sentence by sentence; jobs may crash anywhere.
  The merge is its two loops: a step for the translations of a part, for opening
  its lists, for each list with the holes in front of it, and for the holes at
  its end. `stale` is a history variable: a check accepted a part of which it
  does not see what its last job made, translations or lists.
* **MertMoses** – extends it with the loop of the tuning script. What an
  interruption leaves is `disk`; `memory` is lost. cmert may find any weights
  that are `Optimal` for the candidates; `damage` is a history variable for what
  an interruption or a crash destroyed.
* **LMServer** – threads, each in its loop: `ThreadLibeventProcess` and
  `DispatchConnNew` for new connections, and one action for each state of
  `drive_machine` (`ConnListening`, `ConnRead`, `ConnWrite`, ...). A connection
  is a structure that outlives its client.
* **LanguageModelRemote** – the decoders at the other end, with the loop that
  reads a reply in pieces. A read that fails (`FirstReadFails`, where the server has
  reset the connection) is never tried again and ends the decoder.
* **Symal**, **PhraseExtract**, **Training** – `Training` is the
  script: a step writes the next line of the file it is at, so that it can be
  interrupted between any two. The two others are the programs it calls:
  symmetrization (a step for each element of the set that is iterated while it
  grows), extraction and scoring.
* **PrefixTree** – prefix trees in memory and on file. An offset is a position
  in the sequence of nodes; a node that is not there yet aborts its reader.
* **PhraseDictionaryTree** – `Create`: a step for each line, each node of a tree,
  and each stage of the index and the vocabularies, so that the binarizer can
  be killed or read at any of them; with the script that filters, sorts and
  calls it. What a step writes is seen at once: the buffers of `stdio` would
  show it later and in larger pieces.
* **LexicalReorderingTable** – both reordering tables as operators: loading,
  creating, and a query with the cache it leaves.
* **PDTAimp** – the decoder that reads the tables. `Load` decides for memory or
  binary; `ReadIdx`, `ReadSrcVoc` and `ReadTgtVoc` read a file each; `Lookup`
  answers for a phrase and remembers the tree nodes it has met; `CacheSource`
  follows all paths of a network through the tree, in one step.
* **MertData** – fractions in lowest terms, in which the weights and scores of
  the new tuning are exact; the extractor and its data: `FeatureData` and `ScoreData` each
  hold arrays by sentence and merge and load files on their own; the
  position-independent error counts (PER) of a candidate.
* **Optimizer** – `mert`: `LineOptimize` walks the thresholds of the envelopes
  of all sentences along a line; `TrueRun` is a step for each direction, `Best`
  for each try, from the start point and from random ones.
* **StaticData** – the decoder from its command line to the n-best list.
  `LoadParam` and `LoadData`: a setting is a sequence of tokens; producers
  register in the order of the code and get a range of components.
  `OutputNBestList`: the order and the labels in which they are written. What the
  search finds is a constant: the translations of a sentence, best first under
  the weights.
* **MertMosesNew** – the script. A step calls one program, `Mert` is a step of
  the optimiser; each point at which the script dies is an action of its own.

A hypothesis is an index of the sequence `hypo`; ids are never used again, so a
dangling pointer is an id in `deleted`. Arc lists are sets: their order is
arbitrary in the code, too. The map of worst scores per coverage is keyed by
the bitmap, where the code uses its id; `IDIdentifiesBitmap` is the reason that
this is the same. The order in which a stack is iterated is that of
`RecombineCompare`, with the addresses of language model states fixed by
`Address`. Definitions that end in `_Something` and are marked *Mutant* are
deliberate mistakes, used to see that a property can fail.

## What TLC checks

| Run | Question | Result |
|---|---|---|
| `hypothesis_path` | do the limit, walls and zones mean what they promise together, and can a derivation always go on? | holds, 206,525 states |
| `search_normal` | is stack decoding right in everything it owns, recombines, prunes and answers? | holds, 32,621 states |
| `search_cube_pruning` | the same for cube pruning, and are its grids explored completely and once? | holds, 31,510 states |
| `nbest` | are n-best list, search graph and what is printed of them what the derivations of the sentence say? | holds, 2,852 states |
| `translation_options` | does the search get the options that markup and tables give, whatever was cached and pruned? | holds, 105,886 states |
| `tuning` | is decoding on a cluster as decoding alone, and does tuning on it end at a fixed point, with crashes and interruptions? | holds, 378,716 states |
| `lm_server` | are scores right and is everyone answered, with several threads and clients? | holds, 162,183 states |
| `training` | are the tables those of the corpus, whatever was interrupted? | holds, 232,255 states |
| `decoder_tables` | does a decoder read what the tables say, whatever became of the binarizer? | holds, 191,907 states |
| `tuning_new` | does every weight reach its score and come back, and does `mert` tell the truth about its points? | holds, 1,257 states |
| `constraint` | does unpruned constraint decoding find the constraint? | no |
| `tuning_continue` | can an interrupted tuning be continued? | no |

**`hypothesis_path`.** Five words, phrases up to two words, limits -1 to 3, all
sets of punctuation walls and XML walls, up to two zones (disjoint, nested
or crossing, over and under the limit), and either all spans or only single words with
options. Five words are enough for a jump forward, a jump back, a wall or zone
border in between and a word behind it; the limit 3 is the first at which a gap
of two words may be left open. `PatternBits` is 3, no wider
than the largest limit, which is tighter than the 16 bits and the limit of 15
that the code has with stack diversity.

* `GapWindow`: first gap and last translated word are at most the limit apart.
* `IDIdentifiesBitmap`: `GetID` does not assert within the width, and no other
  bitmap that satisfies its assertion has the same id.
* `WallsRespected`, `ZoneFinished`: no wall has a gap before it and a
  translated word behind it; a zone that is entered is finished first.
* `NoDeadEnd`: some option may follow every incomplete hypothesis, provided
  the constraint is `Consistent`: zones nest or lie apart, and each local wall
  lies in one zone only (otherwise none may, see the hazards).
* `SearchesAgree`, `DistortionWithinLimit`: the two searches allow the same
  extensions; a jump back is never longer than the limit, though only forward
  jumps are measured.

**`search_normal`.** Four words, phrases up to two words, two target words, one
dropped unknown word, eight option lists whose scores vary so that stacks see
every order of them, limits 0 to 3, walls and zones, and one sentence with a
constraint. Eight settings: unlimited; beam only; stack sizes 1 to 3; with
diversity 1 and 2; n-best with and without distinct; with a time limit. Under
these bounds lazy pruning, pruning at opening, discarding against the cached
worst score, a better twin that takes over an arc list, arc lists cut for the
n-best list, and overfull diversity shares all occur. `ArcListFactor` is 1 for
5 in the code, as the lists of four words are short.

* `HypothesesOwned`: each hypothesis has one owner or is deleted, no back
  pointer dangles. `OpenedStackFrozen`: a stack does not change while it is
  being iterated. `WinnerDominates`: arc lists and winners.
* `PruningSound`: a lost hypothesis has a twin as good, a full stack of better
  ones or is out of the beam; each coverage keeps its share; lazy pruning stays
  within its bound; no stack is empty when it is opened.
* `ExactWithoutPruning`: the answer has the best score of all derivations when
  nothing is pruned, so recombination compares all it has to. The runs have a
  backward reordering model of two orientations (directional here, monotonicity
  with cube pruning). With `orientation`, or with a forward model, the property
  is false, as a comment at `M/LexicalReordering.cpp:259` suspects; it
  excludes them (`ReorderingComparable`), and `constraint` runs with them.
* `ImplementsDecoder`: the search is a refinement of `Decoder`, its end included.

**`search_cube_pruning`.** The same size of sentence, up to three translations
for a word so that grids have both dimensions, limits -1 to 2, pop limits 1 to
4 and 1000, `-cube-pruning-diversity` 0 to 2. The exhaustive setting goes with
limits of 0 and more and one sentence without a limit: the orders of equal
scores multiply otherwise. `GridsExplored` says
that a cell that was not tried is behind one that is queued, and that none is
tried twice (`OptionsDiffer`: if the tables list an option twice, two cells do say the
same); `HypothesesOwned` also that grids point only to hypotheses that are
kept; the others are as above. `PruningJustified` has one more case than in
stack decoding: once a stack has overflowed, the last hypothesis within the beam
counts as the worst allowed, even if there is room. `Exhaustive` is read off the
state: fewer hypotheses were made than a stack holds or may be popped, and no two
scores differ by the beam. Sentences have no constraint (`ConstraintAssumption`),
as `CreateHypothesis` passes NULL for it.

**`nbest`.** Stack decoding of four words as above, with two translations of two
words and a phrase that says the same as two words; lists of 2 to 5, plain and
distinct, with factors 0, 2 and 20, and with a stack of 3 and a beam.
`NBestIsBest` compares the score that is computed by exchanging edges with
that of the translation, and the list with all paths of the trellis;
also with all derivations, if nothing was pruned, and the distinct list with
the best path of everything that is said. `SearchGraphExact` is about the three
graphs that are written: forward scores are those of the best way to go on and
the forward pointers, also of recombined lines, lead there; the hypergraph has
the paths of the trellis and their scores; and every link of the word graph can
be followed back to the seed, though links of pruned and of recombined
hypotheses are written too. `OutputTold` is about what is printed: the words
before each span of the segmentation translate that span, the recovered input is
the sentence, a line of the list tells one alignment in three ways although its
edges stand at other target positions there than in the search, and `doMBR` and
`mbr` choose a candidate of least expected loss. A dropped word is aligned to
nothing in the list, but in the log to the word of its own number. `doMBR` of an
empty list reads before its first entry; `mbr`, which does not scale its scores,
does the same when all their exponentials underflow; the property excludes both.

**`translation_options`.** All lines of up to five tokens of markup (words, tags
that open and close, zones, walls, linked); and sessions of three of four
sentences under eight settings: one or two decode graphs, words with one or two
factors, generation of the second from the first, a second translation step that
has to agree with the first, tagging, limits that bite, caches of two to four lists, the clock of the cache standing
still or not; and all lines of up to three tokens among which tags have a span
of one number. `MarkupRead` is against a direct reading of which tags enclose
what, with one exception that it spells out: a line with `span="i"` is always refused,
unless the tag is a wall. The error message in `M/XmlOption.cpp:280` gives `"i"` as a form
of the attribute, and the direct reading takes it for one word, but the code gives
the tag no word (`:284`) and then refuses it for that; `OptionsOfTables` against the tables, with no cache and no order of
spans, and every word gets one, as the search assumes; `FutureCostExact` compares both
readings of the table with all ways to fill the gaps; `LimitsDropWorst` says
what pruning and cache may lose.

**`tuning`.** Three sentences, one without an n-best list, two jobs or one, both
ways to wait for them and to score; one crash of a decoder or node, and one
interruption of the training anywhere; two extra waits for 60. Two jobs of three
sentences are parts of different size; a crash in one makes a second round with
the other finished.
A second crash is where the bound matters: with `-old-sge`, a part whose
translations came late is submitted again and both attempts can fail, the second
between its two moves, so that its lists stand beside the translations of the
first; `stale` records that. Both with two crashes (494,418 states) and with two
interruptions (275,513) the invariants hold, and so does the inductive invariant
of the proofs; the run has one of each.
`PoolFaithful`: the merged files are those of one decoder, and each
optimisation sees the lists of all runs. `TuningOptimal`:
it stops at a fixed point and decodes with what was found last. `TrainingEnds`:
it stops.

**`lm_server`.** Two clients, two n-grams, one of whose scores has a newline
among its bytes; one or two threads, one or two descriptors, two requests
(or one, with two descriptors); one fault: a client that dies, a partial read
or write, a full buffer. With one descriptor for two clients the server has to
stop accepting and to start again, and to use a structure twice. `ScoresTrue`:
a client caches no score but that of the n-gram, unless it has read a reply in
pieces. `ConnsOwned`: an open descriptor is in one queue or of one connection, a
structure free or in use. `ServerResponds`: every request on an accepted
connection is answered, and with one thread a server that stopped accepting
starts again. A reply in pieces and a death of the server are excepted: the
hazards say what follows.

**`training`.** All pairs of alignments of three by two words with a second
sentence, and some of three by three, under every kind of symmetrization (grow
with and without diagonal, final and both, intersect, union, and either direction); up to
three sentences of the same words under different alignments; with file limit
(parts of four lines) and reordering; one interruption of a corpus of two
sentences, two of one. `AlignmentGrown`: between intersection and union, and
closed under what the options tell to add. `TableOfCorpus`: the phrase table
and the reordering table have the counts and weights of the corpus, computed
from the set of consistent phrase pairs without any file. The lexical weights are
those of the alignment that most places of a phrase pair have, but under `union`
only of the one that most of them have in the same order. That is a defect: symal
writes the links of the direct alignment first and the others behind
(`symal.cpp:127`), `score.cpp:346` compares alignments link by link in that order and
the sorting puts equal ones apart. Three sentences of two source and one target word are enough
for it (`OrderedCorpora`): two have both links, in different orders, one has only the first, and the
table gets the weights of the one. Counts and phrase pairs are not affected.

**`decoder_tables`.** Five tables of up to five lines: in order, with a first
word that comes back, with a phrase that comes back, with an empty source
phrase and with nothing else; with and without the script, which sorts; a
sentence, a confusion network and a lattice of two and three columns with empty
arcs, an unknown word and a score too low to go on; a table limit of 2, so that
it bites; phrases of two words in the filter. The binarizer may die, run again
and be read at any step; it pauses while reordering scores are asked for, which
do not depend on it. `DecoderReadsTable`: candidates and scores are those of
the text, in every one of the three ways to read them; from files of no finished
run, or of a table whose first words come back, they may be missing or have
words blank but are never others, and only such files make the decoder abort.
`ReorderingScoresRead`: eight reordering tables, conditioned on f, on f and e,
and with contexts, as text and binary, give each option the score that the file
says. Two defects are excepted: a key that the cache has met before may get none,
and so does an option whose line is the last of a text without a newline at its end:
`LoadFromFile` stops there (`M/LexicalReorderingTable.cpp:163`), though the binarizer
reads it (`:337`), as one of the tables shows.

**`tuning_new`.** Thirteen calls of the script that tune and seventeen that die,
each at another point: models with and without reordering, with one or two
language models, with generation, with a confusion network as input; starting
values with `--lambdas`; a window of none, one or all earlier runs;
regularisation by none, minimum and average; decoder flags. Two sentences with
three translations each, lists of two, so that a later run can find a new
candidate; two tries with two random points each. Some calls need three runs or
more, and none is stopped by the bound of four. `WeightsComeBack`: in each run the decoder weighs each
score with the value that `mert` gave its place, and the last configuration
file makes the same decoder. It holds where the file has no more weights of a
name than its tables need (`OwnWeights`: the decoder would append, and the
script does not look), and where flags are full names with a value
(`PlainFlags`: `create_config` loses the others). `PoolParallel`: features and
error counts of a candidate are at the same place of what is optimised.
`LineScoreTrue`: the score along a line is that of the point returned.
`MertOptimal`: the point reported is as good as its score says, no worse than
any other tried, and no sampled point of a line is better. The last two hold
away from parallel lines, crowded thresholds and ties (`Regular`); the hazards
say what happens there. `MinInt`, `Far`, `Beyond` and `Snap` are 1/20, 8, 1/2
and 1/32 for 0.0001, 1000, 0.1 and 0.00015 in the code, since features are
small whole numbers and thresholds far apart; their order is kept
(`OptimizerAssumption`).

**Fairness.** Weak fairness of the next step: there is one thread and nothing it
waits for, so the loop goes on as long as it can. The two searches end because
stacks are visited in order and each has finitely many expansions or pops.
In `tuning`, script and jobs take steps
weakly fairly, and files appear strongly fairly: a network file system shows a
file in the end, though a step of another process may come in between at any
time. In `lm_server` each thread and each client is weakly fair, since the
operating system schedules them and the events stay pending; the requests of a
client are finite. Crashes, faults and interruptions have no fairness.
`CHECK_DEADLOCK FALSE` is set because derivations, searches, sessions and
programs come to an end.

**The negative results** are each a line in the code that does other than a
comment or option text says; `PROJECT.json` quotes them under `findings`.
Recombination does not compare the length of the target, on which constraint
decoding depends. `mert-moses.pl` removes the file that `--continue` needs
before it starts the optimiser. Other shortcomings met on the way have no text
that they contradict; they are exceptions that the properties name, and are in
the notes of the hazards.

## What is proved

Six components are proved about: the derivations of a sentence, one at a time
(`HypothesisPathProofs`), the stack decoder, which recombines and prunes
many of them (`SearchNormalProofs`), cube pruning, which makes only some of them
(`SearchCubePruningProofs`), the options and future costs they work with
(`TranslationOptionCollectionProofs`), the language model server with its
clients (`LanguageModelRemoteProofs`), and tuning on a cluster
(`MertMosesProofs`). The theorems of the decoder hold for every sentence
length, phrase length, limit, option list, score function and setting that the
assumptions allow. These are what the code makes sure of before a search
starts: limits are -1 or natural numbers, walls and zones are positions and
spans of the sentence and no wall lies inside a zone (`FinalizeWalls`), every
word has an option, no option is longer than the maximum, scores are integers
above `NegInf`, stack sizes and beams are in the range the hazards name, and, for
cube pruning, the options of a span come best first. Those of the options hold for any
decode graphs, tables, generation dictionaries, markup and sequence of sentences, any
limits and any cache of at least one entry; `LineAssumption` says of a line no more than
that it consists of words and tags.
Those of the server hold for any set of clients and n-grams, any score, any
number of threads, descriptors, requests and faults, all of them at least one
where the server could not start otherwise. Those of tuning hold for any number
of sentences, jobs, crashes, waits, runs and interruptions, any set of weights,
any finite n-best lists and any optimiser that returns weights it may call
optimal for the candidates it is given.

| Theorem | Says |
|---|---|
| `TypeCorrect` | `Spec => []TypeOK` of a derivation |
| `OpenWindow` | `Spec => []GapWindow` |
| `AssertionOfGetID` | up to a limit of `PatternBits` the assertion of `GetID` holds |
| `IDsDiffer` | `Spec => []IDIdentifiesBitmap` |
| `JumpsBounded` | `Spec => DistortionWithinLimit` |
| `SameSearchSpace` | `Spec => []SearchesAgree` |
| `WallsHold`, `LocalWallsHold` | `Spec => []WallsRespected`, and the same for local walls |
| `ZonesFinish` | `Spec => ZoneFinished` |
| `NeverStuck` | `Spec => []NoDeadEnd` |
| `Ownership` | `Spec => []HypothesesOwned` of the stack decoder |
| `Winning` | `Spec => []WinnerDominates` |
| `Pruning` | `Spec => []PruningSound` |
| `Exactness` | `Spec => []ExactWithoutPruning`: unpruned, stack decoding finds the best derivation |
| `RecombinationSafe` | hypotheses that recombine have the same extensions, at the same cost, to hypotheses that recombine |
| `StackFrozen` | `Spec => OpenedStackFrozen` |
| `ImplementsSafety` | `Spec => Promise!Safety`: the stack decoder implements the safety of `Decoder` |
| `Ownership` | `Spec => []HypothesesOwned` of cube pruning |
| `Exploration` | `Spec => []GridsExplored` |
| `Pruning` | `Spec => []PruningJustified` |
| `Exactness` | `Spec => []ExactWithoutPruning`: unpruned, cube pruning finds the best derivation |
| `ImplementsSafety` | `Spec => Promise!Safety`: so does cube pruning |
| `Invariant` | `Spec => []IInv` of cube pruning, from which these follow |
| `FutureCosts` | `Spec => []FutureCostExact` |
| `Limits` | `Spec => LimitsDropWorst` of option lists and cache |
| `ReadyForSearch` | `Spec => []ListsReady`, what the searches assume of their options |
| `OptionsInvariant` | `Spec => []OptionsInv`, from which these follow |
| `RepliesMatch` | `Spec => []ScoresTrue` of the server and its clients |
| `OneOwner` | `Spec => []ConnsOwned` |
| `StructuresSuffice` | there are never more structures than descriptors and threads |
| `FaithfulPool` | `Spec => []PoolFaithful` of tuning: the merged files are those of one decoder, and cmert has the candidates of all runs |
| `OptimalTuning` | `Spec => []TuningOptimal`: the end is a fixed point, and every run decodes with what was found last |
| `PromptNeverStale` | without `-old-sge` no check is ever deceived by an earlier attempt |
| `TuningInvariant` | `Spec => []TuningInv`, from which these three follow |

**Derivations.** `OnPath` of `ExpansionProofs` is what an extension preserves,
whichever module makes it: the types, `Window`, `LastSpanNear`, and how bitmap
and last span lie to walls and zones. `Window` is not inductive by itself: a
forward jump is measured from the last span, so one has to know how far that
is from the first gap. `LastSpanNear` says that the last span is translated and
that a jump back from it to the first gap is within the limit. Given it, an
extension off the first gap ends near enough by the second half of the rule,
and one at the first gap either closes the window or leaves its right end where
it was. `JumpsBounded` and `SameSearchSpace` follow: a backward jump to the
first gap is what `LastSpanNear` bounds, and the two searches differ only in
such jumps. A phrase that skips the wall check starts at the first gap, so it
leaves no gap before the wall. `ZonesFinish` rests on counting: `Check`
compares the number of translated words of a zone with its length.
`NeverStuck` names the word that can come next: the one at the first gap, or,
where that lies outside a zone that has been entered, the first open one of the
innermost such zone. It needs that zones nest and that local walls have one
zone; TLC finds a dead end without either. The assertion of `GetID` follows
from the window. That ids tell bitmaps apart (`IDsDiffer`) is read off its loop:
each round doubles the id and adds one bit, so the pattern stays below
`2^PatternBits`, quotient and remainder give the first gap and the pattern
back, and equal patterns of different lengths agree bit by bit, with nothing
but open words behind the shorter one. The induction over the rounds is replaced
by the first round that goes wrong (`LeastNatural`), and that powers of two double by
the cardinalities of sets of subsets, since `^` is opaque to the provers.

**Stacks.** `HypothesisProofs` says what each operation of one stack does, first for
stack decoding, for the set `I` of all hypotheses that ever came to it. `StackSound` has the
cached values in it, since `AddPrune` discards by them without a look at the
stack: `best` is reached by a hypothesis that is still there, any score below
`worst` may go (as many as fit are as good, or the beam excludes it), `divWorst`
of a coverage is set only if the coverage has its share, and whatever came has
an equal or better twin, or was allowed to go. `worst` rises only when the stack
is pruned and what it then says stays true, because `AddPrune` only ever
replaces a hypothesis by a better one.

**The search.** The invariant `IInv` of `SearchNormalProofs` has seven parts:
`Types`; `Derived`, every hypothesis ends a derivation of the sentence and is
`OnPath`; `StacksSound`, each stack is `StackSound` for what came to it, each
living hypothesis is on its stack or in one arc list, and arcs are no better
than their holders; `ArcsKept`, deleted hypotheses have no arcs and arcs of open
stacks know their winner; `PrevOpen`, back pointers lead into stacks that are
open, which is why pruning the stacks behind them cannot make them dangle;
`InHand`, the hypothesis being expanded and those of the iteration are on the
stack being expanded; and `Onward`, the next stack has a hypothesis, or one
that can be extended by a single word is still to come. The last is where
`NeverStuck` is needed again, now for derivations that share stacks: it makes
`NoStackEmpty` of `PruningSound`, and with it the answer that `Decoder`
promises. Each step is made of a few stack operations on one stack, and
hypotheses of other stacks are shown to be left alone.

`Exactness` needs more than `IInv`, which says what hypotheses are but not which
of them were made. `Expanded` adds: whatever an option can make of a hypothesis
on a stack that has been opened is made, or is still in hand. The argument then
runs over the derivations, which `Derivations` builds step by step. Suppose one
that no hypothesis stands for, of the fewest steps (`LeastNatural`; induction
itself is out of reach). The one before it has a hypothesis on a stack that
recombines with it and is as good (`Found`); `RecombinationSafe` gives both the
same extensions at the same cost; `Expanded` says that this one was made; and
since nothing was pruned, a twin as good is on its stack (`TwinStays`, from what
`PruningSound` rests on). The theorem is about what the state shows to be
unpruned (`Exhaustive`): no diversity, fewer hypotheses than a stack holds, and
all scores within the beam.

`ImplementsSafety` maps the answers of `GetBestHypothesis` to those of
`Decoder`: the end of the last stack is `Decoder!Finish`, the early return
`Decoder!Interrupt`, every other step stutters. `ImplementsDecoder`, which TLC
checks, says more: that the search ends.

**The stack of cube pruning** has the same shape: `CubeSound` says what may have been
lost of the set `I` of those that came to it. It differs in two ways. The
threshold of lazy pruning is the score of one hypothesis that was there at that
time, or the last one within the beam, so `CubeJustified` has a case for stacks
that have overflowed; that this takes twice the stack size is counted. And the last
pruning, which closes a stack, need not follow an overflow: `CubeRefuses`, what
`AddPrune` may turn away without a look, is claimed of open stacks only. `CubeHolds` joins this with `Owned` and `Dominated`, the lemmas on
arc lists that both searches share.

**Cube pruning.** A hypothesis comes to its stack when it leaves its queue:
`Came(k)` takes the place that all hypotheses of a coverage have in stack decoding, and
a queue is one more owner. `IInv` of `SearchCubePruningProofs` has `Types`,
`Derived` and `Onward` as above, and

* `StacksSound`: every stack is `CubeHolds` for what came to it, and refuses rightly
  while it is open;
* `ArcsKept`: what is deleted or still queued has no arcs;
* `PrevClosed`: back pointers lead to hypotheses that closed stacks still hold. Only
  closed stacks get edges, so lazy pruning never hits what a grid points to;
* `EdgesSound`: a grid lists just what its closed stack has for it, each once, and
  what has been seen of it has its neighbours seen or is in the queue (`Explored`);
* `EdgesComplete`: every bitmap of a closed stack has its edges, or is one of the
  `todos`;
* `QueueSound`, `Origins`: an item holds what was made of its cell, every hypothesis
  was made of a cell that was seen, and of each such cell one was made;
* `NothingBuiltTwice`, which is inductive only along with the others: a new
  hypothesis equal to an older one has the same back pointer and option, hence edge
  and cell, and that cell had been seen;
* `Begun`: the edges of the stack in hand have their first cell queued before
  anything is popped, and every pop brings something to the stack.

From `Explored` follows that no cell is lost: among the seen cells to the left and
above an unseen one, of which (1, 1) is one, take one with the largest sum of its
coordinates (the sums are bounded, so there is one). A neighbour of it is also to
the left and above, and not seen, so it is in the queue itself. `Exactness` needs a
further invariant, `Drained`: as long as nothing was pruned, the queues of closed
stacks are empty, since fewer hypotheses were made than may be popped. Then every
cell was popped, and the argument on derivations goes as in stack decoding. That
the two searches allow the same extensions (`SameSearchSpace` above) makes it the
best of the derivations of stack decoding. `Onward` rests on the lemma behind
`NeverStuck`: a hypothesis of the stack before has a single word that may follow, so an
edge leads from it into the stack in hand, and a pop brings something
(`SomethingCame`). The safety of `Decoder` then follows as above, with `Interrupt` for
`TimeOut`; it ends once, from the last stack.

**The server.** `ScoresTrue` is about the cache of a decoder, but what makes it
true is spread over the socket, the queue of a thread and a structure that has
served other clients. `Streams` of `LanguageModelRemoteProofs` says of every
decoder that has not read a reply in pieces where its one request is: sent
(`Requested`), read up to the end of the line (`HalfRead`), being answered with
some bytes sent and the rest in `wbuf` or `iov` (`Replying`), or answered
(`Replied`); and that otherwise its socket and the buffers of its connection are
empty. That the buffers are those of this decoder follows from ownership:
`Descriptors` (an open descriptor is in one queue, once, or of one connection),
`ClientsApart` (a client is behind one descriptor), `Driven` (a structure is
handled by the thread it belongs to, and one that was closed gets no event) and
`Structures` (the free list). A thread that takes a step changes one connection
and one socket; the lemmas show that the streams of all others stay as they
were, and the step that closes a connection is the one in which a structure
leaves one owner before it reaches the next. `OneOwner` counts what these parts
say, and `StructuresSuffice` shows that the finite `ConnIds` stands for memory
that never runs out.

**Options and future costs.** `OptionsInv` follows the lists of a sentence through
tables, cache, markup, unknown words and both prunings. For this it is shown of every
operator of `DecodeStep` and `XmlOption` that phrases stay phrases and lists stay lists of
options: translation, merging of factors and generation, pruning of partial options,
and the fold over the tags of a line, whatever they are. What the searches assume follows
(`ReadyForSearch`): words without options get one, and neither pruning ever takes the last
one (`PrunedOf`). `Sorted` puts an option where as many are not worse than it; `RanksOf`
shows that these places are a permutation.

`FutureCosts` is about the matrix. `IsBest` says of a cell that it is the score of a
tiling of its span, and that no tiling is better. It holds by induction on the length of
the span: the first phrase of a tiling leaves a tiling of the rest (`FirstOfTiling`), and
two tilings that meet are one (`TilingsMeet`), so the best of all splits is the best of
all tilings. Sums over spans are folds; `TotalRemove` and `TotalUnion` show that they do
not depend on the order. `FutureOfSpan` shows that the second `CalcFutureScore`, which
looks only at gaps between the first one and the last covered word and adds the rest as one cell,
counts the same runs. The invariant only has to say that the matrix was filled from the lists
as they are, and that every word has an option.

`Limits` has two parts. `KeepBest` and `WithinThreshold` keep the best, so the threshold counts
from the same score before and after the first pruning (`SizePruned`). The cache keeps
what was used since the cutoff, by definition; that it keeps to its size needs that the
times are distinct (`CacheDistinct`), which they are only if the clock ticks between
two calls, and that the loop which looks for the cutoff stops early enough (`PoppedIs`),
although its bound moves as it pops.

**Tuning.** `MertMosesProofs` begins with `ParallelInv` for the script and its
jobs: no job of a part that is looked at still runs (`JobsStand`); a part that is no
longer to be submitted is `Done`, that is, what is seen of it is what its last
job made, and all of its translations (`Accepted`); and at every step of the merge
the files have just the sentences before the place where the loops are
(`Merged`, with `ListOK` for the numbers in the list: each sentence once, in order,
under its own number, no hole behind the first). That a crash costs at most the
last list of a part is `JobOK`: a decoder writes a translation and then its list,
so lists are behind translations by one at most, and both files come from one
job. All of this holds unless a check was deceived, and `Prompt` shows that it
takes `-old-sge` to deceive one: lists are moved before translations, so
complete translations in the directory of a part that is to be submitted again
would have been seen.

The rest of `MertMosesProofs` adds the loop around it. The difficulty is `-efficient`: each run
merges its candidates into the sorted file of the run before, and an interrupted
training can leave sorted files and lists of runs that it had not finished.
`OnDisk` says which: of at most two runs behind the last finished step, and of
the second only if the lists of the first are zipped; and every sorted file up to the
run to continue from (`Resume`) has all candidates of its runs. A list is then
only ever written for a run for which no sorted file is left to be used, which
is what `DecoderDoneKeeps` shows. `WeightsInv` follows the weights from cmert
through `weights.txt` and memory to the next run; `Fixpoint` says that they are
optimal for the candidates of the runs before. The loop ends when there are no
more candidates than that (`NothingNewIs`: the sets are finite and one includes the
other, so equal counts mean equal sets) or the weights repeat; either way they are
optimal for all, and the decoder has been run with them (`Covered`), with
`--skip-decoder` in an earlier process. Both claims stop where `damage` records an
accident the script cannot see: a sorted file torn while it was written, or an
n-best list lost with a crashed decoder.

Only model-checked: everything that is liveness or needs fairness
(`ImplementsDecoder` beyond its safety, `TrainingEnds`, `ServerResponds`), which
is outside what the prover can do; what is behind and
around the searches (n-best lists, training, binary tables, the new tuning); of the options
that they are those of the tables and of the markup (`OptionsOfTables`, `MarkupRead`), which is a
comparison with what recursive definitions compute; and what the recursive functions of training and of the
tables compute.

## What is not modelled

* **Word lattices and confusion networks in the search**: they change the
  distances, add conditions to the expansion rules and linked options to cube
  pruning. `PDTAimp` reads the tables along them.
* **Word alignment in binary tables** (`.wa`), compressed tables, and the language
  model that a table limit counts in: further columns of the same files.
* **Early discarding** (`-early-discarding-threshold`): both of its estimates end
  in an assertion that always fails (`M/Hypothesis.cpp:316`), and with it
  `GetIDPlus`, which nothing else calls.
* **Stack diversity without a limit**, beam thresholds of 1 and stack size 0: the
  code shifts by -1, prunes to nothing, wraps around. `DiversityAssumption` and
  `ConfAssumption` exclude them; they are in the hazards. `ConfAssumption` of the
  options likewise excludes a persistent cache of size 0: for its cutoff the code
  reads the top of a queue that it has emptied (`M/StaticData.cpp:1029`).
* **Lexical reordering with one weight per direction** trips an assertion
  (`M/LexicalReordering.cpp:113`) as soon as a hypothesis is scored.
* **Floating point**: scores are integers; ties are possible, NaN is not.
* **The constraint in cube pruning**: `CreateHypothesis` passes NULL for it.
* The parts of the table above that `PROJECT.json` lists as not modelled.
* **The old optimiser** (`cmert`): floats. Of `mert/`: the
  rounding of its floats, its random optimiser and BLEU: candidates are scored by PER.
* **Of the new tuning script**: jobs of a cluster, the asynchronous decoder, the
  filtering of tables, weight files, and the digits to which weights are printed.
* **Of the server**: other commands than `prob`, UDP, allocations that fail.
* **Of training**: factors, proper conditioning, compression, GIZA++, and a
  corpus without any phrase pair, for which `extract` opens no file and the next
  command of the script fails.
* **Of the configuration**: fewer values of `ttable-limit` than tables, which the
  code reads beyond their end (`M/StaticData.cpp:853`).

## Plan

1. Done: reordering rules, both searches, the abstract decoder, first theorems.
2. Done: n-best lists and search graph, translation options with cache, future
   cost and markup, parallel decoding, tuning, the language model server and
   its client, training.
3. Done: tables as decoders read them: in memory, binary, and along networks.
4. Done: the new tuning script with extractor, `mert`, parameters and n-best output.
5. Done: proofs of the derivations and of the stack decoder, with the safety of
   its refinement of `Decoder`.
6. Done: proofs of the language model server and its clients.
7. Done: proofs of the parallel script and of tuning.
8. Done: proofs of cube pruning (ownership, grids, pruning, exactness, the safety
   of its refinement of `Decoder`).
9. Done: proofs of the future costs, and of what pruning and the option cache drop.
10. Left: proofs about n-best extraction on top of `SearchNormalProofs`, and that
   options are just those of the tables and of the markup; both need induction over
   the paths and tables they compute.
