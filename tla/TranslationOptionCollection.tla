--------------------- MODULE TranslationOptionCollection ---------------------
(****************************************************************************)
(* The translation options of the sentences of one session: for each        *)
(* sentence a new collection is filled, span by span and decode graph by    *)
(* decode graph, from the tables, the cache that lives as long as the       *)
(* session and the XML options of the input line; positions that got        *)
(* nothing are served by the handlers of unknown words; then the lists are  *)
(* pruned and sorted and the table of future costs is filled.               *)
(*                                                                          *)
(* A session is a sequence of input lines (see XmlOption).  An option of    *)
(* the collection is [out, score, span, from], from a table, XML markup or  *)
(* the handler of unknown words.                                            *)
(*                                                                          *)
(* conf has the switches: graphs, maxPhraseLength, maxOptions, threshold,   *)
(* maxPartial, useCache, cacheMax, xmlType, alwaysDirect, dropUnknown, and  *)
(* tick: 1 if clock() grows between any two calls, 0 if only from sentence  *)
(* to sentence.                                                             *)
(****************************************************************************)
EXTENDS DecodeStep, XmlOption

------------------------------------------------------------------------------
(****************************************************************************)
(* The table of future costs: for every span of the sentence the best score *)
(* its translation may get (TranslationOptionCollection::CalcFutureScore),  *)
(* and the estimate for what a bitmap leaves open (SquareMatrix).           *)
(*                                                                          *)
(* A matrix is a function on the spans <<startPos, endPos>> of the words    *)
(* 0 .. size - 1, a bitmap the set of the positions whose bit is set.       *)
(****************************************************************************)

SpansOf(size) == {r \in (0 .. size - 1) \X (0 .. size - 1) : r[1] <= r[2]}

\* The cell of a span is that of its best option or of two spans it splits
\* into; best has the score of the best option of each span that has options,
\* where the code begins with minus infinity.  After w rounds the cells of the
\* spans of at most w words are filled.
FillRounds(size, best) ==
  LET filled[w \in 0 .. size] ==
        IF w = 0 THEN [r \in {} |-> 0]
        ELSE LET m == filled[w - 1]
             IN  [r \in {q \in SpansOf(size) : q[2] - q[1] < w} |->
                    IF r \in DOMAIN m THEN m[r]
                    ELSE Max({best[q] : q \in {r} \cap DOMAIN best}
                             \cup {m[<<r[1], j>>] + m[<<j + 1, r[2]>>]
                                    : j \in r[1] .. r[2] - 1})]
  IN  filled

FillMatrix(size, best) == FillRounds(size, best)[size]

\* The sum over some spans.
Total(score, spans) == MapThenSumSet(LAMBDA r : score[r], spans)

\* The longest runs of open positions.
OpenRuns(size, b) ==
  {r \in SpansOf(size) :
     /\ (r[1] .. r[2]) \cap b = {}
     /\ r[1] = 0 \/ r[1] - 1 \in b
     /\ r[2] = size - 1 \/ r[2] + 1 \in b}

\* CalcFutureScore(bitmap)
CalcFutureScore(M, size, b) == Total(M, OpenRuns(size, b))

\* Mutant: the last covered position is that of the bitmap.
LastCovered_OfBitmap(b, endPos) == IF b = {} THEN endPos ELSE Max(b)

\* The last position that is covered once the span is.
LastCovered(b, endPos) == IF b = {} THEN endPos ELSE Max({Max(b), endPos})

\* CalcFutureScore(bitmap, startPos, endPos): the runs between the first gap,
\* or the span if it begins there, and the last covered position, and what is
\* behind that.
CalcFutureScoreWith(M, size, b, startPos, endPos) ==
  LET gaps  == (0 .. size - 1) \ b
      first == IF startPos = Min(gaps) THEN endPos + 1 ELSE Min(gaps)
      last  == LastCovered(b, endPos)
      runs  == {r \in OpenRuns(size, b \cup (startPos .. endPos)) :
                  first <= r[1] /\ r[2] < last}
  IN  IF gaps = {} THEN 0
      ELSE Total(M, runs)
             + (IF last = size - 1 THEN 0 ELSE M[<<last + 1, size - 1>>])

------------------------------------------------------------------------------
(****************************************************************************)
(* The options of a phrase are kept from one sentence to the next           *)
(* (StaticData::m_transOptCache).  The cache is a function from keys, a     *)
(* decode graph and a phrase, to [list, used]: a copy of the list and the   *)
(* value clock() had when the entry was last put in or found.               *)
(****************************************************************************)

EmptyCache == [key \in {} |-> 0]

\* Mutant: all decode graphs share the entry of a phrase.
CacheKey_PhraseOnly(graph, phrase) == <<1, phrase>>

CacheKey(graph, phrase) == <<graph, phrase>>

\* FindTransOptListInCache, when the key is there.
Touched(cache, key, time) == [cache EXCEPT ![key].used = time]

\* How often the loop that looks for the cutoff pops: it compares its counter
\* with the size of the queue that shrinks as it pops.
Popped(n, max) == Min({i \in 0 .. n : i >= n - i - max \div 2})

\* The last used time on top of the queue, latest first, after the pops.
Cutoff(cache, max) ==
  LET later(t)  == Cardinality({k \in DOMAIN cache : cache[k].used > t})
      asLate(t) == Cardinality({k \in DOMAIN cache : cache[k].used >= t})
      popped    == Popped(Cardinality(DOMAIN cache), max)
  IN  CHOOSE t \in {cache[k].used : k \in DOMAIN cache} :
        later(t) <= popped /\ popped < asLate(t)

\* The entries that were used before the cutoff go.
Reduced(cache, max) ==
  LET cutoff == Cutoff(cache, max)
  IN  [k \in {x \in DOMAIN cache : cache[x].used >= cutoff} |-> cache[k]]

ReduceTransOptCache(cache, max) ==
  IF Cardinality(DOMAIN cache) <= max THEN cache ELSE Reduced(cache, max)

AddTransOptListToCache(cache, key, list, time, max) ==
  ReduceTransOptCache(
    [k \in DOMAIN cache \cup {key} |->
       IF k = key THEN [list |-> list, used |-> time] ELSE cache[k]], max)

------------------------------------------------------------------------------
(****************************************************************************)
(* The collection of one sentence.                                         *)
(****************************************************************************)
CONSTANTS
  Starts,         \* pairs of settings and sequences of input lines
  Digits,         \* the source words with a digit
  UnknownScore    \* what the penalty makes of an unknown word

\* Phrases of the output, and what a line is made of.
OutPhrases == Seq([Factors -> STRING])

Tokens ==
  [word : STRING] \cup
  [form : {"open", "close", "unary", "both"}, name : STRING, span : Seq(Int),
   translations : Seq(OutPhrases), probs : Seq(Int)]

IsStep(step) ==
  /\ step.kind \in {"translate", "generate"}
  /\ step.factors \in Seq(Factors) /\ step.limit \in Nat
  /\ \A p \in DOMAIN step.table :
       /\ step.table[p] \in Seq([out : Seq(Seq(STRING)), score : Int])
       /\ \A e \in Range(step.table[p]) : Parse(e.out, step.factors)
  /\ IsFiniteSet(step.dictionary)
  /\ step.dictionary \subseteq
       [in : [Factors -> STRING], word : [Factors -> STRING], score : Int]

\* What the code reads as the cutoff of a cache of size 0 is the top of an
\* empty queue.
ASSUME ConfAssumption ==
  \A c \in {start[1] : start \in Starts} :
    /\ {c.maxPhraseLength, c.maxPartial, c.cacheMax} \subseteq Nat \ {0}
    /\ c.maxOptions \in Nat /\ c.threshold \in Int /\ c.threshold <= 0
    /\ c.tick \in {0, 1} /\ {c.useCache, c.alwaysDirect, c.dropUnknown} \subseteq BOOLEAN
    /\ c.graphs \in Seq(Range(c.graphs))
    /\ \A graph \in Range(c.graphs) :
         /\ graph \in Seq(Range(graph)) /\ Len(graph) > 0
         /\ graph[1].kind = "translate" /\ \A step \in Range(graph) : IsStep(step)

ASSUME LineAssumption == \A start \in Starts : start[2] \in Seq(Seq(Tokens))

ASSUME UnknownAssumption == UnknownScore \in Int

VARIABLES
  conf, session,
  n,            \* the sentence, 0 before the first
  read,         \* what was read of its line
  pc,           \* what CreateTranslationOptions is at
  todo,         \* the calls <<graph, startPos, endPos>> its loops have left
  collection,   \* m_collection
  future,       \* m_futureScore
  cache,        \* StaticData::m_transOptCache
  now           \* clock()

vars == <<conf, session, n, read, pc, todo, collection, future, cache, now>>

Words == read.words
Size == Len(Words)
PhraseSpans == {r \in SpansOf(Size) : r[2] - r[1] < conf.maxPhraseLength}
Phrase(r) == SubSeq(Words, r[1] + 1, r[2] + 1)

\* Sentence::m_xmlOptionsList: none if the markup is ignored.
Xml == read.options
XmlOverlap(r) ==
  \E i \in DOMAIN Xml : Xml[i].span[1] <= r[2] /\ r[1] <= Xml[i].span[2]

\* With -xml-input exclusive the tables are not asked where there is markup.
Excluded(r) == conf.xmlType = "exclusive" /\ XmlOverlap(r)

\* The calls of the loops: for each decode graph the spans of at most the
\* length, by their start and their end.
AllCalls(maxLength) ==
  FlattenSeq([g \in DOMAIN conf.graphs |->
    FlattenSeq([first \in 1 .. Size |->
      [length \in 1 .. Min({maxLength, Size - first + 1}) |->
         <<g, first - 1, first + length - 2>>]])])

WordSpans == {<<p, p>> : p \in 0 .. Size - 1}

------------------------------------------------------------------------------
Init ==
  /\ \E start \in Starts : conf = start[1] /\ session = start[2]
  /\ n = 0 /\ read = NothingRead
  /\ pc = "done" /\ todo = <<>>
  /\ collection = <<>> /\ future = <<>>
  /\ cache = EmptyCache /\ now = 0

\* Sentence::Read of the next line, if its markup is in order.
NextLine ==
  /\ pc = "done" /\ n < Len(session)
  /\ UNCHANGED <<conf, session, future, cache>>
  /\ n' = n + 1 /\ now' = now + 1
  /\ read' = ProcessAndStripXMLTags(session[n + 1], conf.xmlType = "ignore")

\* The constructor of the collection.
StartSentence ==
  /\ NextLine /\ read'.ok
  /\ pc' = "create"
  /\ collection' = [r \in PhraseSpans' |-> <<>>]
  /\ todo' = AllCalls(conf.maxPhraseLength)'

\* Sentence::Read aborts the decoder.
RefuseLine ==
  /\ NextLine /\ ~read'.ok
  /\ pc' = "aborted"
  /\ UNCHANGED <<todo, collection>>

Options(list, r) ==
  [i \in DOMAIN list |->
     [out |-> list[i].out, score |-> list[i].score, span |-> r, from |-> "table"]]

\* The cached list with the span of this sentence.
Copied(list, r) == [i \in DOMAIN list |-> [list[i] EXCEPT !.span = r]]

\* CreateXmlOptionsForRange: the XML options of exactly this span.
XmlOptions(r) ==
  LET here == Stay(Xml, {i \in DOMAIN Xml : Xml[i].span = r})
  IN  [i \in DOMAIN here |->
         [out |-> here[i].out, score |-> here[i].score, span |-> r, from |-> "xml"]]

\* What the tables or the cache add to the list of a span, and what is left
\* of the cache: the list it keeps is the whole list of the span.
FromTables(g, r, adhere) ==
  LET key  == CacheKey(g, Phrase(r))
      time == now + conf.tick
      old  == collection[r]
      Added(made) ==
        LET list == old \o Options(made, r)
        IN  IF conf.useCache /\ made # <<>>
            THEN [list  |-> list, now |-> time,
                  cache |-> AddTransOptListToCache(cache, key, list, time, conf.cacheMax)]
            ELSE [list |-> list, cache |-> cache, now |-> now]
  IN  IF Excluded(r) THEN {[list |-> old, cache |-> cache, now |-> now]}
      ELSE IF conf.useCache /\ key \in DOMAIN cache
      THEN {[list |-> old \o Copied(cache[key].list, r),
             cache |-> Touched(cache, key, time), now |-> time]}
      ELSE {Added(made) :
              made \in Translations(conf.graphs[g], Phrase(r), adhere, conf.maxPartial)}

CreateTranslationOptionsForRange(g, r, adhere) ==
  \E made \in FromTables(g, r, adhere) :
    /\ collection' = [collection EXCEPT ![r] =
                        made.list \o (IF XmlOverlap(r) THEN XmlOptions(r) ELSE <<>>)]
    /\ cache' = made.cache
    /\ now' = made.now

\* The loop of CreateTranslationOptions over graphs and spans.
CreateNextRange ==
  /\ pc = "create" /\ todo # <<>>
  /\ CreateTranslationOptionsForRange(todo[1][1], <<todo[1][2], todo[1][3]>>, TRUE)
  /\ todo' = Tail(todo)
  /\ UNCHANGED <<conf, session, n, read, pc, future>>

EndCreate ==
  /\ pc = "create" /\ todo = <<>>
  /\ pc' = "expand" /\ todo' = AllCalls(1)
  /\ UNCHANGED <<conf, session, n, read, collection, future, cache, now>>

\* ProcessUnknownWord(decodeStepVL) tries without the table limits what has
\* no option so far.
ExpandTableLimit ==
  /\ pc = "expand" /\ todo # <<>>
  /\ LET r == <<todo[1][2], todo[1][3]>>
     IN  IF collection[r] = <<>>
         THEN CreateTranslationOptionsForRange(todo[1][1], r, FALSE)
         ELSE UNCHANGED <<collection, cache, now>>
  /\ todo' = Tail(todo)
  /\ UNCHANGED <<conf, session, n, read, pc, future>>

\* ProcessOneUnknownWord: the word is copied, or dropped if it may be.
UnknownOption(p) ==
  LET word == Words[p + 1]
      kept == IF conf.dropUnknown THEN word \in Digits ELSE word # "*EPS*"
  IN  [out |-> IF kept THEN <<<<word, "UNK">>>> ELSE <<>>,
       score |-> UnknownScore, span |-> <<p, p>>, from |-> "unknown"]

IsUnknown(p) == collection[<<p, p>>] = <<>> \/ conf.alwaysDirect

ProcessUnknownWord ==
  /\ pc = "expand" /\ todo = <<>>
  /\ collection' =
       [r \in PhraseSpans |->
          IF r[1] = r[2] /\ IsUnknown(r[1])
          THEN Append(collection[r], UnknownOption(r[1])) ELSE collection[r]]
  /\ pc' = "prune"
  /\ UNCHANGED <<conf, session, n, read, todo, future, cache, now>>

\* Size pruning, then threshold pruning against the best that is left.
BySize(list) ==
  IF conf.maxOptions > 0 /\ Len(list) > conf.maxOptions
  THEN KeepBest(list, conf.maxOptions) ELSE {list}

\* Mutant: the threshold counts from the first option of the list.
WithinThreshold_OfFirst(list) ==
  Stay(list, {i \in DOMAIN list : list[i].score >= list[1].score + conf.threshold})

BestScore(list) == Max({o.score : o \in ToSet(list)})

WithinThreshold(list) ==
  Stay(list, {i \in DOMAIN list : list[i].score >= BestScore(list) + conf.threshold})

Pruned(list) == {WithinThreshold(l) : l \in BySize(list)}

\* The lists of all spans, each pruned for itself.
PrunedLists ==
  FoldSet(LAMBDA r, done : {[c EXCEPT ![r] = l] : c \in done, l \in Pruned(collection[r])},
          {collection}, PhraseSpans)

Prune ==
  /\ pc = "prune"
  /\ collection' \in PrunedLists
  /\ pc' = "sort"
  /\ UNCHANGED <<conf, session, n, read, todo, future, cache, now>>

\* The place of an option in the sorted list; equal ones stay in order, as
\* std::sort leaves them in short lists.
Place(list, i) ==
  Cardinality({j \in DOMAIN list :
                 IF j <= i THEN ~Better(list[i], list[j]) ELSE Better(list[j], list[i])})

Sorted(list) ==
  [p \in DOMAIN list |-> list[CHOOSE i \in DOMAIN list : Place(list, i) = p]]

\* The spans that have options.
Known == {r \in PhraseSpans : collection[r] # <<>>}

\* Sort and CalcFutureScore.
SortAndCalcFutureScore ==
  /\ pc = "sort"
  /\ collection' = [r \in PhraseSpans |-> Sorted(collection[r])]
  /\ future' = FillMatrix(Size, [r \in Known |-> BestScore(collection[r])])
  /\ pc' = "done"
  /\ UNCHANGED <<conf, session, n, read, todo, cache, now>>

Next ==
  \/ StartSentence
  \/ RefuseLine
  \/ CreateNextRange
  \/ EndCreate
  \/ ExpandTableLimit
  \/ ProcessUnknownWord
  \/ Prune
  \/ SortAndCalcFutureScore

Spec == Init /\ [][Next]_vars

------------------------------------------------------------------------------
(****************************************************************************)
(* What the options are compared with.                                      *)
(****************************************************************************)
Meaning(o) == [out |-> o.out, score |-> o.score]

\* All the translations the tables have for a phrase, if no step is pruned.
TablesGive(g, phrase, adhere) ==
  LET all == CHOOSE list \in Translations(conf.graphs[g], phrase, adhere, 1000) : TRUE
  IN  {Meaning(o) : o \in ToSet(all)}

Limited(phrase) == UNION {TablesGive(g, phrase, TRUE) : g \in DOMAIN conf.graphs}

\* What the first graph has that has any without the limits of its tables.
Unlimited(phrase) ==
  LET some == {g \in DOMAIN conf.graphs : TablesGive(g, phrase, FALSE) # {}}
  IN  IF some = {} THEN {} ELSE TablesGive(Min(some), phrase, FALSE)

\* The options of a span that come from the tables.
Offered(r) == {Meaning(o) : o \in {x \in ToSet(collection[r]) : x.from = "table"}}

\* The ways to cut a gap into phrases with options, and the best score of one
\* if each phrase gets its first option.
Tilings(first, last) ==
  {T \in SUBSET {r \in Known : first <= r[1] /\ r[2] <= last} :
     \A p \in first .. last : \E r \in T :
       p \in r[1] .. r[2] /\ \A q \in T : p \in q[1] .. q[2] => q = r}

BestTiling ==
  LET score == [r \in Known |-> collection[r][1].score]
  IN  [r \in SpansOf(Size) |-> Max({Total(score, T) : T \in Tilings(r[1], r[2])})]

------------------------------------------------------------------------------
(****************************************************************************)
(* Properties.                                                              *)
(****************************************************************************)

\* The markup means what its tags enclose: the line is refused if they do not
\* fit together, every translation outside of linked becomes an option for the
\* words it encloses, and zones that are made by enclosing words lie within each
\* other or apart.  The one other reason to refuse a line is a defect: a tag
\* with a span of one number, a form that the error message next to it allows
\* (XmlOption.cpp:280), is given no word at all (:284), so that no such tag is
\* ever accepted except for a wall.
MarkupRead ==
  n > 0 =>
    LET line      == session[n]
        oneNumber == {e \in Elements(line) : line[e[1]].name # "wall" /\ Len(line[e[1]].span) = 1}
    IN  /\ read.ok <=> WellFormed(line) /\ oneNumber = {}
        /\ read.ok => /\ read.zones = MeantZones(line)
                      /\ ToSet(read.options) \cup ToSet(read.linked) =
                           IF conf.xmlType = "ignore" THEN {} ELSE MeantOptions(line)
                      /\ read.walls \subseteq 0 .. Len(read.words)
        /\ read.ok /\ (\A i \in DOMAIN line : IsTag(line[i]) => line[i].span = <<>>) =>
             \A x, y \in read.zones :
               \/ x[2] < y[1] \/ y[2] < x[1]
               \/ x[1] <= y[1] /\ y[2] <= x[2]
               \/ y[1] <= x[1] /\ x[2] <= y[2]

\* Whatever the cache did in this and earlier sentences, a span has the
\* options its tables give it: within the limits of the tables, or beyond
\* them for a word that has none within.  Pruning of partial options loses
\* some, but never the best of a single step.
OfferedByTables ==
  pc = "prune" =>
    \A r \in PhraseSpans :
      LET within == Limited(Phrase(r))
          all    == IF Excluded(r) THEN {}
                    ELSE IF within = {} /\ r[1] = r[2] THEN Unlimited(Phrase(r))
                    ELSE within
      IN  /\ Offered(r) \subseteq all
          /\ conf.maxPartial >= 100 /\ ~XmlOverlap(r) => Offered(r) = all
          /\ (\A g \in DOMAIN conf.graphs : Len(conf.graphs[g]) = 1) /\ ~XmlOverlap(r)
               => \A best \in all : \E o \in Offered(r) : o.score >= best.score

\* The words a decode graph might make: all combinations of the factors that
\* come in the entries of its steps, filled as its steps fill them.
Expressible(graph, phrase) ==
  LET filled == OutputFactors(graph, Len(graph))
      values == UNION {UNION {Range(w) : w \in Range(e.out)} :
                         e \in UNION {Range(Entries(step, phrase, FALSE)) : step \in Range(graph)}}
                  \cup UNION {Range(g.word) :
                                g \in UNION {step.dictionary : step \in Range(graph)}}
      words  == {w \in [Factors -> values \cup {NoFactor}] :
                   \A f \in Factors : w[f] = NoFactor <=> f \notin filled}
  IN  UNION {[1 .. k -> words] : k \in 0 .. Len(phrase)}

\* The steps of a graph, one after the other and each on what the ones before
\* it made, give a translation if and only if every step has an entry for it
\* that agrees with the others in all factors, and the scores are the sums.
StepsAgree ==
  pc = "prune" /\ n = 1 =>
    \A g \in DOMAIN conf.graphs, r \in PhraseSpans :
      LET graph == conf.graphs[g]
          given == TablesGive(g, Phrase(r), TRUE)
      IN  \A out \in Expressible(graph, Phrase(r)) \cup {o.out : o \in given} :
            {o.score : o \in {x \in given : x.out = out}} =
              AgreedScores(graph, Phrase(r), TRUE, out)

\* The search finds what it takes for granted: an option for every word, the
\* best option of each span in front, and none that covers another span.
ListsReady ==
  pc = "done" /\ n > 0 =>
    /\ \A r \in WordSpans : collection[r] # <<>>
    /\ \A r \in PhraseSpans :
         /\ IsSorted(collection[r], LAMBDA a, b : a.score >= b.score)
         /\ \A o \in ToSet(collection[r]) : o.span = r

\* What a span is offered before pruning, and what the search gets of it.
OptionsOfTables == OfferedByTables /\ StepsAgree /\ ListsReady

\* Pruning leaves the best: nothing that goes is better than what stays, it
\* goes only for one of the two limits, and what stays respects both.
PruningKeepsBest ==
  [][pc = "prune" =>
       \A r \in PhraseSpans :
         LET old  == collection[r]
             kept == collection'[r]
             high == {o \in ToSet(old) : \A x \in ToSet(old) : o.score >= x.score}
         IN  /\ ToSet(kept) \subseteq ToSet(old)
             /\ high # {} => high \cap ToSet(kept) # {}
             /\ conf.maxOptions > 0 => Len(kept) <= conf.maxOptions
             /\ \A o \in ToSet(kept), b \in high : o.score >= b.score + conf.threshold
             /\ \A o \in ToSet(old) \ ToSet(kept) :
                  /\ \A x \in ToSet(kept) : o.score <= x.score
                  /\ \/ conf.maxOptions > 0 /\ Len(old) > conf.maxOptions
                     \/ \E b \in high : o.score < b.score + conf.threshold]_vars

\* The future cost of what a bitmap leaves open is that of the best way to
\* translate it gap by gap, and that of a bitmap and a span is that of the
\* bitmap with the span.
FutureCostExact ==
  pc = "done" /\ n > 0 =>
    LET tiling == BestTiling
        Cost(b) == CalcFutureScore(future, Size, b)
    IN  \A b \in SUBSET (0 .. Size - 1) :
          /\ Cost(b) = Total(tiling, OpenRuns(Size, b))
          /\ \A r \in {q \in SpansOf(Size) : (q[1] .. q[2]) \cap b = {}} :
               CalcFutureScoreWith(future, Size, b, r[1], r[2]) = Cost(b \cup (r[1] .. r[2]))

\* What leaves the cache was used before all that stays, and the cache stays
\* within its size while no two calls read the same time.
CacheKeepsRecent ==
  [][/\ \A gone \in DOMAIN cache \ DOMAIN cache', stays \in DOMAIN cache' :
          cache[gone].used < cache'[stays].used
     /\ conf.tick = 1 /\ conf.cacheMax > 1 =>
          Cardinality(DOMAIN cache') <= conf.cacheMax
     /\ DOMAIN cache' # {} \/ DOMAIN cache = {}]_vars

\* Whatever is bounded loses the least: option lists their worst, the cache
\* what was not used for the longest time.
LimitsDropWorst == PruningKeepsBest /\ CacheKeepsRecent
==============================================================================
