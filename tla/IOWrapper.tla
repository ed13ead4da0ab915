------------------------------ MODULE IOWrapper ------------------------------
(****************************************************************************)
(* What the command line decoder tells of a sentence: the best translation  *)
(* with its segmentation and the input it covers, the lines of the n-best   *)
(* list with the alignment of phrases and of words, and the translation of  *)
(* least Bayes risk, which the program mbr finds in printed lists as well    *)
(* (IOWrapper, mbr, Hypothesis::ToStream, scripts/training/mbr).            *)
(*                                                                          *)
(* Columns(span, words) has the columns [source, target] that the phrase    *)
(* table has for an option: for each word of a side the set of the words of *)
(* the other side it is linked to, counted from 0.  They are empty for an   *)
(* option from markup, which has no alignment.                              *)
(****************************************************************************)
EXTENDS NBest, SequencesExt

CONSTANTS
  Columns(_, _),   \* see above
  NotFound,        \* NOT_FOUND, the greatest size_t, above all positions
  BleuOrder,       \* BLEU_ORDER
  MaxLoss,         \* 1000000, where the search for the least loss begins
  Bleu(_),         \* what calculate_score makes of its counts, in percent
  Posterior(_)     \* UntransformScore, the exponential, as a whole number

\* conf.mbrScale is GetMBRScale, and SCALE of the program mbr.

ASSUME ColumnsAssumption ==
  \A o \in UNION {Range(i.options) : i \in Inputs} :
    LET c == Columns(o.span, o.words)
    IN  \/ c = [source |-> <<>>, target |-> <<>>]
        \/ /\ DOMAIN c.source = 1 .. (o.span[2] - o.span[1] + 1)
           /\ DOMAIN c.target = DOMAIN o.words
           /\ \A s \in DOMAIN c.source, t \in DOMAIN c.target :
                t - 1 \in c.source[s] <=> s - 1 \in c.target[t]

------------------------------------------------------------------------------
(****************************************************************************)
(* Word alignments.  An AlignmentElement is a set of positions, -1 for a    *)
(* word without any, an AlignmentPhrase the sequence of those of its words. *)
(****************************************************************************)

\* "()" is read as "(-1)".
AddAlignmentElement(column) ==
  [i \in DOMAIN column |-> IF column[i] = {} THEN {-1} ELSE column[i]]

\* CreateAlignmentInfo; an option without words gets SetIdentityAlignment.
AlignmentPair(h) ==
  LET words == CurrTargetPhrase(h)
      c     == Columns(hypo[h].range, words)
  IN  IF words = <<>> THEN [source |-> <<{0}>>, target |-> <<{0}>>]
      ELSE [source |-> AddAlignmentElement(c.source), target |-> AddAlignmentElement(c.target)]

Shift(phrase, by) ==
  [i \in DOMAIN phrase |-> {IF x = -1 THEN -1 ELSE x + by : x \in phrase[i]}]

\* AlignmentPhrase::print
Printed(phrase, offset) == [i \in DOMAIN phrase |-> [at |-> offset + i - 1, to |-> phrase[i]]]

\* OutputWordAlignment of one phrase: nothing if it has no words.
OutputWordAlignment(h, srcoffset, trgoffset, direction) ==
  LET pair == AlignmentPair(h)
  IN  CASE CurrTargetPhrase(h) = <<>> -> <<>>
        [] CurrTargetPhrase(h) # <<>> /\ direction = "Input" ->
             Printed(Shift(pair.source, trgoffset), srcoffset)
        [] OTHER -> Printed(Shift(pair.target, srcoffset), trgoffset)

\* Hypothesis::SourceAlignmentToStream and TargetAlignmentToStream, for the
\* log: the positions are those the hypotheses have.
AlignmentToStream(h, direction) ==
  LET path == Reverse(Front(BackPath(h)))
      One(e) == LET src == hypo[e].range[1]
                    trg == Len(hypo[hypo[e].prev].target)
                IN  IF direction = "Input" THEN Printed(Shift(AlignmentPair(e).source, trg), src)
                    ELSE Printed(Shift(AlignmentPair(e).target, src), trg)
  IN  FlattenSeq([i \in DOMAIN path |-> One(path[i])])

------------------------------------------------------------------------------
(****************************************************************************)
(* The best translation.                                                    *)
(****************************************************************************)
WordToken(w) == [kind |-> "word", word |-> w, span |-> NoSpan]
SpanToken(r) == [kind |-> "span", word |-> BOS, span |-> r]

\* The words of a phrase, and the span it translates unless it has none.
OutputPhrase(h, reportSegmentation) ==
  LET words == CurrTargetPhrase(h)
  IN  [i \in DOMAIN words |-> WordToken(words[i])]
        \o (IF reportSegmentation /\ words # <<>> THEN <<SpanToken(hypo[h].range)>> ELSE <<>>)

OutputSurface(h, reportSegmentation) ==
  LET path == Reverse(Front(BackPath(h)))
  IN  FlattenSeq([i \in DOMAIN path |-> OutputPhrase(path[i], reportSegmentation)])

\* With -recover-input-path: the source phrases by their first positions.
OutputInput(h) ==
  LET edges == Range(Front(BackPath(h)))
      At(p) == {e \in edges : hypo[e].range[1] = p}
      SourcePhrase(e) == [i \in 1 .. hypo[e].range[2] - hypo[e].range[1] + 1
                            |-> hypo[e].range[1] + i - 1]
  IN  FlattenSeq([i \in 1 .. SourceSize |->
                    IF At(i - 1) = {} THEN <<>> ELSE SourcePhrase(CHOOSE e \in At(i - 1) : TRUE)])

OutputBestHypo(h, recover, reportSegmentation) ==
  [input |-> IF recover THEN OutputInput(h) ELSE <<>>,
   surface |-> OutputSurface(h, reportSegmentation)]

------------------------------------------------------------------------------
(****************************************************************************)
(* The lines of the n-best list.                                            *)
(****************************************************************************)

\* Mutant: the target words the hypothesis has itself.
GetTargetWordsRange_OfHypothesis(edges, i) ==
  LET startPos == Len(hypo[hypo[edges[i]].prev].target)
  IN  <<startPos, Len(hypo[edges[i]].target) - 1>>

\* TrellisPath::GetTargetWordsRange of the i-th edge, in unsigned numbers.
GetTargetWordsRange(edges, i) ==
  LET startPos == Len(Surface(edges)) - Len(Surface(SubSeq(edges, 1, i) \o <<1>>))
      Length   == Len(CurrTargetPhrase(edges[i]))
  IN  <<startPos, IF startPos + Length = 0 THEN NotFound ELSE startPos + Length - 1>>

\* The number before the dash, and the one behind it where there is one.
Interval(r) == IF r[1] < r[2] THEN r ELSE <<r[1]>>

OutputNBestLine(path) ==
  LET e == path.edges
      n == Len(e)
      Target(i) == GetTargetWordsRange(e, i)
      WordAlignments(direction) ==
        FlattenSeq([k \in 1 .. n - 1 |->
          OutputWordAlignment(e[n - k], hypo[e[n - k]].range[1], Target(n - k)[1], direction)])
  IN  [surface |-> Surface(e), score |-> path.score,
       phrases |-> [k \in 1 .. n - 1 |->
                      <<Interval(hypo[e[n - k]].range), Interval(Target(n - k))>>],
       f2e |-> WordAlignments("Input"), e2f |-> WordAlignments("Output")]

------------------------------------------------------------------------------
(****************************************************************************)
(* The translation of least Bayes risk (doMBR) of the distinct list.        *)
(****************************************************************************)

\* extract_ngrams: how often an n-gram comes.
NGrams(sentence, k) == {SubSeq(sentence, i, i + k - 1) : i \in 1 .. Len(sentence) - k + 1}
CountOf(sentence, ngram) ==
  Cardinality({i \in 1 .. Len(sentence) - Len(ngram) + 1 :
                 SubSeq(sentence, i, i + Len(ngram) - 1) = ngram})

\* calculate_score: the n-grams of each order that are right and all of them.
calculate_score(ref, hyp) ==
  LET Right(g) == Min({CountOf(ref, g), CountOf(hyp, g)})
      comps == [right |-> [k \in 1 .. BleuOrder |-> MapThenSumSet(Right, NGrams(hyp, k))],
                all   |-> [k \in 1 .. BleuOrder |-> Max({Len(hyp) - k + 1, 0})],
                ref   |-> Len(ref)]
  IN  IF comps.right[1] = 0 THEN 0 ELSE Bleu(comps)

Sum(f, n) == MapThenSumSet(LAMBDA i : f[i], 1 .. n)

\* The loss of i for j, in percent and times the marginal.
WeightedLosses(translations, probs, i) ==
  [j \in DOMAIN probs |->
     IF i = j THEN 0 ELSE (100 - calculate_score(translations[j], translations[i])) * probs[j]]

\* The loop over j: no more is added once the sum is above the least loss.
Cumul(losses, least) ==
  FoldLeft(LAMBDA sum, x : IF sum > least THEN sum ELSE sum + x, 0, losses)

\* The place in the list of the translation, 0 for the index -1.
LeastRisk(translations, probs) ==
  LET Try(least, i) ==
        LET loss == Cumul(WeightedLosses(translations, probs, i), least.loss)
        IN  IF loss < least.loss THEN [loss |-> loss, index |-> i] ELSE least
      initial == [loss |-> 100 * MaxLoss * Sum(probs, Len(probs)), index |-> 0]
  IN  FoldLeft(Try, initial, [i \in DOMAIN probs |-> i]).index

\* The probabilities are those to the best one, against underflow.
JointProbs(paths) ==
  LET scaled == [i \in DOMAIN paths |-> conf.mbrScale * paths[i].score]
  IN  [i \in DOMAIN paths |-> Posterior(scaled[i] - Max(Range(scaled)))]

doMBR(paths) ==
  LeastRisk([i \in DOMAIN paths |-> Surface(paths[i].edges)], JointProbs(paths))

\* The separate program mbr reads the lines of n-best lists.  It takes the
\* exponential of the scores as they are; where all are 0, so is the marginal
\* and no loss is a number that compares.
calculate_probability(line) == Posterior(conf.mbrScale * line.score)

process(sents) ==
  LET probs == [i \in DOMAIN sents |-> calculate_probability(sents[i])]
      texts == [i \in DOMAIN sents |-> sents[i].surface]
  IN  IF Sum(probs, Len(probs)) = 0 THEN 0 ELSE LeastRisk(texts, probs)

\* Lines of one sentence come one after the other.
read_nbest_data(lines) ==
  LET Read(groups, l) ==
        IF groups # <<>> /\ Last(groups)[1].id = l.id THEN Front(groups) \o <<Append(Last(groups), l)>>
        ELSE Append(groups, <<l>>)
      groups == FoldLeft(Read, <<>>, lines)
  IN  [k \in DOMAIN groups |-> process(groups[k])]

------------------------------------------------------------------------------
(****************************************************************************)
(* Properties.                                                              *)
(****************************************************************************)
Finished == pc = "done" /\ step = "search"

\* What the decoder prints of its best translation can be read back: the
\* recovered input is the sentence, word by word, and the words before each
\* span of the segmentation are a translation of that span, wherever words
\* were dropped between.
SegmentationTold ==
  Finished =>
    \A h \in FinalStack :
      LET out   == OutputBestHypo(h, TRUE, TRUE)
          marks == {i \in DOMAIN out.surface : out.surface[i].kind = "span"}
          From(i) == Max({0} \cup {j \in marks : j < i}) + 1
          Said(i) == [k \in 1 .. i - From(i) |-> out.surface[From(i) + k - 1].word]
      IN  /\ out.input = [i \in 1 .. SourceSize |-> i - 1]
          /\ \A i \in marks :
               \E o \in Range(input.options) :
                 o.span = out.surface[i].span /\ o.words = Said(i)
          /\ out.surface # <<>> => Len(out.surface) \in marks
          /\ \A i, j \in marks : out.surface[i].span = out.surface[j].span => i = j

\* The links of a printed alignment, from source to target words.
Links(tokens, direction) ==
  UNION {{IF direction = "Input" THEN <<t.at, x>> ELSE <<x, t.at>> : x \in t.to \ {-1}}
           : t \in Range(tokens)}

\* A line of the n-best list tells one alignment in three ways, though its
\* edges are hypotheses that have other pasts and stand at other positions
\* there: the target words are aligned one after the other, each source word
\* once unless it was dropped, the two directions say the same, and each link
\* is within a pair of aligned phrases.
AlignmentsTold ==
  \A p \in Range(list) :
    LET line  == OutputNBestLine(p)
        Ends(r) == r[1] .. r[Len(r)]
        known == \A i \in 1 .. Len(p.edges) - 1 : AlignmentPair(p.edges[i]).source # <<>>
        spoken == {i \in 1 .. Len(p.edges) - 1 : CurrTargetPhrase(p.edges[i]) # <<>>}
        sources == UNION {hypo[p.edges[i]].range[1] .. hypo[p.edges[i]].range[2] : i \in spoken}
    IN  /\ known => /\ [i \in DOMAIN line.e2f |-> line.e2f[i].at] =
                         [i \in DOMAIN line.surface |-> i - 1]
                    /\ {t.at : t \in Range(line.f2e)} = sources
                    /\ Len(line.f2e) = Cardinality(sources)
        /\ Links(line.f2e, "Input") = Links(line.e2f, "Output")
        /\ \A l \in Links(line.f2e, "Input") :
             \E x \in Range(line.phrases) : l[1] \in Ends(x[1]) /\ l[2] \in Ends(x[2])

\* The log tells the alignment of a hypothesis as the list does that of its
\* path, but for dropped words, of which only the log speaks.
LogTold ==
  Finished =>
    \A h \in FinalStack :
      LET line == OutputNBestLine(PurePath(h))
      IN  (\A e \in Range(Front(BackPath(h))) : CurrTargetPhrase(e) # <<>>) =>
            /\ AlignmentToStream(h, "Input") = line.f2e
            /\ AlignmentToStream(h, "Output") = line.e2f

\* doMBR stops to add losses of a candidate that is worse than the best so
\* far, and still chooses one of least expected loss in the whole list; and
\* the program mbr chooses the same from the printed lists of two sentences,
\* unless a probability underflows, which only doMBR guards against.
RiskMinimal ==
  step = "listed" /\ conf.onlyDistinct /\ list # <<>> =>
    LET probs == JointProbs(list)
        texts == [i \in DOMAIN list |-> Surface(list[i].edges)]
        Risk(i) == Sum(WeightedLosses(texts, probs, i), Len(list))
        chosen == doMBR(list)
        Lines(id) == [i \in DOMAIN list |-> [id |-> id, surface |-> texts[i], score |-> list[i].score]]
    IN  /\ chosen # 0
        /\ \A i \in DOMAIN list : Risk(chosen) <= Risk(i)
        /\ (\A l \in Range(Lines(0)) : calculate_probability(l) > 0)
             => read_nbest_data(Lines(0) \o Lines(1)) = <<chosen, chosen>>

\* What is printed of a sentence is true of its derivations.
OutputTold == SegmentationTold /\ AlignmentsTold /\ LogTold /\ RiskMinimal
==============================================================================
