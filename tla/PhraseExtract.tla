---------------------------- MODULE PhraseExtract ----------------------------
(****************************************************************************)
(* From a word-aligned corpus to a phrase table: the phrase pairs of its    *)
(* sentences (phrase-extract/extract.cpp), the lexical tables, the sorting  *)
(* and the counts and weights (phrase-extract/score.cpp), in steps 4 to 6   *)
(* of the training script.                                                  *)
(*                                                                          *)
(* A sentence is [e, f, links]: target words, source words, and the         *)
(* alignment as it stands in the file, a sequence of <<source word, target  *)
(* word>>. A box <<startE, endE, startF, endF>> is a phrase pair in its     *)
(* place. Words and positions count from 1, in a phrase pair from its       *)
(* beginning.                                                               *)
(*                                                                          *)
(* Words are numbers in the order of their bytes; the separator ||| stands  *)
(* between some of them. A probability is a fraction <<n, d>>. A line of an *)
(* extract file is [f, e, links, ...] with links <<f, e>>; in the file of   *)
(* the inverse direction f is the target side.                              *)
(****************************************************************************)
EXTENDS Integers, SequencesExt, FiniteSetsExt

CONSTANTS
  MaxPhraseLength,
  Separator,  \* |||
  NullWord    \* "NULL", smaller than every word

ASSUME PhraseLengthAssumption == MaxPhraseLength \in Nat \ {0}
ASSUME SeparatorAssumption == Separator \in Int /\ NullWord \in Int

\* The spans of at most the maximal length in a sentence of that many words.
Spans(len) == {w \in (1 .. len) \X (1 .. len) : w[1] <= w[2] /\ w[2] < w[1] + MaxPhraseLength}

\* SentenceAlignment::create: no phrases from an empty side or from points
\* out of bounds.
Create(s) ==
  /\ s.e # <<>> /\ s.f # <<>>
  /\ \A k \in DOMAIN s.links : s.links[k][1] <= Len(s.f) /\ s.links[k][2] <= Len(s.e)

\* The source words of a target word, in the order of the file.
AlignedToE(s, ei) ==
  LET of == SelectSeq(s.links, LAMBDA l : l[2] = ei)
  IN  [k \in DOMAIN of |-> of[k][1]]

AlignedCountF(s, fi) == Cardinality({k \in DOMAIN s.links : s.links[k][1] = fi})

\* The source words that the span of target words is aligned to.
Projected(s, startE, endE) ==
  {s.links[k][1] : k \in {k \in DOMAIN s.links : s.links[k][2] \in startE .. endE}}

\* usedF: links of the word that leave the span of target words.
UsedF(s, fi, startE, endE) ==
  Cardinality({k \in DOMAIN s.links : s.links[k][1] = fi /\ s.links[k][2] \notin startE .. endE})

\* Start and end of the source phrase move outwards over unaligned words.
Extends(s, startF, endF, minF, maxF) ==
  /\ startF \in (maxF - MaxPhraseLength + 1) .. minF
  /\ endF \in maxF .. (startF + MaxPhraseLength - 1)
  /\ \A fi \in (startF .. minF - 1) \cup (maxF + 1 .. endF) : AlignedCountF(s, fi) = 0

\* extract: the phrase pairs of a sentence.
Boxes(s) ==
  UNION {LET F == Projected(s, span[1], span[2])
             minF == Min(F)  maxF == Max(F)
         IN  IF F = {} \/ maxF - minF >= MaxPhraseLength THEN {}
             ELSE IF \E fi \in minF .. maxF : UsedF(s, fi, span[1], span[2]) > 0 THEN {}
             ELSE {span \o w : w \in {w \in Spans(Len(s.f)) : Extends(s, w[1], w[2], minF, maxF)}}
         : span \in Spans(Len(s.e))}

\* isAligned: beyond the corners of the sentence counts as aligned.
IsAligned(s, fi, ei) ==
  \/ fi = 0 /\ ei = 0
  \/ fi = Len(s.f) + 1 /\ ei = Len(s.e) + 1
  \/ \E k \in DOMAIN s.links : s.links[k] = <<fi, ei>>

\* Mono and swap by the corner that the neighbouring target word is linked to.
Orientation(mono, swap) ==
  IF mono /\ ~swap THEN "mono" ELSE IF swap /\ ~mono THEN "swap" ELSE "other"

Previous(s, box) == Orientation(IsAligned(s, box[3] - 1, box[1] - 1),
                                IsAligned(s, box[4] + 1, box[1] - 1))
Following(s, box) == Orientation(IsAligned(s, box[4] + 1, box[2] + 1),
                                 IsAligned(s, box[3] - 1, box[2] + 1))

\* The links within a box, target word by target word.
LinksWithin(s, box) ==
  FoldLeft(LAMBDA acc, ei :
             acc \o [k \in DOMAIN AlignedToE(s, ei) |->
                       <<AlignedToE(s, ei)[k] - box[3] + 1, ei - box[1] + 1>>],
           <<>>, [k \in 1 .. box[2] - box[1] + 1 |-> box[1] + k - 1])

\* addPhrase: the three lines that are written for a phrase pair.
AddPhrase(s, box) ==
  [f |-> SubSeq(s.f, box[3], box[4]), e |-> SubSeq(s.e, box[1], box[2]),
   links |-> LinksWithin(s, box),
   previous |-> Previous(s, box), following |-> Following(s, box)]

\* main: all phrase pairs of the corpus.  They are sorted before they are
\* read, so the order among those of a sentence is any.
Extract(corpus) ==
  FoldLeft(LAMBDA acc, s :
             IF Create(s)
             THEN acc \o FoldSet(LAMBDA box, t : Append(t, AddPhrase(s, box)), <<>>, Boxes(s))
             ELSE acc,
           <<>>, corpus)

(****************************************************************************)
(* What a phrase pair is                                                    *)
(****************************************************************************)

\* Consistent with the alignment: some link inside, and none that leaves.
Consistent(s, box) ==
  LET inE(l) == l[2] \in box[1] .. box[2]
      inF(l) == l[1] \in box[3] .. box[4]
  IN  /\ \E k \in DOMAIN s.links : inE(s.links[k])
      /\ \A k \in DOMAIN s.links : inE(s.links[k]) <=> inF(s.links[k])

ConsistentBoxes(s) ==
  {box \in {v \o w : v \in Spans(Len(s.e)), w \in Spans(Len(s.f))} : Consistent(s, box)}

(****************************************************************************)
(* Lexical translation tables                                               *)
(****************************************************************************)

\* The word pairs of a sentence: the links within bounds, and NULL for what
\* they leave.
WordPairs(s) ==
  LET good == SelectSeq(s.links, LAMBDA l : l[1] <= Len(s.f) /\ l[2] <= Len(s.e))
      linkedE == {good[k][2] : k \in DOMAIN good}
      linkedF == {good[k][1] : k \in DOMAIN good}
      restE == SelectSeq([i \in DOMAIN s.e |-> i], LAMBDA i : i \notin linkedE)
      restF == SelectSeq([j \in DOMAIN s.f |-> j], LAMBDA j : j \notin linkedF)
  IN  [k \in DOMAIN good |-> <<s.f[good[k][1]], s.e[good[k][2]]>>]
        \o [k \in DOMAIN restE |-> <<NullWord, s.e[restE[k]]>>]
        \o [k \in DOMAIN restF |-> <<s.f[restF[k]], NullWord>>]

CountOf(seq, Test(_)) == Cardinality({k \in DOMAIN seq : Test(seq[k])})

\* get_lexical: the two files, as sequences of <<given word, word, count, total>>.
LexicalF2E(corpus) ==
  LET all == FoldLeft(LAMBDA acc, s : acc \o WordPairs(s), <<>>, corpus)
      pairs == FoldSet(LAMBDA w, t : Append(t, w), <<>>, Range(all))
  IN  [k \in DOMAIN pairs |->
         <<pairs[k][1], pairs[k][2], CountOf(all, LAMBDA w : w = pairs[k]),
           CountOf(all, LAMBDA w : w[1] = pairs[k][1])>>]

LexicalE2F(corpus) ==
  LET all == FoldLeft(LAMBDA acc, s : acc \o WordPairs(s), <<>>, corpus)
      pairs == FoldSet(LAMBDA w, t : Append(t, w), <<>>, Range(all))
  IN  [k \in DOMAIN pairs |->
         <<pairs[k][2], pairs[k][1], CountOf(all, LAMBDA w : w = pairs[k]),
           CountOf(all, LAMBDA w : w[2] = pairs[k][2])>>]

\* ltable[given][word], 0 if the pair is not in the file.
LexProb(lex, given, word) ==
  LET at == {k \in DOMAIN lex : lex[k][1] = given /\ lex[k][2] = word}
  IN  IF at = {} THEN <<0, 1>>
      ELSE LET k == CHOOSE k \in at : TRUE IN <<lex[k][3], lex[k][4]>>

Plus(p, q) == <<p[1] * q[2] + q[1] * p[2], p[2] * q[2]>>
Times(p, q) == <<p[1] * q[1], p[2] * q[2]>>
SameFraction(p, q) == p[1] * q[2] = q[1] * p[2]

\* The product over the words of e of the mean over the words they are linked
\* to, or of NULL.
LexScore(lex, f, e, links) ==
  FoldLeft(LAMBDA score, ei :
             LET of == SelectSeq(links, LAMBDA l : l[2] = ei)
             IN  Times(score,
                   IF of = <<>> THEN LexProb(lex, NullWord, e[ei])
                   ELSE Times(FoldLeft(LAMBDA p, l : Plus(p, LexProb(lex, f[l[1]], e[ei])),
                                       <<0, 1>>, of),
                              <<1, Len(of)>>)),
           <<1, 1>>, [ei \in DOMAIN e |-> ei])

(****************************************************************************)
(* Sorting                                                                  *)
(****************************************************************************)

LexLess(s, t) ==
  \E k \in 1 .. Len(t) : /\ k <= Len(s) + 1
                         /\ \A i \in 1 .. k - 1 : s[i] = t[i]
                         /\ k = Len(s) + 1 \/ s[k] < t[k]

Text(line) == line.f \o <<Separator>> \o line.e \o <<Separator>>
                \o [k \in DOMAIN line.links |-> 10 * line.links[k][1] + line.links[k][2]]

\* LC_ALL=C sort
Sorted(file) == SortSeq(file, LAMBDA x, y : LexLess(Text(x), Text(y)))

\* The lines of the inverse file.
Inverted(file) ==
  [k \in DOMAIN file |->
     [file[k] EXCEPT !.f = file[k].e, !.e = file[k].f,
                     !.links = [i \in DOMAIN @ |-> <<@[i][2], @[i][1]>>]]]

(****************************************************************************)
(* score                                                                    *)
(****************************************************************************)

\* The lines of one target phrase end at i: the alignment that ends there may
\* be the most frequent one so far.
WrapUp(acc, i) ==
  IF acc.current > acc.max THEN [acc EXCEPT !.max = acc.current, !.same = i] ELSE acc

\* Mutant: among those of a phrase pair, the alignment that comes last.
CountStep_Last(group, acc, i) ==
  IF i = 1 THEN [acc EXCEPT !.current = 1]
  ELSE IF group[i - 1].e # group[i].e
  THEN [acc EXCEPT !.alignmentE = (group[i - 1].e :> i - 1) @@ @,
                   !.current = 1, !.max = 0, !.same = 0]
  ELSE IF group[i - 1].links # group[i].links
  THEN [WrapUp(acc, i - 1) EXCEPT !.current = 1]
  ELSE [acc EXCEPT !.current = @ + 1]

\* A further line of a source phrase.  Alignments are equal if they are listed
\* in the same order.
CountStep(group, acc, i) ==
  IF i = 1 THEN [acc EXCEPT !.current = 1]
  ELSE IF group[i - 1].e # group[i].e
  THEN [WrapUp(acc, i - 1) EXCEPT !.alignmentE = (group[i - 1].e :> WrapUp(acc, i - 1).same) @@ @,
                                  !.current = 1, !.max = 0, !.same = 0]
  ELSE IF group[i - 1].links # group[i].links
  THEN [WrapUp(acc, i - 1) EXCEPT !.current = 1]
  ELSE [acc EXCEPT !.current = @ + 1]

\* alignmentE: for each target phrase the line with the alignment to use.
MostFrequent(group) ==
  LET last == FoldLeft(LAMBDA acc, i : CountStep(group, acc, i),
                       [alignmentE |-> <<>>, current |-> 0, max |-> 0, same |-> 0],
                       [i \in DOMAIN group |-> i])
  IN  (group[Len(group)].e :> WrapUp(last, Len(group)).same) @@ last.alignmentE

\* processPhrasePairs: the lines of the table for one source phrase, with the
\* target phrases in the order in which they were first seen.
ProcessPhrasePairs(group, lex) ==
  IF group = <<>> THEN <<>>
  ELSE LET es == FoldLeft(LAMBDA acc, l : IF Contains(acc, l.e) THEN acc ELSE Append(acc, l.e),
                          <<>>, group)
           chosen == MostFrequent(group)
       IN  [k \in DOMAIN es |->
              LET links == group[chosen[es[k]]].links
              IN  [f |-> group[1].f, e |-> es[k], links |-> links,
                   prob |-> <<CountOf(group, LAMBDA l : l.e = es[k]), Len(group)>>,
                   lex |-> LexScore(lex, group[1].f, es[k], links)]]

\* main: the lines of a source phrase follow each other.
Score(file, lex) ==
  LET step(acc, l) ==
        IF acc.group # <<>> /\ acc.group[1].f # l.f
        THEN [group |-> <<l>>, table |-> acc.table \o ProcessPhrasePairs(acc.group, lex)]
        ELSE [acc EXCEPT !.group = Append(@, l)]
      last == FoldLeft(step, [group |-> <<>>, table |-> <<>>], file)
  IN  last.table \o ProcessPhrasePairs(last.group, lex)

\* The half table of the inverse direction is written source phrase first and
\* without alignment.
ScoreInverse(file, lex) ==
  LET half == Score(file, lex)
  IN  [k \in DOMAIN half |-> [f |-> half[k].e, e |-> half[k].f, links |-> <<>>,
                              prob |-> half[k].prob, lex |-> half[k].lex]]

\* The two halves are merged line by line; the phrases of a line must agree.
SameLine(f2e, e2f, k) == k \in DOMAIN e2f /\ e2f[k].f = f2e[k].f /\ e2f[k].e = f2e[k].e
SamePairs(f2e, e2f) == \A k \in DOMAIN f2e : SameLine(f2e, e2f, k)

\* The lines in which they do.
Consolidated(f2e, e2f) ==
  LET same == SelectSeq([k \in DOMAIN f2e |-> k], LAMBDA k : SameLine(f2e, e2f, k))
  IN  [i \in DOMAIN same |->
         LET k == same[i]
         IN  [f |-> f2e[k].f, e |-> f2e[k].e, links |-> f2e[k].links,
              scores |-> <<e2f[k].prob, e2f[k].lex, f2e[k].prob, f2e[k].lex>>]]

(****************************************************************************)
(* What a phrase table says of a corpus                                     *)
(****************************************************************************)

\* The places <<sentence, box>> of the phrase pairs.
Occurrences(corpus) ==
  UNION {{n} \X ConsistentBoxes(corpus[n]) : n \in {n \in DOMAIN corpus : Create(corpus[n])}}

F(corpus, o) == SubSeq(corpus[o[1]].f, o[2][3], o[2][4])
E(corpus, o) == SubSeq(corpus[o[1]].e, o[2][1], o[2][2])
LinksOf(corpus, o) ==
  {<<l[1] - o[2][3] + 1, l[2] - o[2][1] + 1>> :
     l \in {l \in Range(corpus[o[1]].links) : l[2] \in o[2][1] .. o[2][2]}}

\* The same as they are written: for each target word its source words, in the
\* order of the alignment file.
WrittenLinks(corpus, o) ==
  [k \in 1 .. o[2][2] - o[2][1] + 1 |->
     LET of == AlignedToE(corpus[o[1]], o[2][1] + k - 1)
     IN  [i \in DOMAIN of |-> of[i] - o[2][3] + 1]]

\* Those of the places O that look like most of them.
Commonest(O, Look(_)) ==
  LET like(o) == Cardinality({p \in O : Look(p) = Look(o)})
  IN  {o \in O : \A p \in O : like(p) <= like(o)}

\* The lexical weight of word for given is the share of the links of given that
\* lead to word, over all sentences; side 1 is the source side.
Weight(corpus, side, given, word) ==
  LET all == UNION {{<<n, k>> : k \in DOMAIN WordPairs(corpus[n])} : n \in DOMAIN corpus}
      pair(x) == WordPairs(corpus[x[1]])[x[2]]
      from == {x \in all : pair(x)[side] = given}
      both == {x \in from : pair(x)[3 - side] = word}
  IN  IF both = {} THEN <<0, 1>> ELSE <<Cardinality(both), Cardinality(from)>>

\* The mean weight of each word of one phrase for those of the other that it is
\* linked to, multiplied.
LexicalWeight(corpus, side, given, words, links) ==
  LET of(k) == {l[side] : l \in {l \in links : l[3 - side] = k}}
      weight(k) == IF of(k) = {} THEN Weight(corpus, side, NullWord, words[k])
                   ELSE Times(FoldSet(LAMBDA g, p : Plus(p, Weight(corpus, side, given[g], words[k])),
                                      <<0, 1>>, of(k)),
                              <<1, Cardinality(of(k))>>)
  IN  FoldLeft(LAMBDA p, k : Times(p, weight(k)), <<1, 1>>, [k \in DOMAIN words |-> k])

\* Every phrase pair of the corpus once, with its relative frequencies and the
\* lexical weights of one of its commonest alignments; if told so, alignments
\* with equal links that are written in different orders count apart.
TableOf(corpus, table, asWritten) ==
  LET occ == Occurrences(corpus)
      ofF(l) == {o \in occ : F(corpus, o) = l.f}
      ofE(l) == {o \in occ : E(corpus, o) = l.e}
      both(l) == ofF(l) \cap ofE(l)
      common(l) ==
        {LinksOf(corpus, o) : o \in
           IF asWritten THEN Commonest(both(l), LAMBDA p : WrittenLinks(corpus, p))
           ELSE Commonest(both(l), LAMBDA p : LinksOf(corpus, p))}
  IN  /\ IsInjective([k \in DOMAIN table |-> <<table[k].f, table[k].e>>])
      /\ {<<l.f, l.e>> : l \in Range(table)} = {<<F(corpus, o), E(corpus, o)>> : o \in occ}
      /\ \A l \in Range(table) :
           /\ Range(l.links) \in common(l)
           /\ l.scores[1] = <<Cardinality(both(l)), Cardinality(ofE(l))>>
           /\ l.scores[3] = <<Cardinality(both(l)), Cardinality(ofF(l))>>
           /\ SameFraction(l.scores[4], LexicalWeight(corpus, 1, l.f, l.e, Range(l.links)))
           /\ \E links \in common(l) :
                SameFraction(l.scores[2], LexicalWeight(corpus, 2, l.e, l.f, links))
==============================================================================
