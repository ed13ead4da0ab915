------------------------------ MODULE MCPDTAimp ------------------------------
(****************************************************************************)
(* Source words are 1 and 2 (and 9, which no table has), target words 11 to *)
(* 12.  The tables are one in order, one in which a first word comes back,  *)
(* one in which a phrase comes back, and one with an empty source phrase.   *)
(****************************************************************************)
EXTENDS PDTAimp

Line(f, e, p) == [f |-> f, e |-> e, p |-> p]
InOrder    == <<Line(<<1, 2>>, <<11>>, -2), Line(<<1>>, <<12>>, ZeroProb), Line(<<1>>, <<11>>, -3),
                Line(<<1>>, <<11, 12>>, -3), Line(<<2>>, <<11>>, -1)>>
WordBack   == <<Line(<<1>>, <<11>>, -2), Line(<<2>>, <<12>>, -1), Line(<<1, 2>>, <<11>>, -3)>>
PhraseBack == <<Line(<<1>>, <<11>>, -2), Line(<<1, 2>>, <<12>>, -1), Line(<<1>>, <<12>>, -3)>>
NoSource   == <<Line(<< >>, <<12>>, -1), Line(<<2>>, <<11>>, -1)>>
OnlyEmpty  == <<Line(<< >>, <<12>>, -1)>>
MCTables   == {InOrder, WordBack, PhraseBack, NoSource, OnlyEmpty}

Arc(w, score, next) == [w |-> w, score |-> score, next |-> next]
Sentence(words) == [type |-> "sentence", cols |-> [i \in DOMAIN words |-> <<Arc(words[i], 0, 1)>>]]
Net == [type |-> "net", cols |-> <<<<Arc(1, -1, 1), Arc(2, -2, 1)>>,
                                   <<Arc(2, -1, 1), Arc(Eps, -1, 1)>>>>]
Lattice == [type |-> "lattice", cols |-> <<<<Arc(1, -1, 1), Arc(2, -1, 2)>>,
                                           <<Arc(2, -200, 1), Arc(9, -1, 1)>>,
                                           <<Arc(1, -1, 1)>>>>]
MCInputs == {Sentence(<<1, 2>>), Net, Lattice}

LexLine(f, e, c, s) == [f |-> f, e |-> e, c |-> c, s |-> s]
LexLines == <<LexLine(<<1, 2>>, <<11>>, <<11>>, -5), LexLine(<<1, 2>>, <<11>>, << >>, -2),
              LexLine(<<1>>, <<11>>, << >>, -3), LexLine(<<1>>, <<12>>, << >>, -200),
              LexLine(<<2>>, <<12>>, << >>, -1)>>
LexTable(cond, lines, binary) == [cond |-> cond, lines |-> lines, newline |-> TRUE, binary |-> binary]
WithoutContext == SelectSeq(LexLines, LAMBDA line : line.c = << >>)
ByF == <<LexLine(<<1, 2>>, << >>, << >>, -2), LexLine(<<1>>, << >>, << >>, -3),
         LexLine(<<2>>, << >>, << >>, -1)>>
MCLexTables ==
  UNION {{LexTable({"f"}, ByF, b), LexTable({"f", "e"}, WithoutContext, b),
          LexTable({"f", "e", "c"}, LexLines, b)} : b \in BOOLEAN}
  \cup {[LexTable({"f"}, ByF, b) EXCEPT !.newline = FALSE] : b \in BOOLEAN}

\* Bound: the binarizer does not go on while reordering scores are asked.
MCNext == \/ ~lex.asked /\ BinNext /\ UNCHANGED <<dec, lex>>
          \/ Load \/ ReadIdx \/ ReadSrcVoc \/ ReadTgtVoc
          \/ Lookup \/ LookupMemory \/ CacheSource \/ CleanUp
          \/ bin.pc \in {"idle", "done", "killed"} /\ CacheLexReordering
MCSpec == Init /\ [][MCNext]_vars

------------------------------------------------------------------------------
(****************************************************************************)
(* Properties.                                                              *)
(****************************************************************************)
FirstWords == LET fs == SelectSeq(table, LAMBDA line : line.f # << >>)
              IN  [i \in DOMAIN fs |-> Head(fs[i].f)]
Grouped == \A i, j, k \in DOMAIN FirstWords :
             i < j /\ j < k /\ FirstWords[i] = FirstWords[k] => FirstWords[j] = FirstWords[i]

\* The lines of the whole table for a phrase, in its words and scores.
ScoreOf(p) == IF dec.kind = "memory" THEN p ELSE BinaryScore(p)
Entries(f) == {[e |-> line.e, p |-> ScoreOf(line.p)] : line \in {l \in Range(table) : l.f = f}}
FlooredEntries(f) == {[e |-> c.e, p |-> FloorScore(c.p)] : c \in Entries(f)}

\* With the words blank that the vocabulary was read without.
Blanked(cands) == {[c EXCEPT !.e = [i \in DOMAIN @ |-> IF \E k \in DOMAIN dec.tv : dec.tv[k] = @[i]
                                                       THEN @[i] ELSE Blank]] : c \in cands}

\* The decoder reads what it was meant to: every file of one finished run, of
\* a table whose first words do not come back.
WellRead(f) == \/ dec.kind = "memory"
               \/ dec.clean /\ (script \/ Grouped)
WithinFilter(f) == script => Len(f) <= MaxLength

\* All paths through the network from one column to another.
RECURSIVE PathsBetween(_, _)
PathsBetween(i, j) ==
  IF i = j THEN {<< >>}
  ELSE UNION {{<<arc>> \o rest : rest \in PathsBetween(i + arc.next, j)} :
                arc \in {a \in Range(input.cols[i]) : i + a.next <= j}}
ScoreSum(path) == FoldLeft(LAMBDA s, arc : s + arc.score, 0, path)
WordsOn(path) == LET real == SelectSeq(path, LAMBDA arc : arc.w # Eps)
                 IN  [k \in DOMAIN real |-> real[k].w]
Readings(s) ==
  {path \in PathsBetween(s[1], s[2] + 1) :
     /\ \A k \in 1 .. Len(path) - 1 : ScoreSum(SubSeq(path, 1, k)) > LowestScore
     /\ ~(s[1] > 1 /\ path[1].w = Eps)}
NetEntries(s) ==
  UNION {{[f |-> WordsOn(path), e |-> c.e, p |-> ScoreSum(path) + c.p] : c \in Entries(WordsOn(path))} :
           path \in {q \in Readings(s) : WordsOn(q) # << >>}}

\* What the decoder answers is the table: for every phrase the best entries it
\* has, whether it reads the text, the binary table phrase by phrase, or the
\* paths of a network at once; and a table that was not complete when it was
\* read (the binarizer runs or was killed), or whose first words come back,
\* gives the same answer, none at all, or one with words blank, never another
\* candidate or score.  The decoder dies only of a table that was not complete.
DecoderReadsTable ==
  /\ \A f \in DOMAIN dec.cache :
       \/ dec.cache[f] \in Pruned(FlooredEntries(f))
       \/ ~(WellRead(f) /\ WithinFilter(f))
          /\ dec.cache[f] \in {Blanked(cands) : cands \in Pruned(FlooredEntries(f))} \cup {{}}
  /\ \A s \in DOMAIN dec.range :
       IF WellRead(<< >>)
       THEN \E cands \in OneOfEach(NetEntries(s)) : dec.range[s] \in Pruned(cands)
       ELSE dec.range[s] \subseteq Blanked(NetEntries(s))
  /\ dec.pc = "aborted" => ~dec.clean

\* What the file says of an option, down to its last line.
IsEntry(t, line, o) == line.f = o.f /\ ("e" \in t.cond => line.e = o.e) /\ line.c = << >>
LexEntry(t, o) ==
  LET fit == SelectSeq(t.lines, LAMBDA line : IsEntry(t, line, o))
  IN  IF fit = << >> THEN Nothing ELSE <<FloorLex(Head(fit).s)>>

\* Every option gets the reordering score of its source and target phrase, or
\* none if the table has none, from the text as from the binary table.  Two
\* defects are excepted: from the text, an option gets none for the last line if
\* that has no newline (LexicalReorderingTable.cpp:163); and with the cache in
\* use, a key that was asked before may get none.
ReorderingScoresRead ==
  lex.asked =>
    \A i \in DOMAIN lex.options :
      \/ lex.scores[i] = LexEntry(lex.of, lex.options[i])
      \/ /\ ~lex.of.binary /\ ~lex.of.newline /\ lex.scores[i] = Nothing
         /\ IsEntry(lex.of, Last(lex.of.lines), lex.options[i])
      \/ /\ lex.useCache /\ lex.scores[i] = Nothing
         /\ \E j \in 1 .. i - 1 : /\ lex.options[j].f = lex.options[i].f
                                 /\ "e" \in lex.of.cond => lex.options[j].e = lex.options[i].e
=============================================================================
