----------------------- MODULE LexicalReorderingTable -----------------------
(****************************************************************************)
(* The lexical reordering table: the text read into memory                  *)
(* (LexicalReorderingTableMemory), or binarized into prefix trees by        *)
(* processLexicalTable and read with or without a cache                     *)
(* (LexicalReorderingTableTree, PrefixTreeMap).                             *)
(*                                                                          *)
(* A line is a source phrase f, a target phrase e, a context c, and a score *)
(* s, the logarithm of the probability (one score per line); cond says      *)
(* which of f, e and c are columns of the table: {"f"}, {"f", "e"} or all.  *)
(* A Score is a sequence of one score, or the empty one where nothing is    *)
(* found.                                                                   *)
(****************************************************************************)
EXTENDS PrefixTree, TLC

Nothing  == << >>
LexFloor == -100          \* LOWEST_SCORE
MagicWord == 99           \* between f and e in a key, above all ids
InvalidId == 100
FloorLex(s) == IF s < LexFloor THEN LexFloor ELSE s

\* The shorter and shorter contexts that are tried.
Contexts(c) == [j \in 1 .. Len(c) + 1 |-> SubSeq(c, j, Len(c))]
FirstFound(c, found(_)) ==
  LET hits == SelectSeq(Contexts(c), LAMBDA sub : found(sub) # Nothing)
  IN  IF hits = << >> THEN Nothing ELSE found(Head(hits))

------------------------------------------------------------------------------
(****************************************************************************)
(* In memory.                                                               *)
(****************************************************************************)
MakeKey(cond, f, e, c) ==
  <<f, IF "e" \in cond THEN e ELSE << >>, IF "c" \in cond THEN c ELSE << >> >>

\* A last line without a newline is not read.
LoadFromFile(cond, lines, newline) ==
  FoldLeft(LAMBDA t, line : (MakeKey(cond, line.f, line.e, line.c) :> <<FloorLex(line.s)>>) @@ t,
           << >>, IF newline THEN lines ELSE Front(lines))

MemoryScore(cond, memory, f, e, c) ==
  LET found(sub) == LET key == MakeKey(cond, f, e, sub)
                    IN  IF key \in DOMAIN memory THEN memory[key] ELSE Nothing
  IN  FirstFound(c, found)

------------------------------------------------------------------------------
(****************************************************************************)
(* Binarizing.  Vocabularies are sequences of words, ids positions in them. *)
(****************************************************************************)
LexAdd(voc, phrase) ==
  FoldLeft(LAMBDA v, w : IF Contains(v, w) THEN v ELSE Append(v, w), voc, phrase)
LexId(voc, w) == IF Contains(voc, w) THEN CHOOSE i \in DOMAIN voc : voc[i] = w ELSE InvalidId
ConvertPhrase(voc, phrase) == [i \in DOMAIN phrase |-> LexId(voc, phrase[i])]

TableKey(cond, voc0, voc1, f, e) ==
  ConvertPhrase(voc0, f) \o
  (IF "e" \in cond THEN <<MagicWord>> \o ConvertPhrase(voc1, e) ELSE << >>)

Created == [ok |-> TRUE, voc0 |-> << >>, voc1 |-> << >>, psa |-> EmptyTree, first |-> 0,
            key |-> << >>, cands |-> << >>, vo |-> << >>, tree |-> << >>, tgt |-> << >>]

RECURSIVE WriteAll(_, _, _)
WriteAll(psa, file, queue) ==
  IF queue = << >> THEN file
  ELSE LET step == WriteNode(psa, file, queue) IN WriteAll(psa, step.file, step.queue)

\* The tree of the current first word goes to the end of its file.
FlushTree(b) ==
  [b EXCEPT !.vo   = (b.first :> Len(b.tree) + 1) @@ @,
            !.tree = WriteAll(b.psa, @, FirstWaiting),
            !.psa  = EmptyTree]
\* Mutant: the candidates are not cleared after they were written.
FlushCands_NotCleared(b) == [b EXCEPT !.tgt = Append(@, b.cands)]
FlushCands(b) == [b EXCEPT !.tgt = Append(@, b.cands), !.cands = << >>]

\* A key that is in the tree already ends the conversion.
InsertKey(b, key) ==
  LET psa == Insert(b.psa, key)
  IN  [b EXCEPT !.key = key, !.first = key[1],
                !.ok  = psa[key] = InvalidOffT,
                !.psa = [psa EXCEPT ![key] = Len(b.tgt) + 1]]

AddCand(b, cand) == IF b.ok THEN [b EXCEPT !.cands = Append(@, cand)] ELSE b

TakeKey(b, key, cand) ==
  IF key = << >> THEN b                                        \* the line is skipped
  ELSE AddCand(IF b.key = key THEN b
               ELSE IF b.key = << >> THEN InsertKey(b, key)
               ELSE IF key[1] = b.first THEN InsertKey(FlushCands(b), key)
               ELSE InsertKey(FlushTree(FlushCands(b)), key), cand)

Columns(cond, line) == [line EXCEPT !.e = IF "e" \in cond THEN @ ELSE << >>,
                                    !.c = IF "c" \in cond THEN @ ELSE << >>]
TakeWords(b, line) == [b EXCEPT !.voc0 = LexAdd(@, line.f), !.voc1 = LexAdd(@, line.e \o line.c)]
TakeLexLine(cond, b, line) ==
  TakeKey(b, TableKey(cond, b.voc0, b.voc1, line.f, line.e),
          [c |-> ConvertPhrase(b.voc1, line.c), s |-> FloorLex(line.s)])

CreateLine(cond, b, line) == IF b.ok THEN TakeLexLine(cond, TakeWords(b, line), line) ELSE b

\* ok tells whether there is a binary table (an idx): it is written last.
Create(cond, lines) ==
  LET b == FoldLeft(LAMBDA built, line : CreateLine(cond, built, Columns(cond, line)),
                    Created, lines)
  IN  IF b.ok THEN FlushTree(FlushCands(b)) ELSE b

------------------------------------------------------------------------------
(****************************************************************************)
(* Reading the binary table.                                                *)
(****************************************************************************)
GetCandidates(table, key) ==
  LET offset == DataAt(table.tree, Last(Way(table.tree, table.vo, key)))
  IN  IF offset = InvalidOffT THEN << >> ELSE table.tgt[offset]

ScoreForContext(cond, table, cands, c) ==
  IF "c" \notin cond THEN IF Len(cands) = 1 THEN <<cands[1].s>> ELSE Nothing
  ELSE LET found(sub) == LET fit == SelectSeq(cands, LAMBDA cand : cand.c = sub)
                         IN  IF fit = << >> THEN Nothing ELSE <<Head(fit).s>>
       IN  FirstFound(ConvertPhrase(table.voc1, c), found)

\* One query: the score, and the cache after it.  With the cache in use an
\* empty list is entered before the table is read; it is replaced only where
\* the condition has a context.
Found(cond, table, cands, c) ==
  IF cands = << >> THEN Nothing
  ELSE IF "c" \in cond THEN ScoreForContext(cond, table, cands, c) ELSE <<Head(cands).s>>

ScoreOfKey(cond, table, useCache, cache, key, c) ==
  IF key \in DOMAIN cache
  THEN [score |-> ScoreForContext(cond, table, cache[key], c), cache |-> cache]
  ELSE LET cands == GetCandidates(table, TableKey(cond, table.voc0, table.voc1, key[1], key[2]))
       IN  [score |-> Found(cond, table, cands, c),
            cache |-> IF useCache
                      THEN (key :> IF "c" \in cond THEN cands ELSE << >>) @@ cache
                      ELSE cache]

TreeScore(cond, table, useCache, cache, f, e, c) ==
  IF f = << >> \/ ("e" \in cond /\ e = << >>) THEN [score |-> Nothing, cache |-> cache]
  ELSE ScoreOfKey(cond, table, useCache, cache, <<f, IF "e" \in cond THEN e ELSE << >> >>, c)

------------------------------------------------------------------------------
(****************************************************************************)
(* CacheLexReordering: the scores of the options, one after the other and   *)
(* with an empty context (GetProb).                                         *)
(****************************************************************************)
Queries(cond, table, useCache, options) ==
  FoldLeft(LAMBDA acc, o :
             LET r == TreeScore(cond, table, useCache, acc.cache, o.f, o.e, << >>)
             IN  [cache |-> r.cache, scores |-> Append(acc.scores, r.score)],
           [cache |-> << >>, scores |-> << >>], options)
=============================================================================
