------------------------------- MODULE PDTAimp -------------------------------
(****************************************************************************)
(* The phrase table as the decoder reads it: StaticData::LoadPhraseTables   *)
(* takes the binary table if there is one and the text otherwise            *)
(* (PhraseDictionaryMemory); PDTAimp answers from the binary table phrase   *)
(* by phrase for a sentence, and all at once for a confusion network or a   *)
(* word lattice.  The decoder may start while the binarizer runs or after   *)
(* it died: the files are read one by one, and tree nodes when needed.      *)
(****************************************************************************)
EXTENDS PhraseDictionaryTree, LexicalReorderingTable, FiniteSetsExt

CONSTANTS
  TableLimit,    \* candidates kept of a source phrase, 0 for all
  WordPenalty,   \* m_weightWP
  LexTables      \* reordering tables: their columns cond, lines, whether the
                 \* last line ends with a newline, whether they were binarized

ASSUME TableLimitAssumption == TableLimit \in Nat

LowestScore == -100
Eps   == 0       \* EPSILON
Blank == -1      \* the word of an id that the vocabulary has no line for

VARIABLES
  dec,           \* the phrase table in the decoder
  lex            \* the reordering table, and the scores of the options in order

vars == <<binVars, dec, lex>>

NotStarted == [pc |-> "off", kind |-> "none", vo |-> << >>, sv |-> << >>, tv |-> << >>,
               memory |-> << >>, nodes |-> << >>, cache |-> << >>, range |-> << >>,
               clean |-> TRUE]
NotAsked == [asked |-> FALSE]

\* What dec becomes, remembering whether all files it read were of one
\* finished run.
Read(d) == dec' = [d EXCEPT !.clean = @ /\ Complete]
Abort   == dec' = [NotStarted EXCEPT !.pc = "aborted", !.clean = dec.clean /\ Complete]

------------------------------------------------------------------------------
(****************************************************************************)
(* Loading.                                                                 *)
(****************************************************************************)
\* PhraseDictionaryMemory::Load: the candidates of each source phrase.
AddEquivPhrase(collection, line) ==
  (line.f :> Append(IF line.f \in DOMAIN collection THEN collection[line.f] ELSE << >>,
                    [e |-> line.e, p |-> line.p])) @@ collection
Collection ==
  FoldLeft(AddEquivPhrase, << >>, SelectSeq(text, LAMBDA line : line.f # << >>))

Load ==
  /\ dec.pc = "off" /\ (script => dir = "ready")
  /\ \/ "idx" \in opened /\ dec' = [dec EXCEPT !.pc = "idx", !.kind = "binary"]
     \/ "idx" \notin opened /\ input.type = "sentence"
        /\ dec' = [dec EXCEPT !.pc = "ready", !.kind = "memory", !.memory = Collection]
     \/ "idx" \notin opened /\ input.type # "sentence"   \* "Must use binary phrase table"
        /\ dec' = [dec EXCEPT !.pc = "failed"]
  /\ UNCHANGED <<binVars, lex>>

\* The vector cannot be read from an empty file.
ReadIdx ==
  /\ dec.pc = "idx"
  /\ IF idx = << >> THEN Abort ELSE Read([dec EXCEPT !.vo = idx, !.pc = "srcvoc"])
  /\ UNCHANGED <<binVars, lex>>

\* A missing or short vocabulary is read as far as it goes.
ReadSrcVoc == /\ dec.pc = "srcvoc" /\ Read([dec EXCEPT !.sv = srcvoc, !.pc = "tgtvoc"])
              /\ UNCHANGED <<binVars, lex>>
ReadTgtVoc == /\ dec.pc = "tgtvoc" /\ Read([dec EXCEPT !.tv = tgtvoc, !.pc = "ready"])
              /\ UNCHANGED <<binVars, lex>>

------------------------------------------------------------------------------
(****************************************************************************)
(* Reading the files.                                                       *)
(****************************************************************************)
KnownSource(w) == \E i \in DOMAIN dec.sv : dec.sv[i] = w
SourceId(w)    == CHOOSE i \in DOMAIN dec.sv : dec.sv[i] = w

\* The trees as the process sees them: what it has read stays as it was.
Nodes == [o \in (DOMAIN tree) \cup (DOMAIN dec.nodes) |->
            IF o \in DOMAIN dec.nodes THEN dec.nodes[o] ELSE tree[o]]
Roots == [i \in {j \in DOMAIN dec.vo : dec.vo[j] # InvalidOffT} |-> dec.vo[i]]

\* Unknown words end the way.
Pointers(words) ==
  IF \A i \in DOMAIN words : KnownSource(words[i])
  THEN Way(Nodes, Roots, [i \in DOMAIN words |-> SourceId(words[i])])
  ELSE <<NoPointer>>

\* The candidates of a pointer, in the order of the table: words, not ids.
Symbol(i) == IF i \in DOMAIN dec.tv THEN dec.tv[i] ELSE Blank
Symbols(phrase) == [i \in DOMAIN phrase |-> Symbol(phrase[i])]
Converted(cands) == [i \in DOMAIN cands |-> [e |-> Symbols(cands[i].e), p |-> cands[i].p]]
CandidatesAt(p) ==
  LET offset == DataAt(Nodes, p)
  IN  IF offset = InvalidOffT THEN << >> ELSE Converted(tgt[offset])

\* The tree ends before the pointer, the candidates before their offset, or
\* an id is outside the vocabulary: the process aborts.
OutsideVoc(cands) ==
  \E i \in DOMAIN cands : \E j \in DOMAIN cands[i].e : cands[i].e[j] > Max({0} \cup DOMAIN dec.tv)
UnreadableAt(offset) == /\ offset # InvalidOffT
                        /\ offset \notin DOMAIN tgt \/ OutsideVoc(tgt[offset])
Unreadable(p) == p = Aborted \/ UnreadableAt(DataAt(Nodes, p))

------------------------------------------------------------------------------
(****************************************************************************)
(* Scores and the table limit.                                              *)
(****************************************************************************)
FloorScore(p) == IF p < LowestScore THEN LowestScore ELSE p
Total(c)      == c.p - Len(c.e) * WordPenalty

\* nth_element keeps the best ones, any of those that are equal.
Pruned(cands) ==
  IF TableLimit = 0 \/ Cardinality(cands) <= TableLimit THEN {cands}
  ELSE {kept \in kSubset(TableLimit, cands) :
          \A c \in kept, d \in cands \ kept : Total(c) >= Total(d)}

Floored(cands) == {[e |-> c.e, p |-> FloorScore(c.p)] : c \in Range(cands)}

------------------------------------------------------------------------------
(****************************************************************************)
(* A sentence: GetTargetPhraseCollection of each span, through m_cache.     *)
(****************************************************************************)
Size == Len(input.cols)
Spans == {<<i, j>> \in (DOMAIN input.cols) \X (DOMAIN input.cols) : i <= j}
SpansInOrder == FlattenSeq([i \in 1 .. Size |-> [j \in 1 .. Size - i + 1 |-> <<i, i + j - 1>>]])
PhraseAt(span) == SubSeq(InputWords, span[1], span[2])

\* The phrases of the sentence that are still to be looked up, in the order of
\* their spans.
Pending == SelectSeq([i \in DOMAIN SpansInOrder |-> PhraseAt(SpansInOrder[i])],
                     LAMBDA f : f \notin DOMAIN dec.cache)

Keep(f, cands) == [dec EXCEPT !.cache = @ @@ (f :> cands)]

\* In memory the collection itself is asked; the answer is kept here too.
LookupMemory ==
  /\ dec.pc = "ready" /\ dec.kind = "memory" /\ Pending # << >>
  /\ \E cands \in Pruned(Floored(IF Head(Pending) \in DOMAIN dec.memory
                                 THEN dec.memory[Head(Pending)] ELSE << >>)) :
       dec' = Keep(Head(Pending), cands)
  /\ UNCHANGED <<binVars, lex>>

ReadOnTheWay(way) == {p.offset : p \in {q \in Range(way) : IsNode(q)}}
Answer(f, way) ==
  IF Unreadable(Last(way)) THEN Abort
  ELSE \E cands \in Pruned(Floored(CandidatesAt(Last(way)))) :
         Read([Keep(f, cands) EXCEPT
                 !.nodes = [o \in (DOMAIN @) \cup ReadOnTheWay(way) |-> Nodes[o]]])

Lookup ==
  /\ dec.pc = "ready" /\ dec.kind = "binary" /\ input.type = "sentence" /\ Pending # << >>
  /\ Answer(Head(Pending), Pointers(Head(Pending)))
  /\ UNCHANGED <<binVars, lex>>

------------------------------------------------------------------------------
(****************************************************************************)
(* A confusion network or a lattice: CacheSource.  An arc of a column is    *)
(* [w, score, next], next being how many columns it spans.                  *)
(****************************************************************************)
\* The states that follow a path by one arc.
Extensions(path) ==
  {[begin |-> path.begin, end |-> path.end + arc.next, score |-> path.score + arc.score,
    src |-> IF arc.w = Eps THEN path.src ELSE Append(path.src, arc.w)] :
     arc \in {a \in Range(input.cols[path.end]) :
                ~(a.w = Eps /\ path.end = path.begin /\ path.begin > 1)}}

\* The paths that the tree has a node for; only those are followed.
Followed(path) == Last(Pointers(path.src)) # NoPointer
RECURSIVE Explore(_)
Explore(paths) ==
  IF paths = {} THEN {}
  ELSE LET next == {q \in UNION {Extensions(p) : p \in paths} : Followed(q)}
       IN  next \cup Explore({q \in next : q.end <= Size /\ q.score > LowestScore})

Explored == Explore({[begin |-> i, end |-> i, score |-> 0, src |-> << >>] : i \in 1 .. Size})

\* Every target phrase once for a range, with the best total.
OneOfEach(cands) ==
  LET best == {c \in cands : \A d \in cands : d.e = c.e => c.p >= d.p}
  IN  {kept \in SUBSET best : \A c \in best : Cardinality({d \in kept : d.e = c.e}) = 1}
CandidatesOf(paths) ==
  UNION {{[f |-> path.src, e |-> c.e, p |-> path.score + c.p] :
            c \in Range(CandidatesAt(Last(Pointers(path.src))))} : path \in paths}

\* What each range may keep.
RangeChoices(paths) ==
  [s \in Spans |->
     UNION {Pruned(cands) : cands \in OneOfEach(CandidatesOf(
              {path \in paths : path.begin = s[1] /\ path.end = s[2] + 1}))}]
KeepRanges(choices) ==
  \E kept \in [Spans -> UNION Range(choices)] :
    /\ \A s \in Spans : kept[s] \in choices[s]
    /\ Read([dec EXCEPT !.range = kept])

CacheSource ==
  /\ dec.pc = "ready" /\ input.type # "sentence" /\ dec.range = << >>
  /\ IF \E path \in Explored : Unreadable(Last(Pointers(path.src))) THEN Abort
     ELSE KeepRanges(RangeChoices(Explored))
  /\ UNCHANGED <<binVars, lex>>

------------------------------------------------------------------------------
(****************************************************************************)
(* The reordering scores of the options, span by span, once the options of  *)
(* the sentence are there; and what ends the sentence.                      *)
(****************************************************************************)
OptionsReady ==
  dec.pc = "ready" /\ IF input.type = "sentence" THEN Pending = << >> ELSE dec.range # << >>

OptionsOf(span) ==
  IF dec.range # << >> THEN {[f |-> c.f, e |-> c.e] : c \in dec.range[span]}
  ELSE {[f |-> PhraseAt(span), e |-> c.e] : c \in dec.cache[PhraseAt(span)]}
Options == FlattenSeq([i \in DOMAIN SpansInOrder |-> SetToSeq(OptionsOf(SpansInOrder[i]))])

Built == [t \in LexTables |-> [binary |-> Create(t.cond, t.lines),
                               memory |-> LoadFromFile(t.cond, t.lines, t.newline)]]
ReorderingScores(t, built, useCache, options) ==
  IF t.binary /\ built.binary.ok THEN Queries(t.cond, built.binary, useCache, options).scores
  ELSE [i \in DOMAIN options |->
          MemoryScore(t.cond, built.memory, options[i].f, options[i].e, << >>)]

\* m_UseCache has no value until a sentence switches it off.
CacheLexReordering ==
  /\ OptionsReady /\ ~lex.asked
  /\ \E t \in LexTables, useCache \in BOOLEAN :
       /\ useCache => t.binary /\ input.type # "sentence"
       /\ lex' = [asked |-> TRUE, of |-> t, useCache |-> useCache, options |-> Options,
                  scores |-> ReorderingScores(t, Built[t], useCache, Options)]
  /\ UNCHANGED <<binVars, dec>>

CleanUp ==
  /\ OptionsReady
  /\ dec' = [dec EXCEPT !.cache = << >>, !.range = << >>, !.nodes = << >>]
  /\ lex' = NotAsked
  /\ UNCHANGED binVars

------------------------------------------------------------------------------
Init == BinInit /\ dec = NotStarted /\ lex = NotAsked

Decode == Load \/ ReadIdx \/ ReadSrcVoc \/ ReadTgtVoc \/ CacheSource
          \/ CacheLexReordering \/ CleanUp
          \/ Lookup \/ LookupMemory

Next == \/ BinNext /\ UNCHANGED <<dec, lex>>
        \/ Decode

Spec == Init /\ [][Next]_vars
=============================================================================
