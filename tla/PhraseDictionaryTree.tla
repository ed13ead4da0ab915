------------------------ MODULE PhraseDictionaryTree ------------------------
(****************************************************************************)
(* How a binary phrase table comes to be: PhraseDictionaryTree::Create, run *)
(* by processPhraseTable, which is run by hand or by the script that        *)
(* filters and binarizes a model for an input                               *)
(* (filter-and-binarize-model-given-input.pl).  The binary table is five    *)
(* files, written one after the other: the trees of the source phrases, the *)
(* candidates, the offset of the tree of each first word (idx), and the two *)
(* vocabularies.                                                            *)
(*                                                                          *)
(* Words are numbers; a line of the text is a source phrase f, a target     *)
(* phrase e and a score p, whose value is its logarithm, ZeroProb standing  *)
(* for a probability of 0.  A line holds one score, and no word alignment.  *)
(****************************************************************************)
EXTENDS PrefixTree, TLC

CONSTANTS
  Tables,        \* the texts to check, sequences of lines
  Inputs,        \* the inputs to check
  MaxLength      \* $MAX_LENGTH of the script, in words

None == "none"
ZeroProb == -200   \* log 0
TinyProb == -88    \* log 1.0e-38
EndOfPhrase == 99  \* "|", which sorts behind the characters of words

VARIABLES
  table,         \* the phrase table
  input,
  script,        \* the table is filtered and binarized by the script
  dir,           \* the directory of the script: None, "partial", or "ready"
  text,          \* the text that is binarized, as the decoder finds it
  tree, tgt,     \* .binphr.srctree and .binphr.tgtdata
  idx,           \* .binphr.idx, empty while it is being written
  srcvoc, tgtvoc,\* the files of words
  opened,        \* which of "srctree" (and "tgtdata") and "idx" exist
  bin            \* the state of processPhraseTable

binVars == <<table, input, script, dir, text, tree, tgt, idx, srcvoc, tgtvoc, opened, bin>>

------------------------------------------------------------------------------
(****************************************************************************)
(* Vocabularies: ids are positions in a sequence of words.                  *)
(****************************************************************************)
AddWords(voc, phrase) ==
  FoldLeft(LAMBDA v, w : IF Contains(v, w) THEN v ELSE Append(v, w), voc, phrase)
IndexOf(voc, w) == CHOOSE i \in DOMAIN voc : voc[i] = w
Ids(voc, phrase) == [i \in DOMAIN phrase |-> IndexOf(voc, phrase[i])]

------------------------------------------------------------------------------
(****************************************************************************)
(* The script.                                                              *)
(****************************************************************************)
InputWords == [i \in DOMAIN input.cols |-> input.cols[i][1].w]

\* %PHRASE_USED.
PhrasesUsed ==
  {SubSeq(InputWords, i, j) : <<i, j>> \in
     {ij \in (DOMAIN InputWords) \X (DOMAIN InputWords) :
        ij[1] <= ij[2] /\ ij[2] - ij[1] < MaxLength}}

\* LC_ALL=C sort.
Precedes(f, g) ==
  LET a == Append(f, EndOfPhrase)
      b == Append(g, EndOfPhrase)
  IN  \E i \in (DOMAIN a) \cap (DOMAIN b) : a[i] < b[i] /\ \A j \in 1 .. i - 1 : a[j] = b[j]

Filtered == SelectSeq(table, LAMBDA line : line.f \in PhrasesUsed)
Sorted(lines) == SortSeq(lines, LAMBDA x, y : Precedes(x.f, y.f))

Idle == [pc |-> "idle", lines |-> << >>, sv |-> << >>, tv |-> << >>, psa |-> EmptyTree,
         currFirstWord |-> 0, currF |-> << >>, tgtCands |-> << >>, vo |-> << >>,
         queue |-> << >>, words |-> << >>]

BinInit ==
  /\ table \in Tables /\ input \in Inputs /\ script \in BOOLEAN
  /\ dir = None /\ text = IF script THEN << >> ELSE table
  /\ tree = << >> /\ tgt = << >> /\ idx = << >> /\ srcvoc = << >> /\ tgtvoc = << >>
  /\ opened = {} /\ bin = Idle

\* The script refuses a directory that has no info, and reuses one that has.
Filter ==
  /\ script /\ dir = None /\ input.type = "sentence"
  /\ dir' = "partial" /\ text' = Filtered
  /\ bin' = [bin EXCEPT !.pc = "filtered"]
  /\ UNCHANGED <<table, input, script, tree, tgt, idx, srcvoc, tgtvoc, opened>>

\* The exit status of the binarizer is not looked at.
WriteInfo ==
  /\ script /\ dir = "partial" /\ bin.pc \in {"done", "killed"}
  /\ dir' = "ready"
  /\ UNCHANGED <<table, input, script, text, tree, tgt, idx, srcvoc, tgtvoc, opened, bin>>

------------------------------------------------------------------------------
(****************************************************************************)
(* Create.                                                                  *)
(****************************************************************************)
OpenFiles ==
  /\ IF script THEN bin.pc = "filtered" ELSE bin.pc \in {"idle", "done", "killed"}
  /\ bin' = [Idle EXCEPT !.pc = "lines", !.lines = IF script THEN Sorted(text) ELSE text]
  /\ tree' = << >> /\ tgt' = << >> /\ opened' = opened \cup {"srctree"}
  /\ UNCHANGED <<table, input, script, dir, text, idx, srcvoc, tgtvoc>>

\* Of a probability that is not positive.
BinaryScore(p) == IF p = ZeroProb THEN TinyProb ELSE p

\* The tree of the first word is about to be written, at the end of its file.
StartTree(b) ==
  [b EXCEPT !.vo = [w \in 1 .. (IF b.currFirstWord > Len(@) THEN b.currFirstWord ELSE Len(@)) |->
                      IF w = b.currFirstWord THEN Len(tree) + 1
                      ELSE IF w \in DOMAIN @ THEN @[w] ELSE InvalidOffT],
            !.queue = FirstWaiting]

Dead == [Idle EXCEPT !.pc = "killed"]

ReadEmptySource ==
  /\ bin.pc = "lines" /\ bin.lines # << >> /\ Head(bin.lines).f = << >>
  /\ bin' = [bin EXCEPT !.lines = Tail(@), !.tv = AddWords(@, Head(bin.lines).e)]
  /\ UNCHANGED <<table, input, script, dir, text, tree, tgt, idx, srcvoc, tgtvoc, opened>>

\* A line with a new source phrase, once the candidates of the last one, and
\* the tree of the last first word if it changes, are written.
InsertPhrase(b, f, candidates) ==
  LET psa == Insert(b.psa, f)
  IN  IF psa[f] # InvalidOffT THEN [b EXCEPT !.pc = "killed"]   \* already inserted: abort
      ELSE [b EXCEPT !.psa = [psa EXCEPT ![f] = Len(candidates) + 1], !.currF = f]

\* push_back, behind the words of the line.
TakeLine(b, line, sv, tv) ==
  IF b.pc = "killed" THEN Dead
  ELSE [b EXCEPT !.pc = "lines", !.lines = Tail(@), !.sv = sv, !.tv = tv,
                 !.tgtCands = Append(@, [e |-> Ids(tv, line.e), p |-> BinaryScore(line.p)])]

ReadLine ==
  /\ bin.pc = "lines" /\ bin.lines # << >> /\ Head(bin.lines).f # << >>
  /\ LET line == Head(bin.lines)
         sv   == AddWords(bin.sv, line.f)
         tv   == AddWords(bin.tv, line.e)
         f    == Ids(sv, line.f)
         written == Append(tgt, bin.tgtCands)
     IN  \/ /\ bin.currF = << >>                                 \* the first phrase
            /\ bin' = TakeLine(InsertPhrase([bin EXCEPT !.currFirstWord = f[1]], f, tgt), line, sv, tv)
            /\ UNCHANGED tgt
         \/ /\ bin.currF = f                                     \* the same phrase
            /\ bin' = TakeLine(bin, line, sv, tv)
            /\ UNCHANGED tgt
         \/ /\ bin.currF # << >> /\ bin.currF # f /\ f[1] = bin.currFirstWord
            /\ tgt' = written
            /\ bin' = TakeLine(InsertPhrase([bin EXCEPT !.tgtCands = << >>], f, written), line, sv, tv)
         \/ /\ bin.currF # << >> /\ f[1] # bin.currFirstWord     \* a new first word
            /\ IF bin.queue = << >> /\ bin.psa # EmptyTree
               THEN /\ tgt' = written
                    /\ bin' = [StartTree(bin) EXCEPT !.pc = "tree", !.tgtCands = << >>]
               ELSE /\ UNCHANGED tgt
                    /\ bin' = TakeLine(InsertPhrase([bin EXCEPT !.currFirstWord = f[1]], f, tgt),
                                       line, sv, tv)
  /\ UNCHANGED <<table, input, script, dir, text, tree, idx, srcvoc, tgtvoc, opened>>

\* With no phrase at all, currFirstWord + 1 wraps around to 0 and vo is written
\* far behind its end.
LastTree ==
  /\ bin.pc = "lines" /\ bin.lines = << >>
  /\ tgt' = Append(tgt, bin.tgtCands)
  /\ bin' = IF bin.currF = << >> THEN Dead
            ELSE [StartTree(bin) EXCEPT !.pc = "tree", !.tgtCands = << >>]
  /\ UNCHANGED <<table, input, script, dir, text, tree, idx, srcvoc, tgtvoc, opened>>

WriteTree ==
  /\ bin.pc = "tree"
  /\ LET step == WriteNode(bin.psa, tree, bin.queue)
     IN  /\ tree' = step.file
         /\ bin' = IF step.queue # << >> THEN [bin EXCEPT !.queue = step.queue]
                   ELSE [bin EXCEPT !.queue = << >>, !.psa = EmptyTree,
                                    !.pc = IF bin.lines = << >> THEN "idx" ELSE "lines"]
  /\ UNCHANGED <<table, input, script, dir, text, tgt, idx, srcvoc, tgtvoc, opened>>

OpenIdx ==
  /\ bin.pc = "idx"
  /\ idx' = << >> /\ opened' = opened \cup {"idx"} /\ bin' = [bin EXCEPT !.pc = "closeidx"]
  /\ UNCHANGED <<table, input, script, dir, text, tree, tgt, srcvoc, tgtvoc>>

CloseIdx ==
  /\ bin.pc = "closeidx"
  /\ idx' = bin.vo /\ bin' = [bin EXCEPT !.pc = "srcvoc"]
  /\ UNCHANGED <<table, input, script, dir, text, tree, tgt, srcvoc, tgtvoc, opened>>

\* LVoc::Write, from the last word to the first: the file as it grows.
OpenVoc(pc, nextPc, file, voc) ==
  /\ bin.pc = pc
  /\ file' = << >> /\ bin' = [bin EXCEPT !.words = voc, !.pc = nextPc]
WriteWord(pc, nextPc, file) ==
  /\ bin.pc = pc
  /\ IF bin.words = << >>
     THEN UNCHANGED file /\ bin' = [bin EXCEPT !.pc = nextPc]
     ELSE /\ file' = file @@ (Len(bin.words) :> Last(bin.words))
          /\ bin' = [bin EXCEPT !.words = Front(@)]

WriteSrcVoc == /\ \/ OpenVoc("srcvoc", "srcwords", srcvoc, bin.sv)
                  \/ WriteWord("srcwords", "tgtvoc", srcvoc)
               /\ UNCHANGED <<table, input, script, dir, text, tree, tgt, idx, tgtvoc, opened>>
WriteTgtVoc == /\ \/ OpenVoc("tgtvoc", "tgtwords", tgtvoc, bin.tv)
                  \/ WriteWord("tgtwords", "done", tgtvoc)
               /\ UNCHANGED <<table, input, script, dir, text, tree, tgt, idx, srcvoc, opened>>

\* The binarizer dies, and what it has written stays.
Killed ==
  /\ bin.pc \notin {"idle", "done", "killed"}
  /\ bin' = Dead
  /\ UNCHANGED <<table, input, script, dir, text, tree, tgt, idx, srcvoc, tgtvoc, opened>>

Binarize ==
  OpenFiles \/ ReadEmptySource \/ ReadLine \/ LastTree \/ WriteTree \/ OpenIdx \/ CloseIdx
  \/ WriteSrcVoc \/ WriteTgtVoc

BinNext == Filter \/ WriteInfo \/ Binarize \/ Killed

\* All five files are of one finished run.
Complete == bin.pc = "done"
=============================================================================
