-------------------------- MODULE MCSearchCubePruning --------------------------
(****************************************************************************)
(* Cube pruning of sentences of four words, with few options and words.     *)
(****************************************************************************)
EXTENDS SearchCubePruning

MCNegInf == -100000

\* Two target words and the sentence marks.  The order of the scores depends
\* on the word before, so that a grid is not monotone; equal scores are rare
\* in the sentences that are uneven, and common in the others.
MCBigram(v, w) ==
  CASE v = "s" /\ w = "a" -> -19
    [] v = "s" /\ w = "b" -> -5
    [] v = "a" /\ w = "b" -> -15
    [] v = "b" /\ w = "a" -> -11
    [] v = "b" /\ w = "b" -> -16
    [] v = "b" /\ w = "end" -> -7
    [] OTHER -> -4

\* Eight for each open word, and three more for the second.
MCFutureScore(b) ==
  -8 * Cardinality(Gaps(b)) - (IF 1 \in Gaps(b) THEN 3 ELSE 0)

MCAddress(w) == CASE w = "s" -> 0 [] w = "a" -> 1 [] w = "b" -> 2 [] OTHER -> 3

\* The reordering table knows "b", which had better not be moved backwards, or at all.
MCLex(words) ==
  [d \in {"Backward", "Forward"} |->
     [o \in Orientations |->
        IF words = <<"b">> /\ (OrientationModel = "directional" <=> o = 0) THEN -3 ELSE 0]]

Opt(s, e, words, score) ==
  [span |-> <<s, e>>, words |-> words, score |-> score, lex |-> MCLex(words)]

\* Two translations for the first word, three for the second, and a phrase.
MCPhrases(x, y) ==
  <<Opt(0, 0, <<"a">>, -3), Opt(0, 0, <<"b">>, x),
    Opt(1, 1, <<"b">>, -4), Opt(1, 1, <<"a">>, -7), Opt(1, 1, <<"a", "b">>, -9),
    Opt(1, 2, <<"a">>, -23), Opt(2, 2, <<"a">>, y), Opt(3, 3, <<"a">>, -2)>>

\* Two for a word in the middle, a phrase of two words, and a dropped word.
MCWords(x, y) ==
  <<Opt(0, 0, <<"a">>, -8), Opt(0, 1, <<"b", "a">>, -12), Opt(1, 1, <<"b">>, x),
    Opt(1, 1, <<"a">>, -12), Opt(2, 2, <<>>, -12), Opt(3, 3, <<"b">>, y)>>

MCOptions ==
  {MCPhrases(x, y) : x, y \in {-5, -11}} \cup {MCWords(x, y) : x, y \in {-4, -12}}

MCConstraints ==
  {FinalizeWalls({}, {}), FinalizeWalls({1}, {}), FinalizeWalls({}, {<<1, 2>>})}

MCInputs ==
  {[maxDistortion |-> d, rc |-> rc, options |-> o, constraint |-> <<>>] :
     d \in {-1, 0, 1, 2}, rc \in MCConstraints, o \in MCOptions}

Conf(size, beam, nBest, nBestSize, distinct, limit, popLimit, minPerCoverage) ==
  [stackSize |-> size, beamWidth |-> beam, nBest |-> nBest,
   nBestSize |-> nBestSize, distinct |-> distinct, timeLimit |-> limit,
   popLimit |-> popLimit, minPerCoverage |-> minPerCoverage]

\* With neither pruning nor a limit the orders of equal scores multiply: one
\* sentence is enough.
MCFree(i) == i.maxDistortion # -1 \/ i.options = MCWords(-4, -12)

MCConfs(i) ==
  {Conf(2, -1000, TRUE, 1, FALSE, FALSE, 4, 0),
   Conf(1, -12, FALSE, 0, FALSE, TRUE, 3, 0),
   Conf(2, -12, TRUE, 1, TRUE, FALSE, 1, 2),
   Conf(1, -1000, TRUE, 1, FALSE, FALSE, 2, 1)}
  \cup (IF MCFree(i) THEN {Conf(1000, -1000, FALSE, 0, FALSE, FALSE, 1000, 0)} ELSE {})
================================================================================
