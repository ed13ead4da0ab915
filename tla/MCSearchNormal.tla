---------------------------- MODULE MCSearchNormal ----------------------------
(****************************************************************************)
(* Stack decoding of sentences of four words, with few options and words.  *)
(****************************************************************************)
EXTENDS SearchNormal

MCNegInf == -100000

\* Two target words and the sentence marks.  A sentence likes to begin with
\* one word and to go on with the other, so that reordering may pay.
MCBigram(v, w) ==
  CASE v = "s" /\ w = "a" -> -5
    [] v = "s" /\ w = "b" -> -1
    [] v = "a" /\ w = "b" -> -4
    [] v = "b" /\ w = "a" -> -3
    [] v = "b" /\ w = "b" -> -4
    [] v = "b" /\ w = "end" -> -2
    [] OTHER -> -1

\* One for each open word, and one more for the second.
MCFutureScore(b) ==
  -2 * Cardinality(Gaps(b)) - (IF 1 \in Gaps(b) THEN 1 ELSE 0)

\* <s> is the null state.
MCAddress(w) == CASE w = "s" -> 0 [] w = "a" -> 1 [] w = "b" -> 2 [] OTHER -> 3

\* The reordering table knows "b", which had better not be moved backwards, or at all.
MCLex(words) ==
  [d \in {"Backward", "Forward"} |->
     [o \in Orientations |->
        IF words = <<"b">> /\ (OrientationModel = "directional" <=> o = 0) THEN -1 ELSE 0]]

Opt(s, e, words, score) ==
  [span |-> <<s, e>>, words |-> words, score |-> score, lex |-> MCLex(words)]

\* Two translations for the first word, and a phrase.
MCPhrases(x, y) ==
  <<Opt(0, 0, <<"a">>, -1), Opt(0, 0, <<"b">>, x), Opt(1, 1, <<"b">>, -1),
    Opt(1, 2, <<"a">>, -6), Opt(2, 2, <<"a">>, y), Opt(3, 3, <<"a">>, -1)>>

\* Two for a word in the middle, a phrase of two words, and a dropped word.
MCWords(x, y) ==
  <<Opt(0, 0, <<"a">>, -2), Opt(0, 1, <<"b", "a">>, -3), Opt(1, 1, <<"b">>, x),
    Opt(1, 1, <<"a">>, -2), Opt(2, 2, <<>>, -3), Opt(3, 3, <<"b">>, y)>>

\* Two of the scores vary, so that every stack meets every order of them.
MCOptions ==
  {MCPhrases(x, y) : x, y \in {-3, -1}} \cup {MCWords(x, y) : x, y \in {-3, -1}}

MCConstraints ==
  {FinalizeWalls({}, {}), FinalizeWalls({1}, {}), FinalizeWalls({}, {<<1, 2>>}),
   FinalizeWalls({}, {<<0, 1>>, <<1, 2>>})}

Sentence(d, rc, options, constraint) ==
  [maxDistortion |-> d, rc |-> rc, options |-> options, constraint |-> constraint]

\* The first word has two translations that leave the same language model
\* state and differ in length; only the longer one fits the constraint.
MCConstraintOptions ==
  <<Opt(0, 0, <<"a">>, -1), Opt(0, 0, <<"a", "a">>, -3), Opt(1, 1, <<"b">>, -1),
    Opt(2, 2, <<"a">>, -1), Opt(3, 3, <<"b">>, -1)>>

MCInputs ==
  {Sentence(d, rc, o, <<>>) :
     d \in {0, 1, 2, 3}, rc \in MCConstraints, o \in MCOptions}
  \cup {Sentence(0, FinalizeWalls({}, {}), MCConstraintOptions,
                 <<"a", "a", "b", "a", "b">>)}

Conf(size, diversity, beam, nBest, nBestSize, distinct, limit) ==
  [stackSize |-> size, diversity |-> diversity, beamWidth |-> beam,
   nBest |-> nBest, nBestSize |-> nBestSize, distinct |-> distinct,
   timeLimit |-> limit]

MCConfs ==
  {Conf(1000, 0, -1000, TRUE, 1, TRUE, FALSE),
   Conf(1000, 0, -2, TRUE, 1, FALSE, FALSE),
   Conf(1, 0, -1000, FALSE, 0, FALSE, FALSE),
   Conf(2, 0, -1000, FALSE, 0, FALSE, FALSE),
   Conf(3, 0, -3, TRUE, 1, FALSE, TRUE),
   Conf(1, 1, -1000, FALSE, 0, FALSE, FALSE),
   Conf(1, 2, -2, TRUE, 1, TRUE, FALSE),
   Conf(2, 1, -3, TRUE, 1, FALSE, FALSE)}
===============================================================================
