------------------------------- MODULE MCNBest -------------------------------
(****************************************************************************)
(* N-best lists of sentences of four words.                                 *)
(****************************************************************************)
EXTENDS IOWrapper, MCSearchNormal

\* Two translations for the first and the last word, and a phrase that says
\* the same as two words, so that two paths have one surface; a shorter one
\* recombines with longer ones, so that words move when it is taken.
MCNBestOptions(x, y) ==
  <<Opt(0, 0, <<"a">>, -1), Opt(0, 0, <<"b">>, x), Opt(0, 1, <<"a", "b">>, -4),
    Opt(0, 1, <<"b">>, -6),
    Opt(1, 1, <<"b">>, -1), Opt(2, 2, <<"a">>, y), Opt(2, 3, <<"a">>, -4),
    Opt(3, 3, <<"a">>, -1), Opt(3, 3, <<"b">>, y)>>

MCNBestInputs ==
  {Sentence(d, FinalizeWalls({}, {}), MCNBestOptions(x, y), <<>>) :
     d \in {0, 2}, x \in {-3, -1}, y \in {-3, -1}}
  \cup {Sentence(1, FinalizeWalls({}, {}), MCWords(x, y), <<>>) :
     x \in {-3, -1}, y \in {-3, -1}}

NBestConf(size, beam, n, keepArcs, onlyDistinct, factor, scale) ==
  [stackSize |-> size, diversity |-> 0, beamWidth |-> beam, nBest |-> TRUE,
   nBestSize |-> n, distinct |-> keepArcs, timeLimit |-> FALSE,
   onlyDistinct |-> onlyDistinct, nBestFactor |-> factor, mbrScale |-> scale]

MCNBestConfs ==
  {NBestConf(1000, -1000, 2, FALSE, FALSE, 20, 1),
   NBestConf(1000, -1000, 5, TRUE, FALSE, 0, 1),
   NBestConf(1000, -1000, 5, TRUE, TRUE, 2, 0),
   NBestConf(1000, -1000, 4, TRUE, TRUE, 0, 1),
   NBestConf(3, -6, 3, FALSE, FALSE, 20, 1)}

\* The words of a phrase are linked one by one, from the last one if there are
\* two for two; a second word that has none opposite is without link.  The
\* translation "a" of the third word is from markup.
MCColumns(span, words) ==
  LET n == span[2] - span[1] + 1
      m == Len(words)
      Opposite(i) == IF n = 2 /\ m = 2 THEN 3 - i ELSE i
      Column(from, to) == [i \in 1 .. from |-> {Opposite(i) - 1} \cap (0 .. to - 1)]
  IN  IF span = <<2, 2>> /\ words = <<"a">> THEN [source |-> <<>>, target |-> <<>>]
      ELSE [source |-> Column(n, m), target |-> Column(m, n)]

\* Precisions of one word and, smoothed, of two, and the brevity penalty.
MCBleu(comps) ==
  (100 * comps.right[1] * (comps.right[2] + 1) * Min({comps.all[1], comps.ref}))
    \div (comps.all[1] * (comps.all[2] + 1) * comps.ref)

\* Powers of 3/2 times 3^13.  At the scale 0 all translations are equally likely.
MCPosterior(score) == IF score < -13 THEN 0 ELSE 3 ^ (13 + score) * 2 ^ (-score)
==============================================================================
