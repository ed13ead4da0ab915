--------------------------- MODULE MCHypothesisPath ---------------------------
(****************************************************************************)
(* The derivations of short sentences.                                      *)
(****************************************************************************)
EXTENDS HypothesisPath

MCDistortionLimits == {-1, 0, 1, 2, 3}

\* Every short phrase known, or nothing but single words.
MCOptionSpans == {PhraseSpans, WordSpans}

\* Walls anywhere but behind the last word, where they separate nothing.
MCWallSets == SUBSET (0 .. SourceSize - 2)

MCPunctuationSets == {{}, {0}, {1, 3}}

\* No zone, one zone, or two: apart, nested as tags are, or crossing, which
\* the span attribute allows.
MCZoneSets ==
  {Z \in SUBSET {z \in Spans : z[2] > z[1]} : Cardinality(Z) <= 2}
===============================================================================
