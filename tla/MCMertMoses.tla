----------------------------- MODULE MCMertMoses -----------------------------
(****************************************************************************)
(* Tuning on three sentences, the second of which has no n-best list.  The  *)
(* decoder's best translation is the one with the highest score, a product  *)
(* of two features with the weights; cmert takes any weights under which    *)
(* the best candidates have the highest quality.                            *)
(****************************************************************************)
EXTENDS MertMoses

MCWeights == {<<1, 0>>, <<0, 1>>, <<1, 1>>}
MCSeed == <<1, 0>>

Translations == {1, 2, 3}

Features(s, h) ==
  CASE h = Empty -> <<0, 0>>
    [] h = 1 -> <<3, 0>>
    [] h = 2 -> IF s = 0 THEN <<2, 2>> ELSE <<0, 3>>
    [] OTHER   -> IF s = 0 THEN <<0, 3>> ELSE <<2, 2>>

Quality(s, h) ==
  CASE h \in {1, Empty} -> 0
    [] h = 2 -> IF s = 0 THEN 2 ELSE 1
    [] OTHER   -> IF s = 0 THEN 1 ELSE 2

Score(w, s, h) == w[1] * Features(s, h)[1] + w[2] * Features(s, h)[2]

BestOf(w, s, H) == CHOOSE h \in H : \A g \in H : Score(w, s, h) >= Score(w, s, g)

MCNBestOf(w, s) == {BestOf(w, s, Translations)}

\* The quality of the candidates that the weights choose, as BLEU.
Bleu(w, P) ==
  LET sentences == {p[1] : p \in {q \in P : q[2] # Empty}}
  IN  MapThenSumSet(LAMBDA s : Quality(s, BestOf(w, s, {p[2] : p \in {q \in P : q[1] = s}})),
                    sentences)

MCOptimal(w, P) == \A v \in MCWeights : Bleu(w, P) >= Bleu(v, P)

MCConfs == {[jobs |-> 2, oldSGE |-> TRUE, efficient |-> FALSE],
            [jobs |-> 2, oldSGE |-> FALSE, efficient |-> TRUE],
            [jobs |-> 1, oldSGE |-> FALSE, efficient |-> FALSE]}
==============================================================================
