----------------------------- MODULE MCTraining -----------------------------
(****************************************************************************)
(* Corpora of two sentences: a first one of three source and two target     *)
(* words with every pair of alignments, under every kind of symmetrization; *)
(* and a few of three words on both sides, trained with file limit,         *)
(* reordering and interruptions.                                            *)
(****************************************************************************)
EXTENDS Training

Options(alignment, diagonal, final, both) ==
  [alignment |-> alignment, diagonal |-> diagonal, final |-> final, both |-> both]

GrowDiagFinalAnd == Options("grow", TRUE, TRUE, TRUE)

Union == Options("union", FALSE, FALSE, FALSE)

MCOptions == {Options("grow", FALSE, FALSE, FALSE), Options("grow", TRUE, FALSE, FALSE),
              Options("grow", FALSE, TRUE, FALSE), Options("grow", TRUE, TRUE, FALSE),
              GrowDiagFinalAnd, Options("intersect", FALSE, FALSE, FALSE),
              Union, Options("srctotgt", FALSE, FALSE, FALSE), Options("tgttosrc", FALSE, FALSE, FALSE)}

\* Links from an alignment vector.
LinkSet(v) == {<<k, v[k]>> : k \in {k \in DOMAIN v : v[k] # 0}}

Sentence(f, e, a, b) ==
  [f |-> f, e |-> e,
   giza |-> [mismatch |-> FALSE, m |-> Len(f), n |-> Len(e),
             direct |-> LinkSet(a), inverse |-> LinkSet(b)]]

Mismatched(f, e) ==
  [f |-> f, e |-> e,
   giza |-> [mismatch |-> TRUE, m |-> Len(f), n |-> Len(e), direct |-> {}, inverse |-> {}]]

Second == Sentence(<<9, 1>>, <<1, 9>>, <<2, 1>>, <<2, 1>>)

SmallCorpora ==
  {<<Sentence(<<1, 9, 1>>, <<1, 9>>, a, b), Second>> :
     a \in [1 .. 3 -> 0 .. 2], b \in [1 .. 2 -> 0 .. 3]}

\* Growing has further to go in three by three words.
LargeCorpora ==
  {<<Sentence(<<1, 9, 1>>, <<1, 1, 9>>, a, b), Sentence(<<1, 9>>, <<1, 9>>, <<1, 2>>, <<1, 2>>)>> :
     a \in {<<1, 2, 3>>, <<3, 1, 2>>, <<1, 1, 3>>, <<2, 0, 2>>},
     b \in {<<1, 2, 3>>, <<2, 3, 1>>, <<0, 1, 1>>, <<3, 0, 2>>}}

\* The same words under different alignments.
Aligned(k) == CASE k = 1 -> Sentence(<<1, 9>>, <<1, 9>>, <<1, 2>>, <<1, 2>>)
                [] k = 2 -> Sentence(<<1, 9>>, <<1, 9>>, <<1, 1>>, <<1, 1>>)
                [] k = 3 -> Sentence(<<1, 9>>, <<1, 9>>, <<2, 2>>, <<2, 1>>)
RepeatedCorpora == {<<Aligned(k[1]), Aligned(k[2]), Aligned(k[3])>> :
                      k \in {1, 2, 3} \X {1, 2, 3} \X {1, 2, 3}}

\* Two links that union writes in either order, and one of them alone.
Ordered(k) == CASE k = 1 -> Sentence(<<1, 9>>, <<1>>, <<1, 1>>, <<1>>)
                [] k = 2 -> Sentence(<<1, 9>>, <<1>>, <<0, 1>>, <<1>>)
                [] k = 3 -> Sentence(<<1, 9>>, <<1>>, <<1, 0>>, <<1>>)
OrderedCorpora == {<<Ordered(k[1]), Ordered(k[2]), Ordered(k[3])>> :
                     k \in {1, 2, 3} \X {1, 2, 3} \X {1, 2, 3}}

OddCorpus == <<Mismatched(<<1, 9>>, <<9>>), Sentence(<<>>, <<1>>, <<>>, <<0>>), Second>>

Conf(corpus, options, fileLimit, reordering, again) ==
  [corpus |-> corpus, options |-> options, fileLimit |-> fileLimit,
   reordering |-> reordering, restarts |-> again]

MCConfs ==
  {Conf(c, o, FALSE, FALSE, 0) : c \in SmallCorpora, o \in MCOptions}
    \cup {Conf(c, o, l, TRUE, 0) : c \in LargeCorpora, o \in MCOptions, l \in BOOLEAN}
    \cup {Conf(c, o, TRUE, TRUE, 0) : c \in RepeatedCorpora, o \in MCOptions}
    \cup {Conf(c, Union, FALSE, TRUE, 0) : c \in OrderedCorpora}
    \cup {Conf(OddCorpus, Union, FALSE, TRUE, 0)}
    \cup {Conf(c, GrowDiagFinalAnd, TRUE, TRUE, 1) : c \in LargeCorpora}
    \cup {Conf(<<Second>>, GrowDiagFinalAnd, l, TRUE, 2) : l \in BOOLEAN}
=============================================================================
