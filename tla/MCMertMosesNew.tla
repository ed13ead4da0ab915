--------------------------- MODULE MCMertMosesNew ----------------------------
(****************************************************************************)
(* Two sentences with three translations each, and models with one or two   *)
(* weights of a kind.                                                       *)
(****************************************************************************)
EXTENDS MertMosesNew

MCMinInt == <<1, 20>>
MCFar == Whole(8)
MCBeyond == <<1, 2>>
MCSnap == <<1, 32>>
MCHuge == Whole(64)
MCSamples == {Whole(-3), <<-7, 5>>, <<-3, 5>>, <<-1, 3>>, Zero, <<1, 7>>, <<2, 5>>, One, <<5, 2>>}
MCRandomStarts(n) ==
  {[i \in 1 .. n |-> IF i % 2 = 0 THEN <<1, 2>> ELSE Zero],
   [i \in 1 .. n |-> IF i % 3 = 0 THEN One ELSE <<1, 4>>]}

MCLower(word) == IF word = "A" THEN "a" ELSE word

MCReferences == <<<<"a", "b">>, <<"b", "c", "d">>>>
MCTranslations ==
  <<<<<<"A", "c">>, <<"a", "b">>, <<"c">>>>,
    <<<<"b", "d">>, <<"a", "d", "d">>, <<"b", "c", "d">>>>>>

\* The scores of a translation by kind.
Scores(d, r1, r2, lm1, lm2, i1, i2, t1, t2, w, g) ==
  [Distortion |-> <<d>>, Reordering |-> <<r1, r2>>, LM |-> <<lm1, lm2>>, Input |-> <<i1, i2>>,
   PhraseTable |-> <<t1, t2>>, WordPenalty |-> <<w>>, UnknownWordPenalty |-> <<0>>,
   Generation |-> <<g>>]

ScoresOfTexts ==
  <<"A", "c">> :> Scores(0, 0, -1, -2, -2, -1, -3, -1, -3, -2, -1) @@
  <<"a", "b">> :> Scores(0, 0, -1, -2, 0, -1, 0, 0, -1, -2, -3) @@
  <<"c">> :> Scores(0, 0, -3, -2, -3, 0, -1, -1, -2, -1, 0) @@
  <<"b", "d">> :> Scores(-2, -1, -1, 0, -2, -2, 0, -3, -2, -2, -1) @@
  <<"a", "d", "d">> :> Scores(-2, -2, -1, -3, -2, -1, 0, 0, -2, -3, -3) @@
  <<"b", "c", "d">> :> Scores(-3, -3, -3, -3, 0, -3, -2, -2, -1, -3, 0)

MCModel(text, kind, i) == ScoresOfTexts[text][kind][i]

MCFiles == {"phrases", "binary", "lm1", "lm2", "reordering", "generation", "input"}
MCBinary == {"binary"}

Section(name, lines) == [name |-> name, lines |-> lines]
Ones(n) == [i \in 1 .. n |-> Number(One)]

\* A configuration file: its tables and how many weights it has of each.
Ini(tables, mapping, d, lm, t, more) ==
  tables \o <<Section("input-factors", <<Number(Zero)>>), Section("mapping", mapping),
              Section("ttable-limit", <<Number(Whole(20))>>),
              Section("weight-d", Ones(d)), Section("weight-l", Ones(lm)),
              Section("weight-t", Ones(t)), Section("weight-w", Ones(1))>> \o more

T(n) == [dash |-> FALSE, word |-> "T", num |-> Whole(n)]
G(n) == [dash |-> FALSE, word |-> "G", num |-> Whole(n)]

Phrases(n) == Section("ttable-file", <<Table("phrases", n)>>)
LM == Section("lmodel-file", <<Table("lm1", 0)>>)

Plain == Ini(<<Phrases(2), LM>>, <<T(0)>>, 1, 1, 2, <<>>)
Reorder ==
  Ini(<<Phrases(1), Section("lmodel-file", <<Table("lm1", 0), Table("lm2", 0)>>),
        Section("distortion-file", <<Table("reordering", 2)>>)>>, <<T(0)>>, 3, 2, 1, <<>>)
Confusion(i) ==
  Ini(<<Section("ttable-file", <<Table("binary", 1)>>), LM>>, <<T(0)>>, 1, 1, 1,
      <<Section("weight-i", Ones(i))>>)
Generate ==
  Ini(<<Phrases(1), LM, Section("generation-file", <<Table("generation", 1)>>)>>,
      <<T(0), G(0)>>, 1, 1, 1, <<Section("weight-generation", Ones(1))>>)

Call(ini) ==
  [sections |-> ini, flags |-> <<>>, inputtype |-> Sentence, lambdas |-> <<>>,
   continue |-> FALSE, skip |-> FALSE, window |-> -1, references |-> 2,
   regularisation |-> [type |-> "none", window |-> 0]]

Lambdas == [d |-> <<One>>, lm |-> <<<<1, 2>>>>, tm |-> <<<<1, 2>>, <<1, 4>>>>, w |-> <<Whole(-1)>>]
ReorderLambdas ==
  [d |-> <<One, <<1, 2>>, <<1, 4>>>>, lm |-> <<One, <<1, 2>>>>, tm |-> <<<<1, 2>>>>, w |-> <<Zero>>]
OnlyLength == [d |-> <<Zero>>, lm |-> <<Zero>>, tm |-> <<Zero, Zero>>, w |-> <<One>>]
With(flags) == [Call(Plain) EXCEPT !.flags = flags]

\* Scripts that tune.
Good ==
  {Call(Plain), Call(Reorder), Call(Generate),
   [Call(Confusion(1)) EXCEPT !.inputtype = ConfusionNetwork],
   [Call(Plain) EXCEPT !.lambdas = Lambdas, !.window = 0],
   [Call(Plain) EXCEPT !.lambdas = OnlyLength, !.window = 1],
   [Call(Plain) EXCEPT !.window = 1],
   [Call(Reorder) EXCEPT !.lambdas = ReorderLambdas, !.window = 1],
   [Call(Generate) EXCEPT !.window = 1],
   [Call(Plain) EXCEPT !.regularisation = [type |-> "min", window |-> 1], !.window = 1],
   [Call(Generate) EXCEPT !.regularisation = [type |-> "average", window |-> 1]],
   With(<<Switch("distortion-limit"), Number(Whole(4)), Switch("verbose"), Number(Zero)>>),
   With(<<Switch("w"), Number(Whole(-1))>>)}

\* Scripts that die, each at another point.
Bad ==
  {[Call(Plain) EXCEPT !.continue = TRUE], [Call(Plain) EXCEPT !.skip = TRUE],
   [Call(Plain) EXCEPT !.references = 1],
   [Call(Reorder) EXCEPT !.lambdas = Lambdas],
   [Call(Plain) EXCEPT !.lambdas = [n \in DOMAIN Lambdas |->
                                      [i \in DOMAIN Lambdas[n] |-> Zero]]],
   [Call(Confusion(2)) EXCEPT !.inputtype = ConfusionNetwork],
   [Call(Confusion(1)) EXCEPT !.inputtype = WordLattice],
   Call(Ini(<<Phrases(6), LM>>, <<T(0)>>, 1, 1, 6, <<>>)),
   Call(Ini(<<Phrases(2), LM>>, <<T(0), T(1)>>, 1, 1, 2, <<>>)),
   Call(Ini(<<Phrases(2), Section("lmodel-file", <<Table("lost", 0)>>)>>, <<T(0)>>, 1, 1, 2, <<>>)),
   With(<<Switch("t"), Word("other"), Switch("v"), Number(Zero)>>),
   With(<<Number(One), Switch("v")>>),
   With(<<Switch("v"), Switch(""), Number(Whole(4))>>),
   With(<<Switch("labeled-n-best-list"), Word("false")>>),
   With(<<Switch("mbr"), Word("true")>>),
   With(<<Switch("xml-input"), Word("some")>>),
   With(<<Switch("beam"), Number(One)>>)}

MCConfs == Good \cup Bad
==============================================================================
