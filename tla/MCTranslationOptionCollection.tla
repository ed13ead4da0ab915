-------------------- MODULE MCTranslationOptionCollection --------------------
(****************************************************************************)
(* Sessions of up to three sentences of three or four words.                *)
(****************************************************************************)
EXTENDS TranslationOptionCollection

\* The words of a file: of one factor, and of a word and a tag.
Single(words) == [i \in DOMAIN words |-> <<words[i]>>]
Entry(words, score) == [out |-> Single(words), score |-> score]
Tagged(words, tags, score) ==
  [out |-> [i \in DOMAIN words |-> <<words[i], tags[i]>>], score |-> score]

\* "z" is in no table; the best entry of "c" has no generation, so that its
\* limit of one must be exceeded; "b" has ties.
MCTable ==
  (<<"a">> :> <<Entry(<<"A">>, -1), Entry(<<"B">>, -3), Entry(<<>>, -4)>>) @@
  (<<"b">> :> <<Entry(<<"B">>, -2), Entry(<<"C">>, -2), Entry(<<"D">>, -2),
                Entry(<<"A">>, -5)>>) @@
  (<<"c">> :> <<Entry(<<"X">>, -1), Entry(<<"C">>, -2)>>) @@
  (<<"a", "b">> :> <<Entry(<<"A", "B">>, -2), Entry(<<"B">>, -7)>>) @@
  (<<"b", "c">> :> <<Entry(<<"D", "C">>, -6)>>)

MCTable2 ==
  (<<"a">> :> <<Entry(<<"E">>, -2)>>) @@
  (<<"c">> :> <<Entry(<<"F">>, -2)>>) @@
  (<<"a", "b">> :> <<Entry(<<"E", "F">>, -3)>>)

\* Tags that are listed before their words; "B" is another word than the table
\* has for "a" within its limit.
MCTags ==
  (<<"a">> :> <<Tagged(<<"N">>, <<"A">>, 0), Tagged(<<"V">>, <<"B">>, -1),
                Tagged(<<"V">>, <<"F">>, 0)>>) @@
  (<<"b">> :> <<Tagged(<<"N">>, <<"B">>, 0), Tagged(<<"V">>, <<"C">>, -2)>>) @@
  (<<"a", "b">> :> <<Tagged(<<"N", "V">>, <<"A", "B">>, -1)>>)

\* Tags alone, which must be those that were generated.
MCOnlyTags ==
  (<<"a">> :> <<Entry(<<"N">>, -1)>>) @@
  (<<"b">> :> <<Entry(<<"V">>, -1), Entry(<<"N">>, -2)>>) @@
  (<<"a", "b">> :> <<Entry(<<"N", "N">>, 0), Entry(<<"V", "N">>, -1)>>)

Line(word, tag, score) == [in |-> <<word>>, out |-> <<tag>>, score |-> score]

MCGenerate ==
  LoadGeneration(
    <<Line("A", "N", -5), Line("A", "V", -1), Line("B", "N", -1), Line("B", "V", 0),
      Line("C", "N", 0), Line("D", "V", -3), Line("A", "N", 0)>>, <<1>>, <<2>>)

Translate(factors, table, limit) ==
  [kind |-> "translate", factors |-> factors, table |-> table, limit |-> limit,
   dictionary |-> {}]
Generate ==
  [kind |-> "generate", factors |-> <<2>>, table |-> [p \in {} |-> <<>>], limit |-> 0,
   dictionary |-> MCGenerate]

OneStep == <<<<Translate(<<1>>, MCTable, 0)>>>>
Generating == <<<<Translate(<<1>>, MCTable, 1), Generate>>>>
Checking == <<<<Translate(<<1>>, MCTable, 0), Generate, Translate(<<2>>, MCOnlyTags, 0)>>>>
Tagging == <<<<Translate(<<1>>, MCTable, 2), Translate(<<2, 1>>, MCTags, 0)>>>>
TwoGraphs == <<<<Translate(<<1>>, MCTable, 3)>>, <<Translate(<<1>>, MCTable2, 0)>>>>

Conf(graphs, length, options, threshold, partial, cached, cacheMax, xml, tick) ==
  [graphs |-> graphs, maxPhraseLength |-> length, maxOptions |-> options,
   threshold |-> threshold, maxPartial |-> partial, useCache |-> cached,
   cacheMax |-> cacheMax, xmlType |-> xml, tick |-> tick,
   alwaysDirect |-> FALSE, dropUnknown |-> FALSE]

MCFirst == Conf(OneStep, 2, 2, -3, 100, TRUE, 2, "inclusive", 1)

MCConfs ==
  {MCFirst,
   Conf(OneStep, 3, 0, -2, 1, TRUE, 3, "exclusive", 1),
   [Conf(OneStep, 2, 3, -1000, 2, FALSE, 2, "exclusive", 0)
      EXCEPT !.dropUnknown = TRUE, !.alwaysDirect = TRUE],
   Conf(Generating, 2, 2, -1000, 100, TRUE, 4, "exclusive", 1),
   Conf(Checking, 2, 0, -1000, 100, FALSE, 2, "ignore", 1),
   Conf(Generating, 2, 2, -2, 2, TRUE, 2, "ignore", 0),
   Conf(Tagging, 2, 0, -1, 1, TRUE, 3, "ignore", 1),
   Conf(TwoGraphs, 2, 3, -3, 100, TRUE, 3, "ignore", 1)}

W(word) == [word |-> word]
Tag(form, name, span, scores) ==
  [form |-> form, name |-> name, span |-> span,
   translations |-> [i \in DOMAIN scores |-> CreateFromString(<<1>>, Single(<<"XML">>))], probs |-> scores]
Open(name, scores) == Tag("open", name, <<>>, scores)
Close(name) == Tag("close", name, <<>>, <<>>)

\* With and without markup, with words no table has, and with a word twice.
MCLines ==
  {<<W("a"), W("b"), W("c")>>,
   <<W("z"), W("c"), W("a"), W("b")>>,
   <<Open("x", <<-9, -1>>), W("b"), Close("x"), W("c"), W("b"),
     Tag("unary", "x", <<1, 2>>, <<-3>>)>>,
   <<Open("x", <<-1>>), W("7"), W("*EPS*"), W("c"), Close("x")>>}

MCSessions == {<<s, t, u>> : s, t, u \in MCLines}

\* All the lines of at most five tokens.
MCTokens ==
  {W("a"), Open("x", <<-1>>), Close("x"), Open("zone", <<>>), Close("zone"),
   Tag("unary", "wall", <<>>, <<>>), Open("linked", <<>>), Close("linked")}

\* Spans of one number.
MCOneNumber ==
  {W("a"), Tag("unary", "x", <<0>>, <<-1>>), Tag("open", "x", <<0>>, <<-1>>), Close("x"),
   Tag("unary", "zone", <<0>>, <<>>), Tag("unary", "linked", <<0>>, <<>>),
   Tag("unary", "wall", <<1>>, <<>>)}

MCMarkup ==
  UNION {[1 .. k -> MCTokens] : k \in 0 .. 5}
  \cup UNION {[1 .. k -> MCOneNumber] : k \in 1 .. 3}
  \cup {<<Open("zone", <<>>), W("a"), Open("zone", <<>>), W("b"), second, third>> :
          second, third \in {Close("zone"), Tag("unary", "wall", <<>>, <<>>), W("c")}}
  \cup {<<Tag("both", "x", <<>>, <<>>)>>, <<W("a"), Tag("unary", "zone", <<0, 0>>, <<>>)>>}

MCStarts ==
  (MCConfs \X MCSessions) \cup ({MCFirst} \X {<<line>> : line \in MCMarkup})

MCUnknownScore == -100

==============================================================================
