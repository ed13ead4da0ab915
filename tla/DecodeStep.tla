------------------------------ MODULE DecodeStep ------------------------------
(****************************************************************************)
(* How a decode graph makes the translations of a phrase: a translation     *)
(* step, and further translation or generation steps, each of which takes   *)
(* the partial options of the step before it to those of a new collection   *)
(* (PartialTranslOptColl) that is pruned now and then.                      *)
(*                                                                          *)
(* A word of the output has factors, NoFactor where no step has filled one  *)
(* in yet.  A step is [kind, factors, table, limit, dictionary]: factors is *)
(* the order in which its file lists the output factors of a word; it has a *)
(* phrase table with a limit to translate or a dictionary to generate, see  *)
(* below.  The score of an option is its future score; it adds up over the  *)
(* steps.                                                                   *)
(****************************************************************************)
EXTENDS Integers, SequencesExt, FiniteSetsExt

NoFactor == "-"
Factors == 1 .. 2    \* below MAX_NUM_FACTORS
NegInf == -1000000

Better(a, b) == a.score > b.score

\* The n-th of some positions, and what is left of a list if only they stay
\* (SelectSeq and SortSeq have no definition that a proof could use).
Nth(I, n) == CHOOSE i \in I : Cardinality({j \in I : j <= i}) = n

Stay(list, I) == [n \in 1 .. Cardinality(I) |-> list[Nth(I, n)]]

\* What nth_element leaves before its n-th place: any n of the best.
KeepBest(list, n) ==
  {Stay(list, I) :
     I \in {J \in kSubset(n, DOMAIN list) :
              \A i \in J, j \in DOMAIN list \ J : ~Better(list[j], list[i])}}

------------------------------------------------------------------------------
(****************************************************************************)
(* PartialTranslOptColl                                                     *)
(****************************************************************************)
EmptyPartial == [list |-> <<>>, worst |-> NegInf]

AddNoPrune(coll, o) ==
  IF o.score >= coll.worst THEN [coll EXCEPT !.list = Append(@, o)] ELSE coll

\* m_list[max - 1] after nth_element at max is any of those that stay, so
\* worst is the score of any of them.
PrunePartial(coll, max) ==
  IF Len(coll.list) <= max THEN {coll}
  ELSE UNION {{[list |-> kept, worst |-> kept[i].score] : i \in 1 .. max}
                : kept \in KeepBest(coll.list, max)}

AddPartial(coll, o, max) ==
  LET added == AddNoPrune(coll, o)
  IN  IF Len(added.list) > 2 * max THEN PrunePartial(added, max) ELSE {added}

AddAllPartial(list, max) ==
  FoldLeft(LAMBDA colls, o : UNION {AddPartial(c, o, max) : c \in colls},
           {EmptyPartial}, list)

------------------------------------------------------------------------------
(****************************************************************************)
(* Words and phrases.  In a file a word is the sequence of the factors that *)
(* are asked for, in some order; Parse aborts if it has others.             *)
(****************************************************************************)
Parse(phrase, factorOrder) ==
  \A i \in DOMAIN phrase : Len(phrase[i]) = Len(factorOrder)

SetFactors(word, factorOrder) ==
  [f \in Factors |-> IF f \in Range(factorOrder)
                     THEN word[CHOOSE i \in DOMAIN factorOrder : factorOrder[i] = f]
                     ELSE NoFactor]

CreateFromString(factorOrder, phrase) ==
  [i \in DOMAIN phrase |-> SetFactors(phrase[i], factorOrder)]

\* Phrase::IsCompatible on some factors.
IsCompatible(old, new, factors) ==
  /\ Len(old) = Len(new)
  /\ \A i \in DOMAIN old, f \in factors : old[i][f] = new[i][f]

MergeFactors(old, new, factors) ==
  [i \in DOMAIN old |-> [f \in Factors |-> IF f \in factors THEN new[i][f] ELSE old[i][f]]]

------------------------------------------------------------------------------
(****************************************************************************)
(* Dictionaries.                                                            *)
(****************************************************************************)

\* The entries a phrase table has for a phrase, the first if its limit counts:
\* a function from source phrases to sequences of [out, score].
Entries(step, phrase, adhere) ==
  LET all == IF phrase \in DOMAIN step.table THEN step.table[phrase] ELSE <<>>
      few == IF ~adhere \/ step.limit = 0 THEN all
             ELSE SubSeq(all, 1, Min({step.limit, Len(all)}))
  IN  [i \in DOMAIN few |-> [few[i] EXCEPT !.out = CreateFromString(step.factors, @)]]

\* GenerationDictionary::Load of lines [in, out, score]: of two lines with the
\* same words the last counts.
LoadGeneration(lines, input, output) ==
  LET Read(i) == [in |-> SetFactors(lines[i].in, input), word |-> SetFactors(lines[i].out, output)]
  IN  {[in |-> Read(i).in, word |-> Read(i).word, score |-> lines[i].score] :
         i \in {j \in DOMAIN lines : \A k \in j + 1 .. Len(lines) : Read(k) # Read(j)}}

\* Word::Compare leaves out what one of two words has not.
SameWord(a, b) == \A f \in Factors : NoFactor \in {a[f], b[f]} \/ a[f] = b[f]

\* What the dictionary may make of a word, in the order of its map.
FindWord(dictionary, word) == SetToSeq({g \in dictionary : SameWord(g.in, word)})

------------------------------------------------------------------------------
(****************************************************************************)
(* The steps.                                                               *)
(****************************************************************************)

\* The factors there are after the first k steps.
OutputFactors(graph, k) == UNION {Range(graph[j].factors) : j \in 1 .. k}

\* Those of step k that must be as they are, and those it fills in.
ConflictFactors(graph, k) == OutputFactors(graph, k - 1) \cap Range(graph[k].factors)

\* Mutant: the step fills in all the factors of its dictionary but the first.
NewOutputFactors_NotFirst(graph, k) == Range(Tail(graph[k].factors))

NewOutputFactors(graph, k) == OutputFactors(graph, k) \ OutputFactors(graph, k - 1)

\* The options an option becomes when it is merged with each entry that fits.
Merged(graph, k, o, entries) ==
  LET fitting == Stay(entries,
                   {i \in DOMAIN entries :
                      IsCompatible(o.out, entries[i].out, ConflictFactors(graph, k))})
  IN  [i \in DOMAIN fitting |->
         [out   |-> MergeFactors(o.out, fitting[i].out, NewOutputFactors(graph, k)),
          score |-> o.score + fitting[i].score]]

\* All the ways to generate the words, the first word the quickest to change;
\* none if the dictionary lacks a word.
Generations(dictionary, words) ==
  LET ways[n \in 0 .. Len(words)] ==
        IF n = 0 THEN <<[out |-> <<>>, score |-> 0]>>
        ELSE LET found == FindWord(dictionary, words[n])
             IN  FlattenSeq(
                   [i \in DOMAIN found |->
                      [j \in DOMAIN ways[n - 1] |->
                         [out   |-> Append(ways[n - 1][j].out, found[i].word),
                          score |-> ways[n - 1][j].score + found[i].score]]])
  IN  ways[Len(words)]

\* DecodeStepTranslation::Process and DecodeStepGeneration::Process; a dropped
\* word stays one.
Process(graph, k, phrase, adhere, o) ==
  CASE o.out = <<>> -> <<o>>
    [] o.out # <<>> /\ graph[k].kind = "translate" ->
         Merged(graph, k, o, Entries(graph[k], phrase, adhere))
    [] OTHER -> Merged(graph, k, o, Generations(graph[k].dictionary, o.out))

\* The lists of options a decode graph may make of a phrase.
Translations(graph, phrase, adhere, max) ==
  LET lists(made) == {c.list : c \in AddAllPartial(made, max)}
      after[k \in 1 .. Len(graph)] ==
        IF k = 1 THEN lists(Entries(graph[1], phrase, adhere))
        ELSE UNION {lists(FlattenSeq([i \in DOMAIN old |->
                                        Process(graph, k, phrase, adhere, old[i])]))
                      : old \in after[k - 1]}
  IN  after[Len(graph)]

------------------------------------------------------------------------------
(****************************************************************************)
(* What the steps mean together: an entry of each of them that does not     *)
(* gainsay the others, one for each word of a generation step.              *)
(****************************************************************************)
Says(step, entry, out) ==
  /\ Len(entry.out) = Len(out)
  /\ \A i \in DOMAIN out, f \in Range(step.factors) : entry.out[i][f] = out[i][f]

SaysWord(step, g, word) ==
  SameWord(g.in, word) /\ \A f \in Range(step.factors) : g.word[f] = word[f]

\* The sums of scores of the ways in which the steps agree on these words.
AgreedScores(graph, phrase, adhere, out) ==
  LET Ways(k) ==
        IF graph[k].kind = "translate"
        THEN {e.score : e \in {x \in Range(Entries(graph[k], phrase, adhere)) : Says(graph[k], x, out)}}
        ELSE FoldLeft(LAMBDA sums, word :
                        {s + g.score : s \in sums, g \in {x \in graph[k].dictionary : SaysWord(graph[k], x, word)}},
                      {0}, out)
  IN  FoldLeft(LAMBDA sums, k : {s + w : s \in sums, w \in Ways(k)}, {0},
               [k \in 1 .. (IF out = <<>> THEN 1 ELSE Len(graph)) |-> k])
==============================================================================
