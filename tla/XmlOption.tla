------------------------------- MODULE XmlOption -------------------------------
(****************************************************************************)
(* The markup of an input line (ProcessAndStripXMLTags): translations for   *)
(* spans of words, zones and walls of the reordering constraint.            *)
(*                                                                          *)
(* A line is a sequence of tokens, words [word] and tags [form, name, span, *)
(* translations, probs].  form is "open", "close", "unary" or "both", for   *)
(* a tag with a slash at both ends; span is the attribute of this name,     *)
(* <<>>, <<i>> or <<i, j>>; each translation is the phrase it says and      *)
(* probs has scores, or nothing.                                            *)
(****************************************************************************)
EXTENDS Integers, SequencesExt, FiniteSetsExt

IsTag(token) == "form" \in DOMAIN token

\* The state of the loop over the tokens.
NothingRead ==
  [ok |-> TRUE, words |-> <<>>, stack |-> <<>>, isLinked |-> FALSE,
   options |-> <<>>, linked |-> <<>>, walls |-> {}, zones |-> {}]

Refused(read) == [read EXCEPT !.ok = FALSE]

\* The first and the last word of a completed tag; a span attribute replaces
\* the positions where the tag was opened and closed.
StartOf(read, opened) ==
  IF opened.span = <<>> THEN opened.start ELSE opened.span[1]

EndOf(read, opened) ==
  CASE Len(opened.span) = 0 -> Len(read.words) - 1
    [] Len(opened.span) = 1 -> opened.span[1] - 1
    [] OTHER -> opened.span[2]

\* The options a tag gives, all of probability one if no other is given.
OptionsOf(opened, span) ==
  [i \in DOMAIN opened.translations |->
     [span |-> span, out |-> opened.translations[i],
      score |-> IF opened.probs = <<>> THEN 0 ELSE opened.probs[i]]]

Translated(read, opened, span, ignore) ==
  LET new == IF ignore THEN <<>> ELSE OptionsOf(opened, span)
  IN  IF opened.probs # <<>> /\ Len(opened.probs) # Len(opened.translations)
      THEN Refused(read)
      ELSE IF read.isLinked THEN [read EXCEPT !.linked = @ \o new]
      ELSE [read EXCEPT !.options = @ \o new]

\* A wall stands between the word before the tag and the tag.
WallsOf(start, end) == (IF start = 0 THEN 0 ELSE start - 1) .. end

\* A tag is complete.  linked is no keyword from here on, but a tag that may
\* give translations like any other.
Completed(read, opened, ignore) ==
  LET start    == StartOf(read, opened)
      end      == EndOf(read, opened)
      unlinked == IF opened.name = "linked" THEN [read EXCEPT !.isLinked = FALSE] ELSE read
  IN  CASE opened.name = "wall" ->
             [read EXCEPT !.walls = @ \cup WallsOf(start, end)]
        [] opened.name # "wall" /\ start > end -> Refused(read)
        [] opened.name = "zone" /\ start <= end ->
             [read EXCEPT !.zones = @ \cup {<<start, end>>}]
        [] OTHER -> Translated(unlinked, opened, <<start, end>>, ignore)

Opened(read, tag) ==
  IF tag.name = "linked" /\ read.isLinked THEN Refused(read)
  ELSE [read EXCEPT
          !.isLinked = @ \/ tag.name = "linked",
          !.stack = Append(@, [name |-> tag.name, start |-> Len(read.words),
                               span |-> tag.span, translations |-> tag.translations,
                               probs |-> tag.probs])]

Closed(read, tag, ignore) ==
  IF read.stack = <<>> \/ Last(read.stack).name # tag.name THEN Refused(read)
  ELSE Completed([read EXCEPT !.stack = Front(@)], Last(read.stack), ignore)

\* Mutant: the last tag that was opened is not popped.
ReadTag_KeepsOpened(read, tag, ignore) ==
  CASE tag.form = "both"  -> Refused(read)
    [] tag.form = "open"  -> Opened(read, tag)
    [] tag.form = "close" -> Closed(read, tag, ignore)
    [] OTHER -> LET opened == Opened(read, tag)
                IN  IF opened.ok THEN Completed(opened, Last(opened.stack), ignore) ELSE opened

ReadTag(read, tag, ignore) ==
  CASE tag.form = "both"  -> Refused(read)
    [] tag.form = "open"  -> Opened(read, tag)
    [] tag.form = "close" -> Closed(read, tag, ignore)
    [] OTHER -> LET opened == Opened(read, tag)
                IN  IF opened.ok THEN Closed(opened, tag, ignore) ELSE opened

\* What is read of a line; it is refused as well if a tag is left open.
ProcessAndStripXMLTags(line, ignore) ==
  LET read == FoldLeft(LAMBDA r, t : IF ~r.ok THEN r
                                     ELSE IF IsTag(t) THEN ReadTag(r, t, ignore)
                                     ELSE [r EXCEPT !.words = Append(@, t.word)],
                       NothingRead, line)
  IN  IF read.stack = <<>> THEN read ELSE Refused(read)

------------------------------------------------------------------------------
(****************************************************************************)
(* What markup means, without a stack: tags that belong together.           *)
(****************************************************************************)

\* How much deeper the tags from..to lead.
Depth(line, from, to) ==
  Cardinality({i \in from .. to : IsTag(line[i]) /\ line[i].form = "open"})
    - Cardinality({i \in from .. to : IsTag(line[i]) /\ line[i].form = "close"})

\* The pairs of the positions where a tag begins and where it ends.
Elements(line) ==
  {<<i, i>> : i \in {j \in DOMAIN line : IsTag(line[j]) /\ line[j].form = "unary"}}
  \cup {e \in (DOMAIN line) \X (DOMAIN line) :
          /\ e[1] < e[2] /\ IsTag(line[e[1]]) /\ IsTag(line[e[2]])
          /\ line[e[1]].form = "open" /\ line[e[2]].form = "close"
          /\ Depth(line, e[1] + 1, e[2] - 1) = 0
          /\ \A k \in e[1] + 1 .. e[2] - 1 : Depth(line, e[1] + 1, k) >= 0}

\* The words an element has around it, from its attribute or its place.
WordsBefore(line, i) == Cardinality({k \in 1 .. i - 1 : ~IsTag(line[k])})

Covers(line, e) ==
  LET span == line[e[1]].span
  IN  CASE Len(span) = 0 -> <<WordsBefore(line, e[1]), WordsBefore(line, e[2]) - 1>>
        [] Len(span) = 1 -> <<span[1], span[1]>>
        [] OTHER -> span

\* A line means something if every tag has its counterpart of the same name,
\* every element but a wall has words, as many scores as translations, and
\* linked elements are not nested.
WellFormed(line) ==
  LET elements == Elements(line)
      linked   == {e \in elements : line[e[1]].name = "linked"}
  IN  /\ \A i \in DOMAIN line :
           IsTag(line[i]) => line[i].form # "both" /\ \E e \in elements : i \in {e[1], e[2]}
      /\ \A e \in elements :
           LET tag == line[e[1]]
           IN  /\ line[e[2]].name = tag.name
               /\ tag.name # "wall" => Covers(line, e)[1] <= Covers(line, e)[2]
               /\ tag.name \notin {"wall", "zone"} /\ tag.probs # <<>> =>
                    Len(tag.probs) = Len(tag.translations)
      /\ \A e, f \in linked : ~(e[1] < f[1] /\ f[2] < e[2])

\* The translations it asks for.
MeantOptions(line) ==
  UNION {ToSet(OptionsOf(line[e[1]], Covers(line, e)))
           : e \in {x \in Elements(line) : line[x[1]].name \notin {"wall", "zone"}}}

MeantZones(line) ==
  {Covers(line, e) : e \in {x \in Elements(line) : line[x[1]].name = "zone"}}
==============================================================================
