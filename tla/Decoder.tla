-------------------------------- MODULE Decoder --------------------------------
(****************************************************************************)
(* What a search promises to its caller, whichever algorithm it is          *)
(* (Search::ProcessSentence and GetBestHypothesis, as Manager uses them): it *)
(* ends, once, and what it then answers is the end of a derivation of the   *)
(* sentence, complete unless the time ran out, with the score that the      *)
(* steps of that derivation have.                                           *)
(****************************************************************************)
EXTENDS Hypothesis

VARIABLES
  sentence,   \* the sentence
  phase,      \* "searching", "done" or "interrupted"
  answers     \* the hypotheses, by content, that GetBestHypothesis may return

Init ==
  /\ sentence \in Inputs
  /\ phase = "searching"
  /\ answers = {}

\* The search comes to its end.  Nothing is found only if a constraint, or
\* zones and walls that contradict each other, allow nothing.
Finish ==
  /\ phase = "searching"
  /\ phase' = "done"
  /\ answers' \in SUBSET CompleteDerivations(sentence)
  /\ sentence.constraint = <<>> /\ Consistent(sentence.rc) => answers' # {}
  /\ \A g, h \in answers' : g.total = h.total
  /\ UNCHANGED sentence

\* The time is up: the answer is part of a translation, or there is none.
Interrupt ==
  /\ phase = "searching"
  /\ phase' = "interrupted"
  /\ answers' \in SUBSET AllDerivations(sentence)
  /\ UNCHANGED sentence

Next == Finish \/ Interrupt

Safety == Init /\ [][Next]_<<sentence, phase, answers>>

Spec == Safety /\ <>(phase # "searching")
================================================================================
