------------------------ MODULE MCLanguageModelRemote ------------------------
(****************************************************************************)
(* Two decoders, a server with one or two threads and one or two            *)
(* descriptors.  One score has a newline among its bytes.                   *)
(****************************************************************************)
EXTENDS LanguageModelRemote

MCScore(n) == CASE n = "a" -> 1 [] n = "b" -> 2 [] OTHER -> 3
MCNewlines(score) == IF score = 2 THEN {2} ELSE {}

MCSettings == {[threads |-> 1, maxfds |-> 1, asks |-> 2],
               [threads |-> 2, maxfds |-> 1, asks |-> 2],
               [threads |-> 2, maxfds |-> 2, asks |-> 1]}
==============================================================================
