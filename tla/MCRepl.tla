------------------------------- MODULE MCRepl -------------------------------
(***************************************************************************)
(* Repl for TLC: two sessions, two queries and plans of up to three steps  *)
(* under a limit that two fit exactly; the planning agent answers with a   *)
(* plan, with prose, or with the backticks that make the text handling     *)
(* panic.                                                                  *)
(***************************************************************************)
EXTENDS Repl

CONSTANTS s1, s2

MCIds == {s1, s2}
MCTexts == {<<"open", "close">>, <<"other">>, <<"tick", "tick", "tick", "tick">>}
=============================================================================
