--------------------------- MODULE MCCompaction ---------------------------
(***************************************************************************)
(* Compaction for TLC: messages of one or three tokens, a threshold that   *)
(* three turns cross twice, and a budget one big result alone uses up.     *)
(***************************************************************************)
EXTENDS Compaction

MCSizes == {1, 3}
===========================================================================
