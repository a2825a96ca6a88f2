------------------------------ MODULE MCOrche ------------------------------
(***************************************************************************)
(* Orche for TLC: plans of up to three steps under a budget that three     *)
(* exceed in their last superstep, messages that call up to two tools, and *)
(* agents of up to three nodes, so that one may call tools once before it  *)
(* answers.                                                                *)
(***************************************************************************)
EXTENDS Orche
=============================================================================
