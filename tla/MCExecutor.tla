----------------------------- MODULE MCExecutor -----------------------------
(***************************************************************************)
(* Executor for TLC: plans of up to four steps under a budget of fifteen   *)
(* supersteps, so that a plan of three steps uses the budget up exactly    *)
(* and one of four runs out of it. The code's numbers are 100 and plans of *)
(* any length.                                                             *)
(***************************************************************************)
EXTENDS Executor

MCMaxPlanSteps == 4
MCMaxRunSteps == 15
=============================================================================
