----------------------------- MODULE MCProgram -----------------------------
(***************************************************************************)
(* Program for TLC: two captures, and runs enough to resume a session      *)
(* twice.                                                                  *)
(***************************************************************************)
EXTENDS Program

CONSTANTS a, b

MCPaths == {a, b}
=============================================================================
