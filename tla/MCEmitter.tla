----------------------------- MODULE MCEmitter -----------------------------
(***************************************************************************)
(* Emitter for TLC: two producers of two events each, two consumers, and   *)
(* channels that hold one event, so that they fill up.                     *)
(***************************************************************************)
EXTENDS Emitter

CONSTANTS e1, e2, c1, c2

MCProducers == {e1, e2}
MCConsumers == {c1, c2}
=============================================================================
