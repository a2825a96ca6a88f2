----------------------------- MODULE MCSession -----------------------------
(***************************************************************************)
(* Session for TLC: two instances of the program over one database.        *)
(***************************************************************************)
EXTENDS Session, TLC

CONSTANTS p1, p2, s1

MCProcs == {p1, p2}
MCIds == {s1}
MCSymmetry == Permutations(MCProcs)
MCOneProc == {p1}
=============================================================================
