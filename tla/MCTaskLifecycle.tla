--------------------------- MODULE MCTaskLifecycle ---------------------------
(***************************************************************************)
(* A root and three children, two levels deep, at most three running.      *)
(***************************************************************************)
EXTENDS TaskLifecycle, TLC

MCSymmetry == Permutations(Children)
=============================================================================
