----------------------------- MODULE MCToolRound -----------------------------
(***************************************************************************)
(* Three calls a round, two rounds.                                        *)
(***************************************************************************)
EXTENDS ToolRound, TLC

MCSymmetry == Permutations(Calls)
=============================================================================
