--------------------------- MODULE MCResourceLocks ---------------------------
(***************************************************************************)
(* Two tasks, the first with two parallel calls; a file and a UI terminal. *)
(***************************************************************************)
EXTENDS ResourceLocks, TLC

CONSTANTS t1, t2, c1, c2, c3

MCTasks == {t1, t2}
MCCalls == {c1, c2, c3}
MCOwner == (c1 :> t1) @@ (c2 :> t1) @@ (c3 :> t2)
MCResources == {1, 2}
MCTerminal == {2}
=============================================================================
