----------------------------- MODULE MCReadCache -----------------------------
(***************************************************************************)
(* Two files, each edited up to once; to see an entry survive an edit,     *)
(* one of them up to twice.                                                *)
(***************************************************************************)
EXTENDS ReadCache, TLC

CONSTANTS p, q

MCPaths == {p, q}
MCPredicted == {q}
MCMaxEdits == (p :> 1) @@ (q :> 1)
MCEditedTwice == (p :> 2) @@ (q :> 1)
=============================================================================
