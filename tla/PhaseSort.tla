------------------------------ MODULE PhaseSort ------------------------------
(***************************************************************************)
(* The while loop of topoSortPhases (packages/core/src/workflow_spec.ts),  *)
(* one turn per step, from every dependency relation a parsed spec can     *)
(* have.                                                                   *)
(***************************************************************************)
EXTENDS PhaseOrder

VARIABLES
  dependsOn,  \* the phases' dependency relation
  kahn        \* the loop's locals: ready, order, indegree

sortVars == <<dependsOn, kahn>>

SortInit ==
  /\ dependsOn \in DependsOn
  /\ kahn = KahnStart(dependsOn)

Turn ==
  /\ kahn.ready # <<>>
  /\ kahn' = KahnStep(dependsOn, kahn)
  /\ UNCHANGED dependsOn

SortSpec == SortInit /\ [][Turn]_sortVars

-----------------------------------------------------------------------------

Placed == Range(kahn.order)

(***************************************************************************)
(* Types, with what an array of the code cannot show: a phase is at most   *)
(* once in the order or in the queue, never in both.                       *)
(***************************************************************************)
SortTypeOK ==
  /\ dependsOn \in DependsOn
  /\ kahn.indeg \in [PhaseIds -> 0..PhaseCount]
  /\ IsInjective(kahn.order \o kahn.ready)
  /\ Range(kahn.order \o kahn.ready) \subseteq PhaseIds

(***************************************************************************)
(* The in-degree counts exactly the dependencies not yet placed, and the   *)
(* queue holds exactly the unplaced phases that have none left, each once. *)
(***************************************************************************)
IndegreeIsExact ==
  /\ SortTypeOK
  /\ \A p \in PhaseIds : kahn.indeg[p] = Cardinality(dependsOn[p] \ Placed)
  /\ Range(kahn.ready) = {p \in PhaseIds \ Placed : dependsOn[p] \subseteq Placed}

(***************************************************************************)
(* The order never puts a phase before one of its dependencies, and when   *)
(* the queue runs dry it is complete exactly when the dependencies have no *)
(* cycle: the "dependency cycle" error is raised for cycles and for        *)
(* nothing else.                                                           *)
(***************************************************************************)
OrderIsTopological ==
  /\ RespectsDependencies(kahn.order, dependsOn)
  /\ kahn.ready = <<>> => (Len(kahn.order) = PhaseCount <=> ~Cyclic(dependsOn))
=============================================================================
