------------------------------ MODULE PhaseOrder ------------------------------
(***************************************************************************)
(* topoSortPhases (packages/core/src/workflow_spec.ts): Kahn's algorithm   *)
(* with a FIFO of ready phases, over phases numbered in declaration order. *)
(* parseWorkflowSpec has dropped unknown and self references before.       *)
(***************************************************************************)
EXTENDS Integers, Sequences, SequencesExt, FiniteSets

CONSTANT PhaseCount

ASSUME PhaseCountAssumption == PhaseCount \in Nat \ {0}

PhaseIds == 1..PhaseCount

(***************************************************************************)
(* The phases of S in the order in which the spec declares them.           *)
(***************************************************************************)
InDeclaredOrder(S) ==
  [i \in 1..Cardinality(S) |-> CHOOSE p \in S : Cardinality({q \in S : q <= p}) = i]

(***************************************************************************)
(* The dependency relations a parsed spec can have.                        *)
(***************************************************************************)
DependsOn == {d \in [PhaseIds -> SUBSET PhaseIds] : \A p \in PhaseIds : p \notin d[p]}

KahnStepEager(d, s) ==                           \* mutant: frees on the first dependency
  LET id == Head(s.ready)
  IN  [ready |-> Tail(s.ready) \o InDeclaredOrder({p \in PhaseIds : id \in d[p]}),
       order |-> Append(s.order, id),
       indeg |-> s.indeg]

(***************************************************************************)
(* One turn of the while loop: shift the first ready phase, append it to   *)
(* the order, decrement its dependents, and push those that reach zero.    *)
(***************************************************************************)
KahnStep(d, s) ==
  LET id    == Head(s.ready)
      indeg == [p \in PhaseIds |-> IF id \in d[p] THEN s.indeg[p] - 1 ELSE s.indeg[p]]
      freed == InDeclaredOrder({p \in PhaseIds : id \in d[p] /\ indeg[p] = 0})
  IN  [ready |-> Tail(s.ready) \o freed,
       order |-> Append(s.order, id),
       indeg |-> indeg]

KahnStartAll(d) ==                               \* mutant: every phase is ready
  [ready |-> InDeclaredOrder(PhaseIds),
   order |-> <<>>,
   indeg |-> [p \in PhaseIds |-> Cardinality(d[p])]]

KahnStart(d) ==
  [ready |-> InDeclaredOrder({p \in PhaseIds : d[p] = {}}),
   order |-> <<>>,
   indeg |-> [p \in PhaseIds |-> Cardinality(d[p])]]

(***************************************************************************)
(* The phases in execution order; shorter than PhaseCount on a cycle, when *)
(* topoSortPhases returns an error.                                        *)
(***************************************************************************)
TopoSort(d) ==
  LET after[n \in 0..PhaseCount] ==
        IF n = 0 THEN KahnStart(d)
        ELSE LET s == after[n - 1]
             IN  IF s.ready = <<>> THEN s ELSE KahnStep(d, s)
  IN  after[PhaseCount].order

(***************************************************************************)
(* Reference definitions.                                                  *)
(***************************************************************************)
Cyclic(d) ==
  \E S \in SUBSET PhaseIds : S # {} /\ \A p \in S : d[p] \cap S # {}

RespectsDependencies(order, d) ==
  \A i, j \in DOMAIN order : order[i] \in d[order[j]] => i < j
=============================================================================
