------------------------------- MODULE MCParts -------------------------------
(***************************************************************************)
(* Four parts that calls from all sides share: the lock table, the sort of *)
(* a workflow's phases, the queue of provider requests and the registry of *)
(* chats.  They share no state of these modules, so each is explored with  *)
(* the others at rest.                                                     *)
(***************************************************************************)
EXTENDS MCResourceLocks, PhaseSort, RequestGate, ChatRegistry

VARIABLE part \* the one that is explored

partsVars == <<vars, sortVars, gateVars, chatVars, part>>

PartsInit ==
  /\ Init /\ SortInit /\ GateInit /\ RegistryInit
  /\ part \in {"locks", "phases", "requests", "chats"}
  /\ part # "phases" => \A p \in PhaseIds : dependsOn[p] = {}
  /\ part # "chats" => saved = {}

PartsNext ==
  /\ UNCHANGED part
  /\ \/ part = "locks"    /\ Next         /\ UNCHANGED <<sortVars, gateVars, chatVars>>
     \/ part = "phases"   /\ Turn         /\ UNCHANGED <<vars, gateVars, chatVars>>
     \/ part = "requests" /\ GateNext     /\ UNCHANGED <<vars, sortVars, chatVars>>
     \/ part = "chats"    /\ RegistryNext /\ UNCHANGED <<vars, sortVars, gateVars>>

PartsSpec ==
  /\ PartsInit /\ [][PartsNext]_partsVars
  /\ Fairness /\ GateFairness

PartsTypeOK == TypeOK /\ SortTypeOK /\ GateTypeOK /\ RegistryTypeOK
=============================================================================
