----------------------------- MODULE LockService -----------------------------
(***************************************************************************)
(* What a resource lock promises, without tables, clocks, polling or       *)
(* reference counts: a lease is granted to a call only when it is          *)
(* compatible with every lease that stands after the step, one lease at a  *)
(* time, and any lease may end.                                            *)
(***************************************************************************)
CONSTANTS Tasks, Calls, Owner, Resources, Terminal

VARIABLE leases

(***************************************************************************)
(* Two calls may share a resource when they work for the same task, except *)
(* on a UI terminal, which is never shared.                                *)
(***************************************************************************)
Compatible(c, d, r) == Owner[c] = Owner[d] /\ r \notin Terminal

Init == leases = [r \in Resources |-> {}]

GrantLease(c, r) ==
  /\ c \notin leases[r]
  /\ \E kept \in SUBSET leases[r] :
       /\ \A d \in kept : Compatible(c, d, r)
       /\ leases' = [leases EXCEPT ![r] = kept \cup {c}]

EndLeases ==
  \E ended \in SUBSET (Calls \X Resources) :
    leases' = [r \in Resources |-> {c \in leases[r] : <<c, r>> \notin ended}]

Next == EndLeases \/ \E c \in Calls, r \in Resources : GrantLease(c, r)

Spec == Init /\ [][Next]_leases
=============================================================================
