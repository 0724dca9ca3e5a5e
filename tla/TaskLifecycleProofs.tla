------------------------- MODULE TaskLifecycleProofs -------------------------
(***************************************************************************)
(* Proofs about TaskLifecycle, for any number of children and any limits.  *)
(***************************************************************************)
EXTENDS TaskLifecycle, FiniteSetTheorems, TLAPS

USE LifecycleAssumption DEF LifecycleAssumption, Tasks, Terminal, Active

-----------------------------------------------------------------------------
(***************************************************************************)
(* Halving a cap keeps it between the floor and the largest limit.         *)
(***************************************************************************)
LEMMA HalvedType ==
  ASSUME NEW n \in 1..LargestCap
  PROVE  Halved(n) \in 1..LargestCap
  BY DEF Halved, LargestCap

(***************************************************************************)
(* What a harness may run at once is never more than the largest limit.    *)
(***************************************************************************)
LEMMA EffectiveCapType ==
  ASSUME TypeOK, NEW p \in Tasks
  PROVE  EffectiveCap(p) \in 1..LargestCap
  BY DEF EffectiveCap, LargestCap, TypeOK

(***************************************************************************)
(* Every step keeps the records, the chains and the caps typed.            *)
(***************************************************************************)
LEMMA TypeStep == TypeOK /\ [Next]_vars => TypeOK'
  <1> SUFFICES ASSUME TypeOK, [Next]_vars
               PROVE  TypeOK'
    OBVIOUS
  <1> USE DEF TypeOK
  <1>1. ASSUME NEW p \in Tasks, NEW c \in Children, NEW D \in SUBSET Tasks, Spawn(p, c, D)
        PROVE  TypeOK'
    <2>1. cap' \in [Tasks -> 1..LargestCap]
      BY <1>1 DEF Spawn, LargestCap
    <2> QED
      BY <1>1, <2>1 DEF Spawn
  <1>2. ASSUME NEW p \in Tasks, SpawnRefused(p)
        PROVE  TypeOK'
    BY <1>2 DEF SpawnRefused, LargestCap
  <1>3. ASSUME NEW p \in Tasks, Throttle(p)
        PROVE  TypeOK'
    BY <1>3, HalvedType DEF Throttle
  <1>4. ASSUME NEW p \in Tasks, WindowEnds(p)
        PROVE  TypeOK'
    BY <1>4 DEF WindowEnds
  <1>5. ASSUME NEW c \in Children, NEW result \in {"done", "error"}, Settle(c, result)
        PROVE  TypeOK'
    BY <1>5 DEF Settle
  <1>6. ASSUME NEW c \in Children, ChainStep(c)
        PROVE  TypeOK'
    <2>1. CASE DepsMet(c) \/ StartSend(c)
      BY <2>1 DEF DepsMet, StartSend
    <2>2. CASE DepsFailed(c) \/ DepsTimedOut(c) \/ Complete(c) \/ Fail(c)
      BY <1>5, <2>2 DEF DepsFailed, DepsTimedOut, Complete, Fail
    <2> QED
      BY <1>6, <2>1, <2>2 DEF ChainStep
  <1>7. ASSUME NEW c \in Children, TimerFires(c) \/ CancelAgent(c) \/ WaitTimedOut(c)
        PROVE  TypeOK'
    BY <1>7 DEF TimerFires, CancelAgent, WaitTimedOut, Cancel
  <1>8. ASSUME NEW c \in Children, WaitSeesRunning(c) \/ WaitReturns(c)
        PROVE  TypeOK'
    BY <1>8 DEF WaitSeesRunning, WaitReturns
  <1>9. CASE UNCHANGED vars
    BY <1>9 DEF vars
  <1> QED
    BY <1>1, <1>2, <1>3, <1>4, <1>6, <1>7, <1>8, <1>9 DEF Next

(***************************************************************************)
(* The records, the chains and the caps keep their types.                  *)
(***************************************************************************)
THEOREM TypeCorrect == Spec => []TypeOK
  <1>1. Init => TypeOK
    BY DEF Init, TypeOK, LargestCap
  <1> QED
    BY <1>1, TypeStep, PTL DEF Spec

-----------------------------------------------------------------------------
(***************************************************************************)
(* A running child still has its timeout and its chain.                    *)
(***************************************************************************)
THEOREM Timed == Spec => []RunningChildIsTimed
  <1>1. Init => RunningChildIsTimed
    BY DEF Init, RunningChildIsTimed
  <1>2. TypeOK /\ RunningChildIsTimed /\ [Next]_vars => RunningChildIsTimed'
    <2> SUFFICES ASSUME TypeOK, RunningChildIsTimed, [Next]_vars,
                        NEW d \in Children, status'[d] = "running"
                 PROVE  d \in timer' /\ stage'[d] \in Active
      BY DEF RunningChildIsTimed
    <2>0. status[d] = "running" => d \in timer /\ stage[d] \in Active
      BY DEF RunningChildIsTimed
    <2> USE DEF TypeOK
    <2>1. ASSUME NEW p \in Tasks, NEW c \in Children, NEW D \in SUBSET Tasks, Spawn(p, c, D)
          PROVE  d \in timer' /\ stage'[d] \in Active
      BY <2>0, <2>1 DEF Spawn
    <2>2. ASSUME NEW p \in Tasks, SpawnRefused(p) \/ Throttle(p) \/ WindowEnds(p)
          PROVE  d \in timer' /\ stage'[d] \in Active
      BY <2>0, <2>2 DEF SpawnRefused, Throttle, WindowEnds
    <2>3. ASSUME NEW c \in Children, NEW result \in {"done", "error"}, Settle(c, result)
          PROVE  d \in timer' /\ stage'[d] \in Active
      BY <2>0, <2>3 DEF Settle
    <2>4. ASSUME NEW c \in Children, ChainStep(c)
          PROVE  d \in timer' /\ stage'[d] \in Active
      <3>1. CASE DepsMet(c) \/ StartSend(c)
        BY <2>0, <3>1 DEF DepsMet, StartSend
      <3>2. CASE DepsFailed(c) \/ DepsTimedOut(c) \/ Complete(c) \/ Fail(c)
        BY <2>3, <3>2 DEF DepsFailed, DepsTimedOut, Complete, Fail
      <3> QED
        BY <2>4, <3>1, <3>2 DEF ChainStep
    <2>5. ASSUME NEW c \in Children, TimerFires(c) \/ CancelAgent(c) \/ WaitTimedOut(c)
          PROVE  d \in timer' /\ stage'[d] \in Active
      BY <2>0, <2>5 DEF TimerFires, CancelAgent, WaitTimedOut, Cancel
    <2>6. ASSUME NEW c \in Children, WaitSeesRunning(c) \/ WaitReturns(c)
          PROVE  d \in timer' /\ stage'[d] \in Active
      BY <2>0, <2>6 DEF WaitSeesRunning, WaitReturns
    <2>7. CASE UNCHANGED vars
      BY <2>0, <2>7 DEF vars
    <2> QED
      BY <2>1, <2>2, <2>4, <2>5, <2>6, <2>7 DEF Next
  <1> QED
    BY <1>1, <1>2, TypeCorrect, PTL DEF Spec

-----------------------------------------------------------------------------
(***************************************************************************)
(* The order of dependencies.  The record of a dependency can be           *)
(* overwritten at any time, but it says "done" only once its chain has     *)
(* ended, a chain that has ended never starts again, and an id that is     *)
(* still absent has no chain.                                              *)
(***************************************************************************)
DoneIsSettled ==
  \A t \in Tasks : /\ status[t] = "done" => stage[t] = "settled"
                   /\ status[t] = "absent" => stage[t] = "none"

OrderInv == DoneIsSettled /\ NoStartBeforeDependencies

(***************************************************************************)
(* The invariant, about one child and one of its dependencies.             *)
(***************************************************************************)
Ordered(c, d) ==
  stage[c] \in {"preparing", "sending"} /\ d \in deps[c] => stage[d] = "settled"

LEMMA OrderStep ==
  TypeOK /\ OrderInv /\ [Next]_vars => OrderInv'
  <1> SUFFICES ASSUME TypeOK, OrderInv, [Next]_vars
               PROVE  OrderInv'
    OBVIOUS
  <1> DEFINE Kept == /\ \A t \in Tasks : /\ status'[t] = "done" => stage'[t] = "settled"
                                         /\ status'[t] = "absent" => stage'[t] = "none"
                     /\ \A e \in Children : \A d \in Tasks : Ordered(e, d)'
  <1>0. SUFFICES Kept
    <2>1. deps' \in [Tasks -> SUBSET Tasks]
      <3>1. TypeOK'
        BY TypeStep
      <3> QED
        BY <3>1 DEF TypeOK
    <2> QED
      BY <2>1 DEF OrderInv, DoneIsSettled, NoStartBeforeDependencies, Ordered
  <1>a. /\ \A t \in Tasks : /\ status[t] = "done" => stage[t] = "settled"
                            /\ status[t] = "absent" => stage[t] = "none"
        /\ \A e \in Children : \A d \in Tasks : Ordered(e, d)
    BY DEF OrderInv, DoneIsSettled, NoStartBeforeDependencies, Ordered
  <1> USE DEF TypeOK, Ordered
  <1>1. ASSUME NEW p \in Tasks, NEW c \in Children, NEW D \in SUBSET Tasks, Spawn(p, c, D)
        PROVE  Kept
    BY <1>a, <1>1 DEF Spawn
  <1>2. ASSUME NEW p \in Tasks, SpawnRefused(p) \/ Throttle(p) \/ WindowEnds(p)
        PROVE  Kept
    BY <1>a, <1>2 DEF SpawnRefused, Throttle, WindowEnds
  <1>3. ASSUME NEW c \in Children, NEW result \in {"done", "error"}, Settle(c, result)
        PROVE  Kept
    BY <1>a, <1>3 DEF Settle
  <1>4. ASSUME NEW c \in Children, DepsMet(c)
        PROVE  Kept
    <2>1. \A d \in deps[c] : d \in Tasks /\ status[d] \notin {"absent", "running", "error", "cancelled"}
      BY <1>4 DEF DepsMet, FailedDeps
    <2>2. \A d \in deps[c] : stage[d] = "settled"
      BY <1>a, <2>1
    <2> QED
      BY <1>a, <1>4, <2>2 DEF DepsMet
  <1>5. ASSUME NEW c \in Children, StartSend(c)
        PROVE  Kept
    BY <1>a, <1>5 DEF StartSend
  <1>6. ASSUME NEW c \in Children, ChainStep(c)
        PROVE  Kept
    <2>1. CASE DepsFailed(c) \/ DepsTimedOut(c) \/ Complete(c) \/ Fail(c)
      BY <1>3, <2>1 DEF DepsFailed, DepsTimedOut, Complete, Fail
    <2> QED
      BY <1>4, <1>5, <1>6, <2>1 DEF ChainStep
  <1>7. ASSUME NEW c \in Children, TimerFires(c) \/ CancelAgent(c) \/ WaitTimedOut(c)
        PROVE  Kept
    BY <1>a, <1>7 DEF TimerFires, CancelAgent, WaitTimedOut, Cancel
  <1>8. ASSUME NEW c \in Children, WaitSeesRunning(c) \/ WaitReturns(c)
        PROVE  Kept
    BY <1>a, <1>8 DEF WaitSeesRunning, WaitReturns
  <1>9. CASE UNCHANGED vars
    BY <1>a, <1>9 DEF vars
  <1> QED
    BY <1>1, <1>2, <1>6, <1>7, <1>8, <1>9 DEF Next

(***************************************************************************)
(* A child starts only after every task it depends on has ended.           *)
(***************************************************************************)
THEOREM StartsAfterDependencies == Spec => []NoStartBeforeDependencies
  <1>1. Init => OrderInv
    BY DEF Init, OrderInv, DoneIsSettled, NoStartBeforeDependencies
  <1>2. OrderInv => NoStartBeforeDependencies
    BY DEF OrderInv
  <1> QED
    BY <1>1, <1>2, TypeCorrect, OrderStep, PTL DEF Spec

-----------------------------------------------------------------------------
(***************************************************************************)
(* The limits.                                                             *)
(***************************************************************************)

(***************************************************************************)
(* The running tasks are finitely many.                                    *)
(***************************************************************************)
LEMMA RunningFinite == IsFiniteSet(Running) /\ Cardinality(Running) \in Nat
  <1>1. IsFiniteSet(Tasks)
    BY FS_AddElement
  <1>2. Running \in SUBSET Tasks
    BY DEF Running
  <1> QED
    BY <1>1, <1>2, FS_Subset, FS_CardinalityType

(***************************************************************************)
(* Tasks that stop running leave room.                                     *)
(***************************************************************************)
LEMMA FewerRunning ==
  ASSUME TypeOK, RunningWithinCap,
         \A t \in Tasks : status'[t] = "running" => status[t] = "running",
         depth' = depth
  PROVE  RunningWithinCap'
  <1>1. Running' \in SUBSET Running
    BY DEF Running
  <1>2. Cardinality(Running') <= Cardinality(Running) /\ Cardinality(Running') \in Nat
    BY <1>1, RunningFinite, FS_Subset, FS_CardinalityType
  <1>3. LargestCap \in Nat
    BY DEF LargestCap
  <1> QED
    BY <1>2, <1>3, RunningFinite DEF RunningWithinCap

(***************************************************************************)
(* A fork adds one running task, below the limit.                          *)
(***************************************************************************)
LEMMA OneMoreRunning ==
  ASSUME TypeOK, RunningWithinCap,
         NEW p \in Tasks, NEW c \in Children, NEW D \in SUBSET Tasks, Spawn(p, c, D)
  PROVE  RunningWithinCap'
  <1>1. Running' = Running \cup {c}
    BY DEF Spawn, Running, TypeOK
  <1>2. c \notin Running
    BY DEF Spawn, Running
  <1>3. Cardinality(Running \cup {c}) = Cardinality(Running) + 1
    BY <1>2, RunningFinite, FS_AddElement
  <1>4. Cardinality(Running) < EffectiveCap(p)
    BY DEF Spawn, HasSlot
  <1>5. Cardinality(Running') <= LargestCap
    <2>1. EffectiveCap(p) \in 1..LargestCap /\ LargestCap \in Nat
      BY EffectiveCapType DEF LargestCap
    <2>2. Cardinality(Running') = Cardinality(Running) + 1
      BY <1>1, <1>3
    <2> QED
      BY <1>4, <2>1, <2>2, RunningFinite
  <1>6. \A t \in Tasks : depth'[t] <= MaxDepth
    BY DEF Spawn, RunningWithinCap, TypeOK
  <1> QED
    BY <1>5, <1>6 DEF RunningWithinCap

(***************************************************************************)
(* Neither the number of running tasks nor their depth exceeds its limit.  *)
(***************************************************************************)
THEOREM WithinCap == Spec => []RunningWithinCap
  <1>1. Init => RunningWithinCap
    <2> SUFFICES ASSUME Init PROVE RunningWithinCap
      OBVIOUS
    <2>1. Running = {Root}
      BY DEF Init, Running
    <2>2. Cardinality({Root}) = 1
      BY FS_Singleton
    <2>3. Cardinality(Running) = 1
      BY <2>1, <2>2
    <2> QED
      BY <2>3 DEF Init, RunningWithinCap, LargestCap
  <1>2. TypeOK /\ RunningWithinCap /\ [Next]_vars => RunningWithinCap'
    <2> SUFFICES ASSUME TypeOK, RunningWithinCap, [Next]_vars
                 PROVE  RunningWithinCap'
      OBVIOUS
    <2> DEFINE Fewer == /\ \A t \in Tasks : status'[t] = "running" => status[t] = "running"
                        /\ depth' = depth
    <2>1. ASSUME NEW p \in Tasks, SpawnRefused(p) \/ Throttle(p) \/ WindowEnds(p)
          PROVE  Fewer
      BY <2>1 DEF SpawnRefused, Throttle, WindowEnds
    <2>2. ASSUME NEW c \in Children, NEW result \in {"done", "error"}, Settle(c, result)
          PROVE  Fewer
      BY <2>2 DEF Settle, TypeOK
    <2>3. ASSUME NEW c \in Children, ChainStep(c)
          PROVE  Fewer
      <3>1. CASE DepsMet(c) \/ StartSend(c)
        BY <3>1 DEF DepsMet, StartSend
      <3>2. CASE DepsFailed(c) \/ DepsTimedOut(c) \/ Complete(c) \/ Fail(c)
        BY <2>2, <3>2 DEF DepsFailed, DepsTimedOut, Complete, Fail
      <3> QED
        BY <2>3, <3>1, <3>2 DEF ChainStep
    <2>4. ASSUME NEW c \in Children, TimerFires(c) \/ CancelAgent(c) \/ WaitTimedOut(c)
          PROVE  Fewer
      BY <2>4 DEF TimerFires, CancelAgent, WaitTimedOut, Cancel, TypeOK
    <2>5. ASSUME NEW c \in Children, WaitSeesRunning(c) \/ WaitReturns(c)
          PROVE  Fewer
      BY <2>5 DEF WaitSeesRunning, WaitReturns
    <2>6. ASSUME UNCHANGED vars
          PROVE  Fewer
      BY <2>6 DEF vars
    <2>7. CASE Fewer
      BY <2>7, FewerRunning
    <2>8. ASSUME NEW p \in Tasks, NEW c \in Children, NEW D \in SUBSET Tasks, Spawn(p, c, D)
          PROVE  RunningWithinCap'
      BY <2>8, OneMoreRunning
    <2> HIDE DEF Fewer
    <2> QED
      BY <2>1, <2>3, <2>4, <2>5, <2>6, <2>7, <2>8 DEF Next
  <1> QED
    BY <1>1, <1>2, TypeCorrect, PTL DEF Spec
=============================================================================
