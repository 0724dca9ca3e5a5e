------------------------ MODULE WorkflowRuntimeProofs ------------------------
(***************************************************************************)
(* Proofs about WorkflowRuntime, for any number of phases, tasks and       *)
(* iterations and any budget: the width of the pool, what is reported and  *)
(* spent, and, from what is proved of topoSortPhases, that phases wait for *)
(* their dependencies.                                                     *)
(***************************************************************************)
EXTENDS WorkflowRuntime, PhaseOrderProofs

USE WorkflowAssumption DEF WorkflowAssumption

(***************************************************************************)
(* What repeats of the verify loop may add before iteration k.             *)
(***************************************************************************)
Repeats(k) == (k - 1) * (MaxTasks + 1)

Places == {"start", "phase", "fanOut", "review", "reviewing", "verify", "fold", "report", "returned"}

(***************************************************************************)
(* The pool: agents fly during a fan-out only, for tasks that were taken,  *)
(* and no more of them than the pool is wide.                              *)
(***************************************************************************)
PoolShape ==
  /\ pc \in Places
  /\ phase.tasks \in 1..MaxTasks /\ phase.wave \in 1..MaxTasks
  /\ phase.iterations \in 1..MaxIterations
  /\ iter \in 1..phase.iterations
  /\ next \in 1..(phase.tasks + 1)
  /\ flying \subseteq 1..(next - 1)
  /\ pc # "fanOut" => flying = {}
  /\ Cardinality(flying) <= Width

(***************************************************************************)
(* The runtime's count: behind the forks by those of the fan-out or review *)
(* under way, and above the budget by what the repeats and one review add. *)
(***************************************************************************)
CountShape ==
  /\ spawned \in Nat /\ started \in Nat
  /\ started <= spawned + (IF pc = "fanOut" THEN next - 1 ELSE IF pc = "reviewing" THEN 1 ELSE 0)
  /\ pc = "fanOut" => spawned + phase.tasks <= MaxAgents + Repeats(iter)
  /\ pc \in {"review", "reviewing"} => spawned <= MaxAgents + Repeats(iter)
  /\ pc = "verify" => spawned <= MaxAgents + Repeats(iter) + 1
  /\ pc \in {"start", "phase", "fold", "report", "returned"} =>
       spawned <= MaxAgents + Repeats(MaxIterations) + 1

RuntimeInv == PoolShape /\ CountShape

(***************************************************************************)
(* Facts about Repeats, the only product of this module.                   *)
(***************************************************************************)
LEMMA RepeatsGrow ==
  ASSUME NEW k \in Nat \ {0}, NEW m \in Nat \ {0}, k <= m
  PROVE  /\ Repeats(k) \in Nat
         /\ Repeats(1) = 0
         /\ Repeats(k + 1) = Repeats(k) + MaxTasks + 1
         /\ Repeats(k) <= Repeats(m)
  <1> DEFINE B == MaxTasks + 1
  <1>1. B \in Nat
    OBVIOUS
  <1>2. Repeats(1) = 0 /\ \A j \in Nat \ {0} : Repeats(j) = (j - 1) * B
    BY <1>1 DEF Repeats
  <1> HIDE DEF B
  <1>3. (k - 1) * B \in Nat /\ ((k + 1) - 1) * B = (k - 1) * B + B
    BY <1>1
  <1>4. (m - 1) * B = (k - 1) * B + (m - k) * B
    BY <1>1
  <1>5. (m - k) * B \in Nat
    BY <1>1
  <1> QED
    BY <1>1, <1>2, <1>3, <1>4, <1>5 DEF B

(***************************************************************************)
(* A step keeps the shape of the pool.                                     *)
(***************************************************************************)
LEMMA PoolStep == PoolShape /\ spawned \in Nat /\ [Next]_vars => PoolShape'
  <1> SUFFICES ASSUME PoolShape, spawned \in Nat, [Next]_vars
               PROVE  PoolShape'
    OBVIOUS
  <1>0. IsFiniteSet(flying) /\ next \in Nat
    <2>1. next \in Nat /\ next - 1 \in Nat
      BY DEF PoolShape
    <2>2. IsFiniteSet(1..(next - 1))
      BY <2>1, FS_Interval
    <2> QED
      BY <2>1, <2>2, FS_Subset DEF PoolShape
  <1>1. ASSUME NEW s \in PhaseSpec, BeginPhase(s)
        PROVE  PoolShape'
    <2>1. flying = {} /\ flying' = {} /\ Cardinality(flying') = 0
      BY <1>1, FS_EmptySet DEF BeginPhase, PoolShape
    <2>2. phase' = [s EXCEPT !.tasks = Smaller(@, MaxAgents - spawned)]
          /\ MaxAgents - spawned > 0
      BY <1>1 DEF BeginPhase, Sliced
    <2> QED
      <3>1. /\ s.tasks \in 1..MaxTasks /\ s.wave \in 1..MaxTasks
            /\ s.iterations \in 1..MaxIterations
            /\ phase'.tasks = Smaller(s.tasks, MaxAgents - spawned)
            /\ phase'.wave = s.wave /\ phase'.iterations = s.iterations
        BY <2>2 DEF PhaseSpec
      <3>2. phase'.tasks \in 1..MaxTasks
        BY <3>1, <2>2, spawned \in Nat DEF Smaller
      <3>3. iter' = 1 /\ next' = 1 /\ pc' = "fanOut"
        BY <1>1 DEF BeginPhase
      <3>4. Width' \in Nat
        BY <3>1, <3>2 DEF Width, Smaller
      <3> QED
        BY <2>1, <3>1, <3>2, <3>3, <3>4 DEF PoolShape, Places
  <1>2. CASE ForkTask
    <2>1. next \notin flying /\ flying' = flying \cup {next}
      BY <1>2, <1>0 DEF ForkTask, PoolShape
    <2>2. Cardinality(flying') = Cardinality(flying) + 1 /\ Cardinality(flying) \in Nat
      BY <2>1, <1>0, FS_AddElement, FS_CardinalityType
    <2> QED
      BY <1>2, <2>1, <2>2 DEF ForkTask, PoolShape, Width, Smaller
  <1>3. CASE ForkRefused
    BY <1>3 DEF ForkRefused, PoolShape, Width, Smaller
  <1>4. ASSUME NEW i \in 1..MaxTasks, TaskSettles(i)
        PROVE  PoolShape'
    <2>1. Cardinality(flying') = Cardinality(flying) - 1 /\ Cardinality(flying) \in Nat
      BY <1>4, <1>0, FS_RemoveElement, FS_CardinalityType DEF TaskSettles
    <2> QED
      BY <1>4, <2>1 DEF TaskSettles, PoolShape, Width, Smaller
  <1>5. CASE FanOutDone
    BY <1>5 DEF FanOutDone, PoolShape, Places, Width, Smaller
  <1>6. CASE VerifyFails
    <2>1. flying = {} /\ flying' = {} /\ Width' = Width
      BY <1>6 DEF VerifyFails, PoolShape, Width, Smaller
    <2> QED
      BY <1>6, <2>1 DEF VerifyFails, PoolShape, Places
  <1>7. ASSUME /\ pc # "fanOut" /\ pc' \in Places \ {"fanOut"}
               /\ UNCHANGED <<phase, iter, next, flying>>
        PROVE  PoolShape'
    BY <1>7 DEF PoolShape, Width, Smaller
  <1>8. CASE UNCHANGED <<pc, phase, iter, next, flying>>
    BY <1>8 DEF PoolShape, Width, Smaller
  <1>9. Start \/ BudgetExhausted \/ ForkReviewer \/ ReviewRefused \/ ReviewSettles
        \/ VerifyPasses \/ Fold \/ PhasesDone \/ Report
        => /\ pc # "fanOut" /\ pc' \in Places \ {"fanOut"}
           /\ UNCHANGED <<phase, iter, next, flying>>
    BY DEF Places, Start, BudgetExhausted, ForkReviewer, ReviewRefused, ReviewSettles, VerifyPasses,
           Fold, PhasesDone, Report
  <1>10. CallerAnswered \/ WallClockFires \/ Finished \/ UNCHANGED vars
         => UNCHANGED <<pc, phase, iter, next, flying>>
    BY DEF CallerAnswered, WallClockFires, Finished, vars
  <1> QED
    BY <1>1, <1>2, <1>3, <1>4, <1>5, <1>6, <1>7, <1>8, <1>9, <1>10 DEF Next, RunStep, AwaitedAnswers

(***************************************************************************)
(* A step keeps the relation of what is counted, forked and budgeted.      *)
(***************************************************************************)
LEMMA CountStep == PoolShape /\ CountShape /\ [Next]_vars => CountShape'
  <1> SUFFICES ASSUME PoolShape, CountShape, [Next]_vars
               PROVE  CountShape'
    OBVIOUS
  <1>0. /\ iter \in Nat \ {0} /\ iter <= MaxIterations /\ next \in Nat /\ phase.tasks \in Nat
        /\ next - 1 <= phase.tasks /\ phase.tasks <= MaxTasks
        /\ phase.iterations <= MaxIterations /\ phase.iterations \in Nat
    BY DEF PoolShape
  <1>r. /\ Repeats(iter) \in Nat /\ Repeats(MaxIterations) \in Nat
        /\ Repeats(1) = 0
        /\ Repeats(iter + 1) = Repeats(iter) + MaxTasks + 1
        /\ Repeats(iter) <= Repeats(MaxIterations)
    BY <1>0, RepeatsGrow
  <1>1. ASSUME NEW s \in PhaseSpec, BeginPhase(s)
        PROVE  CountShape'
    <2>1. /\ phase'.tasks = Smaller(s.tasks, MaxAgents - spawned) /\ s.tasks \in Nat
          /\ iter' = 1 /\ next' = 1 /\ pc = "phase" /\ pc' = "fanOut"
          /\ UNCHANGED <<spawned, started>>
      BY <1>1 DEF BeginPhase, Sliced, PhaseSpec
    <2>2. phase'.tasks <= MaxAgents - spawned /\ phase'.tasks \in Int
      BY <2>1 DEF Smaller, CountShape
    <2> QED
      BY <2>1, <2>2, <1>r DEF CountShape
  <1>2. CASE ForkTask
    BY <1>2, <1>0, <1>r DEF ForkTask, CountShape
  <1>3. CASE ForkRefused
    BY <1>3, <1>0, <1>r DEF ForkRefused, CountShape
  <1>4. ASSUME NEW i \in 1..MaxTasks, TaskSettles(i)
        PROVE  CountShape'
    BY <1>4 DEF TaskSettles, CountShape
  <1>5. CASE FanOutDone
    BY <1>5, <1>0, <1>r DEF FanOutDone, CountShape
  <1>6. CASE ForkReviewer
    BY <1>6, <1>0, <1>r DEF ForkReviewer, CountShape
  <1>7. CASE ReviewRefused
    BY <1>7, <1>0, <1>r DEF ReviewRefused, CountShape
  <1>8. CASE ReviewSettles
    BY <1>8, <1>0, <1>r DEF ReviewSettles, CountShape
  <1>9. CASE VerifyPasses
    BY <1>9, <1>0, <1>r DEF VerifyPasses, CountShape
  <1>10. CASE VerifyFails
    <2>1. CASE iter' = iter + 1 /\ next' = 1 /\ pc' = "fanOut"
      BY <1>10, <2>1, <1>0, <1>r DEF VerifyFails, CountShape
    <2>2. CASE pc' = "fold"
      BY <1>10, <2>2, <1>0, <1>r DEF VerifyFails, CountShape
    <2> QED
      BY <1>10, <2>1, <2>2 DEF VerifyFails
  <1>11. CASE Fold \/ Start \/ BudgetExhausted \/ PhasesDone \/ Report
    BY <1>11, <1>0, <1>r DEF Fold, Start, BudgetExhausted, PhasesDone, Report, CountShape
  <1>12. CASE CallerAnswered \/ WallClockFires \/ Finished \/ UNCHANGED vars
    BY <1>12 DEF CallerAnswered, WallClockFires, Finished, vars, CountShape
  <1> QED
    BY <1>1, <1>2, <1>3, <1>4, <1>5, <1>6, <1>7, <1>8, <1>9, <1>10, <1>11, <1>12
       DEF Next, RunStep, AwaitedAnswers

(***************************************************************************)
(* Both hold always.                                                       *)
(***************************************************************************)
LEMMA RuntimeHolds == Spec => []RuntimeInv
  <1>1. Init => RuntimeInv
    <2> SUFFICES ASSUME Init PROVE RuntimeInv
      OBVIOUS
    <2>1. Cardinality(flying) = 0
      BY FS_EmptySet DEF Init
    <2>2. PoolShape
      BY <2>1 DEF Init, NoPhase, PoolShape, Places, Width, Smaller
    <2>3. Repeats(MaxIterations) \in Nat
      BY RepeatsGrow
    <2>4. CountShape
      BY <2>3 DEF Init, CountShape
    <2> QED
      BY <2>2, <2>4 DEF RuntimeInv
  <1>2. RuntimeInv /\ [Next]_vars => RuntimeInv'
    BY PoolStep, CountStep DEF RuntimeInv, CountShape
  <1> QED
    BY <1>1, <1>2, PTL DEF Spec

(***************************************************************************)
(* At most maxConcurrent sub-agents of a run are in flight (mapPool and    *)
(* runReviewer), for every number of tasks and every width.                *)
(***************************************************************************)
THEOREM InFlightCorrect == Spec => []InFlightBound
  <1>1. RuntimeInv => InFlightBound
    <2> SUFFICES ASSUME RuntimeInv PROVE InFlightBound
      OBVIOUS
    <2>1. CASE pc = "reviewing"
      <3>1. flying = {} /\ Cardinality(flying) = 0
        BY <2>1, FS_EmptySet DEF RuntimeInv, PoolShape
      <3> QED
        BY <2>1, <3>1 DEF InFlightBound
    <2>2. CASE pc # "reviewing"
      <3>1. Width \in Nat /\ Width <= MaxConcurrent
        BY DEF RuntimeInv, PoolShape, Width, Smaller
      <3>2. IsFiniteSet(1..(next - 1))
        BY FS_Interval DEF RuntimeInv, PoolShape
      <3>3. Cardinality(flying) \in Nat
        BY <3>2, FS_Subset, FS_CardinalityType DEF RuntimeInv, PoolShape
      <3> QED
        BY <2>2, <3>1, <3>3 DEF RuntimeInv, PoolShape, InFlightBound
    <2> QED
      BY <2>1, <2>2
  <1> QED
    BY RuntimeHolds, <1>1, PTL

(***************************************************************************)
(* The budget of agents is exceeded by what reviews and repeats of one     *)
(* phase add, and never by more.                                           *)
(***************************************************************************)
THEOREM OvershootCorrect == Spec => []OvershootIsBounded
  <1>1. RuntimeInv => OvershootIsBounded
    <2> SUFFICES ASSUME RuntimeInv PROVE OvershootIsBounded
      OBVIOUS
    <2>1. /\ iter \in Nat \ {0} /\ iter <= MaxIterations /\ next \in Nat /\ phase.tasks \in Nat
          /\ next - 1 <= phase.tasks
      BY DEF RuntimeInv, PoolShape
    <2>2. /\ Repeats(iter) \in Nat /\ Repeats(MaxIterations) \in Nat
          /\ Repeats(iter) <= Repeats(MaxIterations)
      BY <2>1, RepeatsGrow
    <2>3. pc \in Places => started <= MaxAgents + 1 + Repeats(MaxIterations)
      BY <2>1, <2>2 DEF Places, RuntimeInv, CountShape
    <2>4. pc \in Places
      BY DEF RuntimeInv, PoolShape
    <2> QED
      BY <2>3, <2>4 DEF OvershootIsBounded, Repeats
  <1> QED
    BY RuntimeHolds, <1>1, PTL

(***************************************************************************)
(* The agents a finished run reports are at least those it forked, refused *)
(* forks and repeats of the verify loop included.                          *)
(***************************************************************************)
THEOREM TotalCorrect == Spec => []TotalCountsEveryAgent
  <1>1. RuntimeInv => TotalCountsEveryAgent
    BY DEF RuntimeInv, CountShape, TotalCountsEveryAgent
  <1> QED
    BY RuntimeHolds, <1>1, PTL

-----------------------------------------------------------------------------
(***************************************************************************)
(* The order of the phases.                                                *)
(***************************************************************************)
USE PhaseCountAssumption DEF PhaseIds

(***************************************************************************)
(* Where the loop is at work on a phase.                                   *)
(***************************************************************************)
AtPhase == {"fanOut", "review", "reviewing", "verify", "fold"}

(***************************************************************************)
(* The summaries are those of the first phases of a complete order, all of *)
(* them but the current one; an ok run has only ok ones, and it does not   *)
(* leave the loop before the last, unless truncated.                       *)
(***************************************************************************)
Progress ==
  /\ \/ Len(Order) = PhaseCount
     \/ summaries = <<>> /\ (pc = "start" \/ (pc = "returned" /\ ~runOk))
  /\ pc \in AtPhase => pos <= PhaseCount
  /\ pc \in AtPhase \cup {"start", "phase"} => Len(summaries) = pos - 1
  /\ Len(summaries) <= PhaseCount
  /\ \A i \in 1..Len(summaries) : summaries[i].phase = Order[i]
  /\ runOk => \A i \in 1..Len(summaries) : summaries[i].ok
  /\ pc \in {"report", "returned"} /\ runOk => truncated \/ Len(summaries) = PhaseCount
  /\ \A p \in cursor : deps[p] \subseteq cursor

(***************************************************************************)
(* What topoSortPhases promises of the order of a run.                     *)
(***************************************************************************)
LEMMA OrderMeaning ==
  ASSUME deps \in DependsOn
  PROVE  /\ Order \in Seq(PhaseIds)
         /\ Len(Order) \in Nat /\ \A i \in 1..Len(Order) : Order[i] \in PhaseIds
         /\ \A j \in 1..Len(Order) : deps[Order[j]] \subseteq {Order[i] : i \in 1..(j - 1)}
         /\ Len(Order) = PhaseCount => {Order[i] : i \in 1..PhaseCount} = PhaseIds
<1> DEFINE o == Order
<1>1. o \in Seq(PhaseIds) /\ IsInjective(o) /\ Sorted(deps, o)
  BY TopoSortMeaning DEF Order
<1> HIDE DEF o
<1>2. Len(o) = PhaseCount <=> Range(o) = PhaseIds
  BY <1>1, KahnComplete
<1>3. Len(o) \in Nat /\ DOMAIN o = 1..Len(o) /\ \A i \in 1..Len(o) : o[i] \in PhaseIds
  BY <1>1
<1>4. Len(o) = PhaseCount => {o[i] : i \in 1..PhaseCount} = PhaseIds
  BY <1>2, <1>3 DEF Range
<1> QED
  BY <1>1, <1>3, <1>4 DEF Sorted, o

(***************************************************************************)
(* What Fold appends.                                                      *)
(***************************************************************************)
LEMMA FoldAppends ==
  ASSUME TypeOK, Progress, Fold
  PROVE  /\ summaries' \in Seq([phase : PhaseIds, ok : BOOLEAN])
         /\ Len(summaries') = pos /\ pos \in 1..PhaseCount /\ Len(Order) = PhaseCount
         /\ \A i \in 1..pos : summaries'[i].phase = Order[i]
         /\ \A i \in 1..(pos - 1) : summaries'[i] = summaries[i]
         /\ summaries'[pos].ok = phaseOk
<1> DEFINE e == [phase |-> Order[pos], ok |-> phaseOk]
           o == Order
<1>1. /\ pos \in 1..PhaseCount /\ Len(summaries) = pos - 1
      /\ Len(o) = PhaseCount /\ o[pos] \in PhaseIds
      /\ \A i \in 1..(pos - 1) : summaries[i].phase = o[i]
  <2>1. pc = "fold" /\ pos \in 1..(PhaseCount + 1) /\ deps \in DependsOn
    BY DEF Fold, TypeOK
  <2>2. pos \in 1..PhaseCount /\ Len(summaries) = pos - 1 /\ Len(o) = PhaseCount
    BY <2>1 DEF Progress, AtPhase
  <2>3. o[pos] \in PhaseIds
    BY <2>1, <2>2, OrderMeaning
  <2> QED BY <2>2, <2>3 DEF Progress
<1>2. e \in [phase : PhaseIds, ok : BOOLEAN] /\ e.phase = o[pos] /\ e.ok = phaseOk
  BY <1>1 DEF TypeOK
<1>3. summaries' = Append(summaries, e) /\ summaries \in Seq([phase : PhaseIds, ok : BOOLEAN])
  BY DEF Fold, TypeOK
<1> HIDE DEF e, o
<1>4. /\ summaries' \in Seq([phase : PhaseIds, ok : BOOLEAN])
      /\ Len(summaries') = pos /\ summaries'[pos] = e
      /\ \A i \in 1..(pos - 1) : summaries'[i] = summaries[i]
  BY <1>1, <1>2, <1>3
<1>5. \A i \in 1..pos : summaries'[i].phase = o[i]
  <2> SUFFICES ASSUME NEW i \in 1..pos PROVE summaries'[i].phase = o[i]
    OBVIOUS
  <2>1. i = pos \/ i \in 1..(pos - 1)
    BY <1>1
  <2> QED BY <1>1, <1>2, <1>4, <2>1
<1> QED
  BY <1>1, <1>2, <1>4, <1>5 DEF o

(***************************************************************************)
(* Every step keeps the types.                                             *)
(***************************************************************************)
LEMMA RuntimeTypeStep == TypeOK /\ Progress /\ [Next]_vars => TypeOK'
<1> SUFFICES ASSUME TypeOK, Progress, [Next]_vars PROVE TypeOK'
  OBVIOUS
<1> USE DEF TypeOK
<1>1. ASSUME NEW s \in PhaseSpec, BeginPhase(s) PROVE TypeOK'
  <2>1. /\ phase' = [s EXCEPT !.tasks = Smaller(@, MaxAgents - spawned)]
        /\ MaxAgents - spawned \in Nat \ {0}
    BY <1>1 DEF BeginPhase, Sliced
  <2>2. s.tasks \in 1..MaxTasks
    BY DEF PhaseSpec
  <2>3. Smaller(s.tasks, MaxAgents - spawned) \in 1..MaxTasks
    <3> DEFINE a == s.tasks
               b == MaxAgents - spawned
    <3>1. a \in 1..MaxTasks /\ b \in Nat \ {0}
      BY <2>1, <2>2
    <3> HIDE DEF a, b
    <3>2. Smaller(a, b) \in 1..MaxTasks
      BY <3>1 DEF Smaller
    <3> QED BY <3>2 DEF a, b
  <2>4. phase' \in PhaseSpec
    BY <2>1, <2>3 DEF PhaseSpec
  <2> QED BY <1>1, <2>4 DEF BeginPhase
<1>2. CASE Fold
  <2>1. /\ pos \in 1..PhaseCount
        /\ summaries' \in Seq([phase : PhaseIds, ok : BOOLEAN])
    BY <1>2, FoldAppends
  <2>2. {summaries'[i].phase : i \in DOMAIN summaries'} \subseteq PhaseIds
    <3> DEFINE Summary == [phase : PhaseIds, ok : BOOLEAN]
    <3>1. \A e \in Summary : e.phase \in PhaseIds
      OBVIOUS
    <3> HIDE DEF Summary
    <3>2. \A i \in DOMAIN summaries' : summaries'[i] \in Summary
      <4>1. summaries' \in Seq(Summary)
        BY <2>1 DEF Summary
      <4> QED BY ONLY <4>1
    <3> QED BY <3>1, <3>2
  <2>3. cursor' \subseteq PhaseIds /\ pos' \in 1..(PhaseCount + 1)
    <3>1. pos' \in {pos, pos + 1}
      BY <1>2 DEF Fold
    <3>2. \/ cursor' = cursor
          \/ cursor' = {summaries'[i].phase : i \in DOMAIN summaries'}
      BY <1>2 DEF Fold
    <3>3. cursor \subseteq PhaseIds
      OBVIOUS
    <3>4. cursor' \subseteq PhaseIds
      BY <2>2, <3>2, <3>3, Zenon
    <3> QED BY <2>1, <3>1, <3>4
  <2> QED BY <1>2, <2>1, <2>3 DEF Fold
<1>3. CASE Start \/ BudgetExhausted \/ PhasesDone \/ Report
  BY <1>3 DEF Start, BudgetExhausted, PhasesDone, Report
<1>4. CASE ForkTask \/ ForkRefused
  <2>1. next \in 1..MaxTasks
    BY <1>4 DEF ForkTask, ForkRefused, PhaseSpec
  <2>2. next + 1 \in 1..(MaxTasks + 1) /\ started + 1 \in Nat
    BY <2>1
  <2>3. CASE ForkTask
    BY <2>1, <2>2, <2>3 DEF ForkTask
  <2>4. CASE ForkRefused
    BY <2>2, <2>4 DEF ForkRefused
  <2> QED BY <1>4, <2>3, <2>4
<1>5. ASSUME NEW i \in 1..MaxTasks, TaskSettles(i) PROVE TypeOK'
  BY <1>5 DEF TaskSettles
<1>6. CASE FanOutDone
  <2>1. spawned' \in Nat /\ pc' \in {"review", "verify"}
    BY <1>6 DEF FanOutDone, PhaseSpec
  <2> QED BY <1>6, <2>1 DEF FanOutDone
<1>7. CASE ForkReviewer \/ ReviewRefused \/ ReviewSettles
  <2>1. spawned' \in Nat /\ started' \in Nat /\ pc' \in {"reviewing", "verify"}
    BY <1>7 DEF ForkReviewer, ReviewRefused, ReviewSettles
  <2>2. UNCHANGED <<deps, pos, phase, iter, next, flying, phaseOk, truncated, runOk, summaries,
                    cursor, caller>>
    BY <1>7 DEF ForkReviewer, ReviewRefused, ReviewSettles
  <2> QED BY <2>1, <2>2
<1>8. CASE VerifyPasses \/ VerifyFails
  <2>3. phase.iterations \in 1..MaxIterations
    BY DEF PhaseSpec
  <2>1. /\ iter' \in 1..MaxIterations /\ next' \in 1..(MaxTasks + 1)
        /\ phaseOk' \in BOOLEAN /\ pc' \in {"fanOut", "fold"}
    <3>1. CASE VerifyPasses
      BY <3>1 DEF VerifyPasses
    <3>2. CASE VerifyFails
      <4>1. CASE pc' = "fanOut" /\ iter' = iter + 1 /\ next' = 1 /\ iter < phase.iterations
        <5>1. phaseOk' = FALSE
          BY <3>2 DEF VerifyFails
        <5>2. iter \in 1..MaxIterations
          OBVIOUS
        <5>3. iter + 1 \in 1..MaxIterations
          BY <2>3, <4>1, <5>2
        <5>4. 1 \in 1..(MaxTasks + 1)
          OBVIOUS
        <5> QED BY <4>1, <5>1, <5>3, <5>4
      <4>2. CASE pc' = "fold" /\ UNCHANGED <<iter, next>>
        BY <3>2, <4>2 DEF VerifyFails
      <4> QED BY <3>2, <4>1, <4>2 DEF VerifyFails
    <3> QED BY <1>8, <3>1, <3>2
  <2>2. UNCHANGED <<deps, pos, phase, flying, spawned, truncated, runOk, summaries, cursor,
                    started, caller>>
    BY <1>8 DEF VerifyPasses, VerifyFails
  <2> QED BY <2>1, <2>2
<1>9. CASE CallerAnswered \/ WallClockFires \/ Finished \/ UNCHANGED vars
  BY <1>9 DEF CallerAnswered, WallClockFires, Finished, vars
<1> QED
  BY <1>1, <1>2, <1>3, <1>4, <1>5, <1>6, <1>7, <1>8, <1>9 DEF Next, RunStep, AwaitedAnswers

(***************************************************************************)
(* Every step keeps the progress.                                          *)
(***************************************************************************)
LEMMA ProgressStep == TypeOK /\ Progress /\ [Next]_vars => Progress'
<1> SUFFICES ASSUME TypeOK, Progress, [Next]_vars PROVE Progress'
  OBVIOUS
<1>0. Order' = Order /\ deps' = deps
  <2>1. deps' = deps
    BY DEF Next, RunStep, AwaitedAnswers, Start, BeginPhase,
           BudgetExhausted, ForkTask, ForkRefused, TaskSettles,
           FanOutDone, ForkReviewer, ReviewRefused, ReviewSettles, VerifyPasses, VerifyFails, Fold,
           PhasesDone, Report, CallerAnswered, WallClockFires, Finished, vars
  <2> QED BY <2>1 DEF Order
<1>t. pos \in 1..(PhaseCount + 1) /\ Len(summaries) \in Nat /\ deps \in DependsOn
  BY DEF TypeOK
<1>1. CASE Fold
  <2>1. /\ Len(summaries') = pos /\ pos \in 1..PhaseCount /\ Len(Order) = PhaseCount
        /\ \A i \in 1..pos : summaries'[i].phase = Order[i]
        /\ \A i \in 1..(pos - 1) : summaries'[i] = summaries[i]
        /\ summaries'[pos].ok = phaseOk
        /\ summaries' \in Seq([phase : PhaseIds, ok : BOOLEAN])
    BY <1>1, FoldAppends
  <2>2. runOk' => \A i \in 1..pos : summaries'[i].ok
    <3> SUFFICES ASSUME runOk', NEW i \in 1..pos PROVE summaries'[i].ok
      BY Zenon
    <3>1. runOk /\ phaseOk
      BY <1>1 DEF Fold
    <3>2. Len(summaries) = pos - 1
      BY <1>1 DEF Fold, Progress, AtPhase
    <3>3. CASE i = pos
      BY <2>1, <3>1, <3>3
    <3>4. CASE i \in 1..(pos - 1)
      <4>1. summaries[i].ok
        BY <3>1, <3>2, <3>4 DEF Progress
      <4> QED BY <2>1, <3>4, <4>1
    <3> QED BY <2>1, <3>3, <3>4
  <2>3. \A p \in cursor' : deps[p] \subseteq cursor'
    <3>1. CASE cursor' = cursor
      BY <3>1 DEF Progress
    <3>2. CASE cursor' = {Order[i] : i \in 1..pos}
      <4> SUFFICES ASSUME NEW j \in 1..pos PROVE deps[Order[j]] \subseteq {Order[i] : i \in 1..pos}
        BY <3>2
      <4>1. j \in 1..Len(Order)
        BY <2>1
      <4>2. deps[Order[j]] \subseteq {Order[i] : i \in 1..(j - 1)}
        BY <1>t, <4>1, OrderMeaning
      <4>3. \A i \in 1..(j - 1) : i \in 1..pos
        BY <2>1
      <4> QED BY <4>2, <4>3
    <3>3. {summaries'[i].phase : i \in DOMAIN summaries'} = {Order[i] : i \in 1..pos}
      <4>1. DOMAIN summaries' = 1..pos
        BY <2>1
      <4> QED BY <2>1, <4>1
    <3>4. cursor' \in {cursor, {summaries'[i].phase : i \in DOMAIN summaries'}}
      BY <1>1 DEF Fold
    <3> QED BY <3>1, <3>2, <3>3, <3>4
  <2>4. \/ pc' = "report" /\ pos' = pos /\ ~runOk'
        \/ pc' = "phase" /\ pos' = pos + 1
    BY <1>1 DEF Fold
  <2> HIDE DEF Order
  <2> QED BY <1>0, <2>1, <2>2, <2>3, <2>4 DEF Progress, AtPhase
<1>2. CASE Start
  <2>1. pc = "start" /\ Len(summaries) <= PhaseCount
    BY <1>2 DEF Start, Progress
  <2>2. \/ Len(Order) = PhaseCount /\ pc' = "phase" /\ runOk' = runOk
        \/ pc' = "returned" /\ runOk' = FALSE /\ (Len(Order) = PhaseCount \/ summaries = <<>>)
    BY <1>2 DEF Start, Progress
  <2>3. UNCHANGED <<pos, summaries, truncated, cursor>>
    BY <1>2 DEF Start
  <2> QED BY <1>0, <1>t, <2>1, <2>2, <2>3 DEF Progress, AtPhase
<1>3. ASSUME NEW s \in PhaseSpec, BeginPhase(s) PROVE Progress'
  <2>1. /\ pc = "phase" /\ pc' = "fanOut" /\ pos <= PhaseCount
        /\ UNCHANGED <<pos, summaries, cursor, runOk>>
    BY <1>3 DEF BeginPhase
  <2> QED BY <1>0, <2>1 DEF Progress, AtPhase
<1>4. CASE BudgetExhausted \/ PhasesDone \/ Report
  <2>1. /\ pc \in {"phase", "report"} /\ pc' \in {"report", "returned"}
        /\ UNCHANGED <<pos, summaries, cursor, runOk>>
        /\ pc = "phase" => truncated' \/ (pos > PhaseCount)
        /\ pc = "report" => truncated' = truncated
    BY <1>4 DEF BudgetExhausted, PhasesDone, Report
  <2> QED BY <1>0, <1>t, <2>1 DEF Progress, AtPhase
<1>5. ASSUME pc \in AtPhase, pc' \in AtPhase,
             UNCHANGED <<pos, summaries, cursor, runOk, truncated>>
      PROVE  Progress'
  BY <1>0, <1>5 DEF Progress, AtPhase
<1>6. ASSUME UNCHANGED <<pc, pos, summaries, cursor, runOk, truncated>>
      PROVE  Progress'
  BY <1>0, <1>6 DEF Progress
<1>7. \/ ForkTask \/ ForkRefused \/ (\E i \in 1..MaxTasks : TaskSettles(i)) \/ FanOutDone
      \/ ForkReviewer \/ ReviewRefused \/ ReviewSettles \/ VerifyPasses \/ VerifyFails
      => /\ pc \in AtPhase /\ pc' \in AtPhase
         /\ UNCHANGED <<pos, summaries, cursor, runOk, truncated>>
  BY DEF AtPhase, ForkTask, ForkRefused, TaskSettles, FanOutDone, ForkReviewer, ReviewRefused,
         ReviewSettles, VerifyPasses, VerifyFails
<1>8. CallerAnswered \/ WallClockFires \/ Finished \/ UNCHANGED vars
      => UNCHANGED <<pc, pos, summaries, cursor, runOk, truncated>>
  BY DEF CallerAnswered, WallClockFires, Finished, vars
<1> QED
  BY <1>1, <1>2, <1>3, <1>4, <1>5, <1>6, <1>7, <1>8 DEF Next, RunStep, AwaitedAnswers

(***************************************************************************)
(* The variables keep their types, and the run its progress.               *)
(***************************************************************************)
LEMMA ProgressHolds == Spec => [](TypeOK /\ Progress)
<1>1. Init => TypeOK /\ Progress
  <2> SUFFICES ASSUME Init PROVE TypeOK /\ Progress
    OBVIOUS
  <2>1. NoPhase \in PhaseSpec
    BY DEF NoPhase, PhaseSpec
  <2>2. summaries = <<>> /\ summaries \in Seq([phase : PhaseIds, ok : BOOLEAN]) /\ cursor = {}
    BY DEF Init
  <2>3. /\ pos = 1 /\ iter = 1 /\ next = 1 /\ spawned = 0 /\ started = 0 /\ pc = "start"
        /\ flying = {} /\ phaseOk /\ runOk /\ ~truncated /\ phase = NoPhase
        /\ caller = "awaiting" /\ deps \in DependsOn
    BY DEF Init
  <2>4. {phaseOk, truncated, runOk} \subseteq BOOLEAN
    BY DEF Init
  <2>5. TypeOK
    BY <2>1, <2>2, <2>3, <2>4 DEF TypeOK
  <2>6. Len(summaries) = 0
    BY <2>2
  <2>7. Progress
    BY <2>2, <2>3, <2>6 DEF Progress, AtPhase
  <2> QED BY <2>5, <2>7
<1>2. TypeOK /\ Progress /\ [Next]_vars => TypeOK' /\ Progress'
  BY RuntimeTypeStep, ProgressStep
<1> QED
  BY <1>1, <1>2, PTL DEF Spec

(***************************************************************************)
(* A phase starts when all it depends on has been summarised, and the      *)
(* cursor on disk, whatever writes of it fail, is closed under             *)
(* dependencies (runPhase, saveCursor).                                    *)
(***************************************************************************)
THEOREM DependenciesFirst == Spec => []PhaseAfterDependencies
<1>1. TypeOK /\ Progress => PhaseAfterDependencies
  <2> SUFFICES ASSUME TypeOK, Progress PROVE PhaseAfterDependencies
    OBVIOUS
  <2>1. ASSUME pc \in AtPhase
        PROVE  deps[Order[pos]] \subseteq {summaries[i].phase : i \in DOMAIN summaries}
    <3>1. /\ pos \in 1..PhaseCount /\ Len(summaries) = pos - 1 /\ Len(Order) = PhaseCount
          /\ \A i \in 1..(pos - 1) : summaries[i].phase = Order[i]
          /\ deps \in DependsOn
      BY <2>1 DEF TypeOK, Progress, AtPhase
    <3>2. DOMAIN summaries = 1..(pos - 1)
      BY <3>1 DEF TypeOK
    <3>3. deps[Order[pos]] \subseteq {Order[i] : i \in 1..(pos - 1)}
      BY <3>1, OrderMeaning
    <3> QED BY <3>1, <3>2, <3>3
  <2> QED BY <2>1 DEF PhaseAfterDependencies, AtPhase, Progress
<1> QED
  BY <1>1, ProgressHolds, PTL

(***************************************************************************)
(* A report that says ok covers every phase, each of them passed, unless   *)
(* it says it was truncated.                                               *)
(***************************************************************************)
THEOREM HonestReport == Spec => []ReportIsHonest
<1>1. TypeOK /\ Progress => ReportIsHonest
  <2> SUFFICES ASSUME TypeOK, Progress, pc = "returned", runOk
               PROVE  /\ \A i \in DOMAIN summaries : summaries[i].ok
                      /\ truncated \/ {summaries[i].phase : i \in DOMAIN summaries} = PhaseIds
    BY DEF ReportIsHonest
  <2>1. /\ deps \in DependsOn /\ Len(Order) = PhaseCount
        /\ \A i \in 1..Len(summaries) : summaries[i].ok /\ summaries[i].phase = Order[i]
        /\ truncated \/ Len(summaries) = PhaseCount
        /\ DOMAIN summaries = 1..Len(summaries)
    BY DEF TypeOK, Progress
  <2>2. {Order[i] : i \in 1..PhaseCount} = PhaseIds
    BY <2>1, OrderMeaning
  <2>3. \A i \in 1..Len(summaries) : summaries[i].phase = Order[i]
    BY <2>1
  <2>4. {summaries[i].phase : i \in 1..Len(summaries)} = {Order[i] : i \in 1..Len(summaries)}
    BY <2>3
  <2> QED BY <2>1, <2>2, <2>4
<1> QED
  BY <1>1, ProgressHolds, PTL
=============================================================================
