--------------------------- MODULE WorkflowRuntime ---------------------------
(***************************************************************************)
(* WorkflowRuntime.run (packages/core/src/workflow_runtime.ts) and the     *)
(* wall-clock race around it (executeSpec in workflow_tools.ts).           *)
(*                                                                         *)
(* The phases of a workflow run one after the other in dependency order.   *)
(* A phase fans its tasks out to sub-agents through a bounded pool, may    *)
(* add an adversarial reviewer, and passes a verification gate that can    *)
(* stop the run or repeat the phase.  The agent budget is read when a      *)
(* phase begins.  The caller races the run against a timer, which rejects  *)
(* the tool call and leaves the run going.                                 *)
(***************************************************************************)
EXTENDS PhaseOrder

CONSTANTS
  MaxTasks,       \* WORKFLOW_MAX_TASKS_PER_PHASE
  MaxIterations,  \* the largest converge.maxIterations
  MaxAgents,      \* AGENT_WORKFLOW_MAX_AGENTS
  MaxConcurrent   \* AGENT_WORKFLOW_MAX_CONCURRENT

ASSUME WorkflowAssumption ==
  /\ MaxTasks \in Nat \ {0}
  /\ MaxIterations \in Nat \ {0}
  /\ MaxAgents \in Nat \ {0}
  /\ MaxConcurrent \in Nat \ {0}

(***************************************************************************)
(* What the runtime reads of a phase.  onFail is "none" without a gate.    *)
(***************************************************************************)
PhaseSpec ==
  {s \in [tasks : 1..MaxTasks, wave : 1..MaxTasks, review : BOOLEAN,
          onFail : {"none", "stop", "iterate"}, iterations : 1..MaxIterations] :
     s.onFail # "iterate" => s.iterations = 1}

VARIABLES
  deps,       \* dependsOn of each phase
  pc,         \* where run() is
  pos,        \* index of the current phase in the order
  phase,      \* the current phase, its tasks cut to the remaining budget
  iter,       \* iteration of the verify loop
  next,       \* next task index of mapPool
  flying,     \* tasks whose sub-agent has not settled
  phaseOk,
  spawned,    \* the runtime's own count, reported as totalAgents
  truncated,
  runOk,
  summaries,  \* phaseSummaries
  cursor,     \* completedPhaseIds on disk
  started,    \* history: sub-agents actually forked
  caller      \* the run_workflow call: awaiting, answered, timed out

vars == <<deps, pc, pos, phase, iter, next, flying, phaseOk, spawned,
          truncated, runOk, summaries, cursor, started, caller>>

Order == TopoSort(deps)

Smaller(a, b) == IF a < b THEN a ELSE b

(***************************************************************************)
(* The pool's width: the phase's concurrency under the global one.         *)
(***************************************************************************)
WidthOffByOne == Smaller(Smaller(phase.wave, MaxConcurrent), phase.tasks) - 1   \* mutant

WidthUnbounded == Smaller(phase.wave, phase.tasks)     \* mutant: no global limit

Width == Smaller(Smaller(phase.wave, MaxConcurrent), phase.tasks)

NoPhase == [tasks |-> 1, wave |-> 1, review |-> FALSE, onFail |-> "none", iterations |-> 1]

Init ==
  /\ deps \in DependsOn
  /\ pc = "start"
  /\ pos = 1
  /\ phase = NoPhase
  /\ iter = 1
  /\ next = 1
  /\ flying = {}
  /\ phaseOk = TRUE
  /\ spawned = 0
  /\ truncated = FALSE
  /\ runOk = TRUE
  /\ summaries = <<>>
  /\ cursor = {}
  /\ started = 0
  /\ caller = "awaiting"

Start ==
  /\ pc = "start"
  /\ IF Len(Order) = PhaseCount
     THEN pc' = "phase" /\ UNCHANGED runOk
     ELSE pc' = "returned" /\ runOk' = FALSE
  /\ UNCHANGED <<deps, pos, phase, iter, next, flying, phaseOk, spawned,
                 truncated, summaries, cursor, started, caller>>

SlicedNever(s, remaining) == s                   \* mutant: budget not applied

Sliced(s, remaining) == [s EXCEPT !.tasks = Smaller(@, remaining)]

(***************************************************************************)
(* Top of the phase loop: the budget check, and the slice of the tasks.    *)
(***************************************************************************)
BeginPhase(s) ==
  LET remaining == MaxAgents - spawned
  IN  /\ pc = "phase"
      /\ pos <= PhaseCount
      /\ remaining > 0
      /\ phase' = Sliced(s, remaining)
      /\ truncated' = (truncated \/ s.tasks > remaining)
      /\ iter' = 1
      /\ next' = 1
      /\ phaseOk' = TRUE
      /\ pc' = "fanOut"
      /\ UNCHANGED <<deps, pos, flying, spawned, runOk, summaries, cursor, started, caller>>

BudgetExhaustedSilently ==                       \* mutant: truncated not set
  /\ pc = "phase"
  /\ pos <= PhaseCount
  /\ spawned >= MaxAgents
  /\ pc' = "report"
  /\ UNCHANGED <<deps, pos, phase, iter, next, flying, phaseOk, spawned,
                 truncated, runOk, summaries, cursor, started, caller>>

BudgetExhausted ==
  /\ pc = "phase"
  /\ pos <= PhaseCount
  /\ spawned >= MaxAgents
  /\ truncated' = TRUE
  /\ pc' = "report"
  /\ UNCHANGED <<deps, pos, phase, iter, next, flying, phaseOk, spawned,
                 runOk, summaries, cursor, started, caller>>

(***************************************************************************)
(* A pool worker takes the next task: its fork succeeds, or throws and the *)
(* task is recorded as failed.                                             *)
(***************************************************************************)
ForkTask ==
  /\ pc = "fanOut"
  /\ next <= phase.tasks
  /\ Cardinality(flying) < Width
  /\ flying' = flying \cup {next}
  /\ next' = next + 1
  /\ started' = started + 1
  /\ UNCHANGED <<deps, pc, pos, phase, iter, phaseOk, spawned, truncated,
                 runOk, summaries, cursor, caller>>

ForkRefused ==
  /\ pc = "fanOut"
  /\ next <= phase.tasks
  /\ Cardinality(flying) < Width
  /\ next' = next + 1
  /\ UNCHANGED <<deps, pc, pos, phase, iter, flying, phaseOk, spawned,
                 truncated, runOk, summaries, cursor, started, caller>>

TaskSettles(i) ==
  /\ pc = "fanOut"
  /\ i \in flying
  /\ flying' = flying \ {i}
  /\ UNCHANGED <<deps, pc, pos, phase, iter, next, phaseOk, spawned,
                 truncated, runOk, summaries, cursor, started, caller>>

FanOutCountedOnce ==                             \* mutant: repeats are not counted
  /\ pc = "fanOut"
  /\ next > phase.tasks
  /\ flying = {}
  /\ spawned' = IF iter = 1 THEN spawned + phase.tasks ELSE spawned
  /\ pc' = IF phase.review THEN "review" ELSE "verify"
  /\ UNCHANGED <<deps, pos, phase, iter, next, flying, phaseOk, truncated,
                 runOk, summaries, cursor, started, caller>>

FanOutDone ==
  /\ pc = "fanOut"
  /\ next > phase.tasks
  /\ flying = {}
  /\ spawned' = spawned + phase.tasks
  /\ pc' = IF phase.review THEN "review" ELSE "verify"
  /\ UNCHANGED <<deps, pos, phase, iter, next, flying, phaseOk, truncated,
                 runOk, summaries, cursor, started, caller>>

(***************************************************************************)
(* runReviewer: null when the fork throws, else one more agent.            *)
(***************************************************************************)
ForkReviewer ==
  /\ pc = "review"
  /\ pc' = "reviewing"
  /\ started' = started + 1
  /\ UNCHANGED <<deps, pos, phase, iter, next, flying, phaseOk, spawned,
                 truncated, runOk, summaries, cursor, caller>>

ReviewRefused ==
  /\ pc = "review"
  /\ pc' = "verify"
  /\ UNCHANGED <<deps, pos, phase, iter, next, flying, phaseOk, spawned,
                 truncated, runOk, summaries, cursor, started, caller>>

ReviewSettles ==
  /\ pc = "reviewing"
  /\ spawned' = spawned + 1
  /\ pc' = "verify"
  /\ UNCHANGED <<deps, pos, phase, iter, next, flying, phaseOk, truncated,
                 runOk, summaries, cursor, started, caller>>

(***************************************************************************)
(* The verification gate.                                                  *)
(***************************************************************************)
VerifyPasses ==
  /\ pc = "verify"
  /\ phaseOk' = TRUE
  /\ pc' = "fold"
  /\ UNCHANGED <<deps, pos, phase, iter, next, flying, spawned, truncated,
                 runOk, summaries, cursor, started, caller>>

VerifyFails ==
  /\ pc = "verify"
  /\ phase.onFail # "none"
  /\ phaseOk' = FALSE
  /\ IF phase.onFail = "iterate" /\ iter < phase.iterations
     THEN pc' = "fanOut" /\ iter' = iter + 1 /\ next' = 1
     ELSE pc' = "fold" /\ UNCHANGED <<iter, next>>
  /\ UNCHANGED <<deps, pos, phase, flying, spawned, truncated, runOk,
                 summaries, cursor, started, caller>>

(***************************************************************************)
(* Summarise the phase, publish it, and stop or save the cursor.  A        *)
(* failing write of the cursor is swallowed and leaves the old one.        *)
(***************************************************************************)
Fold ==
  LET folded == Append(summaries, [phase |-> Order[pos], ok |-> phaseOk])
  IN  /\ pc = "fold"
      /\ summaries' = folded
      /\ runOk' = (runOk /\ phaseOk)
      /\ IF ~phaseOk /\ phase.onFail = "stop"
         THEN pc' = "report" /\ UNCHANGED <<pos, cursor>>
         ELSE /\ pc' = "phase"
              /\ pos' = pos + 1
              /\ cursor' \in {cursor, {folded[i].phase : i \in DOMAIN folded}}
      /\ UNCHANGED <<deps, phase, iter, next, flying, phaseOk, spawned,
                     truncated, started, caller>>

PhasesDone ==
  /\ pc = "phase"
  /\ pos > PhaseCount
  /\ pc' = "report"
  /\ UNCHANGED <<deps, pos, phase, iter, next, flying, phaseOk, spawned,
                 truncated, runOk, summaries, cursor, started, caller>>

Report ==
  /\ pc = "report"
  /\ pc' = "returned"
  /\ UNCHANGED <<deps, pos, phase, iter, next, flying, phaseOk, spawned,
                 truncated, runOk, summaries, cursor, started, caller>>

(***************************************************************************)
(* executeSpec: Promise.race of the run and the wall-clock timer.          *)
(***************************************************************************)
CallerAnswered ==
  /\ caller = "awaiting"
  /\ pc = "returned"
  /\ caller' = "answered"
  /\ UNCHANGED <<deps, pc, pos, phase, iter, next, flying, phaseOk, spawned,
                 truncated, runOk, summaries, cursor, started>>

WallClockFires ==
  /\ caller = "awaiting"
  /\ caller' = "timedOut"
  /\ UNCHANGED <<deps, pc, pos, phase, iter, next, flying, phaseOk, spawned,
                 truncated, runOk, summaries, cursor, started>>

Finished ==
  /\ pc = "returned"
  /\ caller # "awaiting"
  /\ UNCHANGED vars

(***************************************************************************)
(* What run() does itself, and what it does when something it awaits       *)
(* answers: a sub-agent, the reviewer, the gate, the summariser.           *)
(***************************************************************************)
RunStep ==
  \/ Start
  \/ \E s \in PhaseSpec : BeginPhase(s)
  \/ BudgetExhausted
  \/ ForkTask
  \/ ForkRefused
  \/ FanOutDone
  \/ ForkReviewer
  \/ ReviewRefused
  \/ PhasesDone
  \/ Report

AwaitedAnswers ==
  \/ \E i \in 1..MaxTasks : TaskSettles(i)
  \/ ReviewSettles
  \/ VerifyPasses
  \/ VerifyFails
  \/ Fold

Next == RunStep \/ AwaitedAnswers \/ CallerAnswered \/ WallClockFires \/ Finished

Spec == Init /\ [][Next]_vars

(***************************************************************************)
(* run() is a sequential async function, which takes its own steps.        *)
(* Nothing is assumed of what it awaits: the promise of a sub-agent        *)
(* settles when its send returns, and neither the child's timer nor the    *)
(* wall clock settles it.                                                  *)
(***************************************************************************)
FairSpec == Spec /\ WF_vars(RunStep)

-----------------------------------------------------------------------------

TypeOK ==
  /\ deps \in DependsOn
  /\ pc \in {"start", "phase", "fanOut", "review", "reviewing", "verify",
             "fold", "report", "returned"}
  /\ pos \in 1..(PhaseCount + 1)
  /\ phase \in PhaseSpec
  /\ iter \in 1..MaxIterations
  /\ next \in 1..(MaxTasks + 1)
  /\ flying \subseteq 1..MaxTasks
  /\ spawned \in Nat /\ started \in Nat
  /\ {phaseOk, truncated, runOk} \subseteq BOOLEAN
  /\ summaries \in Seq([phase : PhaseIds, ok : BOOLEAN])
  /\ cursor \subseteq PhaseIds
  /\ caller \in {"awaiting", "answered", "timedOut"}

(***************************************************************************)
(* A phase works only on finished dependencies: while its agents fly, each *)
(* phase it depends on has been summarised, and the saved cursor, however  *)
(* many of its writes were lost, names no phase without its dependencies.  *)
(* The variables have their types, too.                                    *)
(***************************************************************************)
PhaseAfterDependencies ==
  /\ TypeOK
  /\ pc \in {"fanOut", "review", "reviewing", "verify", "fold"} =>
       deps[Order[pos]] \subseteq {summaries[i].phase : i \in DOMAIN summaries}
  /\ \A p \in cursor : deps[p] \subseteq cursor

(***************************************************************************)
(* At most maxConcurrent sub-agents of the run are in flight.              *)
(***************************************************************************)
InFlightBound ==
  Cardinality(flying) + (IF pc = "reviewing" THEN 1 ELSE 0) <= MaxConcurrent

(***************************************************************************)
(* A report that says ok covers every phase of the spec, each of them      *)
(* passed, unless it also says it was truncated.                           *)
(***************************************************************************)
ReportIsHonest ==
  (pc = "returned" /\ runOk) =>
    /\ \A i \in DOMAIN summaries : summaries[i].ok
    /\ truncated \/ {summaries[i].phase : i \in DOMAIN summaries} = PhaseIds

(***************************************************************************)
(* The budget is read between phases only, so a run can exceed it by what  *)
(* one phase adds after its first fan-out: its reviewers and the repeats   *)
(* of its verify loop, and never by more.                                  *)
(***************************************************************************)
OvershootIsBounded ==
  started <= MaxAgents + 1 + (MaxIterations - 1) * (MaxTasks + 1)

(***************************************************************************)
(* The agents reported are at least the agents forked.                     *)
(***************************************************************************)
TotalCountsEveryAgent ==
  pc = "returned" => started <= spawned

(***************************************************************************)
(* The run ends if whatever it awaits answers: no order of settling,       *)
(* failing and repeating keeps it going, and the pool never waits for a    *)
(* task nobody took.  (A single sub-agent that never answers holds it up   *)
(* for ever.)                                                              *)
(***************************************************************************)
AwaitedAlwaysAnswers ==
  /\ \A i \in 1..MaxTasks : []<>(i \notin flying)
  /\ \A answer \in {"reviewing", "verify", "fold"} : []<>(pc # answer)

RunEnds == AwaitedAlwaysAnswers => <>(pc = "returned")

(***************************************************************************)
(* docs/guides/dynamic-workflows.md, AGENT_WORKFLOW_TIMEOUT_MS:            *)
(* "Wall-clock cap for one run": no agent is forked after the timeout.     *)
(***************************************************************************)
WallClockCap == [][caller = "timedOut" => started' = started]_vars
=============================================================================
