---------------------------- MODULE TaskLifecycle ----------------------------
(***************************************************************************)
(* Child agents: TaskOrchestrator (packages/core/src/orchestrator.ts) and  *)
(* AgentHarness.forkChild / waitForChildren (packages/core/src/agent.ts).  *)
(*                                                                         *)
(* A harness forks children under a depth limit and a limit on running     *)
(* tasks that provider throttling halves for a while.  Each child is a     *)
(* promise chain: wait for its dependencies, prepare its tools, send, and  *)
(* settle its record.  Its timeout, its parent and the cancel_agent tool   *)
(* only write the record and abort a signal; the chain goes on and settles *)
(* the record again when it ends.                                          *)
(***************************************************************************)
EXTENDS Integers, FiniteSets

CONSTANTS
  Children,       \* ids for forked children (crypto.randomUUID, never reused)
  Root,           \* the root harness, registered by its own constructor
  MaxDepth,       \* maxAgentDepth
  MaxConcurrent,  \* maxConcurrentAgents
  MinCap,         \* AGENT_MIN_CONCURRENT_AGENTS
  Throttled       \* the harnesses whose provider throttles (bounds the model)

Tasks == Children \cup {Root}

ASSUME LifecycleAssumption ==
  /\ IsFiniteSet(Children)
  /\ Root \notin Children
  /\ MaxDepth \in Nat
  /\ MaxConcurrent \in Nat \ {0}
  /\ MinCap \in Nat \ {0}
  /\ Throttled \subseteq Tasks

VARIABLES
  status,     \* TaskRecord.status, "absent" before register
  stage,      \* where the child's promise chain is
  deps,       \* TaskRecord.dependsOn
  depth,      \* TaskRecord.depth
  timer,      \* the children whose timeout is armed
  watched,    \* the children a waitForChildren loop last saw running
  aborted,    \* the children whose abort signal fired
  cap,        \* spawnConcurrencyCap of each harness
  degraded    \* the harnesses inside their provider-degraded window

vars == <<status, stage, deps, depth, timer, watched, aborted, cap, degraded>>

Terminal == {"done", "error", "cancelled"}
Active   == {"waiting", "preparing", "sending"}

(***************************************************************************)
(* runningCount.                                                           *)
(***************************************************************************)
Running == {t \in Tasks : status[t] = "running"}

EffectiveCap(p) == IF p \in degraded THEN cap[p] ELSE MaxConcurrent

HasSlotOffByOne(p) == Cardinality(Running) <= EffectiveCap(p)    \* mutant

HasSlot(p) == Cardinality(Running) < EffectiveCap(p)

(***************************************************************************)
(* A harness can call a tool, and so fork, while it is sending.            *)
(***************************************************************************)
CanFork(p) == p = Root \/ stage[p] = "sending"

(***************************************************************************)
(* forkChild.  spawn_agent and decompose_goal name only tasks the          *)
(* orchestrator knows as dependencies; the parent and the root are known.  *)
(***************************************************************************)
Spawn(p, c, D) ==
  /\ CanFork(p)
  /\ status[c] = "absent"
  /\ \A d \in D : status[d] # "absent"
  /\ depth[p] < MaxDepth
  /\ HasSlot(p)
  /\ status' = [status EXCEPT ![c] = "running"]
  /\ stage'  = [stage EXCEPT ![c] = IF D = {} THEN "preparing" ELSE "waiting"]
  /\ deps'   = [deps EXCEPT ![c] = D]
  /\ depth'  = [depth EXCEPT ![c] = depth[p] + 1]
  /\ timer'  = timer \cup {c}
  /\ cap'    = [cap EXCEPT ![p] =
                  IF p \notin degraded /\ @ < MaxConcurrent THEN @ + 1 ELSE @]
  /\ UNCHANGED <<watched, aborted, degraded>>

(***************************************************************************)
(* forkChild over the limit throws, after raising the reduced cap again.   *)
(***************************************************************************)
SpawnRefused(p) ==
  /\ CanFork(p)
  /\ depth[p] < MaxDepth
  /\ ~HasSlot(p)
  /\ p \notin degraded /\ cap[p] < MaxConcurrent
  /\ cap' = [cap EXCEPT ![p] = @ + 1]
  /\ UNCHANGED <<status, stage, deps, depth, timer, watched, aborted, degraded>>

SettleForgotten(c, result) ==                    \* mutant: the record stays running
  /\ stage' = [stage EXCEPT ![c] = "settled"]
  /\ timer' = timer \ {c}
  /\ UNCHANGED <<status, deps, depth, watched, aborted, cap, degraded>>

(***************************************************************************)
(* orchestrator.complete / orchestrator.fail at the end of the chain.      *)
(***************************************************************************)
Settle(c, result) ==
  /\ stage'  = [stage EXCEPT ![c] = "settled"]
  /\ status' = [status EXCEPT ![c] = result]
  /\ timer'  = timer \ {c}
  /\ UNCHANGED <<deps, depth, watched, aborted, cap, degraded>>

(***************************************************************************)
(* One poll of waitForDependencies.                                        *)
(***************************************************************************)
FailedDepsErrorOnly(c) ==                         \* mutant: forgets cancelled
  {d \in deps[c] : status[d] \in {"absent", "error"}}

FailedDeps(c) ==
  {d \in deps[c] : status[d] \in {"absent", "error", "cancelled"}}

DepsMet(c) ==
  /\ stage[c] = "waiting"
  /\ FailedDeps(c) = {}
  /\ \A d \in deps[c] : status[d] # "running"
  /\ stage' = [stage EXCEPT ![c] = "preparing"]
  /\ UNCHANGED <<status, deps, depth, timer, watched, aborted, cap, degraded>>

DepsFailed(c) ==
  /\ stage[c] = "waiting"
  /\ FailedDeps(c) # {}
  /\ Settle(c, "error")

DepsTimedOutIdle(c) ==                           \* mutant: no deadline while one runs
  /\ stage[c] = "waiting"
  /\ c \notin timer
  /\ \A d \in deps[c] : status[d] # "running"
  /\ Settle(c, "error")

(***************************************************************************)
(* waitForDependencies runs out of time.  It is given the child's own      *)
(* timeout, whose timer was armed first.                                   *)
(***************************************************************************)
DepsTimedOut(c) ==
  /\ stage[c] = "waiting"
  /\ c \notin timer
  /\ Settle(c, "error")

(***************************************************************************)
(* Tool inference for the child, then childHarness.send.                   *)
(***************************************************************************)
StartSend(c) ==
  /\ stage[c] = "preparing"
  /\ stage' = [stage EXCEPT ![c] = "sending"]
  /\ UNCHANGED <<status, deps, depth, timer, watched, aborted, cap, degraded>>

(***************************************************************************)
(* send returned.  It returns after an abort or a provider error as well:  *)
(* its catch block writes a hand-off message instead of rethrowing.        *)
(***************************************************************************)
Complete(c) ==
  /\ stage[c] = "sending"
  /\ Settle(c, "done")

(***************************************************************************)
(* The chain threw while preparing or before send entered its try block.   *)
(***************************************************************************)
Fail(c) ==
  /\ stage[c] \in {"preparing", "sending"}
  /\ Settle(c, "error")

(***************************************************************************)
(* orchestrator.cancel.                                                    *)
(***************************************************************************)
Cancel(c) ==
  /\ status'  = [status EXCEPT ![c] = "cancelled"]
  /\ aborted' = aborted \cup {c}

TimerAborts(c) ==                                \* mutant: aborts, forgets the record
  /\ c \in timer
  /\ timer' = timer \ {c}
  /\ aborted' = aborted \cup {c}
  /\ UNCHANGED <<status, stage, deps, depth, watched, cap, degraded>>

TimerFires(c) ==
  /\ c \in timer
  /\ timer' = timer \ {c}
  /\ Cancel(c)
  /\ UNCHANGED <<stage, deps, depth, watched, cap, degraded>>

(***************************************************************************)
(* cancel_agent acts on a running task only ...                            *)
(***************************************************************************)
CancelAgent(c) ==
  /\ status[c] = "running"
  /\ Cancel(c)
  /\ UNCHANGED <<stage, deps, depth, timer, watched, cap, degraded>>

(***************************************************************************)
(* ... but waitForChildren cancels at its deadline without looking again:  *)
(* the child may have settled since the last poll, 200 ms ago.             *)
(***************************************************************************)
WaitSeesRunning(c) ==
  /\ status[c] = "running"
  /\ c \notin watched
  /\ watched' = watched \cup {c}
  /\ UNCHANGED <<status, stage, deps, depth, timer, aborted, cap, degraded>>

WaitReturns(c) ==
  /\ c \in watched
  /\ status[c] \in Terminal
  /\ watched' = watched \ {c}
  /\ UNCHANGED <<status, stage, deps, depth, timer, aborted, cap, degraded>>

WaitTimedOut(c) ==
  /\ c \in watched
  /\ watched' = watched \ {c}
  /\ Cancel(c)
  /\ UNCHANGED <<stage, deps, depth, timer, cap, degraded>>

(***************************************************************************)
(* A rate-limited or failing provider halves a harness's cap and opens its *)
(* degraded window, which ends with time.                                  *)
(***************************************************************************)
HalvedToZero(n) == n \div 2                       \* mutant: no floor

Halved(n) == IF n \div 2 > MinCap THEN n \div 2 ELSE MinCap

Throttle(p) ==
  /\ p \in Throttled
  /\ CanFork(p)
  /\ cap'      = [cap EXCEPT ![p] = Halved(@)]
  /\ degraded' = degraded \cup {p}
  /\ UNCHANGED <<status, stage, deps, depth, timer, watched, aborted>>

WindowEnds(p) ==
  /\ p \in degraded
  /\ degraded' = degraded \ {p}
  /\ UNCHANGED <<status, stage, deps, depth, timer, watched, aborted, cap>>

Init ==
  /\ status   = [t \in Tasks |-> IF t = Root THEN "running" ELSE "absent"]
  /\ stage    = [t \in Tasks |-> "none"]
  /\ deps     = [t \in Tasks |-> {}]
  /\ depth    = [t \in Tasks |-> 0]
  /\ timer    = {}
  /\ watched  = {}
  /\ aborted  = {}
  /\ cap      = [t \in Tasks |-> MaxConcurrent]
  /\ degraded = {}

ChainStep(c) ==
  \/ DepsMet(c)
  \/ DepsFailed(c)
  \/ DepsTimedOut(c)
  \/ StartSend(c)
  \/ Complete(c)
  \/ Fail(c)

Next ==
  \/ \E p \in Tasks, c \in Children, D \in SUBSET Tasks : Spawn(p, c, D)
  \/ \E p \in Tasks : SpawnRefused(p) \/ Throttle(p) \/ WindowEnds(p)
  \/ \E c \in Children : \/ ChainStep(c) \/ TimerFires(c) \/ CancelAgent(c)
                         \/ WaitSeesRunning(c) \/ WaitReturns(c) \/ WaitTimedOut(c)

Spec == Init /\ [][Next]_vars

(***************************************************************************)
(* Timers fire and the dependency poll keeps polling.  Whether a model     *)
(* provider or a tool ever answers is not assumed.                         *)
(***************************************************************************)
Fairness ==
  \A c \in Children :
    /\ WF_vars(TimerFires(c))
    /\ WF_vars(DepsMet(c))
    /\ WF_vars(DepsFailed(c) \/ DepsTimedOut(c))

FairSpec == Spec /\ Fairness

-----------------------------------------------------------------------------

LargestCap == IF MinCap > MaxConcurrent THEN MinCap ELSE MaxConcurrent

TypeOK ==
  /\ status \in [Tasks -> Terminal \cup {"absent", "running"}]
  /\ stage \in [Tasks -> Active \cup {"none", "settled"}]
  /\ deps \in [Tasks -> SUBSET Tasks]
  /\ depth \in [Tasks -> Nat]
  /\ timer \subseteq Children
  /\ watched \subseteq Children
  /\ aborted \subseteq Children
  /\ cap \in [Tasks -> 1..LargestCap]
  /\ degraded \subseteq Tasks

(***************************************************************************)
(* A child that started had every dependency settled first ("C will not    *)
(* start until both complete", docs/concepts/architecture.md), although    *)
(* the records it polls can be overwritten by cancellations in between.    *)
(***************************************************************************)
NoStartBeforeDependencies ==
  \A c \in Children :
    stage[c] \in {"preparing", "sending"} => \A d \in deps[c] : stage[d] = "settled"

(***************************************************************************)
(* The running tasks, root included, never exceed the larger of the two    *)
(* configured limits, whatever is cancelled, throttled or forked by        *)
(* children, and no child is deeper than the depth limit.                  *)
(***************************************************************************)
RunningWithinCap ==
  /\ Cardinality(Running) <= LargestCap
  /\ \A t \in Tasks : depth[t] <= MaxDepth

(***************************************************************************)
(* A slot is never leaked: a running child still has its timeout armed and *)
(* its chain alive, so something will change its status.                   *)
(***************************************************************************)
RunningChildIsTimed ==
  \A c \in Children : status[c] = "running" => c \in timer /\ stage[c] \in Active

(***************************************************************************)
(* Every child gives its slot back, even if nothing it waits for answers.  *)
(***************************************************************************)
SlotIsFreed ==
  \A c \in Children : status[c] = "running" ~> status[c] # "running"

(***************************************************************************)
(* No child waits for its dependencies for ever, even when the dependency  *)
(* is an ancestor that waits for it.                                       *)
(***************************************************************************)
DependencyWaitEnds ==
  \A c \in Children : stage[c] = "waiting" ~> stage[c] # "waiting"

(***************************************************************************)
(* A child that was ever cancelled never lets a dependent start            *)
(* (orchestrator.ts: "false if any errored or cancelled").                 *)
(***************************************************************************)
CancelledDependencyFails ==
  [][\A c \in Children : DepsMet(c) => deps[c] \cap aborted = {}]_vars
=============================================================================
