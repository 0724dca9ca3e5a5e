# Liminal agent runtime: TLA+ models and proofs

This directory holds a formal model of the concurrent core of Liminal: the part
of `packages/core` (with the orchestration and workflow tools of
`packages/tools`) that decides which agent, tool call, workflow phase and
provider request may run when, which lock it holds, which cached result it is
given and what a failed round undoes; and the part of `packages/sidecar` that
keeps chats open, runs missions over several of them and watches an inbox.  Each
module is checked with TLC on small instances.  Every safety property of a passing
run (invariant, action property or refinement) is also proved with TLAPS, for
every value of the constants; liveness is model-checked.

## 1. The system

Liminal is an agent harness in TypeScript.  A host (desktop sidecar, web server
or terminal UI) opens a chat, which is an `AgentHarness`; a user message starts a
turn; a turn alternates between a streamed model answer and a batch of tool
calls; a tool may fork child harnesses or run a whole workflow of them.
Everything runs on one JavaScript event loop, so a step is the code between two
`await`s, and the interleavings are those of promises, timers and polls.

| Component | State it keeps | Operations | Interacts with |
|---|---|---|---|
| Resource locks (`orchestrator.ts`, `dispatcher.ts`) | `locks`: resource → owner task, refcount, age | `acquireAll`, `releaseAll`, `releaseByTask`, `evictExpired`, `getHolders` | called around every tool handler by the dispatcher, and by task completion |
| Child agents (`orchestrator.ts`, `agent.ts`) | task records with status, dependencies, depth; per-harness concurrency cap; timers | `register`, `complete`, `fail`, `cancel`, `waitForDependencies`, `forkChild`, `waitForChildren`, `cancel_agent` | parents, workflows and tools fork and cancel children; the records share the lock table |
| Workflow specs (`workflow_spec.ts`) | none | `parseWorkflowSpec`, `topoSortPhases` | the planner, the workflow runtime |
| Workflow runtime (`workflow_runtime.ts`, `workflow_tools.ts`) | position, budget, summaries, cursor on disk | `run`, `mapPool`, `runReviewer`, verify gate, wall-clock race | forks children; writes the workflow store |
| Read cache and speculation (`dispatcher.ts`, `agent.ts`, `paste_scheduler.ts`) | result cache, calls in flight, speculations, paths changed in the turn | lookup, coalescing, store, invalidate, speculate, promote | every tool batch of a turn |
| Dispatcher guards (`dispatcher.ts`) | circuit breakers, vault budget, pending approvals | `dispatchOwned`, `requestApproval` | host UI, tools |
| Tool DAG (`tool_dag.ts`) | dependency edges of a batch | `topologicalBatches` | tool batches |
| Compensation ledger (`compensation_ledger.ts`) | undo entries per plan | `record`, `playback`, `commitPath` | plan execution, file tools |
| Provider gate (`provider_request_gate.ts`) | promise chain and next slot per key | `withProviderRequestSpacing` | every model request |
| Sidecar chats (`chat_registry.ts`, `session_bridge.ts`) | open bridges, turn flags, pending approvals and questions | open, send, abort, resolve | UI frames, harnesses |
| Chat orchestration (`chat_orchestrator.ts`) | the mission's snapshot, its worker chats | `start`, `stop`, `execute` | chats |
| Terminals (`pty_manager.ts`) | PTY sessions per chat | `open`, `runOneshot`, `close` | terminal tool, UI |
| Inbox watcher (`inbox_watcher/`) | provider cursors and queue on disk | cycle, triage, queue updates | connectors, tools |

What makes this code hard to test is the same everywhere: a decision is taken,
the code awaits, and the state the decision was based on has changed.  The
`hazards` list of `PROJECT.json` names each such place at its line, with the
properties that would catch it going wrong.

What each component must guarantee:

- *Locks*: exclusion between tasks; no lock outlives its users; parallel calls of
  one task never free each other's lock; no deadlock; every request answered.
- *Child agents*: a child starts after its dependencies ended; limits on depth and
  number; every slot is given back; no wait for ever.
- *Workflows*: phases in dependency order; bounded width; budget; an honest report;
  an end, if what a run awaits answers.
- *Read cache*: a read never returns something older than the last invalidation or
  than a read through the cache before it; every adopted speculation answers.
- *Tool rounds*: a call comes after its prerequisites; a failed round leaves no
  edit behind; the vault budget is overshot by a bounded number.
- *Provider gate*: requests are spaced; the queue drains, whatever is aborted.
- *Missions*: a mission ends, if the turns of its chats do; what unwinds after its end changes nothing; no chat
  is left approving its own tools; a task runs after its dependencies and is
  skipped only for a reason; the parent is told once.
- *Inbox*: a mail is triaged again only after its item was lost, and one of Gmail's
  history never; none stays marked as being processed.
- *Chats*: the active chat is open; a chat has one turn at a time.
- *Without a model*: a question is answered by the answer meant for it, the limit
  on terminals (section 6).

## 2. Modules

```
LockService  <--refined by--  ResourceLocks  <--  MCResourceLocks
                                   ^----------------  ResourceLocksProofs
PhaseOrder  <--  PhaseSort  <------------------------  PhaseOrderProofs
    ^---------  WorkflowRuntime  <-------------------  WorkflowRuntimeProofs
                                                       (with PhaseOrderProofs)
MCResourceLocks  <--+
PhaseSort        <--+-- MCParts    <-----------------  PartsProofs
RequestGate      <--+                                  (with ResourceLocksProofs
ChatRegistry     <--+                                   and PhaseOrderProofs)
ChatOrchestration  <--+-- MCSidecar  <---------------  SidecarProofs
InboxWatcher       <--+
TaskLifecycle  <--  MCTaskLifecycle,                   TaskLifecycleProofs
ReadCache  <--  MCReadCache,                           ReadCacheProofs
ToolRound  <--  MCToolRound,                           ToolRoundProofs
```

### ResourceLocks

One call is one dispatcher invocation of a tool that declares locks; `Owner`
gives its task.  `lock[r]` is the entry of resource `r`, `Free` when the map has
none.  The code's map holds an array of entries, but an entry is created only
when the array is empty, so there is at most one; consequently the branch of
`evictExpired` that keeps some entries and logs the others can never run, nor is
the mode `"read"` ever used.

| Action | Code |
|---|---|
| `Request` | dispatcher calls `acquireAll` with a set of ids |
| `AcquireFree`, `AcquireShared` | one successful poll of `tryAcquire` (eviction included) |
| `TimeOut` | deadline passed: rollback, `false`, `getHolders` for the message |
| `Release` | the dispatcher's `finally` |
| `ReleaseByTask` | `complete`, `fail`, `cancel` of a task, at any time |
| `Tick` | time; ages saturate at `Ttl`, waits at `WaitLimit` |

An unsuccessful poll changes nothing but may evict, which the next successful
one does as well.  Ids are numbers, and their order stands for the alphabetical
one.  Two history notions matter.  A *lease* is a grant the call still relies
on.  A lease is *revoked* when eviction or `releaseByTask` removes the entry
under it, or when a call whose own lease was revoked releases and thereby spends
the reference of a sibling.  The guarantees hold for standing leases; that
handlers with revoked leases go on running is the subject of a finding.

`LockService` is the promise in three actions: a resource is a set of leases of
one task, at most one lease when it is the terminal; leases are added to it when
that is allowed and removed at any time.  `ImplementsService` states that the
manager does that, under the mapping from table and calls to standing leases.

### TaskLifecycle

`status` is the record in the orchestrator and `stage` is where the child's
promise chain really is: `waiting`, `preparing` (tool inference), `sending`,
`settled`.  The two are kept apart because the code keeps them apart: cancelling
writes the record and aborts a signal, and the chain goes on and writes the
record again when it ends.  `watched` holds the children a `waitForChildren`
loop saw running at its last poll; its deadline cancels without another look.
`cap` and `degraded` are the harness's reduced concurrency cap and the window
after a provider failure; `Throttle` halves the cap down to a floor.
`send` returns normally after an abort or a provider error, which is why
`Complete` is possible in both cases.

Simplifications: the dependency deadline and the child's timeout have the same
length and the timer is armed first, so `DepsTimedOut` requires the timer to
have fired; a harness may fork whenever it is sending.  Records are not removed
by the code, and ids are not reused.

### PhaseOrder and PhaseSort

`PhaseOrder` is Kahn's algorithm of `topoSortPhases` as pure operators with its
reference definitions (`Cyclic`, `RespectsDependencies`); `PhaseSort` is the same
loop as a state machine, one turn per step, so that its loop invariant can be
checked.  `WorkflowRuntime` uses the operators.  The phases that become ready
together are queued by `InDeclaredOrder`, which gives each of them the place that
the number of those before it determines.

### WorkflowRuntime

`pc` follows `run()`: the budget check and slice at the top of a phase, the
fan-out through `mapPool` (a worker forks, or the fork throws), the reviewer, the
verify gate with its repeats, the fold (summary and cursor, whose write may fail
silently).  Which tasks, gate and reviewer a phase has is chosen when it begins,
since nothing reads it before.  `spawned` is the runtime's own count, charged
after a fan-out; `started` counts the forks that really happened.  `caller` is
the tool call that races the run against the wall clock.  `RunStep` is what `run()`
does itself, `AwaitedAnswers` what happens when something it awaits answers.

### ReadCache

A file's content is its version, the number of edits it has had.  A turn is a
sequence of rounds; `StartBatch(R, E, D)` starts the calls of a round, reads `R`
and edits `E`, which run concurrently and are all awaited.

A read looks in the cache, may be refused by a guard, then joins the handler in
flight or starts it; whoever awaits the handler stores its result.  The reads `D`
have prerequisites: the dispatcher lets them bypass the cache and the coalescing
(`canCache` at `dispatcher.ts:469` wants no resolved dependencies), so such a read
adopts a speculation (`DependentAdopts`) or runs a handler of its own
(`DependentRuns`, `AloneReads`) and stores nothing.

`Speculate` is the predictive speculation (off by default), whose job a later
batch adopts.  `EndBatch` drops the cached reads (`InvalidateCaches`) only when the
set of paths changed in the turn has grown, as the code does, and `StopBatch` is a
turn that was stopped, which throws before that.

`last` is the version that a read through the cache returned last.  A read with
prerequisites does not count in it, because a later cached read may be older than
that one: edit, cached read, second edit with a dependent read, cached read.  It
is the second edit that invalidates nothing, the subject of `CacheStaleHit`.
`NoOlderThanCachedReads` says of every read, with or without prerequisites, that
it is no older than `last`.

Simplifications: one speculation of a path runs at a time; a path stands for
one cache key; the ttl is a step that may happen at any time.

### ToolRound

The rounds of a harness, between the model's answer and the next one.

| Action | Code |
|---|---|
| `RoundBegins`, `NextBatchBegins` | `topologicalBatches`, and the loop over its batches, each awaited as a whole |
| `Snapshot`, `Record` | the undo entry of an edit: the read of the old content, then `ledger.record` |
| `Enter` | the dispatcher's test of the vault budget and the lock on the path |
| `Succeeds`, `Fails` | the handler returns; a failure stands also for every refusal after the budget test (circuit, approval, lock) |
| `RoundOver` | all results are in: `commitPath`, or the start of `playback` when every call failed |
| `Restore`, `PlaybackEnds` | `playback`, one undo at a time, which nobody awaits |
| `TurnBegins` | a new send clears the ledger (`agent.ts:3718`) and the budget |

All edits are of one file, whose contents are numbered by the edits that made
them.  The sort of `playback` uses the time of the entries; what matters of it is
whether two entries were recorded in the same millisecond (`tie`).  `before` and
`disturbed` are history: the content at the start of a round, and the rounds
whose playback shared the file with another round, or had such a tie.
`RestoresRoundStart` is about the others; that those fail to be restored is
described in section 5.  A batch with a cycle is dispatched at once, hence the
premise of `PrerequisitesFirst`.  The sort of `playback` is the relation `Sooner`
on the entries, and `InOrder` lists a set in the order of such a relation, each
element at the place that the number of its predecessors determines.

### ChatOrchestration

`ChatOrchestrator` has one snapshot, one `aborted` flag and a chain of executes,
so the model has them too: `runId` is the mission the snapshot belongs to, and
`exec` the one whose execute runs, which may be an earlier one that has not yet
found out.

| Action | Code |
|---|---|
| `Start`, `Stop` | the two commands of a client; `Start(TRUE)` is `start_mission` in a turn of the parent chat |
| `BeginExecute`, `PlanArrives`, `PlanFails` | `execute` up to the plan, with any dependencies a planner may write |
| `NextWaveStarts`, `AllWorkersFailed`, `SynthesisStarts`, `GiveUp` | what `execute` does between two awaits |
| `ChatCreated`, `GateWaits`, `GateAnswered` | the chat of a worker or of the synthesis: autopilot, approvals and questions |
| `WorkerReturns`, `WorkerThrows`, `WorkerAbandoned`, and the same for `Synthesis` | the end of `runWorker` and of `runSynthesis`, with the tests of `isCurrentRun` |
| `UserTurn`, `ParentTurnEnd`, `ParentSendReturns`, `ParentSendRejects`, `RetryTimerFires` | the parent chat's turns, and the notice of a finished mission |

Every `emitStatus` calls `maybeNotifyParentChat`, so `Emit` is part of each
action.  `job[j]` is where a chat is, and `job[Synth]` the synthesis.  A handoff is
`done` or `partial`; the repair turns that ask for a better one belong to the
turn.  `twice` says that the planner gave one id to two tasks; of two workers
with one id the map of handoffs keeps the later, and only the final verdict can
tell.

### InboxWatcher

One account, of either provider, that was just connected, and one chat.  The queue
file and the cursor file are `queue`, `cursor` and `baseline`; what an actor has read
and not yet written is `copy`, because nothing locks the files between the two.

| Action | Code |
|---|---|
| `CycleBegins` to `CycleEnds` | `runInboxWatchCycle`, await by await |
| `CycleReads` | reads the queue and takes the position of the mailbox, before anything is listed |
| `PollBaseline` | the first polls without a backfill, which only set the cursor |
| `PollBackfill` | a first poll, or a later one when the backfill was off before: any mails there are, up to `backfillMax` |
| `PollChanges` | a later poll: for Gmail what was added after the cursor, for Microsoft Graph whatever the delta lists, old mails included |
| `PollSkips` | Gmail has nothing new or has forgotten the history |
| `WriteCursor` | the cursor on disk, before the triage; then the queue, as it was read, drops what it knows (`Fresh`) and a limit the rest (`Batches`) |
| `Triage`, `MergeReads`, `Merge` | the triage, and `upsertQueueItems` with what `writeInboxQueue` cuts off (`Overflows`) |
| `AutoProcess` to `Settle` | `processItems` |
| `DismissReads`, `DismissWrites` | `dismissItems` |
| `Crash` | keeps the files and loses the rest |

A poll returns any subset of what the provider reports, as a page may be full and a
message's metadata may fail.  Three variables are history.  `triages` counts up to
two, for "more than once"; `backfilled` holds the mails a backfill returned; `lost`
those that had an item, in the queue or in the cycle, and then had none: by a
crash, an error before the merge, a stale write, or `QUEUE_MAX`.

Assumed: one answer of a provider lists a message once (of two entries in one
answer both would pass `Fresh`); the `historyId` that Gmail answers covers what
that answer could have listed; reads and writes of the files succeed, and a write
is one step.  That a mail is listed by one poll only is not assumed: Graph and
backfills list mails again, and `Fresh` is what holds them off.

### RequestGate

The chain of promises for one credential pair.  `line` holds the requests whose
start has not settled, in the order of the chain; a caller is rejected at once
when its signal is aborted, and its start stays in the chain until its turn.
`left` is what remains until `nextAllowedAt`, `wait` what remains of a timer.  Time
passes between macrotasks only: not while a start that has reserved its slot is
a few microtasks away from its caller (`Resumes`).  `Intervals` holds the values
that `resolveProviderMinIntervalMs` can return, since routes with one credential
may have different ones.

### ChatRegistry

The map of open chats, and the turns of their bridges.  `step[t]` is the await at
which a call `t` of the registry is; `boot` is a thread of its own, since its one
promise is shared by all that wait for it.

| Action | Code |
|---|---|
| `Arrives` | a command of a client, or a use of the active chat by the watcher or the integrations |
| `Boot` | `boot`: `resolveChatBoot` restores a chat, takes another or makes one |
| `ReadsMetadata`, `AsksForActive`, `Joined`, `FindsMission`, `Creates` | what `open`, `activate`, `getOrCreateActive`, `getOrCreateOrchestratorChat` and `create` do before a bridge is opened |
| `Looks`, `FillsSlot` | `openBridgeFromMeta`: the test for a slot, and `slots.set` several awaits later |
| `Activates`, `OpenReturns` | the chat becomes the active one, which is saved |
| `Disposes`, `Removes`, `DeleteReturns`, `ActivatesNext` | `delete`, await by await |
| `TurnStarts`, `TurnEnds` | `send_message` for a chat, and the end of the turn |

A bridge is a number, and `harnesses` says of which chat each was built; a bridge
that is no longer in a slot keeps its turn, as `dispose` does not end one.
`Deleting` is the time between the closing of a chat and the removal of its files.
Files are read and written without errors.

### MCParts and MCSidecar

`MCParts` explores four parts which share no variable, and `MCSidecar` two, each
with the others at rest; the inbox twice, with one mail and the commands of clients
and with all mails and no commands.

## 3. Runs

| Run | Instance | Result |
|---|---|---|
| `Parts` | locks: 2 tasks, 3 calls (two of one task), a file and the terminal, ttl 2, deadline 1; sort: every relation over 4 phases; gate: 3 requests, intervals 0 to 2; chats: 2 chats, 2 calls beside boot | all properties hold; types are `PartsTypeOK` |
| `LocksHandlers` | locks as above | violated: handlers overlap after eviction or `releaseByTask` |
| `TasksSafety` | 3 children, depth 2, cap 3, throttled root | all hold |
| `TasksLive` | 2 children, same | both hold |
| `TasksCancelledDep` | 3 children | violated: a cancelled dependency counts as done |
| `Workflow` | 2 phases, ≤3 tasks, 2 iterations, budget 3, width 2; types are part of `PhaseAfterDependencies` | all hold |
| `WorkflowWallClock` | smaller | violated: agents forked after the timeout |
| `Cache` | two files (≤1 edit each, one of them speculated), reads with and without prerequisites, stoppable turns; types are part of `AdoptedIsRunning` | all hold |
| `CacheStaleHit` | one of the two files edited twice, no speculation or stops | violated: a stale read after a second edit |
| `ToolRound` | 2 rounds of ≤3 calls, ≤2 edits and ≤2 edges each, 3 undo entries, budget 1 | all hold |
| `Sidecar` | 2 missions of ≤2 tasks; mails of either provider, one per cycle, a backfill of one, a queue of one, 1 processing call, 1 crash: 1 mail with 2 commands, and 2 mails without commands | all hold |
| `ChatsTwoTurns` | 2 chats, 2 calls beside boot | violated: two turns of one chat |

Why these bounds.  *Locks*: two resources are the fewest for a cycle of waits and
for a rollback, two calls of one task the fewest for a shared count, a second
task the fewest for a conflict; ttl 2 over deadline 1 keeps the order of the real
values (300 s over 10 s).  Age and waiting saturate where the code stops telling
values apart, so the time model loses nothing.  *Tasks*: three children make a
chain and a fork of dependencies, a grandchild, and one child over the reduced
cap; children are interchangeable and reduced by symmetry in the safety run (a
liveness run has no symmetry).  `Throttled` only limits which harnesses'
providers fail.  *Sort*: four phases have diamonds, chains, cycles beside
acyclic parts.  *Workflow*: a budget below the tasks of two phases is both cut
and exhausted; three tasks over width two make the pool wait.  *Cache*: one edit of each
file lets a read be older than an edit, an invalidation or another read, and a
second file makes the changed set grow for another reason; a stopped turn keeps
an entry that a read with prerequisites has overtaken.  An entry that survives a
second edit of its file needs two, as in `CacheStaleHit`; the theorems hold for
any number.  `MaxEdits` bounds the versions.  *ToolRound*: three calls make a chain of
prerequisites and two parallel writes beside an edit; two rounds are needed for
a playback that overlaps the next round; two edits of one file in a round make
the order of two undo entries matter; the ledger is full after three entries.
Calls are interchangeable, and only safety is checked there, so symmetry is
sound.  *Sidecar*: two missions are the fewest for one that is replaced while it
unwinds; two tasks make a chain, a cycle and an unknown dependency (an id that
was not planned).  Two mails with one triaged per cycle leave one over the limit, a
queue of one drops the second, and a backfill of one may return either; two commands
of clients let a dismissal, a user's turn and a processing call meet, for one mail,
since each item is updated and recovered by itself.  One crash is enough to lose an
item, and a failed cycle, another way to lose it, may happen any number of times.
*Requests*: three let one be aborted between two others, and intervals of one and
two tell a wrong slot from a right one.  *Chats*: two calls make every race of
two opens, or of an open and a deletion, and `boot` is a third; of two chats one
takes over when the other is deleted.  In `Parts`, `Sidecar`, `ToolRound` and
`ChatsTwoTurns` what is bounded (phases, requests, calls, rounds, missions, mails,
commands) runs out and the system comes to rest, so deadlock is not checked.

Fairness.  *Locks*: the clock advances and a poll whose deadline passed wakes up
from its 50 ms sleep; handlers need not return and no successful poll is
assumed.  *Tasks*: timers fire and the dependency poll goes on; no model, tool or
parent is assumed to answer.  *Workflow*: `run()` takes its own steps (`RunStep`).  Nothing is
assumed of what it awaits: the promise of a sub-agent settles when its `send`
returns, and the child's timer only rewrites the record (`SlotIsFreed` is about the
record).  So `RunEnds` has a premise, `AwaitedAlwaysAnswers`: no sub-agent, review,
gate or summary stays unanswered for ever.
*Cache*: while a
call or an edit of a batch is under way, one of them goes on.  *Missions*: execute
goes on when what it awaits has settled (the planner has a timeout of 90 s).  Nothing
is assumed of the chats, since `ask_user` has no timeout and ignores the abort of
its turn; so `MissionEnds` has a premise, `ChatsLeaveOff`: no chat of a mission is at
work for ever.  Nothing is assumed of clients or of the parent chat.  *Inbox*: the interval timer goes on starting cycles, awaited
calls return, turns of the chat end; no mail need arrive.  *Requests*: promises
settle, timers fire and time passes; nobody need abort.

Every property of a passing run has a mutant in `PROJECT.json`: a definition of
the model replaced by the form a plausible bug would give it (marked "mutant" in
the modules), under which the property fails.

## 4. Proofs

`ResourceLocksProofs` proves, for all sets of tasks, resources and (finitely
many) calls and all ttl and deadlines with `WaitLimit < Ttl`, that `Spec`
satisfies

- `TypeCorrect`: `[]TypeOK`, which is part of `PartsTypeOK`
- `ShapeCorrect`: `[]HeldShape`
- `NoOrphan`: `[]NoOrphanLock`
- `Backed`: `[]LeaseBacked`
- `Exclusive`: `[]LeaseExclusive`
- `NoDeadlock`: `[]NoCircularWait`
- `ServiceImplemented`: `Spec => ImplementsService`

Argument.  `TypeOK` and `HeldShape` are inductive, the second over the first.
`NoOrphanLock` compares a refcount with the cardinality of `Believers(t, r)`; each
action changes that set for one call, so the proof has a lemma for each thing an
action can do to one entry (free it, keep it, leave it, grant it fresh, share it).
`NoOrphanLock` is inductive over `TypeOK` and `HeldShape`: the latter says that a
call which leaves gives up exactly the references it holds.
`LeaseBacked` is inductive over the same two, because of its history: a release by
a call whose lease was revoked takes a reference that belongs to a sibling, and
the history then revokes the siblings' leases, so the count still covers those
that stand.  Stated without the history it would be false, which is the finding
of `LocksHandlers`.
`LeaseExclusive` is not inductive.  Between tasks it follows from `LeaseBacked`:
two standing leases would give one entry two owners.  On the terminal it needs the
strengthening `TerminalAlone`, that an entry of the terminal never counts more than
one reference; two standing leases would be two.
`NoCircularWait` rests on the invariant `AcquiredInOrder`: what a call has been
granted comes before all that it still wants.  `OrderBreaksCycles` is the argument
from there.  In a circle of waiting calls, take the last resource that one of
them waits for: its holder in the circle waits for a later one.
`ServiceImplemented` is the refinement.  `GrantIsService` shows that a grant is the
service's grant of one lease: that the service allows it is `LeaseExclusive` of the
state after it.  `EndingIsService` shows that all other
steps only end leases, which needs `RevokedIsHeld`, that a loss on record is one
of a lease which its call still believes in.

`TaskLifecycleProofs` proves, for every finite set of children and every limit
with at least one agent,

- `TypeCorrect`: `[]TypeOK`
- `Timed`: `[]RunningChildIsTimed`
- `StartsAfterDependencies`: `[]NoStartBeforeDependencies`
- `WithinCap`: `[]RunningWithinCap`

`RunningChildIsTimed` and `RunningWithinCap` are inductive over `TypeOK`; the second
rests on two lemmas, that a step which starts no task leaves room and that a fork
adds one task below the harness's own cap, which is at most the larger limit.
`NoStartBeforeDependencies` needs the strengthening `DoneIsSettled`: a record that
says `done` belongs to a chain that has ended, and an absent one to a chain that
has not begun.  It is the reason a dependent may trust a record that others
overwrite: they can only overwrite it with `cancelled`.

`PartsProofs` proves, for any set of requests and of intervals,

- `GateCorrect`: `[]GateInv`
- `Spaced`: `GateSpec => RequestsAreSpaced`

`RequestsAreSpaced` compares the moment of sending with the last request sent,
which the code does not store: it stores the slot.  `GateInv` relates the two.
Outside of the few microtasks between a reservation and its caller,
`nextAllowedAt` covers what is left of the last interval (`SlotCoversInterval`);
within them one request alone is on its way and nothing is left
(`SlotIsExclusive`); and a timer is never shorter than what is left until the slot
(`DelayCoversSlot`), which is why a start need not look again when it fires.
It proves further, for any number of chats and of concurrent calls,

- `RegistryTypeCorrect`: `[]RegistryTypeOK`
- `ActiveCorrect`: `[]ActiveIsOpen`

`ActiveIsOpen` needs `OpenedIsOpen`, the same for a chat that a call has opened and
not yet activated, and `CallsAreSound`: calls work on chats that have been made,
so a new chat is nobody's yet.

And of what `MCParts` puts together

- `PartsTypeCorrect`: `PartsSpec => []PartsTypeOK`
- `PartsCorrect`: all invariants of the four parts, `RequestsAreSpaced` and
  `ImplementsService`, of `PartsSpec`

since `PartsSpec` implies the specification of each part (`PartsAreLocks` and so
on): the others only stutter it.

`SidecarProofs` proves, for any number of mails, any limits of cycle, backfill and
queue and any number of crashes,

- `InboxTypeCorrect`: `[]InboxTypeOK`
- `HistoryOnce`: `[]HistoryTriagedOnce`
- `AgainOnlyIfLost`: `[]TriagedAgainOnlyIfLost`
- `RepeatsCorrect`: `[]RepeatedOnlyIfLost`, which is these two together

The queue is no help for `HistoryOnce`, as its items may be lost; the cursor is.  `CursorCovers` says, of Gmail and of mails that no backfill returned,
that what was triaged so far and the batch that is being triaged lie before the
cursor on disk, that the mails of the batch have not been triaged, and that a poll
found only mails after it.  The cursor is no help for `AgainOnlyIfLost`, as Graph and
backfills list old mails.  `KeptOrLost` says that a mail which was triaged has an
item, in the queue or in the cycle, or was lost, and that the same holds against the
older copy of the queue by which the cycle decides: what that copy does not have
was not triaged, or was lost, although the copy was read before the poll and the
queue may have been rewritten since.

It proves further, for any tasks, any plan and any number of missions,

- `MissionTypeCorrect`: `[](MissionTypeOK /\ Shape)`
- `AutopilotCorrect`: `[]AutopilotIsCurrent`
- `OutcomeIsFinal`: `MissionSpec => TerminalIsFinal`
- `ToldCorrect`: `[]ToldOnce`
- `UpstreamCorrect`: `[]UpstreamDecides`

`Shape` ties `pc` to the jobs and to the snapshot: a current execute that is past
its start has a busy status, so whoever unwinds after the end is not current and
writes nothing; that is `OutcomeIsFinal`.  `AutopilotIsCurrent` needs
`AutopilotInTurn`: a chat on autopilot is that of a job in a turn of the execute
that runs, so none is left when its jobs have ended.  `ToldOnce` needs `ToldInv`: a
mission that was told, or is being told, is the one `parentNotifiedForId` names or one that was replaced.  `UpstreamDecides`
needs `UpstreamInv`: a skipped worker has a dependency that blocks it for good, the
running workers are those the wave awaits and the pending ones those that remain;
`WaveStep` shows that starting a wave keeps this, for circular plans too.
`SidecarTypeCorrect` and `SidecarCorrect` carry these results to `SidecarSpec`, the two
activities side by side.

`ToolRoundProofs` proves, for any finite set of calls, any edges and any budget,

- `PlacedCorrect`: `[]CallsPlaced`
- `PrerequisitesCorrect`: `[]PrerequisitesFirst`
- `BudgetCorrect`: `[]BudgetOvershoot`
- `RoundTypeCorrect`: `[]RoundTypeOK`
- `RestoreCorrect`: `[]RestoresRoundStart`

`PrerequisitesFirst` is inductive over `CallsPlaced`.  Its heart is `BatchIsFree`:
when the calls can be ranked by their prerequisites, one of those that remain has
the least rank, so its prerequisites are not among them and the batch is never
the remainder that a cycle leaves.  `BudgetOvershoot` is not inductive: a call that
passed the test is counted later.  `BudgetInv` adds those calls to the count.

`RoundTypeCorrect` has to say what a playback consists of, hence `InOrderMeaning`:
over a finite set and a linear order, `InOrder` lists each element once, and the
greatest of them last.  `SoonerIsLinear` shows that the order of the undo entries is
such an order.  `RestoreCorrect` needs `UndoInv`, which follows a round that nothing
disturbs.  While it runs, nothing is being replayed.  Until its first entry is
recorded (and the ledger has room), no edit of it has written, the file is what it
was at the start and so is the content its edits have read (`NothingWritten`).
From then on the first entry of the round holds that content (`FirstIsStart`).
Its playback is in reverse order, so the content it writes last is that one
(`PlaybackKept`), and when it is over the file holds it.  A full ledger records
nothing, and commits drop entries of rounds that succeeded; both are cases of the
proof.

`WorkflowRuntimeProofs` proves, for any number of phases, tasks and iterations and
any budget,

- `InFlightCorrect`: `[]InFlightBound`
- `OvershootCorrect`: `[]OvershootIsBounded`
- `TotalCorrect`: `[]TotalCountsEveryAgent`
- `DependenciesFirst`: `[]PhaseAfterDependencies`
- `HonestReport`: `[]ReportIsHonest`

`PoolShape` keeps the agents in flight within the pool's width and gone when a
fan-out ends.  `CountShape` says how far the runtime's count is behind the forks,
which is never more than the fan-out or the review under way, and that repeats
of the verify loop add at most `Repeats(iter)` to a budget that was kept when the
phase began.  `Progress` says that the summaries and the cursor are those of the
first phases of `TopoSort`, all but the current one, and that a run which is still
`ok` has left the loop only at its end or because the budget cut it.  What is
proved of `TopoSort` then gives the dependencies.

`PhaseOrderProofs` proves, for any number of phases and any dependencies,

- `IndegreeCorrect`: `SortSpec => []IndegreeIsExact`
- `SortCorrect`: `SortSpec => []OrderIsTopological`
- `TopoSortCorrect`: the order `TopoSort` returns respects all dependencies, and it
  is complete exactly when they have no cycle

`KahnInv` is the loop invariant: the queue holds exactly the phases not yet ordered
whose dependencies all are, an in-degree is the number of dependencies not yet
ordered, and a phase comes after what it depends on.  `KahnFindsCycles` says what a finished loop
has found.  The phases it left are a set in which each depends on another of the
set, which is a cycle; and if it left none there is no such set, for the phase of it
that comes first in the order depends on none of the rest.  The library's induction theorems take an
operator as a parameter and cannot be used; `SetInduction` states induction of a set
of numbers instead, which is enough to show that `TopoSort`, a recursive function,
exists and is what the loop computes (`IterationExists`, `TopoSortRuns`).

`ReadCacheProofs` proves, for any set of files, any guessed ones and any number of
edits,

- `AdoptedRuns`: `[]AdoptedIsRunning`
- `FreshAfterFlush`: `[]NothingOlderThanFlush`
- `CachedReadsCount`: `Spec => NoOlderThanCachedReads`
- `ReadInvariant`: `[](TypeOK /\ ReadInv)`, on which the others rest

`ReadInv` has three parts.  `ReadersInv`: outside a batch no call reads, and what can
be adopted runs.  `AgesInv` orders the versions of a file: what a read through the cache last returned,
what is cached, what the handler in flight has read, what is on disk; it is why no
read goes back behind one that came through the cache.  A read that bypasses the
cache touches none of these.  `FreshInv`: of a file nobody guesses at, no read survives the
invalidation at the end of a batch, so what is cached or being read was fetched after
it.

The assumptions are those named in `ConstantsAssumption`, `LifecycleAssumption`,
`GateAssumption`, `InboxAssumption`, `OrchestrationAssumption`, `RoundAssumption`,
`PhaseCountAssumption`, `WorkflowAssumption`, `CacheAssumption` and
`RegistryAssumption`; every run of these modules evaluates them.

Only model-checked: liveness, that is `AcquireAllReturns`, `QueueDrains`, `SlotIsFreed`,
`DependencyWaitEnds`, `RunEnds`, `BatchEnds`, `MissionEnds` and `ProcessingIsRecovered`.
They need fairness, hence `ENABLED`, which is out of the prover's reach.  Some
invariants are proved without being the subject of a run (`HeldShape`, `CallsPlaced`
and the strengthenings); those added for a proof were checked by TLC on the
instances of section 3 first.

## 5. What the models showed

Disagreements between code and documentation, each with a run:

1. A handler can lose its lock while running (`LocksHandlers`).
2. A cancelled child can end `done` and release its dependents (`TasksCancelledDep`).
3. The wall-clock cap answers the caller and does not stop the run (`WorkflowWallClock`).
4. A second edit of a path in one turn leaves stale cached reads (`CacheStaleHit`).
5. Two opens of one chat at the same time build two harnesses, and the chat can
   have two turns at once (`ChatsTwoTurns`).

Observations made while modelling, without a run of their own:

- Children that were cancelled and still work do not count against the limit on
  running agents (`agent.ts:4077` counts records); `RunningWithinCap` is about
  records.
- The "total sub-agent cap per run" is exceeded by reviewers and repeated
  iterations; `OvershootIsBounded` states by how much.
- A speculation that read before an edit and settles after the invalidation puts
  the old result back in the cache; `NothingOlderThanFlush` excludes files with
  speculations.  Its cleanup can also remove the job of a newer speculation.
- A stopped turn leaves cached reads of files it edited (`StopBatch`).
- Cancelling a child does not cancel its own children.
- `decompose_goal` resolves a dependency only on nodes spawned earlier in the
  list, so an edge from a later node is dropped.
- `waitForDependencies` returns at the first failed dependency although its
  comment says it waits for all to end.
- `read_file` and `write_file` lock different ids, so a read does not exclude a
  write.
- The forked-agent cap defaults to 8 while a workflow may ask for 16 at once:
  the rest are recorded as failed forks (`ForkRefused`).
- The cursor lists phases that failed their gate with `iterate` as completed, and
  nothing reads it yet.
- A renamed duplicate phase id (`id_i`) is not tested against the ids in use; two
  phases can share one, and `topoSortPhases` then runs one of them twice and the
  other never.
- `docs/concepts/architecture.md` lists lock acquisition before approval; the
  code asks for approval first.
- A round's `playback` is not awaited (`agent.ts:7158`): an edit of the next round
  can be overwritten by it, and a `commitPath` that comes while it runs does not
  keep the entry from being replayed.  Undo entries of one millisecond are
  replayed in recording order, which restores an intermediate content.
  `disturbed` names these rounds.
- Of two identical calls in a batch, one is not dispatched; a prerequisite on it
  is then outside the batch and ignored.
- A request aborted after its start reserved the slot is not sent, and the slot is
  used up all the same.
- A stopped mission leaves its workers `running` in the snapshot.  The notice of a
  mission is lost when `start_mission` replaces the snapshot first, or when the
  retry timer fires before the busy turn's send has returned and no turn follows.
- Worker chats become the active chat, so mails that the watcher processes on its
  own may be processed in one.  The recovery of items looks at the active chat
  only, and may set items that another chat is processing back to pending.
- The inbox queue is cut to its last `QUEUE_MAX` entries after a sort that puts the
  newest first, which drops the newest (`state.ts:152` and `164`).  Microsoft Graph
  may list a dropped mail again, and then it is triaged again.
- The Graph delta lists changed messages, removed ones among them, and
  `pollMicrosoftInbox` does not filter it: a mail that was lost from the queue is
  triaged, and possibly labelled, again when its flags change.
- `markProcessedIds` writes the ids of triaged mails to a file that no other code
  reads; only the queue holds off a repetition.
- A mail of Gmail is never seen again when it lies beyond the provider's page or the
  limit of a cycle, or when the sidecar stops between cursor and queue.  Writes of the
  queue that overlap undo one another: `RepeatedOnlyIfLost` and
  `ProcessingIsRecovered` hold in spite of it, a dismissal may be lost.
- A read with prerequisites bypasses the cache; after a second edit of its path in
  the turn it returns the new content, and the next read without prerequisites the
  old one.
- A sub-agent whose `send` does not return, because a tool of it never answers, keeps
  the workflow's fan-out waiting after its timer gave its slot back
  (`agent.ts:4281`), and nothing ends the run.
- `bridge.abort()` does nothing while `send` awaits before `running` is set
  (`agent.ts:3038` to `3089`).  A mission that is stopped at that moment leaves a turn
  behind which is no longer on autopilot; if it asks the user a question, `runChain`
  keeps the next mission in `planning` until somebody answers.
- `plan` clears the ledger in the middle of a turn (`agent.ts:6887`).  A round whose
  `plan` succeeded has not failed altogether, so it is not one that is undone.
- Two first requests for the Mission Control chat create two of them, as
  `getOrCreateOrchestratorChat` awaits between the look and the creation, although
  the comment at `chat_registry.ts:297` says "created once per install".
- A chat that is deleted keeps its turn: `dispose` detaches the bridge and does not
  abort the harness.
- A second `ask_user` of one batch overwrites the resolver of the first
  (`session_bridge.ts:342`).
- A request id is forgotten after 256 newer ones (`session_bridge.ts:371`): a message
  resent later than that is accepted twice.
- The pty manager may hand out a one-shot session as the agent's shell, and
  one-shot sessions do not count against its limit.

## 6. Not modelled, and what is left

Not modelled:

- *The circuit breaker's counters and approvals* of the dispatcher.  `ToolRound`
  lets any call be refused where they refuse it; nothing in the code promises more
  about calls that were admitted before a circuit opened.
- *Undo of whole plans*: `playback` without a step replays entries of several
  plans of one turn; `ToolRound` has the automatic playback of a failed round.
- *Of the chats*: persona set-up, preferences and providers, titles, voice, the
  forgetting of request ids, a second question while one is open.
- *Of the inbox*: the rules (a rule is any outcome of `Triage`), the throttle between
  cycles, several accounts in one cycle.
- *Terminals*: synchronous bookkeeping around external processes.
- *Sidecar server, remote hosts, wire protocol, web server*: a frame is one call of
  an operation above; the rest is I/O.
- *Tools, connectors, user interfaces, evaluation, prompts and compression,
  licensing*: I/O or presentation, or their behaviour is the content of texts.
- *The naming of phases* in `parseWorkflowSpec` and the workflow planner.

Not composed: `TaskLifecycle` with `ResourceLocks` (a completion that releases the
locks of handlers in flight is `ReleaseByTask` at any time), `WorkflowRuntime` over
`TaskLifecycle` (a refused fork is `ForkRefused` at any time).  Each module lets
the other do what it likes there, which includes what it really does.

Worth doing next: what the request gate and the chat registry promise as abstract
specifications of their own (a rate limiter, one chat with one bridge), refined as
`LockService` is; and `TaskLifecycle` composed with `ResourceLocks`, with the theorem
that a task whose record has ended leaves no entry behind.
