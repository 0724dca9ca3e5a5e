--------------------------- MODULE ChatOrchestration ---------------------------
(***************************************************************************)
(* Missions: ChatOrchestrator (packages/sidecar/src/chat_orchestrator.ts)  *)
(* and the chats it drives (session_bridge.ts).                            *)
(*                                                                         *)
(* start replaces the snapshot and queues execute behind the executes of   *)
(* earlier missions; stop only marks the snapshot, aborts the chats and    *)
(* lets execute find out at its next await.  execute plans, runs the       *)
(* tasks' worker chats wave by wave and merges their handoffs in a         *)
(* synthesis chat.  Every status change may tell the parent chat, which    *)
(* must be idle for that.                                                  *)
(***************************************************************************)
EXTENDS Naturals, FiniteSets

CONSTANTS
  TaskIds,    \* the ids a planner can give its tasks
  Synth,      \* names the synthesis chat of a mission
  ClientYolo, \* a client starts missions with yolo (a parent chat always does)
  MaxWorkers, \* opts.maxWorkers
  MaxRuns     \* missions started (bounds the model)

ASSUME OrchestrationAssumption ==
  /\ IsFiniteSet(TaskIds)
  /\ Synth \notin TaskIds
  /\ ClientYolo \in BOOLEAN
  /\ MaxWorkers \in Nat \ {0}
  /\ MaxRuns \in Nat

Jobs == TaskIds \cup {Synth}
Runs == 1..MaxRuns

VARIABLES
  \* the snapshot and the flags beside it
  runId,       \* snapshot.id, 0 for ""
  status,      \* snapshot.status
  planned,     \* ids of snapshot.workers
  twice,       \* two entries of snapshot.workers share an id
  wstatus,     \* worker.status by id, "none" for an id that is not planned
  handoff,     \* worker.handoff.status by id, and the map handoffs of execute
  yolo,        \* snapshot.yolo
  hasParent,   \* snapshot.parentChatId is set
  aborted,     \* this.aborted
  autopilot,   \* autopilotChats: <<mission, job>> pairs
  \* execute
  exec,        \* the last mission taken from runChain
  pc,          \* where its execute is
  dependsOn,   \* task.dependsOn by id
  remaining,   \* the ids whose wave has not come yet
  job,         \* where each runWorker, and runSynthesis, is
  \* the parent chat
  notified,    \* parentNotifiedForId, 0 for null
  parentTurn,  \* what the parent chat's turn is about
  noticeFor,   \* the mission a notice is about (snap.id in maybeNotifyParentChat)
  parentEnded, \* that turn has sent turn_end and is unwinding
  retryTimer,  \* the timeout set by handleFrame on turn_end
  told         \* history: notices of each mission whose turn succeeded

snapshotVars == <<runId, status, planned, twice, wstatus, handoff, yolo, hasParent>>
executeVars  == <<exec, pc, dependsOn, remaining, job>>
parentVars   == <<notified, parentTurn, noticeFor, parentEnded, retryTimer, told>>
missionVars  == <<snapshotVars, executeVars, parentVars, aborted, autopilot>>

Busy     == {"planning", "running", "synthesizing"}
Terminal == {"completed", "failed", "stopped"}
AtWork   == {"create", "turn", "gate"}

Unplanned == [t \in TaskIds |-> "none"]
NoJob     == [j \in Jobs |-> "none"]

(***************************************************************************)
(* isCurrentRun of the mission whose execute is running.                   *)
(***************************************************************************)
Current == ~aborted /\ exec = runId

Chat(j) == <<exec, j>>

-----------------------------------------------------------------------------
MaybeNotifyBusy(st) ==                          \* mutant: told without looking back
  IF hasParent /\ st \in Terminal /\ parentTurn = "none"
  THEN /\ notified' = runId
       /\ parentTurn' = "notice"
       /\ noticeFor' = runId
       /\ UNCHANGED <<parentEnded, told>>
  ELSE UNCHANGED <<notified, parentTurn, noticeFor, parentEnded, told>>

(***************************************************************************)
(* maybeNotifyParentChat, called by every emitStatus and by the retry      *)
(* timer, after the snapshot took the status st.                           *)
(***************************************************************************)
MaybeNotify(st) ==
  IF hasParent /\ st \in Terminal /\ notified # runId /\ parentTurn = "none"
  THEN /\ notified' = runId
       /\ parentTurn' = "notice"
       /\ noticeFor' = runId
       /\ UNCHANGED <<parentEnded, told>>
  ELSE UNCHANGED <<notified, parentTurn, noticeFor, parentEnded, told>>

Emit(st) == MaybeNotify(st) /\ UNCHANGED retryTimer

(***************************************************************************)
(* start: from a client, without a parent, or by the start_mission tool in *)
(* a turn of the parent chat.                                              *)
(***************************************************************************)
Start(parent) ==
  /\ runId < MaxRuns
  /\ status \notin Busy
  /\ parent => parentTurn # "none" /\ ~parentEnded
  /\ runId' = runId + 1
  /\ aborted' = FALSE
  /\ status' = "planning"
  /\ planned' = {} /\ twice' = FALSE
  /\ wstatus' = Unplanned /\ handoff' = Unplanned
  /\ notified' = 0
  /\ hasParent' = parent
  /\ yolo' = (parent \/ ClientYolo)
  /\ UNCHANGED <<executeVars, autopilot, parentTurn, noticeFor,
                 parentEnded, retryTimer, told>>

StopKeepingAutopilot ==                         \* mutant: chats stay on autopilot
  /\ status \in Busy \cup {"stopped"}
  /\ aborted' = TRUE
  /\ status' = "stopped"
  /\ Emit("stopped")
  /\ UNCHANGED <<runId, planned, twice, wstatus, handoff, yolo, hasParent,
                 executeVars, autopilot>>

(***************************************************************************)
(* stop.  Aborting a chat only makes its turn end sooner.                  *)
(***************************************************************************)
Stop ==
  /\ status \in Busy \cup {"stopped"}
  /\ aborted' = TRUE
  /\ status' = "stopped"
  /\ autopilot' = {}
  /\ Emit("stopped")
  /\ UNCHANGED <<runId, planned, twice, wstatus, handoff, yolo, hasParent, executeVars>>

-----------------------------------------------------------------------------
NextWaveAll(rem, deps) == rem                   \* mutant: dependencies do not order the waves

(***************************************************************************)
(* topologicalWaves, one wave at a time: the tasks none of whose           *)
(* dependencies remains, or, on a cycle, everything that is left.          *)
(***************************************************************************)
NextWave(rem, deps) ==
  LET free == {t \in rem : deps[t] \cap rem = {}}
  IN  IF free = {} THEN rem ELSE free

UpstreamDone(t, deps, ws, ho) ==
  \A d \in deps[t] : ws[d] = "done" /\ ho[d] = "done"

(***************************************************************************)
(* The workers of a wave start, or are skipped, before the first await.    *)
(***************************************************************************)
StartWave(rem, deps, ws, ho) ==
  LET wave == NextWave(rem, deps)
      go   == {t \in wave : UpstreamDone(t, deps, ws, ho)}
  IN  /\ remaining' = rem \ wave
      /\ wstatus' = [t \in TaskIds |-> IF t \in go THEN "running"
                                       ELSE IF t \in wave THEN "skipped" ELSE ws[t]]
      /\ job' = [j \in Jobs |-> IF j \in go THEN "create" ELSE "none"]

(***************************************************************************)
(* execute is called when the executes queued before it have returned.     *)
(***************************************************************************)
BeginExecute ==
  /\ pc = "idle"
  /\ exec < runId
  /\ exec' = exec + 1
  /\ dependsOn' = [t \in TaskIds |-> {}]
  /\ pc' = IF ~aborted /\ exec + 1 = runId THEN "planning" ELSE "idle"
  /\ UNCHANGED <<snapshotVars, parentVars, aborted, autopilot,
                 remaining, job>>

Return ==
  /\ pc' = "idle"
  /\ job' = NoJob /\ remaining' = {}
  /\ UNCHANGED <<snapshotVars, parentVars, aborted, autopilot,
                 exec, dependsOn>>

(***************************************************************************)
(* The plan arrives (planTasks, parsePlan).  It may name unknown or        *)
(* circular dependencies, and give two tasks one id.                       *)
(***************************************************************************)
PlanArrives(ids, deps, dup) ==
  /\ pc = "planning"
  /\ Current
  /\ status' = "running"
  /\ planned' = ids
  /\ twice' = dup
  /\ handoff' = Unplanned
  /\ dependsOn' = deps
  /\ pc' = "wave"
  /\ StartWave(ids, deps, [t \in TaskIds |-> IF t \in ids THEN "pending" ELSE "none"],
               Unplanned)
  /\ Emit("running")
  /\ UNCHANGED <<runId, yolo, hasParent, aborted, autopilot, exec>>

Finish(st) ==
  /\ status' = st
  /\ pc' = "idle"
  /\ job' = NoJob /\ remaining' = {}
  /\ Emit(st)

PlanFails ==
  /\ pc = "planning"
  /\ Current
  /\ Finish("failed")
  /\ UNCHANGED <<runId, planned, twice, wstatus, handoff, yolo, hasParent, aborted,
                 autopilot, exec, dependsOn>>

(***************************************************************************)
(* All workers of a wave have returned (Promise.all).                      *)
(***************************************************************************)
WaveOver == pc = "wave" /\ \A t \in TaskIds : job[t] \notin AtWork

NextWaveStarts ==
  /\ WaveOver /\ remaining # {}
  /\ Current
  /\ StartWave(remaining, dependsOn, wstatus, handoff)
  /\ Emit("running")
  /\ UNCHANGED <<runId, status, planned, twice, handoff, yolo, hasParent, aborted,
                 autopilot, exec, pc, dependsOn>>

AllWorkersFailed ==
  /\ WaveOver /\ remaining = {}
  /\ Current
  /\ \A t \in planned : wstatus[t] # "done"
  /\ Finish("failed")
  /\ UNCHANGED <<runId, planned, twice, wstatus, handoff, yolo, hasParent, aborted,
                 autopilot, exec, dependsOn>>

SynthesisStarts ==
  /\ WaveOver /\ remaining = {}
  /\ Current
  /\ \E t \in planned : wstatus[t] = "done"
  /\ status' = "synthesizing"
  /\ pc' = "synthesis"
  /\ job' = [job EXCEPT ![Synth] = "create"]
  /\ Emit("synthesizing")
  /\ UNCHANGED <<runId, planned, twice, wstatus, handoff, yolo, hasParent, aborted,
                 autopilot, exec, dependsOn, remaining>>

GiveUpBetweenWaves ==                           \* mutant: the planner is not followed by a test
  /\ ~Current
  /\ WaveOver
  /\ Return

(***************************************************************************)
(* execute returns when it finds that its mission is no longer current.    *)
(***************************************************************************)
GiveUp ==
  /\ ~Current
  /\ pc = "planning" \/ WaveOver
  /\ Return

-----------------------------------------------------------------------------
(***************************************************************************)
(* The steps of one chat, shared by runWorker and runSynthesis.            *)
(***************************************************************************)
ChatCreated(j) ==
  /\ job[j] = "create"
  /\ Current
  /\ autopilot' = autopilot \cup {Chat(j)}
  /\ job' = [job EXCEPT ![j] = "turn"]
  /\ UNCHANGED <<snapshotVars, parentVars, aborted, exec, pc, dependsOn, remaining>>

(***************************************************************************)
(* A tool of the turn asks for approval, or asks the user, and handleFrame *)
(* does not answer; then a person or the approval timeout may.             *)
(***************************************************************************)
AutoResolved(j, gate) == Chat(j) \in autopilot /\ (gate = "ask_user" \/ yolo)

GateWaits(j, gate) ==
  /\ job[j] = "turn"
  /\ ~AutoResolved(j, gate)
  /\ job' = [job EXCEPT ![j] = "gate"]
  /\ UNCHANGED <<snapshotVars, parentVars, aborted, autopilot,
                 exec, pc, dependsOn, remaining>>

GateAnswered(j) ==
  /\ job[j] = "gate"
  /\ job' = [job EXCEPT ![j] = "turn"]
  /\ UNCHANGED <<snapshotVars, parentVars, aborted, autopilot,
                 exec, pc, dependsOn, remaining>>

(***************************************************************************)
(* runWorker returns or throws; execute writes the worker's record.  The   *)
(* turn stands for the first one and for those that repair a handoff.      *)
(***************************************************************************)
Leave(j) ==
  /\ autopilot' = autopilot \ {Chat(j)}
  /\ UNCHANGED <<aborted, exec, dependsOn>>

Ended(t) == job' = [job EXCEPT ![t] = "ended"] /\ UNCHANGED <<remaining, pc>>

WorkerReturns(t, ho) ==
  /\ job[t] = "turn"
  /\ Current
  /\ wstatus' = [wstatus EXCEPT ![t] = "done"]
  /\ handoff' = [handoff EXCEPT ![t] = ho]
  /\ Leave(t)
  /\ Ended(t)
  /\ Emit(status)
  /\ UNCHANGED <<runId, status, planned, twice, yolo, hasParent>>

WorkerThrows(t) ==
  /\ job[t] \in AtWork \ {"gate"}
  /\ Current
  /\ wstatus' = [wstatus EXCEPT ![t] = "failed"]
  /\ Leave(t)
  /\ Ended(t)
  /\ Emit(status)
  /\ UNCHANGED <<runId, status, planned, twice, handoff, yolo, hasParent>>

WorkerAbandonedMarked(t) ==                     \* mutant: the catch block does not look
  /\ job[t] \in AtWork \ {"gate"}
  /\ ~Current
  /\ wstatus' = [wstatus EXCEPT ![t] = "failed"]
  /\ Leave(t)
  /\ Ended(t)
  /\ UNCHANGED <<runId, status, planned, twice, handoff, yolo, hasParent, parentVars>>

(***************************************************************************)
(* Stopped or replaced meanwhile: nothing of the snapshot is written.      *)
(***************************************************************************)
WorkerAbandoned(t) ==
  /\ job[t] \in AtWork \ {"gate"}
  /\ ~Current
  /\ Leave(t)
  /\ Ended(t)
  /\ UNCHANGED <<snapshotVars, parentVars>>

Incomplete == twice \/ \E t \in planned : wstatus[t] # "done" \/ handoff[t] # "done"

SynthesisReturns ==
  /\ job[Synth] = "turn"
  /\ Current
  /\ Leave(Synth)
  /\ Finish(IF Incomplete THEN "failed" ELSE "completed")
  /\ UNCHANGED <<runId, planned, twice, wstatus, handoff, yolo, hasParent>>

SynthesisThrows ==
  /\ job[Synth] \in AtWork \ {"gate"}
  /\ Current
  /\ Leave(Synth)
  /\ Finish("failed")
  /\ UNCHANGED <<runId, planned, twice, wstatus, handoff, yolo, hasParent>>

SynthesisAbandoned ==
  /\ job[Synth] \in AtWork \ {"gate"}
  /\ ~Current
  /\ Leave(Synth)
  /\ pc' = "idle"
  /\ job' = NoJob /\ remaining' = {}
  /\ UNCHANGED <<snapshotVars, parentVars>>
-----------------------------------------------------------------------------
(***************************************************************************)
(* The parent chat (SessionBridge): one turn at a time.                    *)
(***************************************************************************)
UserTurn ==
  /\ parentTurn = "none"
  /\ parentTurn' = "user"
  /\ UNCHANGED <<snapshotVars, executeVars, aborted, autopilot,
                 notified, noticeFor, parentEnded, retryTimer, told>>

(***************************************************************************)
(* The turn_end frame comes before send has returned; handleFrame sets a   *)
(* timer for the chat that is the parent at that moment.                   *)
(***************************************************************************)
ParentTurnEnd ==
  /\ parentTurn # "none"
  /\ ~parentEnded
  /\ parentEnded' = TRUE
  /\ retryTimer' = (retryTimer \/ hasParent)
  /\ UNCHANGED <<snapshotVars, executeVars, aborted, autopilot,
                 notified, parentTurn, noticeFor, told>>

RetryTimerFires ==
  /\ retryTimer
  /\ retryTimer' = FALSE
  /\ MaybeNotify(status)
  /\ UNCHANGED <<snapshotVars, executeVars, aborted, autopilot>>

(***************************************************************************)
(* sendUserMessage of the parent's turn returns, or rejects.  Only a       *)
(* rejected notice clears the mark, and only while it is the same mission. *)
(***************************************************************************)
ParentSendReturns ==
  /\ parentTurn # "none"
  /\ parentEnded
  /\ parentTurn' = "none"
  /\ parentEnded' = FALSE
  /\ told' = IF parentTurn = "notice"
             THEN [told EXCEPT ![noticeFor] = @ + 1] ELSE told
  /\ noticeFor' = 0
  /\ UNCHANGED <<snapshotVars, executeVars, aborted, autopilot, notified, retryTimer>>

ParentSendRejects ==
  /\ parentTurn # "none"
  /\ parentTurn' = "none"
  /\ parentEnded' = FALSE
  /\ notified' = IF parentTurn = "notice" /\ notified = noticeFor THEN 0 ELSE notified
  /\ noticeFor' = 0
  /\ UNCHANGED <<snapshotVars, executeVars, aborted, autopilot, retryTimer, told>>
-----------------------------------------------------------------------------
MissionInit ==
  /\ runId = 0 /\ status = "idle"
  /\ planned = {} /\ twice = FALSE
  /\ wstatus = Unplanned /\ handoff = Unplanned
  /\ yolo = TRUE /\ hasParent = FALSE /\ aborted = FALSE
  /\ autopilot = {}
  /\ exec = 0 /\ pc = "idle"
  /\ dependsOn = [t \in TaskIds |-> {}]
  /\ remaining = {}
  /\ job = [j \in Jobs |-> "none"]
  /\ notified = 0 /\ parentTurn = "none" /\ noticeFor = 0 /\ parentEnded = FALSE
  /\ retryTimer = FALSE
  /\ told = [r \in Runs |-> 0]

(***************************************************************************)
(* The steps of the orchestrator itself.                                   *)
(***************************************************************************)
PlanNext ==
  /\ pc = "planning"
  /\ \E ids \in SUBSET TaskIds \ {{}}, dup \in BOOLEAN :
       \E deps \in [ids -> SUBSET TaskIds] :
         /\ Cardinality(ids) + (IF dup THEN 1 ELSE 0) <= MaxWorkers
         /\ PlanArrives(ids, [t \in TaskIds |-> IF t \in ids THEN deps[t] ELSE {}], dup)

ExecuteNext ==
  \/ BeginExecute
  \/ PlanNext \/ PlanFails
  \/ NextWaveStarts \/ AllWorkersFailed \/ SynthesisStarts
  \/ GiveUp

ChatNext(j) ==
  \/ ChatCreated(j)
  \/ \E gate \in {"approval", "ask_user"} : GateWaits(j, gate)
  \/ GateAnswered(j)

(***************************************************************************)
(* A chat's turn, or an await before it, is over.                          *)
(***************************************************************************)
WorkerEnds(t) ==
  \/ \E ho \in {"done", "partial"} : WorkerReturns(t, ho)
  \/ WorkerThrows(t)
  \/ WorkerAbandoned(t)

SynthesisEnds == SynthesisReturns \/ SynthesisThrows \/ SynthesisAbandoned

ParentNext ==
  \/ UserTurn \/ ParentTurnEnd \/ RetryTimerFires
  \/ ParentSendReturns \/ ParentSendRejects

ClientNext ==
  \/ \E parent \in BOOLEAN : Start(parent)
  \/ Stop

MissionNext ==
  \/ ClientNext \/ ParentNext \/ ExecuteNext
  \/ \E j \in Jobs : ChatNext(j)
  \/ \E t \in TaskIds : WorkerEnds(t)
  \/ SynthesisEnds

MissionSpec == MissionInit /\ [][MissionNext]_missionVars

(***************************************************************************)
(* execute goes on; the planner has a timeout.  Nothing is assumed of the  *)
(* chats: a question to the user has no timeout and outlives an abort, and *)
(* an abort that comes before the turn runs does nothing.                  *)
(***************************************************************************)
MissionFairness == WF_missionVars(ExecuteNext)

-----------------------------------------------------------------------------
MissionTypeOK ==
  /\ runId \in 0..MaxRuns
  /\ status \in {"idle"} \cup Busy \cup Terminal
  /\ planned \in SUBSET TaskIds
  /\ twice \in BOOLEAN
  /\ wstatus \in [TaskIds -> {"none", "pending", "running", "done", "failed", "skipped"}]
  /\ handoff \in [TaskIds -> {"none", "done", "partial"}]
  /\ yolo \in BOOLEAN /\ hasParent \in BOOLEAN /\ aborted \in BOOLEAN
  /\ autopilot \in SUBSET (Runs \X Jobs)
  /\ exec \in 0..MaxRuns
  /\ pc \in {"idle", "planning", "wave", "synthesis"}
  /\ dependsOn \in [TaskIds -> SUBSET TaskIds]
  /\ remaining \in SUBSET TaskIds
  /\ job \in [Jobs -> {"none", "ended"} \cup AtWork]
  /\ notified \in 0..MaxRuns
  /\ parentTurn \in {"none", "user", "notice"}
  /\ noticeFor \in 0..MaxRuns
  /\ parentEnded \in BOOLEAN /\ retryTimer \in BOOLEAN
  /\ told \in [Runs -> Nat]

(***************************************************************************)
(* A worker has been started exactly when all that it depends on is done,  *)
(* with a handoff that says so; it has been skipped only because something *)
(* it depends on was not, and never became, done.  (execute, lines 257 to  *)
(* 302: the waves must not let a skip be decided too early.)               *)
(***************************************************************************)
UpstreamDecides ==
  exec = runId => \A t \in planned :
    /\ wstatus[t] \in {"running", "done", "failed"} =>
         UpstreamDone(t, dependsOn, wstatus, handoff)
    /\ wstatus[t] = "skipped" => ~UpstreamDone(t, dependsOn, wstatus, handoff)

(***************************************************************************)
(* Only chats of the mission that runs answer their own approvals and      *)
(* questions: none is left behind by a mission that ended, was stopped or  *)
(* was replaced (autopilotChats, and the tests after each await).          *)
(***************************************************************************)
AutopilotIsCurrent ==
  autopilot # {} => status \in Busy /\ ~aborted /\ \A c \in autopilot : c[1] = runId

(***************************************************************************)
(* The outcome of a mission is told to its parent chat in at most one turn *)
(* that succeeds, however often the status is emitted, the retry timer     *)
(* fires or stop is pressed again (maybeNotifyParentChat).                 *)
(***************************************************************************)
ToldOnce == \A r \in Runs : told[r] <= 1

(***************************************************************************)
(* When a mission has ended, nothing that is still unwinding changes its   *)
(* outcome, a worker's state or a handoff.                                 *)
(***************************************************************************)
TerminalIsFinal ==
  [][runId' = runId /\ status \in Terminal
       => UNCHANGED <<status, planned, wstatus, handoff>>]_missionVars

(***************************************************************************)
(* A mission that was started ends if the chats of this mission and of the *)
(* missions before it leave off: execute finds out that it was stopped or  *)
(* replaced wherever it waits, and lets the next one go on.  (A question   *)
(* that a stopped mission's chat asks, and nobody answers, keeps the next  *)
(* mission waiting for ever.)                                              *)
(***************************************************************************)
ChatsLeaveOff == \A j \in Jobs : []<>(job[j] \notin AtWork)

MissionEnds == ChatsLeaveOff => (status = "planning" ~> status \in Terminal)
=============================================================================
