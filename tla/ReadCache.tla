------------------------------ MODULE ReadCache ------------------------------
(***************************************************************************)
(* The result cache of ToolDispatcher (packages/core/src/dispatcher.ts),   *)
(* its coalescing of identical calls in flight, and the tool batches of    *)
(* AgentHarness (agent.ts) that fill it and invalidate it.                 *)
(*                                                                         *)
(* A round of a turn dispatches a batch of reads and edits concurrently    *)
(* and waits for all of them; a read is looked up in the cache first.  A   *)
(* read with prerequisites in the round's dispatch graph waits for them,   *)
(* and runs a handler of its own, past the cache.  When the set of paths   *)
(* changed in the turn has grown, the harness drops the cached reads.      *)
(* With AGENT_PASTE_PREDICTIVE=1 it also starts reads nobody waits for,    *)
(* which the next round may adopt.                                         *)
(*                                                                         *)
(* The content of a file is its version: the number of edits it has had.   *)
(***************************************************************************)
EXTENDS Integers, FiniteSets

CONSTANTS
  Paths,       \* files
  MaxEdits,    \* most edits of each file (bounds the model)
  Predicted,   \* files whose reads AGENT_PASTE_PREDICTIVE=1 can guess
  Stoppable    \* a turn may be stopped, by the user or by its time limit

ASSUME CacheAssumption ==
  MaxEdits \in [Paths -> Nat] /\ Predicted \subseteq Paths /\ Stoppable \in BOOLEAN

None    == -1
Started == -2
Version == Nat

VARIABLES
  disk,      \* version of each file
  cache,     \* resultCache: version in the unexpired entry, or None
  handler,   \* inflight: None, Started, or the version it has read
  batch,     \* none, running, or cut short by the end of its turn
  turn,      \* the batch's read of each path
  spec,      \* the speculative read of each path
  job,       \* PasteScheduler.inFlight: speculations that can be adopted
  guessed,   \* _pasteSpeculatedKeys
  edits,     \* the batch's edits that have not run
  edited,    \* the batch's edits that succeeded
  changed,   \* changedFilesThisTurn
  answer,    \* the versions the batch's reads returned
  flushed,   \* history: version of each file at the last invalidation
  last       \* history: newest version a read through the cache returned

vars == <<disk, cache, handler, batch, turn, spec, job, guessed, edits, edited,
          changed, answer, flushed, last>>

(***************************************************************************)
(* A read call: idle, about to look in the cache, past a miss, awaiting    *)
(* the handler in flight, or adopting a speculation; with prerequisites,   *)
(* waiting for them, then running a handler nobody shares.                 *)
(***************************************************************************)
CallState == {"idle", "asked", "missed", "awaiting", "adopted", "dependent", "alone"}

Newest(v, w) == IF v > w THEN v ELSE w

Init ==
  /\ disk    = [p \in Paths |-> 0]
  /\ cache   = [p \in Paths |-> None]
  /\ handler = [p \in Paths |-> None]
  /\ batch   = "none"
  /\ turn    = [p \in Paths |-> "idle"]
  /\ spec    = [p \in Paths |-> "idle"]
  /\ job     = {}
  /\ guessed = {}
  /\ edits   = {}
  /\ edited  = {}
  /\ changed = {}
  /\ answer  = [p \in Paths |-> None]
  /\ flushed = [p \in Paths |-> 0]
  /\ last    = [p \in Paths |-> 0]

(***************************************************************************)
(* Promise.all over the calls of a round.  Identical calls of one batch    *)
(* are sent once; a read in PasteScheduler.inFlight is adopted.  The reads *)
(* of D have prerequisites among the round's calls.                        *)
(***************************************************************************)
StartBatch(R, E, D) ==
  /\ batch = "none"
  /\ R \cup E # {}
  /\ batch'  = "running"
  /\ turn'   = [p \in Paths |-> CASE p \notin R -> "idle"
                                 [] p \in D -> "dependent"
                                 [] p \in job \ D -> "adopted"
                                 [] OTHER -> "asked"]
  /\ job'    = job \ (R \ D)
  /\ edits'  = E
  /\ UNCHANGED <<disk, cache, handler, spec, guessed, edited, changed, answer,
                 flushed, last>>

Answered(S, p, v) ==
  /\ answer' = IF p \in S THEN [answer EXCEPT ![p] = v] ELSE answer
  /\ last'   = IF p \in S THEN [last EXCEPT ![p] = Newest(@, v)] ELSE last

(***************************************************************************)
(* dispatchOwned, up to the cache lookup: return the cached result.        *)
(***************************************************************************)
TurnHit(p) ==
  /\ turn[p] = "asked"
  /\ cache[p] # None
  /\ turn' = [turn EXCEPT ![p] = "idle"]
  /\ Answered({p}, p, cache[p])
  /\ UNCHANGED <<disk, cache, handler, batch, spec, job, guessed, edits, edited,
                 changed, flushed>>

TurnMiss(p) ==
  /\ turn[p] = "asked"
  /\ cache[p] = None
  /\ turn' = [turn EXCEPT ![p] = "missed"]
  /\ UNCHANGED <<disk, cache, handler, batch, spec, job, guessed, edits, edited,
                 changed, answer, flushed, last>>

(***************************************************************************)
(* The prerequisites of a read have settled: it adopts a speculation, or   *)
(* is dispatched with its resolvedDependencies, which bypasses the cache   *)
(* and inflight.                                                           *)
(***************************************************************************)
DependentAdopts(p) ==
  /\ turn[p] = "dependent"
  /\ p \in job
  /\ turn' = [turn EXCEPT ![p] = "adopted"]
  /\ job'  = job \ {p}
  /\ UNCHANGED <<disk, cache, handler, batch, spec, guessed, edits, edited,
                 changed, answer, flushed, last>>

DependentRuns(p) ==
  /\ turn[p] = "dependent"
  /\ p \notin job
  /\ turn' = [turn EXCEPT ![p] = "alone"]
  /\ UNCHANGED <<disk, cache, handler, batch, spec, job, guessed, edits, edited,
                 changed, answer, flushed, last>>

(***************************************************************************)
(* Its own handler reads the disk, and the result is not stored.           *)
(***************************************************************************)
AloneReads(p) ==
  /\ turn[p] = "alone"
  /\ turn'   = [turn EXCEPT ![p] = "idle"]
  /\ answer' = [answer EXCEPT ![p] = disk[p]]
  /\ UNCHANGED <<disk, cache, handler, batch, spec, job, guessed, edits, edited,
                 changed, flushed, last>>

(***************************************************************************)
(* The call is refused before its handler: the turn was stopped, the       *)
(* circuit is open, a hook or the locks refuse it.  (A handler of its own  *)
(* that fails has the same effect.)                                        *)
(***************************************************************************)
TurnRefused(p) ==
  /\ turn[p] \in {"asked", "missed", "dependent", "alone"}
  /\ turn' = [turn EXCEPT ![p] = "idle"]
  /\ UNCHANGED <<disk, cache, handler, batch, spec, job, guessed, edits, edited,
                 changed, answer, flushed, last>>

(***************************************************************************)
(* dispatchOwned, after the hooks and the locks: join the identical call   *)
(* in flight, or run the handler.                                          *)
(***************************************************************************)
Joined(p) ==
  handler' = IF handler[p] = None THEN [handler EXCEPT ![p] = Started] ELSE handler

TurnRun(p) ==
  /\ turn[p] = "missed"
  /\ turn' = [turn EXCEPT ![p] = "awaiting"]
  /\ Joined(p)
  /\ UNCHANGED <<disk, cache, batch, spec, job, guessed, edits, edited,
                 changed, answer, flushed, last>>

(***************************************************************************)
(* maybePredictiveSpeculate: once per path and turn, at no fixed time (it  *)
(* awaits the pattern store first).  The model keeps at most one           *)
(* speculation of a path running.                                          *)
(***************************************************************************)
Speculate(p) ==
  /\ p \in Predicted
  /\ spec[p] = "idle"
  /\ p \notin guessed
  /\ guessed' = guessed \cup {p}
  /\ job'     = job \cup {p}
  /\ spec'    = [spec EXCEPT ![p] = "asked"]
  /\ UNCHANGED <<disk, cache, handler, batch, turn, edits, edited, changed,
                 answer, flushed, last>>

(***************************************************************************)
(* The speculation settles with version v: its job is dropped, and a turn  *)
(* call that adopted it is answered.                                       *)
(***************************************************************************)
AdoptersForgotten(p) == {}                       \* mutant: the adopter is not told

Adopters(p) == IF turn[p] = "adopted" THEN {p} ELSE {}

SpecHit(p) ==
  /\ spec[p] = "asked"
  /\ cache[p] # None
  /\ spec' = [spec EXCEPT ![p] = "idle"]
  /\ job'  = job \ {p}
  /\ turn' = [q \in Paths |-> IF q \in Adopters(p) THEN "idle" ELSE turn[q]]
  /\ Answered(Adopters(p), p, cache[p])
  /\ UNCHANGED <<disk, cache, handler, batch, guessed, edits, edited, changed, flushed>>

SpecMiss(p) ==
  /\ spec[p] = "asked"
  /\ cache[p] = None
  /\ spec' = [spec EXCEPT ![p] = "missed"]
  /\ UNCHANGED <<disk, cache, handler, batch, turn, job, guessed, edits, edited,
                 changed, answer, flushed, last>>

SpecRefused(p) ==
  /\ spec[p] \in {"asked", "missed"}
  /\ spec' = [spec EXCEPT ![p] = "idle"]
  /\ job'  = job \ {p}
  /\ turn' = [q \in Paths |-> IF q \in Adopters(p) THEN "idle" ELSE turn[q]]
  /\ UNCHANGED <<disk, cache, handler, batch, guessed, edits, edited, changed,
                 answer, flushed, last>>

SpecRun(p) ==
  /\ spec[p] = "missed"
  /\ spec' = [spec EXCEPT ![p] = "awaiting"]
  /\ Joined(p)
  /\ UNCHANGED <<disk, cache, batch, turn, job, guessed, edits, edited, changed,
                 answer, flushed, last>>

(***************************************************************************)
(* The handler's readFile sees the disk.                                   *)
(***************************************************************************)
Fetch(p) ==
  /\ handler[p] = Started
  /\ handler' = [handler EXCEPT ![p] = disk[p]]
  /\ UNCHANGED <<disk, cache, batch, turn, spec, job, guessed, edits, edited,
                 changed, answer, flushed, last>>

(***************************************************************************)
(* The handler settles: it leaves inflight, and everyone who awaits it     *)
(* stores its result and returns it.  A failed read is not stored.         *)
(***************************************************************************)
Awaiters(p) ==
  IF turn[p] = "awaiting" \/ (turn[p] = "adopted" /\ spec[p] = "awaiting") THEN {p} ELSE {}

SettledKeepingJob(p) ==                          \* mutant: the job is not dropped
  /\ handler' = [handler EXCEPT ![p] = None]
  /\ turn'    = [q \in Paths |-> IF q \in Awaiters(p) THEN "idle" ELSE turn[q]]
  /\ spec'    = [spec EXCEPT ![p] = IF @ = "awaiting" THEN "idle" ELSE @]
  /\ job'     = job

Settled(p) ==
  /\ handler' = [handler EXCEPT ![p] = None]
  /\ turn'    = [q \in Paths |-> IF q \in Awaiters(p) THEN "idle" ELSE turn[q]]
  /\ spec'    = [spec EXCEPT ![p] = IF @ = "awaiting" THEN "idle" ELSE @]
  /\ job'     = IF spec[p] = "awaiting" THEN job \ {p} ELSE job

ReadSucceedsIfAbsent(p) ==                       \* mutant: keeps an older entry
  /\ handler[p] \in Version
  /\ Settled(p)
  /\ cache' = [cache EXCEPT ![p] = IF @ = None THEN handler[p] ELSE @]
  /\ Answered(Awaiters(p), p, handler[p])
  /\ UNCHANGED <<disk, batch, guessed, edits, edited, changed, flushed>>

ReadSucceeds(p) ==
  /\ handler[p] \in Version
  /\ Settled(p)
  /\ cache' = [cache EXCEPT ![p] = handler[p]]
  /\ Answered(Awaiters(p), p, handler[p])
  /\ UNCHANGED <<disk, batch, guessed, edits, edited, changed, flushed>>

ReadFails(p) ==
  /\ handler[p] # None
  /\ Settled(p)
  /\ UNCHANGED <<disk, cache, batch, guessed, edits, edited, changed, answer,
                 flushed, last>>

(***************************************************************************)
(* An edit tool of the batch: it changes the file, or fails.               *)
(***************************************************************************)
EditSucceeds(p) ==
  /\ p \in edits
  /\ disk[p] < MaxEdits[p]
  /\ disk'   = [disk EXCEPT ![p] = @ + 1]
  /\ edits'  = edits \ {p}
  /\ edited' = edited \cup {p}
  /\ UNCHANGED <<cache, handler, batch, turn, spec, job, guessed, changed,
                 answer, flushed, last>>

EditFails(p) ==
  /\ p \in edits
  /\ edits' = edits \ {p}
  /\ UNCHANGED <<disk, cache, handler, batch, turn, spec, job, guessed, edited,
                 changed, answer, flushed, last>>

(***************************************************************************)
(* invalidateCachesAfterFileWrites.                                        *)
(***************************************************************************)
InvalidateCaches == cache' = [p \in Paths |-> None]

(***************************************************************************)
(* What a round keeps of its calls is gone with it.                        *)
(***************************************************************************)
RoundForgotten ==
  /\ edited' = {}
  /\ answer' = [p \in Paths |-> None]

(***************************************************************************)
(* The end of a batch: remember the changed paths, and drop the cached     *)
(* reads when there are more of them than before the batch.                *)
(***************************************************************************)
EndBatchKeeping ==                               \* mutant: keeps the cached reads
  /\ batch = "running"
  /\ edits = {}
  /\ \A p \in Paths : turn[p] = "idle"
  /\ batch'   = "none"
  /\ changed' = changed \cup edited
  /\ flushed' = IF edited \subseteq changed THEN flushed ELSE disk
  /\ RoundForgotten
  /\ UNCHANGED <<disk, cache, handler, turn, spec, job, guessed, edits, last>>

EndBatch ==
  /\ batch = "running"
  /\ edits = {}
  /\ \A p \in Paths : turn[p] = "idle"
  /\ batch'   = "none"
  /\ changed' = changed \cup edited
  /\ IF edited \subseteq changed
     THEN UNCHANGED <<cache, flushed>>
     ELSE InvalidateCaches /\ flushed' = disk
  /\ RoundForgotten
  /\ UNCHANGED <<disk, handler, turn, spec, job, guessed, edits, last>>

(***************************************************************************)
(* The turn was stopped meanwhile: once its calls have settled the round   *)
(* throws, before it looks at what they changed.                           *)
(***************************************************************************)
StopBatch ==
  /\ Stoppable
  /\ batch = "running"
  /\ edits = {}
  /\ \A p \in Paths : turn[p] = "idle"
  /\ batch' = "stopped"
  /\ RoundForgotten
  /\ UNCHANGED <<disk, cache, handler, turn, spec, job, guessed, edits, changed,
                 flushed, last>>

(***************************************************************************)
(* send resets the turn's counters and the speculation scheduler; the      *)
(* dispatcher and its cache live on.                                       *)
(***************************************************************************)
NewTurn ==
  /\ batch # "running"
  /\ batch'   = "none"
  /\ changed' = {}
  /\ job'     = {}
  /\ guessed' = {}
  /\ UNCHANGED <<disk, cache, handler, turn, spec, edits, edited, answer,
                 flushed, last>>

(***************************************************************************)
(* cacheTtlMs passes.                                                      *)
(***************************************************************************)
Expire(p) ==
  /\ cache[p] # None
  /\ cache' = [cache EXCEPT ![p] = None]
  /\ UNCHANGED <<disk, handler, batch, turn, spec, job, guessed, edits, edited,
                 changed, answer, flushed, last>>

ReadStep(p) ==
  \/ TurnHit(p) \/ TurnMiss(p) \/ TurnRefused(p) \/ TurnRun(p)
  \/ DependentAdopts(p) \/ DependentRuns(p) \/ AloneReads(p)
  \/ SpecHit(p) \/ SpecMiss(p) \/ SpecRefused(p) \/ SpecRun(p)
  \/ Fetch(p) \/ ReadSucceeds(p) \/ ReadFails(p)

(***************************************************************************)
(* What the calls of a batch, and the round that awaits them, do.          *)
(***************************************************************************)
BatchStep ==
  \/ \E p \in Paths : ReadStep(p) \/ EditSucceeds(p) \/ EditFails(p)
  \/ EndBatch
  \/ StopBatch

Next ==
  \/ \E R, E \in SUBSET Paths : \E D \in SUBSET R : StartBatch(R, E, D)
  \/ BatchStep
  \/ \E p \in Paths : Speculate(p) \/ Expire(p)
  \/ NewTurn

Spec == Init /\ [][Next]_vars

(***************************************************************************)
(* While a call or an edit of a batch is under way, one of them goes on:   *)
(* cache lookups, locks, file reads and edits return.                      *)
(***************************************************************************)
Fairness == WF_vars(BatchStep)

FairSpec == Spec /\ Fairness

-----------------------------------------------------------------------------

TypeOK ==
  /\ disk \in [Paths -> Version]
  /\ cache \in [Paths -> Version \cup {None}]
  /\ handler \in [Paths -> Version \cup {None, Started}]
  /\ batch \in {"none", "running", "stopped"}
  /\ turn \in [Paths -> CallState]
  /\ spec \in [Paths -> {"idle", "asked", "missed", "awaiting"}]
  /\ job \subseteq guessed /\ guessed \subseteq Paths
  /\ edits \subseteq Paths /\ edited \subseteq Paths /\ changed \subseteq Paths
  /\ answer \in [Paths -> Version \cup {None}]
  /\ flushed \in [Paths -> Version]
  /\ last \in [Paths -> Version]

(***************************************************************************)
(* A round adopts only a speculation that is still running, never the old  *)
(* result of one that has settled, and a handler is in flight exactly      *)
(* while a call awaits it.  (It includes the types.)                       *)
(***************************************************************************)
AdoptedIsRunning ==
  /\ TypeOK
  /\ \A p \in Paths :
       /\ turn[p] = "adopted" => spec[p] # "idle"
       /\ turn[p] = "awaiting" \/ spec[p] = "awaiting" <=> handler[p] # None

(***************************************************************************)
(* Of a file nobody guesses at, reads return nothing older than the last   *)
(* invalidation, which is made by every batch that changes a path for the  *)
(* first time in its turn and is not stopped.                              *)
(***************************************************************************)
NothingOlderThanFlush ==
  \A p \in Paths \ Predicted :
    /\ cache[p] # None => cache[p] >= flushed[p]
    /\ answer[p] # None => answer[p] >= flushed[p]

(***************************************************************************)
(* No read of a file returns less than a read through the cache has        *)
(* returned before it, whatever was cached, coalesced, adopted, expired or *)
(* stopped in between.  (The reads past the cache are the ones judged but  *)
(* not the ones counted: they leave nothing in it, so after one of them a  *)
(* read through the cache can go back to the older version stored there.)  *)
(***************************************************************************)
NoOlderThanCachedReads ==
  [][\A p \in Paths : answer'[p] \notin {answer[p], None} => answer'[p] >= last[p]]_vars

(***************************************************************************)
(* A batch ends.                                                           *)
(***************************************************************************)
BatchEnds == batch = "running" ~> batch # "running"

(***************************************************************************)
(* invalidateCachesAfterFileWrites: "drop cached read/index results so the *)
(* next tool call sees fresh disk state".  Between batches, a cached read  *)
(* is the current content of its file.                                     *)
(***************************************************************************)
NextCallSeesFreshState ==
  batch # "running" => \A p \in Paths : cache[p] # None => cache[p] = disk[p]
=============================================================================
