---------------------------- MODULE ResourceLocks ----------------------------
(***************************************************************************)
(* ResourceLockManager (packages/core/src/orchestrator.ts) as it is used   *)
(* by the tool dispatcher (packages/core/src/dispatcher.ts).               *)
(*                                                                         *)
(* Tool calls of several tasks (agents) run concurrently.  A call asks for *)
(* a set of resources; acquireAll takes them one by one in sorted order,   *)
(* polling until the lock is free or its own deadline passes, and rolls    *)
(* back what it took when one of them times out.  An entry belongs to a    *)
(* task, not to a call: parallel calls of one task share it through a      *)
(* reference count.  An entry older than its ttl is evicted by the next    *)
(* poll, and completing, failing or cancelling a task drops all of its     *)
(* entries, whether or not its handlers have returned.                     *)
(***************************************************************************)
EXTENDS Integers, FiniteSets

CONSTANTS
  Tasks,      \* task ids
  Calls,      \* tool calls (dispatcher invocations; a slot is reused)
  Owner,      \* the task on whose behalf a call runs
  Resources,  \* lock ids; their order is the alphabetical order of sort()
  Terminal,   \* the ids that contain "::shell:terminal:"
  Ttl,        \* age, in ticks, at which an entry is evicted (300 s)
  WaitLimit,  \* ticks a tryAcquire keeps polling (10 s)
  NoTask      \* the owner of a free lock

ASSUME ConstantsAssumption ==
  /\ IsFiniteSet(Calls)
  /\ Owner \in [Calls -> Tasks]
  /\ NoTask \notin Tasks
  /\ IsFiniteSet(Resources) /\ Resources \subseteq Nat
  /\ Terminal \subseteq Resources
  /\ WaitLimit \in Nat \ {0}
  /\ Ttl \in Nat /\ WaitLimit < Ttl

VARIABLES
  lock,     \* this.locks: at most one entry per resource
  phase,    \* where a call is: idle, acquiring, running its handler
  want,     \* the ids passed to acquireAll
  held,     \* the ids this acquireAll has been granted
  waited,   \* ticks spent in the current tryAcquire
  revoked   \* history: leases a call still relies on but has lost

vars == <<lock, phase, want, held, waited, revoked>>

Free == [task |-> NoTask, refs |-> 0, age |-> 0]

Entry == [task : Tasks \cup {NoTask}, refs : Nat, age : 0..Ttl]

(***************************************************************************)
(* The calls of task t that believe they hold r: they were granted r and   *)
(* have neither released it nor rolled it back.                            *)
(***************************************************************************)
Believers(t, r) == {c \in Calls : Owner[c] = t /\ r \in held[c]}

(***************************************************************************)
(* evictExpired, on one entry.                                             *)
(***************************************************************************)
Evicted(e) == IF e.age >= Ttl THEN Free ELSE e

(***************************************************************************)
(* releaseAll: one reference less on each entry of S that t still owns.    *)
(***************************************************************************)
UnrefToZero(e) == [e EXCEPT !.refs = @ - 1]      \* mutant: keeps a dead entry

UnrefDropping(e) == Free                         \* mutant: no refcount

Unref(e) == IF e.refs > 1 THEN [e EXCEPT !.refs = @ - 1] ELSE Free

ReleasedAnyOwner(S, t) ==                        \* mutant: no ownership test
  [r \in Resources |->
     IF r \in S /\ lock[r].task # NoTask THEN Unref(lock[r]) ELSE lock[r]]

Released(S, t) ==
  [r \in Resources |->
     IF r \in S /\ lock[r].task = t THEN Unref(lock[r]) ELSE lock[r]]

(***************************************************************************)
(* The history variable.  A lease <<c, r>> is revoked when eviction or     *)
(* releaseByTask takes the entry away while c still believes it holds r,   *)
(* and when a call whose own lease was revoked spends, in its release, a   *)
(* reference that belonged to a sibling.                                   *)
(***************************************************************************)
Leases(t, r) == {<<c, r>> : c \in Believers(t, r)}

LostToEviction(r) ==
  IF lock[r].age >= Ttl THEN Leases(lock[r].task, r) ELSE {}

LostToStaleRelease(c, S) ==
  UNION {Leases(Owner[c], r) :
           r \in {q \in S : <<c, q>> \in revoked /\ lock[q].task = Owner[c]}}

LeasesOf(c) == {<<c, r>> : r \in Resources}

(***************************************************************************)
(* acquireAll, up to its first tryAcquire.                                 *)
(***************************************************************************)
Request(c, S) ==
  /\ phase[c] = "idle"
  /\ S # {}
  /\ phase'  = [phase EXCEPT ![c] = "acquiring"]
  /\ want'   = [want EXCEPT ![c] = S]
  /\ waited' = [waited EXCEPT ![c] = 0]
  /\ UNCHANGED <<lock, held, revoked>>

IsNextUnsorted(c, r) == r \in want[c] \ held[c]  \* mutant: no sort()

IsNext(c, r) ==
  /\ r \in want[c] \ held[c]
  /\ \A q \in want[c] \ held[c] : r <= q

Grant(c, r, entry) ==
  /\ lock'    = [lock EXCEPT ![r] = entry]
  /\ held'    = [held EXCEPT ![c] = @ \cup {r}]
  /\ waited'  = [waited EXCEPT ![c] = 0]
  /\ phase'   = [phase EXCEPT ![c] =
                   IF want[c] = held[c] \cup {r} THEN "running" ELSE @]
  /\ revoked' = revoked \cup LostToEviction(r)
  /\ UNCHANGED want

(***************************************************************************)
(* One successful poll of tryAcquire: eviction, then the free lock.        *)
(***************************************************************************)
AcquireFree(c, r) ==
  /\ phase[c] = "acquiring"
  /\ waited[c] < WaitLimit
  /\ IsNext(c, r)
  /\ Evicted(lock[r]).task = NoTask
  /\ Grant(c, r, [task |-> Owner[c], refs |-> 1, age |-> 0])

AcquireSharedTerminal(c, r) ==                   \* mutant: shares the terminal
  /\ phase[c] = "acquiring"
  /\ waited[c] < WaitLimit
  /\ IsNext(c, r)
  /\ Evicted(lock[r]).task = Owner[c]
  /\ Grant(c, r, [task |-> Owner[c], refs |-> lock[r].refs + 1, age |-> 0])

(***************************************************************************)
(* One successful poll of tryAcquire: the task's own entry, shared.  The   *)
(* UI terminal is never shared.                                            *)
(***************************************************************************)
AcquireShared(c, r) ==
  /\ phase[c] = "acquiring"
  /\ waited[c] < WaitLimit
  /\ IsNext(c, r)
  /\ Evicted(lock[r]).task = Owner[c]
  /\ r \notin Terminal
  /\ Grant(c, r, [task |-> Owner[c], refs |-> lock[r].refs + 1, age |-> 0])

(***************************************************************************)
(* The call stops relying on everything it was granted.                    *)
(***************************************************************************)
Leave(c) ==
  /\ phase'  = [phase EXCEPT ![c] = "idle"]
  /\ want'   = [want EXCEPT ![c] = {}]
  /\ held'   = [held EXCEPT ![c] = {}]
  /\ waited' = [waited EXCEPT ![c] = 0]

TimeOutKeeping(c) ==                             \* mutant: no rollback
  /\ phase[c] = "acquiring"
  /\ waited[c] >= WaitLimit
  /\ revoked' = revoked \ LeasesOf(c)
  /\ UNCHANGED lock
  /\ Leave(c)

(***************************************************************************)
(* tryAcquire ran past its deadline: acquireAll rolls back and returns     *)
(* false, and the dispatcher asks getHolders of every requested id for its *)
(* error message, which evicts the expired ones.                           *)
(***************************************************************************)
TimeOut(c) ==
  /\ phase[c] = "acquiring"
  /\ waited[c] >= WaitLimit
  /\ lock' = [r \in Resources |->
                IF r \in want[c] THEN Evicted(Released(held[c], Owner[c])[r])
                                 ELSE lock[r]]
  /\ revoked' = (revoked \cup LostToStaleRelease(c, held[c])
                         \cup UNION {LostToEviction(r) : r \in want[c]})
                \ LeasesOf(c)
  /\ Leave(c)

(***************************************************************************)
(* The handler returned or threw: the dispatcher's finally block.          *)
(***************************************************************************)
Release(c) ==
  /\ phase[c] = "running"
  /\ lock'    = Released(want[c], Owner[c])
  /\ revoked' = (revoked \cup LostToStaleRelease(c, want[c])) \ LeasesOf(c)
  /\ Leave(c)

(***************************************************************************)
(* TaskOrchestrator.complete, fail and cancel: releaseByTask.              *)
(***************************************************************************)
ReleaseByTask(t) ==
  /\ lock'    = [r \in Resources |-> IF lock[r].task = t THEN Free ELSE lock[r]]
  /\ revoked' = revoked \cup UNION {Leases(t, r) : r \in {q \in Resources : lock[q].task = t}}
  /\ UNCHANGED <<phase, want, held, waited>>

TickNoDeadline ==                                \* mutant: deadline set anew per poll
  /\ lock' = [r \in Resources |->
                IF lock[r].task # NoTask /\ lock[r].age < Ttl
                THEN [lock[r] EXCEPT !.age = @ + 1] ELSE lock[r]]
  /\ UNCHANGED <<phase, want, held, waited, revoked>>

(***************************************************************************)
(* Time passes.  Ages stop at Ttl and waits at WaitLimit: beyond them the  *)
(* code does not tell two values apart.                                    *)
(***************************************************************************)
Tick ==
  /\ lock'   = [r \in Resources |->
                  IF lock[r].task # NoTask /\ lock[r].age < Ttl
                  THEN [lock[r] EXCEPT !.age = @ + 1] ELSE lock[r]]
  /\ waited' = [c \in Calls |->
                  IF phase[c] = "acquiring" /\ waited[c] < WaitLimit
                  THEN waited[c] + 1 ELSE waited[c]]
  /\ UNCHANGED <<phase, want, held, revoked>>

Init ==
  /\ lock    = [r \in Resources |-> Free]
  /\ phase   = [c \in Calls |-> "idle"]
  /\ want    = [c \in Calls |-> {}]
  /\ held    = [c \in Calls |-> {}]
  /\ waited  = [c \in Calls |-> 0]
  /\ revoked = {}

Next ==
  \/ \E c \in Calls : \/ \E S \in SUBSET Resources : Request(c, S)
                      \/ \E r \in Resources : AcquireFree(c, r)
                      \/ \E r \in Resources : AcquireShared(c, r)
                      \/ TimeOut(c)
                      \/ Release(c)
  \/ \E t \in Tasks : ReleaseByTask(t)
  \/ Tick

Spec == Init /\ [][Next]_vars

(***************************************************************************)
(* The clock never stops, and a polling loop that reached its deadline     *)
(* wakes up from its 50 ms sleep.  Nothing forces a handler to return, and *)
(* nothing is assumed of the polls that could succeed.                     *)
(***************************************************************************)
Fairness == WF_vars(Tick) /\ \A c \in Calls : WF_vars(TimeOut(c))

FairSpec == Spec /\ Fairness

-----------------------------------------------------------------------------

TypeOK ==
  /\ lock \in [Resources -> Entry]
  /\ phase \in [Calls -> {"idle", "acquiring", "running"}]
  /\ want \in [Calls -> SUBSET Resources]
  /\ held \in [Calls -> SUBSET Resources]
  /\ waited \in [Calls -> 0..WaitLimit]
  /\ revoked \subseteq (Calls \X Resources)

(***************************************************************************)
(* A call holds only what it asked for, all of it while its handler runs,  *)
(* and nothing when it is idle.                                            *)
(***************************************************************************)
HeldShape ==
  \A c \in Calls :
    /\ held[c] \subseteq want[c]
    /\ phase[c] = "idle" => want[c] = {}
    /\ phase[c] = "running" => held[c] = want[c]

(***************************************************************************)
(* No leak: every entry is accounted for by calls of its task that will    *)
(* release it in their finally block, so refcounts never outgrow them and  *)
(* no entry survives its last call.                                        *)
(***************************************************************************)
NoOrphanLock ==
  \A r \in Resources :
    /\ lock[r].refs <= Cardinality(Believers(lock[r].task, r))
    /\ lock[r].task = NoTask <=> lock[r].refs = 0

(***************************************************************************)
(* The leases still standing: held and not revoked.                        *)
(***************************************************************************)
Live(t, r) == {c \in Believers(t, r) : <<c, r>> \notin revoked}

(***************************************************************************)
(* A lease that was not revoked is backed by the table: the entry is there,*)
(* is the task's, and counts at least the calls that rely on it.  Rollback *)
(* of a sibling's failed acquireAll never takes it away.                   *)
(***************************************************************************)
LeaseBacked ==
  \A t \in Tasks, r \in Resources :
    Live(t, r) # {} => /\ lock[r].task = t
                       /\ Cardinality(Live(t, r)) <= lock[r].refs

(***************************************************************************)
(* Mutual exclusion: calls of two tasks never both have a standing lease   *)
(* on one resource, and on the UI terminal not even two calls of one task  *)
(* do.                                                                     *)
(***************************************************************************)
LeaseExclusive ==
  \A c, d \in Calls : \A r \in (held[c] \cap held[d]) :
    (/\ c # d
     /\ <<c, r>> \notin revoked
     /\ <<d, r>> \notin revoked) => /\ Owner[c] = Owner[d]
                                    /\ r \notin Terminal

(***************************************************************************)
(* Acquisition in sorted order keeps the waits-for graph acyclic: in every *)
(* set of acquiring calls one waits for no other member of the set.        *)
(***************************************************************************)
Blockers(c) ==
  UNION {Believers(lock[r].task, r) : r \in
           {q \in Resources : /\ IsNext(c, q)
                              /\ lock[q].task = Owner[c] => q \in Terminal}}

NoCircularWait ==
  \A S \in SUBSET {c \in Calls : phase[c] = "acquiring"} :
    S # {} => \E c \in S : Blockers(c) \cap S = {}

(***************************************************************************)
(* acquireAll always returns: a call that asked for locks is granted them  *)
(* or gives up, whatever the other calls and tasks do.                     *)
(***************************************************************************)
AcquireAllReturns ==
  \A c \in Calls : phase[c] = "acquiring" ~> phase[c] # "acquiring"

(***************************************************************************)
(* What docs/concepts/architecture.md says of the locks ("This prevents    *)
(* race conditions in parallel tool execution"): two handlers of different *)
(* tasks never run at once on one resource.                                *)
(***************************************************************************)
HandlersExclude ==
  \A c, d \in Calls :
    (phase[c] = "running" /\ phase[d] = "running" /\ Owner[c] # Owner[d])
      => want[c] \cap want[d] = {}

(***************************************************************************)
(* The abstract service: standing leases.                                  *)
(***************************************************************************)
Leased == [r \in Resources |-> {c \in Calls : r \in held[c] /\ <<c, r>> \notin revoked}]

Service == INSTANCE LockService WITH leases <- Leased

(***************************************************************************)
(* The manager implements the abstract lock service on standing leases.    *)
(***************************************************************************)
ImplementsService == Service!Spec
=============================================================================
