------------------------- MODULE ResourceLocksProofs -------------------------
(***************************************************************************)
(* Proofs about ResourceLocks, for any number of tasks, calls and          *)
(* resources and any limits.                                               *)
(***************************************************************************)
EXTENDS ResourceLocks, FiniteSetTheorems, WellFoundedInduction, TLAPS

USE ConstantsAssumption DEF ConstantsAssumption

-----------------------------------------------------------------------------
(***************************************************************************)
(* The table's helpers.                                                    *)
(***************************************************************************)

(***************************************************************************)
(* A free entry is an entry, and eviction keeps entries entries.           *)
(***************************************************************************)
LEMMA EvictedType ==
  ASSUME NEW e \in Entry
  PROVE  /\ Free \in Entry
         /\ Evicted(e) \in Entry
         /\ e.age < Ttl => Evicted(e) = e
         /\ e.age >= Ttl => Evicted(e) = Free
  BY DEF Entry, Free, Evicted

(***************************************************************************)
(* Dropping a reference frees the entry with its last one and otherwise    *)
(* changes only the count.                                                 *)
(***************************************************************************)
LEMMA UnrefType ==
  ASSUME NEW e \in Entry
  PROVE  /\ Unref(e) \in Entry
         /\ e.refs > 1 => /\ Unref(e).refs = e.refs - 1
                          /\ Unref(e).task = e.task
                          /\ Unref(e).age = e.age
         /\ e.refs <= 1 => Unref(e) = Free
  BY DEF Entry, Free, Unref

(***************************************************************************)
(* releaseAll keeps the table a table and touches only t's entries in S.   *)
(***************************************************************************)
LEMMA ReleasedType ==
  ASSUME TypeOK, NEW S, NEW t \in Tasks
  PROVE  /\ Released(S, t) \in [Resources -> Entry]
         /\ \A r \in Resources :
              Released(S, t)[r] = IF r \in S /\ lock[r].task = t
                                  THEN Unref(lock[r]) ELSE lock[r]
  BY UnrefType DEF Released, TypeOK

(***************************************************************************)
(* The calls relying on a resource are finitely many, and a free lock has  *)
(* none.                                                                   *)
(***************************************************************************)
LEMMA BelieversFinite ==
  ASSUME NEW t, NEW r
  PROVE  /\ IsFiniteSet(Believers(t, r))
         /\ Cardinality(Believers(t, r)) \in Nat
  <1>1. Believers(t, r) \in SUBSET Calls
    BY DEF Believers
  <1> QED
    BY <1>1, FS_Subset, FS_CardinalityType

LEMMA NobodyBelievesInFree ==
  ASSUME NEW r
  PROVE  Believers(NoTask, r) = {}
  BY DEF Believers

LEMMA LiveFinite ==
  ASSUME NEW t, NEW r
  PROVE  /\ IsFiniteSet(Live(t, r))
         /\ Cardinality(Live(t, r)) \in Nat
  <1>1. Live(t, r) \in SUBSET Calls
    BY DEF Live, Believers
  <1> QED
    BY <1>1, FS_Subset, FS_CardinalityType

-----------------------------------------------------------------------------
(***************************************************************************)
(* The table, the calls' phases and the leases they lost stay well typed:  *)
(* no count below zero, no age beyond the ttl.                             *)
(***************************************************************************)
THEOREM TypeCorrect == Spec => []TypeOK
  <1>1. Init => TypeOK
    BY DEF Init, TypeOK, Entry, Free
  <1>2. TypeOK /\ [Next]_vars => TypeOK'
    <2> SUFFICES ASSUME TypeOK, [Next]_vars PROVE TypeOK'
      OBVIOUS
    <2>1. ASSUME NEW c \in Calls, NEW S \in SUBSET Resources, Request(c, S)
          PROVE  TypeOK'
      BY <2>1 DEF Request, TypeOK
    <2>2. ASSUME NEW c \in Calls, NEW r \in Resources, NEW e \in Entry, Grant(c, r, e)
          PROVE  TypeOK'
      <3>1. LostToEviction(r) \subseteq Calls \X Resources
        BY DEF LostToEviction, Leases, Believers
      <3> QED
        BY <2>2, <3>1 DEF Grant, TypeOK
    <2>3. ASSUME NEW c \in Calls, NEW r \in Resources, AcquireFree(c, r)
          PROVE  TypeOK'
      <3>1. [task |-> Owner[c], refs |-> 1, age |-> 0] \in Entry
        BY DEF Entry
      <3> QED
        BY <2>2, <2>3, <3>1 DEF AcquireFree
    <2>4. ASSUME NEW c \in Calls, NEW r \in Resources, AcquireShared(c, r)
          PROVE  TypeOK'
      <3>1. [task |-> Owner[c], refs |-> lock[r].refs + 1, age |-> 0] \in Entry
        BY DEF Entry, TypeOK
      <3> QED
        BY <2>2, <2>4, <3>1 DEF AcquireShared
    <2>5. ASSUME NEW c \in Calls, NEW S \in SUBSET Resources
          PROVE  LostToStaleRelease(c, S) \subseteq Calls \X Resources
      <3>1. \A r \in S : Leases(Owner[c], r) \subseteq Calls \X Resources
        BY DEF Leases, Believers
      <3> QED
        BY <3>1 DEF LostToStaleRelease
    <2>6. ASSUME NEW c \in Calls, TimeOut(c)
          PROVE  TypeOK'
      <3>1. Owner[c] \in Tasks /\ held[c] \in SUBSET Resources /\ want[c] \in SUBSET Resources
        BY DEF TypeOK
      <3>2. lock' \in [Resources -> Entry]
        BY <2>6, <3>1, ReleasedType, EvictedType DEF TimeOut, TypeOK
      <3>3. UNION {LostToEviction(r) : r \in want[c]} \subseteq Calls \X Resources
        BY <3>1 DEF LostToEviction, Leases, Believers
      <3>4. revoked' \subseteq Calls \X Resources
        BY <2>5, <2>6, <3>1, <3>3 DEF TimeOut, TypeOK
      <3> QED
        BY <2>6, <3>2, <3>4 DEF TimeOut, Leave, TypeOK
    <2>7. ASSUME NEW c \in Calls, Release(c)
          PROVE  TypeOK'
      <3>1. Owner[c] \in Tasks /\ want[c] \in SUBSET Resources
        BY DEF TypeOK
      <3>2. lock' \in [Resources -> Entry]
        BY <2>7, <3>1, ReleasedType DEF Release, TypeOK
      <3>3. revoked' \subseteq Calls \X Resources
        BY <2>5, <2>7, <3>1 DEF Release, TypeOK
      <3> QED
        BY <2>7, <3>2, <3>3 DEF Release, Leave, TypeOK
    <2>8. ASSUME NEW t \in Tasks, ReleaseByTask(t)
          PROVE  TypeOK'
      <3>1. lock' \in [Resources -> Entry]
        BY <2>8, EvictedType DEF ReleaseByTask, TypeOK
      <3>2. revoked' \subseteq Calls \X Resources
        BY <2>8 DEF ReleaseByTask, Leases, Believers, TypeOK
      <3> QED
        BY <2>8, <3>1, <3>2 DEF ReleaseByTask, TypeOK
    <2>9. CASE Tick
      <3>1. \A r \in Resources : lock[r].age < Ttl => [lock[r] EXCEPT !.age = @ + 1] \in Entry
        BY DEF TypeOK, Entry
      <3>2. lock' \in [Resources -> Entry]
        BY <2>9, <3>1 DEF Tick, TypeOK
      <3>3. waited' \in [Calls -> 0..WaitLimit]
        BY <2>9 DEF Tick, TypeOK
      <3> QED
        BY <2>9, <3>2, <3>3 DEF Tick, TypeOK
    <2>10. CASE UNCHANGED vars
      BY <2>10 DEF vars, TypeOK
    <2> QED
      BY <2>1, <2>3, <2>4, <2>6, <2>7, <2>8, <2>9, <2>10 DEF Next
  <1> QED
    BY <1>1, <1>2, PTL DEF Spec

-----------------------------------------------------------------------------
(***************************************************************************)
(* What a call has been granted is part of what it asked for, all of it    *)
(* while the handler runs, nothing when it is idle: acquireAll returns     *)
(* true only with every lock, and leaves none behind when it fails.        *)
(***************************************************************************)
LEMMA HeldShapeStep == TypeOK /\ HeldShape /\ [Next]_vars => HeldShape'
  <1> SUFFICES ASSUME TypeOK, HeldShape, [Next]_vars PROVE HeldShape'
    OBVIOUS
  <1>1. ASSUME NEW c \in Calls, NEW S \in SUBSET Resources, Request(c, S)
        PROVE  HeldShape'
    BY <1>1 DEF Request, HeldShape, TypeOK
  <1>2. ASSUME NEW c \in Calls, NEW r \in Resources, NEW e,
               phase[c] = "acquiring", IsNext(c, r), Grant(c, r, e)
        PROVE  HeldShape'
    BY <1>2 DEF IsNext, Grant, HeldShape, TypeOK
  <1>3. ASSUME NEW c \in Calls, Leave(c)
        PROVE  HeldShape'
    BY <1>3 DEF Leave, HeldShape, TypeOK
  <1>4. CASE UNCHANGED <<phase, want, held>>
    BY <1>4 DEF HeldShape
  <1> QED
    BY <1>1, <1>2, <1>3, <1>4
    DEF Next, AcquireFree, AcquireShared, TimeOut, Release, ReleaseByTask, Tick, vars

THEOREM ShapeCorrect == Spec => []HeldShape
  <1>1. Init => HeldShape
    BY DEF Init, HeldShape
  <1> QED
    BY <1>1, TypeCorrect, HeldShapeStep, PTL DEF Spec

-----------------------------------------------------------------------------
(***************************************************************************)
(* NoOrphanLock, one resource at a time.                                   *)
(***************************************************************************)
Accounted(r) ==
  /\ lock[r].refs <= Cardinality(Believers(lock[r].task, r))
  /\ lock[r].task = NoTask <=> lock[r].refs = 0

(***************************************************************************)
(* A free lock is accounted for by nobody.                                 *)
(***************************************************************************)
LEMMA FreeAccounted ==
  ASSUME NEW r, lock'[r] = Free
  PROVE  Accounted(r)'
  <1>1. Cardinality(Believers(NoTask, r)') \in Nat
    <2>1. Believers(NoTask, r)' \in SUBSET Calls
      BY DEF Believers
    <2> QED
      BY <2>1, FS_Subset, FS_CardinalityType
  <1> QED
    BY <1>1 DEF Accounted, Free

(***************************************************************************)
(* A step that keeps the owner, the count and the calls that rely on it    *)
(* keeps a lock accounted for.                                             *)
(***************************************************************************)
LEMMA SameAccounted ==
  ASSUME NEW r, Accounted(r),
         lock'[r].task = lock[r].task, lock'[r].refs = lock[r].refs,
         \A d \in Calls : Owner[d] = lock[r].task => (r \in held'[d] <=> r \in held[d])
  PROVE  Accounted(r)'
  <1>1. Believers(lock[r].task, r)' = Believers(lock[r].task, r)
    BY DEF Believers
  <1> QED
    BY <1>1 DEF Accounted

(***************************************************************************)
(* A call that leaves takes one believer and one reference with it from    *)
(* each of its task's entries among the locks it was granted.              *)
(***************************************************************************)
LEMMA LeavingAccounted ==
  ASSUME TypeOK, NEW c \in Calls, NEW r \in Resources, Accounted(r), Leave(c),
         lock'[r] = Released(held[c], Owner[c])[r]
  PROVE  Accounted(r)'
  <1> DEFINE t == Owner[c]
  <1>0. lock[r] \in Entry /\ t \in Tasks
    BY DEF TypeOK
  <1>1. held' = [held EXCEPT ![c] = {}] /\ held \in [Calls -> SUBSET Resources]
    BY DEF Leave, TypeOK
  <1>2. CASE r \in held[c] /\ lock[r].task = t
    <2>1. lock'[r] = Unref(lock[r])
      BY <1>2, ReleasedType
    <2>2. CASE lock[r].refs > 1
      <3>1. lock'[r].task = t /\ lock'[r].refs = lock[r].refs - 1
        BY <1>0, <1>2, <2>1, <2>2, UnrefType
      <3>2. Believers(t, r)' = Believers(t, r) \ {c} /\ c \in Believers(t, r)
        BY <1>1, <1>2 DEF Believers
      <3>3. Cardinality(Believers(t, r)') = Cardinality(Believers(t, r)) - 1
        <4>1. IsFiniteSet(Believers(t, r))
          BY BelieversFinite
        <4>2. Cardinality(Believers(t, r) \ {c}) = Cardinality(Believers(t, r)) - 1
          BY <3>2, <4>1, FS_RemoveElement
        <4> QED
          BY <3>2, <4>2
      <3>4. lock[r].refs \in Nat /\ Cardinality(Believers(t, r)) \in Nat
        BY <1>0, BelieversFinite DEF Entry
      <3>5. lock[r].refs <= Cardinality(Believers(t, r)) /\ t # NoTask
        BY <1>0, <1>2 DEF Accounted
      <3>6. Accounted(r)' <=> /\ lock'[r].refs <= Cardinality(Believers(t, r)')
                              /\ t = NoTask <=> lock'[r].refs = 0
        BY <3>1 DEF Accounted
      <3> QED
        BY <2>2, <3>1, <3>3, <3>4, <3>5, <3>6
    <2>3. CASE ~(lock[r].refs > 1)
      <3>1. lock'[r] = Free
        BY <1>0, <2>1, <2>3, UnrefType DEF Entry
      <3> QED
        BY <3>1, FreeAccounted
    <2> QED
      BY <2>2, <2>3
  <1>3. CASE r \notin held[c] \/ lock[r].task # t
    <2>1. lock'[r] = lock[r]
      BY <1>3, ReleasedType
    <2>2. \A d \in Calls : Owner[d] = lock[r].task => (r \in held'[d] <=> r \in held[d])
      BY <1>1, <1>3
    <2> QED
      BY <2>1, <2>2, SameAccounted
  <1> QED
    BY <1>2, <1>3

(***************************************************************************)
(* A new lease has its entry: a fresh one with one reference, or one more  *)
(* reference on the task's own.                                            *)
(***************************************************************************)
LEMMA FreshAccounted ==
  ASSUME TypeOK, NEW c \in Calls, NEW r \in Resources, AcquireFree(c, r)
  PROVE  Accounted(r)'
  <1>1. /\ lock'[r] = [task |-> Owner[c], refs |-> 1, age |-> 0]
        /\ held' = [held EXCEPT ![c] = @ \cup {r}]
    BY DEF AcquireFree, Grant, TypeOK
  <1>2. c \in Believers(Owner[c], r)'
    BY <1>1 DEF Believers, TypeOK
  <1>3. Believers(Owner[c], r)' \in SUBSET Calls
    BY DEF Believers
  <1>4. Cardinality(Believers(Owner[c], r)') \in Nat \ {0}
    BY <1>2, <1>3, FS_Subset, FS_CardinalityType, FS_EmptySet
  <1>5. lock'[r].task = Owner[c] /\ lock'[r].refs = 1 /\ Owner[c] # NoTask
    BY <1>1
  <1> QED
    BY <1>4, <1>5 DEF Accounted

LEMMA SharedAccounted ==
  ASSUME TypeOK, NEW c \in Calls, NEW r \in Resources, Accounted(r), AcquireShared(c, r)
  PROVE  Accounted(r)'
  <1>1. /\ lock'[r] = [task |-> Owner[c], refs |-> lock[r].refs + 1, age |-> 0]
        /\ held' = [held EXCEPT ![c] = @ \cup {r}]
    BY DEF AcquireShared, Grant, TypeOK
  <1>2. lock[r].task = Owner[c]
    BY DEF AcquireShared, Evicted, Free
  <1>3. /\ Believers(Owner[c], r)' = Believers(Owner[c], r) \cup {c}
        /\ c \notin Believers(Owner[c], r)
    BY <1>1 DEF Believers, AcquireShared, IsNext, TypeOK
  <1>4. IsFiniteSet(Believers(Owner[c], r))
    BY BelieversFinite
  <1>5. Cardinality(Believers(Owner[c], r)') = Cardinality(Believers(Owner[c], r)) + 1
    BY <1>3, <1>4, FS_AddElement
  <1>6. lock[r].refs \in Nat /\ Cardinality(Believers(Owner[c], r)) \in Nat
    BY BelieversFinite DEF TypeOK, Entry
  <1>7. /\ lock'[r].task = Owner[c]
        /\ lock'[r].refs = lock[r].refs + 1
        /\ Owner[c] # NoTask
        /\ lock[r].refs <= Cardinality(Believers(Owner[c], r))
    BY <1>1, <1>2 DEF Accounted
  <1>8. lock'[r].refs <= Cardinality(Believers(Owner[c], r)')
    BY <1>5, <1>6, <1>7
  <1> QED
    BY <1>6, <1>7, <1>8 DEF Accounted

LEMMA NoOrphanStep ==
  TypeOK /\ HeldShape /\ NoOrphanLock /\ [Next]_vars => NoOrphanLock'
  <1> SUFFICES ASSUME TypeOK, HeldShape, NoOrphanLock, [Next]_vars, NEW q \in Resources
               PROVE  Accounted(q)'
    BY DEF NoOrphanLock, Accounted
  <1>0. Accounted(q)
    BY DEF NoOrphanLock, Accounted
  <1>1. ASSUME NEW c \in Calls, NEW S \in SUBSET Resources, Request(c, S)
        PROVE  Accounted(q)'
    BY <1>0, <1>1, SameAccounted DEF Request
  <1>2. ASSUME NEW c \in Calls, NEW r \in Resources, NEW e, q # r, Grant(c, r, e)
        PROVE  Accounted(q)'
    <2>1. lock'[q] = lock[q] /\ \A d \in Calls : q \in held'[d] <=> q \in held[d]
      BY <1>2 DEF Grant, TypeOK
    <2> QED
      BY <1>0, <2>1, SameAccounted
  <1>3. ASSUME NEW c \in Calls, NEW r \in Resources, AcquireFree(c, r)
        PROVE  Accounted(q)'
    BY <1>2, <1>3, FreshAccounted DEF AcquireFree
  <1>4. ASSUME NEW c \in Calls, NEW r \in Resources, AcquireShared(c, r)
        PROVE  Accounted(q)'
    BY <1>0, <1>2, <1>4, SharedAccounted DEF AcquireShared
  <1>5. ASSUME NEW c \in Calls, TimeOut(c)
        PROVE  Accounted(q)'
    <2>1. lock'[q] = IF q \in want[c] THEN Evicted(Released(held[c], Owner[c])[q])
                                      ELSE lock[q]
      BY <1>5 DEF TimeOut
    <2>2. lock'[q] = Free \/ lock'[q] = Released(held[c], Owner[c])[q]
      <3>1. q \notin want[c] => Released(held[c], Owner[c])[q] = lock[q]
        BY DEF Released, HeldShape
      <3> QED
        BY <2>1, <3>1 DEF Evicted
    <2> QED
      BY <1>0, <1>5, <2>2, FreeAccounted, LeavingAccounted DEF TimeOut
  <1>6. ASSUME NEW c \in Calls, Release(c)
        PROVE  Accounted(q)'
    <2>1. lock'[q] = Released(held[c], Owner[c])[q]
      BY <1>6 DEF Release, HeldShape
    <2> QED
      BY <1>0, <1>6, <2>1, LeavingAccounted DEF Release
  <1>7. ASSUME NEW t \in Tasks, ReleaseByTask(t)
        PROVE  Accounted(q)'
    <2>1. lock'[q] = Free \/ lock'[q] = lock[q]
      BY <1>7 DEF ReleaseByTask
    <2> QED
      BY <1>0, <1>7, <2>1, FreeAccounted, SameAccounted DEF ReleaseByTask
  <1>8. CASE Tick
    <2>1. lock'[q].task = lock[q].task /\ lock'[q].refs = lock[q].refs
      BY <1>8 DEF Tick, TypeOK, Entry
    <2> QED
      BY <1>0, <1>8, <2>1, SameAccounted DEF Tick
  <1>9. CASE UNCHANGED vars
    BY <1>0, <1>9, SameAccounted DEF vars
  <1> QED
    BY <1>1, <1>3, <1>4, <1>5, <1>6, <1>7, <1>8, <1>9 DEF Next

(***************************************************************************)
(* No lock leaks: every reference in the table belongs to a call that will *)
(* give it back, and an entry without a reference does not stay.           *)
(***************************************************************************)
THEOREM NoOrphan == Spec => []NoOrphanLock
  <1>1. Init => NoOrphanLock
    <2> SUFFICES ASSUME Init, NEW r \in Resources PROVE Accounted(r)
      BY DEF NoOrphanLock, Accounted
    <2>1. lock[r].task = NoTask /\ lock[r].refs = 0
      BY DEF Init, Free
    <2> QED
      BY <2>1, BelieversFinite DEF Accounted
  <1> QED
    BY <1>1, TypeCorrect, ShapeCorrect, NoOrphanStep, PTL DEF Spec

-----------------------------------------------------------------------------
(***************************************************************************)
(* LeaseBacked, one task and one resource at a time.                       *)
(***************************************************************************)
BackedAt(t, r) ==
  Live(t, r) # {} => /\ lock[r].task = t
                     /\ Cardinality(Live(t, r)) <= lock[r].refs

LEMMA NobodyBacked ==
  ASSUME NEW t, NEW r, Live(t, r)' = {}
  PROVE  BackedAt(t, r)'
  BY DEF BackedAt

(***************************************************************************)
(* A step that gives out no lease of t on r and leaves the entry's owner   *)
(* and count alone keeps t's leases backed.                                *)
(***************************************************************************)
LEMMA ShrunkBacked ==
  ASSUME TypeOK, NEW t \in Tasks, NEW r \in Resources, BackedAt(t, r),
         lock'[r].task = lock[r].task, lock'[r].refs = lock[r].refs,
         Live(t, r)' \subseteq Live(t, r)
  PROVE  BackedAt(t, r)'
  <1>1. CASE Live(t, r)' = {}
    BY <1>1, NobodyBacked
  <1>2. CASE Live(t, r)' # {}
    <2>1. IsFiniteSet(Live(t, r)) /\ Cardinality(Live(t, r)) \in Nat
      BY LiveFinite
    <2>2. /\ Cardinality(Live(t, r)') <= Cardinality(Live(t, r))
          /\ Cardinality(Live(t, r)') \in Nat
      BY <2>1, FS_Subset, FS_CardinalityType
    <2>3. lock[r].task = t /\ Cardinality(Live(t, r)) <= lock[r].refs
      BY <1>2 DEF BackedAt
    <2>4. lock[r].refs \in Nat
      BY DEF TypeOK, Entry
    <2>5. Cardinality(Live(t, r)') <= lock'[r].refs
      BY <2>1, <2>2, <2>3, <2>4
    <2> QED
      BY <2>3, <2>5 DEF BackedAt
  <1> QED
    BY <1>1, <1>2

(***************************************************************************)
(* A call that leaves ends its own lease, gives one reference back, and    *)
(* revokes the leases of its siblings when that reference was theirs.      *)
(***************************************************************************)
LEMMA LeavingBacked ==
  ASSUME TypeOK, NEW c \in Calls, NEW t \in Tasks, NEW r \in Resources,
         BackedAt(t, r), Leave(c),
         lock'[r] = Released(held[c], Owner[c])[r],
         (revoked \cup LostToStaleRelease(c, held[c])) \ LeasesOf(c) \subseteq revoked'
  PROVE  BackedAt(t, r)'
  <1>0. /\ held' = [held EXCEPT ![c] = {}] /\ held \in [Calls -> SUBSET Resources]
        /\ lock[r] \in Entry
    BY DEF Leave, TypeOK
  <1>1. \A d \in Calls : d # c => <<d, r>> \notin LeasesOf(c)
    BY DEF LeasesOf
  <1>2. Live(t, r)' \subseteq Live(t, r) \ {c}
    BY <1>0, <1>1 DEF Live, Believers
  <1>3. CASE lock'[r] = lock[r]
    BY <1>2, <1>3, ShrunkBacked
  <1>4. CASE lock'[r] # lock[r]
    <2>1. r \in held[c] /\ lock[r].task = Owner[c] /\ lock'[r] = Unref(lock[r])
      BY <1>4, ReleasedType
    <2>2. CASE t # Owner[c]
      <3>1. Live(t, r)' = {}
        BY <1>2, <2>1, <2>2 DEF BackedAt
      <3> QED
        BY <3>1, NobodyBacked
    <2>3. CASE t = Owner[c] /\ <<c, r>> \in revoked
      <3>1. Leases(t, r) \subseteq LostToStaleRelease(c, held[c])
        BY <2>1, <2>3 DEF LostToStaleRelease
      <3>2. \A d \in Believers(t, r) : <<d, r>> \in LostToStaleRelease(c, held[c])
        BY <3>1 DEF Leases
      <3>3. \A d \in Live(t, r)' : d \in Believers(t, r) /\ d # c /\ d \in Calls
        BY <1>2 DEF Live, Believers
      <3>4. \A d \in Live(t, r)' : <<d, r>> \notin revoked'
        BY DEF Live
      <3>5. Live(t, r)' = {}
        BY <1>1, <3>2, <3>3, <3>4
      <3> QED
        BY <3>5, NobodyBacked
    <2>4. CASE t = Owner[c] /\ <<c, r>> \notin revoked
      <3>1. c \in Live(t, r)
        BY <2>1, <2>4 DEF Live, Believers
      <3>2. IsFiniteSet(Live(t, r)) /\ Cardinality(Live(t, r)) \in Nat
        BY LiveFinite
      <3>3. /\ IsFiniteSet(Live(t, r) \ {c})
            /\ Cardinality(Live(t, r) \ {c}) = Cardinality(Live(t, r)) - 1
        BY <3>1, <3>2, FS_RemoveElement
      <3>4. /\ IsFiniteSet(Live(t, r)')
            /\ Cardinality(Live(t, r)') <= Cardinality(Live(t, r)) - 1
        BY <1>2, <3>3, FS_Subset
      <3>5. Cardinality(Live(t, r)') \in Nat
        BY <3>4, FS_CardinalityType
      <3>6. lock[r].task = t /\ Cardinality(Live(t, r)) <= lock[r].refs
        BY <3>1 DEF BackedAt
      <3>7. lock[r].refs \in Nat
        BY <1>0 DEF Entry
      <3>8. CASE lock[r].refs > 1
        <4>1. lock'[r].task = t /\ lock'[r].refs = lock[r].refs - 1
          BY <1>0, <2>1, <3>6, <3>8, UnrefType
        <4>2. Cardinality(Live(t, r)') <= lock'[r].refs
          BY <3>2, <3>4, <3>5, <3>6, <3>7, <4>1
        <4> QED
          BY <4>1, <4>2 DEF BackedAt
      <3>9. CASE ~(lock[r].refs > 1)
        <4>1. Cardinality(Live(t, r)') = 0
          BY <3>2, <3>4, <3>5, <3>6, <3>7, <3>9
        <4>2. Live(t, r)' = {}
          BY <3>4, <4>1, FS_EmptySet
        <4> QED
          BY <4>2, NobodyBacked
      <3> QED
        BY <3>8, <3>9
    <2> QED
      BY <2>2, <2>3, <2>4
  <1> QED
    BY <1>3, <1>4

(***************************************************************************)
(* A grant of r to c adds at most c to the standing leases, and only to    *)
(* those of its own task on r.                                             *)
(***************************************************************************)
LEMMA GrantLive ==
  ASSUME TypeOK, NEW c \in Calls, NEW r \in Resources, NEW e, Grant(c, r, e),
         NEW t \in Tasks, NEW q \in Resources
  PROVE  /\ (q # r \/ t # Owner[c]) => Live(t, q)' \subseteq Live(t, q)
         /\ Live(Owner[c], r)' \subseteq Live(Owner[c], r) \cup {c}
         /\ lock'[r] = e /\ (q # r => lock'[q] = lock[q])
  <1>1. held' = [held EXCEPT ![c] = @ \cup {r}] /\ revoked \subseteq revoked'
    BY DEF Grant
  <1>2. lock' = [lock EXCEPT ![r] = e]
    BY DEF Grant
  <1>3. (q # r \/ t # Owner[c]) => Live(t, q)' \subseteq Live(t, q)
    BY <1>1 DEF Live, Believers, TypeOK
  <1>4. Live(Owner[c], r)' \subseteq Live(Owner[c], r) \cup {c}
    BY <1>1 DEF Live, Believers, TypeOK
  <1> QED
    BY <1>2, <1>3, <1>4 DEF TypeOK

LEMMA FreshBacked ==
  ASSUME TypeOK, NEW c \in Calls, NEW r \in Resources, NEW t \in Tasks,
         BackedAt(t, r), AcquireFree(c, r)
  PROVE  BackedAt(t, r)'
  <1>1. PICK e : Grant(c, r, e) /\ e = [task |-> Owner[c], refs |-> 1, age |-> 0]
    BY DEF AcquireFree
  <1>2. Live(t, r)' \subseteq {c}
    <2>1. CASE lock[r].age < Ttl
      <3>1. lock[r].task = NoTask
        BY <2>1 DEF AcquireFree, Evicted, Free, TypeOK, Entry
      <3>2. Live(t, r) = {}
        BY <3>1 DEF BackedAt
      <3> QED
        BY <1>1, <3>2, GrantLive
    <2>2. CASE lock[r].age >= Ttl
      <3>1. Leases(lock[r].task, r) \subseteq revoked'
        BY <1>1, <2>2 DEF Grant, LostToEviction
      <3>2. \A d \in Live(t, r)' : d # c => d \in Live(t, r)
        BY <1>1, GrantLive
      <3>3. Live(t, r) # {} => lock[r].task = t
        BY DEF BackedAt
      <3>4. \A d \in Live(t, r)' : d # c => <<d, r>> \in Leases(lock[r].task, r)
        BY <3>2, <3>3 DEF Live, Leases
      <3> QED
        BY <3>1, <3>4 DEF Live
    <2> QED
      BY <2>1, <2>2 DEF TypeOK, Entry
  <1>3. CASE t # Owner[c]
    <2>1. c \notin Believers(t, r)'
      BY <1>3 DEF Believers
    <2>2. Live(t, r)' = {}
      BY <1>2, <2>1 DEF Live
    <2> QED
      BY <2>2, NobodyBacked
  <1>4. CASE t = Owner[c]
    <2>1. lock'[r].task = t /\ lock'[r].refs = 1
      BY <1>1, <1>4, GrantLive
    <2>2. Cardinality(Live(t, r)') <= 1
      <3>1. IsFiniteSet({c}) /\ Cardinality({c}) = 1
        BY FS_Singleton
      <3>2. Live(t, r)' \in SUBSET {c}
        BY <1>2
      <3> QED
        BY <3>1, <3>2, FS_Subset
    <2> QED
      BY <2>1, <2>2 DEF BackedAt
  <1> QED
    BY <1>3, <1>4

LEMMA SharedBacked ==
  ASSUME TypeOK, NEW c \in Calls, NEW r \in Resources, NEW t \in Tasks,
         BackedAt(t, r), AcquireShared(c, r)
  PROVE  BackedAt(t, r)'
  <1>1. PICK e : /\ Grant(c, r, e)
                 /\ e = [task |-> Owner[c], refs |-> lock[r].refs + 1, age |-> 0]
    BY DEF AcquireShared
  <1>2. lock[r].task = Owner[c]
    BY DEF AcquireShared, Evicted, Free
  <1>3. CASE t # Owner[c]
    <2>1. Live(t, r) = {}
      BY <1>2, <1>3 DEF BackedAt
    <2>2. Live(t, r)' = {}
      BY <1>1, <1>3, <2>1, GrantLive
    <2> QED
      BY <2>2, NobodyBacked
  <1>4. CASE t = Owner[c]
    <2>1. lock'[r].task = t /\ lock'[r].refs = lock[r].refs + 1
      BY <1>1, <1>4, GrantLive
    <2>2. IsFiniteSet(Live(t, r)) /\ Cardinality(Live(t, r)) \in Nat
      BY LiveFinite
    <2>3. /\ IsFiniteSet(Live(t, r) \cup {c})
          /\ Cardinality(Live(t, r) \cup {c}) <= Cardinality(Live(t, r)) + 1
          /\ Cardinality(Live(t, r) \cup {c}) \in Nat
      <3>1. /\ IsFiniteSet(Live(t, r) \cup {c})
            /\ Cardinality(Live(t, r) \cup {c}) =
                 IF c \in Live(t, r) THEN Cardinality(Live(t, r))
                                     ELSE Cardinality(Live(t, r)) + 1
        BY <2>2, FS_AddElement
      <3> QED
        BY <2>2, <3>1
    <2>4. Live(t, r)' \in SUBSET (Live(t, r) \cup {c})
      BY <1>1, <1>4, GrantLive
    <2>5. /\ Cardinality(Live(t, r)') <= Cardinality(Live(t, r) \cup {c})
          /\ Cardinality(Live(t, r)') \in Nat
      BY <2>3, <2>4, FS_Subset, FS_CardinalityType
    <2>6. lock[r].refs \in Nat
      BY DEF TypeOK, Entry
    <2>7. Cardinality(Live(t, r)) <= lock[r].refs
      <3>1. Live(t, r) = {} => Cardinality(Live(t, r)) = 0
        BY FS_EmptySet
      <3> QED
        BY <2>6, <3>1 DEF BackedAt
    <2>8. Cardinality(Live(t, r)') <= lock'[r].refs
      BY <2>1, <2>2, <2>3, <2>5, <2>6, <2>7
    <2> QED
      BY <2>1, <2>8 DEF BackedAt
  <1> QED
    BY <1>3, <1>4

LEMMA LeaseBackedStep ==
  TypeOK /\ HeldShape /\ LeaseBacked /\ [Next]_vars => LeaseBacked'
  <1> SUFFICES ASSUME TypeOK, HeldShape, LeaseBacked, [Next]_vars,
                      NEW t \in Tasks, NEW q \in Resources
               PROVE  BackedAt(t, q)'
    BY DEF LeaseBacked, BackedAt
  <1>0. BackedAt(t, q)
    BY DEF LeaseBacked, BackedAt
  <1>1. ASSUME NEW c \in Calls, NEW S \in SUBSET Resources, Request(c, S)
        PROVE  BackedAt(t, q)'
    <2>1. lock'[q] = lock[q] /\ Live(t, q)' = Live(t, q)
      BY <1>1 DEF Request, Live, Believers
    <2> QED
      BY <1>0, <2>1, ShrunkBacked
  <1>2. ASSUME NEW c \in Calls, NEW r \in Resources, NEW e, q # r, Grant(c, r, e)
        PROVE  BackedAt(t, q)'
    <2>1. Live(t, q)' \subseteq Live(t, q) /\ lock'[q] = lock[q]
      BY <1>2, GrantLive
    <2> QED
      BY <1>0, <2>1, ShrunkBacked
  <1>3. ASSUME NEW c \in Calls, NEW r \in Resources, AcquireFree(c, r)
        PROVE  BackedAt(t, q)'
    BY <1>0, <1>2, <1>3, FreshBacked DEF AcquireFree
  <1>4. ASSUME NEW c \in Calls, NEW r \in Resources, AcquireShared(c, r)
        PROVE  BackedAt(t, q)'
    BY <1>0, <1>2, <1>4, SharedBacked DEF AcquireShared
  <1>5. ASSUME NEW c \in Calls, TimeOut(c)
        PROVE  BackedAt(t, q)'
    <2>1. /\ lock'[q] = IF q \in want[c] THEN Evicted(Released(held[c], Owner[c])[q])
                                         ELSE lock[q]
          /\ Leave(c)
      BY <1>5 DEF TimeOut
    <2>2. (revoked \cup LostToStaleRelease(c, held[c])) \ LeasesOf(c) \subseteq revoked'
      BY <1>5 DEF TimeOut
    <2>3. CASE lock'[q] = Released(held[c], Owner[c])[q]
      BY <1>0, <2>1, <2>2, <2>3, LeavingBacked
    <2>4. CASE lock'[q] # Released(held[c], Owner[c])[q]
      <3>1. q \in want[c] /\ Released(held[c], Owner[c])[q].age >= Ttl
        <4>1. q \notin want[c] => Released(held[c], Owner[c])[q] = lock[q]
          BY DEF Released, HeldShape
        <4> QED
          BY <2>1, <2>4, <4>1 DEF Evicted
      <3>2. lock[q].age >= Ttl
        <4>1. Released(held[c], Owner[c])[q] \in {lock[q], Unref(lock[q])}
          BY DEF Released
        <4>2. Unref(lock[q]).age \in {lock[q].age, 0}
          BY UnrefType DEF TypeOK, Entry, Free
        <4> QED
          BY <3>1, <4>1, <4>2
      <3>3. Leases(lock[q].task, q) \subseteq UNION {LostToEviction(r) : r \in want[c]}
        BY <3>1, <3>2 DEF LostToEviction
      <3>4. \A d \in Calls : d # c => <<d, q>> \notin LeasesOf(c)
        BY DEF LeasesOf
      <3>5. \A d \in Live(t, q)' : d \in Live(t, q) /\ d # c /\ d \in Calls
        BY <2>1, <2>2, <3>4 DEF Live, Believers, Leave, TypeOK
      <3>6. Live(t, q) # {} => lock[q].task = t
        BY <1>0 DEF BackedAt
      <3>7. \A d \in Live(t, q)' : <<d, q>> \in Leases(lock[q].task, q)
        BY <3>5, <3>6 DEF Leases, Live
      <3>8. \A d \in Live(t, q)' : <<d, q>> \in revoked'
        BY <1>5, <3>3, <3>4, <3>5, <3>7 DEF TimeOut
      <3>9. Live(t, q)' = {}
        BY <3>8 DEF Live
      <3> QED
        BY <3>9, NobodyBacked
    <2> QED
      BY <2>3, <2>4
  <1>6. ASSUME NEW c \in Calls, Release(c)
        PROVE  BackedAt(t, q)'
    <2>1. held[c] = want[c]
      BY <1>6 DEF Release, HeldShape
    <2> QED
      BY <1>0, <1>6, <2>1, LeavingBacked DEF Release
  <1>7. ASSUME NEW u \in Tasks, ReleaseByTask(u)
        PROVE  BackedAt(t, q)'
    <2>1. Live(t, q)' \subseteq Live(t, q)
      BY <1>7 DEF ReleaseByTask, Live, Believers
    <2>2. CASE lock[q].task # u
      BY <1>0, <1>7, <2>1, <2>2, ShrunkBacked DEF ReleaseByTask
    <2>3. CASE lock[q].task = u
      <3>1. Leases(u, q) \subseteq revoked'
        BY <1>7, <2>3 DEF ReleaseByTask
      <3>2. Live(t, q) # {} => t = u
        BY <1>0, <2>3 DEF BackedAt
      <3>3. Live(t, q)' = {}
        BY <2>1, <3>1, <3>2 DEF Live, Leases
      <3> QED
        BY <3>3, NobodyBacked
    <2> QED
      BY <2>2, <2>3
  <1>8. CASE Tick
    <2>1. lock'[q].task = lock[q].task /\ lock'[q].refs = lock[q].refs
      BY <1>8 DEF Tick, TypeOK, Entry
    <2>2. Live(t, q)' = Live(t, q)
      BY <1>8 DEF Tick, Live, Believers
    <2> QED
      BY <1>0, <2>1, <2>2, ShrunkBacked
  <1>9. CASE UNCHANGED vars
    <2>1. lock'[q] = lock[q] /\ Live(t, q)' = Live(t, q)
      BY <1>9 DEF vars, Live, Believers
    <2> QED
      BY <1>0, <2>1, ShrunkBacked
  <1> QED
    BY <1>1, <1>3, <1>4, <1>5, <1>6, <1>7, <1>8, <1>9 DEF Next

(***************************************************************************)
(* A standing lease is backed by the table, whatever parallel calls of the *)
(* task roll back or release in the meantime.                              *)
(***************************************************************************)
THEOREM Backed == Spec => []LeaseBacked
  <1>1. Init => LeaseBacked
    BY DEF Init, LeaseBacked, Live, Believers
  <1> QED
    BY <1>1, TypeCorrect, ShapeCorrect, LeaseBackedStep, PTL DEF Spec

-----------------------------------------------------------------------------
(***************************************************************************)
(* The entry of a UI terminal is never shared.                             *)
(***************************************************************************)
TerminalAlone == \A r \in Terminal : lock[r].refs <= 1

LEMMA TerminalAloneStep ==
  TypeOK /\ TerminalAlone /\ [Next]_vars => TerminalAlone'
  <1> SUFFICES ASSUME TypeOK, TerminalAlone, [Next]_vars, NEW q \in Terminal
               PROVE  lock'[q].refs <= 1
    BY DEF TerminalAlone
  <1>0. lock[q] \in Entry /\ lock[q].refs <= 1 /\ q \in Resources
    BY DEF TerminalAlone, TypeOK
  <1>1. Free.refs = 0
    BY DEF Free
  <1>2. ASSUME NEW c \in Calls, NEW S \in SUBSET Resources
        PROVE  /\ Released(S, Owner[c])[q].refs <= 1
               /\ Evicted(Released(S, Owner[c])[q]).refs <= 1
    <2>1. Released(S, Owner[c])[q] \in {lock[q], Unref(lock[q])}
      BY <1>0 DEF Released
    <2>2. Unref(lock[q]) = Free
      BY <1>0, UnrefType
    <2> QED
      BY <1>0, <1>1, <2>1, <2>2 DEF Evicted
  <1>3. ASSUME NEW c \in Calls, NEW r \in Resources, AcquireFree(c, r)
        PROVE  lock'[q].refs <= 1
    BY <1>0, <1>3 DEF AcquireFree, Grant, TypeOK
  <1>4. ASSUME NEW c \in Calls, NEW r \in Resources, AcquireShared(c, r)
        PROVE  lock'[q].refs <= 1
    BY <1>0, <1>4 DEF AcquireShared, Grant, TypeOK
  <1>5. ASSUME NEW c \in Calls, TimeOut(c)
        PROVE  lock'[q].refs <= 1
    BY <1>0, <1>2, <1>5 DEF TimeOut, TypeOK
  <1>6. ASSUME NEW c \in Calls, Release(c)
        PROVE  lock'[q].refs <= 1
    BY <1>0, <1>2, <1>6 DEF Release, TypeOK
  <1>7. ASSUME NEW t \in Tasks, ReleaseByTask(t)
        PROVE  lock'[q].refs <= 1
    BY <1>0, <1>1, <1>7 DEF ReleaseByTask
  <1>8. CASE Tick
    BY <1>0, <1>8 DEF Tick, Entry
  <1>9. CASE UNCHANGED lock
    BY <1>0, <1>9
  <1> QED
    BY <1>3, <1>4, <1>5, <1>6, <1>7, <1>8, <1>9 DEF Next, Request, vars

(***************************************************************************)
(* Mutual exclusion: while their leases stand, calls of two tasks never    *)
(* share a resource, and no two calls share a UI terminal.                 *)
(***************************************************************************)
THEOREM Exclusive == Spec => []LeaseExclusive
  <1>1. Init => TerminalAlone
    BY DEF Init, TerminalAlone, Free
  <1>2. TypeOK /\ LeaseBacked /\ TerminalAlone => LeaseExclusive
    <2> SUFFICES ASSUME TypeOK, LeaseBacked, TerminalAlone,
                        NEW c \in Calls, NEW d \in Calls, NEW r \in (held[c] \cap held[d]),
                        c # d, <<c, r>> \notin revoked, <<d, r>> \notin revoked
                 PROVE  Owner[c] = Owner[d] /\ r \notin Terminal
      BY DEF LeaseExclusive
    <2>1. r \in Resources
      BY DEF TypeOK
    <2>2. c \in Live(Owner[c], r) /\ d \in Live(Owner[d], r)
      BY DEF Live, Believers
    <2>3. Owner[c] = Owner[d]
      BY <2>1, <2>2 DEF LeaseBacked
    <2>4. r \notin Terminal
      <3> SUFFICES ASSUME r \in Terminal PROVE FALSE
        OBVIOUS
      <3>1. Cardinality(Live(Owner[c], r)) <= lock[r].refs /\ lock[r].refs <= 1
        BY <2>1, <2>2 DEF LeaseBacked, TerminalAlone
      <3>2. IsFiniteSet({c}) /\ Cardinality({c}) = 1
        BY FS_Singleton
      <3>3. IsFiniteSet({c} \cup {d}) /\ Cardinality({c} \cup {d}) = 2
        <4>1. d \notin {c}
          OBVIOUS
        <4>2. /\ IsFiniteSet({c} \cup {d})
              /\ Cardinality({c} \cup {d}) = IF d \in {c} THEN Cardinality({c})
                                                        ELSE Cardinality({c}) + 1
          BY <3>2, FS_AddElement
        <4> QED
          BY <3>2, <4>1, <4>2
      <3>4. {c} \cup {d} \in SUBSET Live(Owner[c], r)
        BY <2>2, <2>3
      <3>5. 2 <= Cardinality(Live(Owner[c], r))
        BY <3>3, <3>4, LiveFinite, FS_Subset
      <3>6. Cardinality(Live(Owner[c], r)) \in Nat /\ lock[r].refs \in Nat
        BY <2>1, LiveFinite DEF TypeOK, Entry
      <3> QED
        BY <3>1, <3>5, <3>6
    <2> QED
      BY <2>3, <2>4
  <1> QED
    BY <1>1, <1>2, TypeCorrect, Backed, TerminalAloneStep, PTL DEF Spec
-----------------------------------------------------------------------------
(***************************************************************************)
(* Why sorted acquisition cannot deadlock: what an acquiring call has been *)
(* granted comes, in the order of the ids, before all that it still wants. *)
(***************************************************************************)
AcquiredInOrder ==
  \A c \in Calls :
    phase[c] = "acquiring" => \A r \in held[c], q \in want[c] \ held[c] : r < q

(***************************************************************************)
(* A call that starts has nothing, and a grant is of the first id that is  *)
(* wanted.                                                                 *)
(***************************************************************************)
LEMMA AcquiredInOrderStep ==
  TypeOK /\ HeldShape /\ AcquiredInOrder /\ [Next]_vars => AcquiredInOrder'
  <1> SUFFICES ASSUME TypeOK, HeldShape, AcquiredInOrder, [Next]_vars PROVE AcquiredInOrder'
    OBVIOUS
  <1>1. ASSUME NEW c \in Calls, NEW S \in SUBSET Resources, Request(c, S)
        PROVE  AcquiredInOrder'
    <2>1. held'[c] = {} /\ held' = held
      BY <1>1 DEF Request, HeldShape, TypeOK
    <2>2. \A d \in Calls : d # c => phase'[d] = phase[d] /\ want'[d] = want[d]
      BY <1>1 DEF Request, TypeOK
    <2> QED
      BY <2>1, <2>2 DEF AcquiredInOrder
  <1>2. ASSUME NEW c \in Calls, NEW r \in Resources, NEW e,
               phase[c] = "acquiring", IsNext(c, r), Grant(c, r, e)
        PROVE  AcquiredInOrder'
    <2>1. held'[c] = held[c] \cup {r} /\ want' = want
      BY <1>2 DEF Grant, TypeOK
    <2>2. \A d \in Calls : d # c => phase'[d] = phase[d] /\ held'[d] = held[d]
      BY <1>2 DEF Grant, TypeOK
    <2>3. \A s \in held[c], q \in want[c] \ held[c] : s < q
      BY <1>2 DEF AcquiredInOrder
    <2>4. \A q \in want[c] \ (held[c] \cup {r}) : r < q
      <3>1. ASSUME NEW q \in want[c] \ held[c], q # r PROVE r < q
        <4>1. r <= q /\ r \in Nat /\ q \in Nat
          BY <1>2, <3>1 DEF IsNext, TypeOK
        <4> QED
          BY <3>1, <4>1
      <3> QED
        BY <3>1
    <2> QED
      BY <2>1, <2>2, <2>3, <2>4 DEF AcquiredInOrder
  <1>3. ASSUME NEW c \in Calls, Leave(c)
        PROVE  AcquiredInOrder'
    <2>1. phase'[c] = "idle"
      BY <1>3 DEF Leave, TypeOK
    <2>2. \A d \in Calls : d # c => /\ phase'[d] = phase[d] /\ want'[d] = want[d]
                                    /\ held'[d] = held[d]
      BY <1>3 DEF Leave, TypeOK
    <2> QED
      BY <2>1, <2>2 DEF AcquiredInOrder
  <1>4. CASE UNCHANGED <<phase, want, held>>
    BY <1>4 DEF AcquiredInOrder
  <1> QED
    BY <1>1, <1>2, <1>3, <1>4
    DEF Next, AcquireFree, AcquireShared, TimeOut, Release, ReleaseByTask, Tick, vars

(***************************************************************************)
(* Of some resources there is a first and a last.                          *)
(***************************************************************************)
LEMMA FirstNumber ==
  ASSUME NEW T \in SUBSET Nat, T # {}
  PROVE  \E x \in T : \A y \in T : x <= y
  <1>1. PICK x \in T : \A y \in T : <<y, x>> \notin OpToRel(<, Nat)
    BY NatLessThanWellFounded, WFMin, Zenon
  <1>2. ASSUME NEW y \in T PROVE ~(y < x)
    BY <1>1, Zenon DEF OpToRel
  <1> QED
    BY <1>2

LEMMA LastResource ==
  ASSUME NEW T \in SUBSET Resources, T # {}
  PROVE  \E x \in T : \A y \in T : y <= x
  <1> DEFINE Above(r) == {q \in Resources : r < q}
             Sizes    == {Cardinality(Above(r)) : r \in T}
  <1>1. \A r \in T : IsFiniteSet(Above(r)) /\ Cardinality(Above(r)) \in Nat
    <2>1. \A r \in T : Above(r) \in SUBSET Resources
      OBVIOUS
    <2> QED
      BY <2>1, FS_Subset, FS_CardinalityType
  <1>2. PICK n \in Sizes : \A m \in Sizes : n <= m
    <2>1. Sizes \in SUBSET Nat /\ Sizes # {}
      BY <1>1
    <2> QED
      BY <2>1, FirstNumber
  <1>3. PICK x \in T : n = Cardinality(Above(x))
    OBVIOUS
  <1>4. ASSUME NEW y \in T, x < y PROVE FALSE
    <2>1. Above(y) \in SUBSET Above(x) /\ y \in Above(x) /\ y \notin Above(y)
      <3>1. x \in Nat /\ y \in Nat /\ y \in Resources
        OBVIOUS
      <3>2. \A q \in Resources : y < q => x < q
        BY <1>4, <3>1
      <3>3. ~(y < y)
        BY <3>1
      <3>4. y \in Above(x) /\ y \notin Above(y)
        BY <1>4, <3>1, <3>3
      <3>5. Above(y) \in SUBSET Above(x)
        BY <3>2
      <3> QED
        BY <3>4, <3>5
    <2>2. /\ Cardinality(Above(y)) <= Cardinality(Above(x))
          /\ Cardinality(Above(y)) # Cardinality(Above(x))
      <3> HIDE DEF Above
      <3> QED
        BY <1>1, <2>1, FS_Subset
    <2>3. n <= Cardinality(Above(y))
      BY <1>2
    <2> QED
      BY <1>1, <1>3, <2>2, <2>3
  <1> QED
    BY <1>4

(***************************************************************************)
(* The call that waits for the last resource any of a set waits for waits  *)
(* for none of them: they have yet to reach it.                            *)
(***************************************************************************)
LEMMA OrderBreaksCycles == TypeOK /\ AcquiredInOrder => NoCircularWait
  <1> SUFFICES ASSUME TypeOK, AcquiredInOrder,
                      NEW S \in SUBSET {c \in Calls : phase[c] = "acquiring"}, S # {}
               PROVE  \E c \in S : Blockers(c) \cap S = {}
    BY DEF NoCircularWait
  <1>1. ASSUME NEW c \in S, want[c] \ held[c] = {} PROVE Blockers(c) = {}
    BY <1>1 DEF Blockers, IsNext
  <1>2. CASE \E c \in S : want[c] \ held[c] = {}
    BY <1>1, <1>2
  <1>3. CASE \A c \in S : want[c] \ held[c] # {}
    <2> DEFINE Awaited == {r \in Resources : \E c \in S : IsNext(c, r)}
    <2>1. \A c \in S : \E r \in Awaited : IsNext(c, r)
      <3> TAKE c \in S
      <3>1. want[c] \ held[c] \in SUBSET Nat /\ want[c] \ held[c] # {}
        BY <1>3 DEF TypeOK
      <3>2. PICK r \in want[c] \ held[c] : \A q \in want[c] \ held[c] : r <= q
        BY <3>1, FirstNumber
      <3>3. r \in Resources /\ IsNext(c, r)
        BY <3>2 DEF IsNext, TypeOK
      <3> QED
        BY <3>3
    <2>2. Awaited \in SUBSET Resources /\ Awaited # {}
      BY <2>1
    <2>3. PICK x \in Awaited : \A y \in Awaited : y <= x
      BY <2>2, LastResource
    <2>4. PICK c \in S : IsNext(c, x)
      OBVIOUS
    <2>5. ASSUME NEW d \in Blockers(c) \cap S PROVE FALSE
      <3>1. PICK r \in Resources : IsNext(c, r) /\ d \in Believers(lock[r].task, r)
        BY <2>5 DEF Blockers
      <3>2. r = x
        BY <2>4, <3>1 DEF IsNext
      <3>3. x \in held[d]
        BY <3>1, <3>2 DEF Believers
      <3>4. PICK y \in Awaited : IsNext(d, y)
        BY <2>1, <2>5
      <3>5. x < y
        BY <2>5, <3>3, <3>4 DEF AcquiredInOrder, IsNext
      <3> QED
        BY <2>3, <3>4, <3>5
    <2> QED
      BY <2>5
  <1> QED
    BY <1>2, <1>3

(***************************************************************************)
(* The waits of acquireAll form no cycle: because ids are taken in sorted  *)
(* order, some call of every set of acquiring calls waits for none of the  *)
(* others.                                                                 *)
(***************************************************************************)
THEOREM NoDeadlock == Spec => []NoCircularWait
  <1>1. Init => AcquiredInOrder
    BY DEF Init, AcquiredInOrder
  <1> QED
    BY <1>1, TypeCorrect, ShapeCorrect, AcquiredInOrderStep, OrderBreaksCycles, PTL DEF Spec

-----------------------------------------------------------------------------
(***************************************************************************)
(* Only a lease that a call still relies on can have been revoked.         *)
(***************************************************************************)
RevokedIsHeld == \A c \in Calls, r \in Resources : <<c, r>> \in revoked => r \in held[c]

(***************************************************************************)
(* Every loss of a lease is of a call that believes in it, and a call that *)
(* leaves takes its losses along.                                          *)
(***************************************************************************)
LEMMA RevokedIsHeldStep ==
  TypeOK /\ RevokedIsHeld /\ [Next]_vars => RevokedIsHeld'
  <1> SUFFICES ASSUME TypeOK, RevokedIsHeld, [Next]_vars,
                      NEW d \in Calls, NEW q \in Resources, <<d, q>> \in revoked'
               PROVE  q \in held'[d]
    BY DEF RevokedIsHeld
  <1>0. <<d, q>> \in revoked => q \in held[d]
    BY DEF RevokedIsHeld
  <1>a. ASSUME NEW t, NEW r, <<d, q>> \in Leases(t, r) PROVE q \in held[d]
    BY <1>a DEF Leases, Believers
  <1>b. ASSUME NEW r, <<d, q>> \in LostToEviction(r) PROVE q \in held[d]
    BY <1>a, <1>b DEF LostToEviction
  <1>c. ASSUME NEW c, NEW S, <<d, q>> \in LostToStaleRelease(c, S) PROVE q \in held[d]
    <2>1. PICK r : <<d, q>> \in Leases(Owner[c], r)
      BY <1>c DEF LostToStaleRelease
    <2> QED
      BY <1>a, <2>1
  <1>1. ASSUME NEW c \in Calls, NEW r \in Resources, NEW e, Grant(c, r, e)
        PROVE  q \in held'[d]
    <2>1. q \in held[d]
      BY <1>0, <1>b, <1>1 DEF Grant
    <2> QED
      BY <1>1, <2>1 DEF Grant, TypeOK
  <1>2. ASSUME NEW c \in Calls, TimeOut(c) \/ Release(c)
        PROVE  q \in held'[d]
    <2>1. Leave(c) /\ <<d, q>> \notin LeasesOf(c)
      BY <1>2 DEF TimeOut, Release
    <2>2. d # c
      BY <2>1 DEF LeasesOf
    <2>3. q \in held[d]
      BY <1>0, <1>b, <1>c, <1>2 DEF TimeOut, Release
    <2> QED
      BY <2>1, <2>2, <2>3 DEF Leave, TypeOK
  <1>3. ASSUME NEW t \in Tasks, ReleaseByTask(t)
        PROVE  q \in held'[d]
    BY <1>0, <1>a, <1>3 DEF ReleaseByTask
  <1>4. CASE UNCHANGED <<held, revoked>>
    BY <1>0, <1>4
  <1> QED
    BY <1>1, <1>2, <1>3, <1>4 DEF Next, Request, AcquireFree, AcquireShared, Tick, vars

(***************************************************************************)
(* Leases that only end are a step of the service, and so is a grant that  *)
(* leaves its call compatible with whoever else has a standing lease.      *)
(***************************************************************************)
LEMMA EndingIsService ==
  ASSUME \A r \in Resources : Leased'[r] \subseteq Leased[r]
  PROVE  Service!EndLeases
  <1> DEFINE ended == {p \in Calls \X Resources : p[1] \notin Leased'[p[2]]}
  <1>1. \A r \in Resources : Leased'[r] = {c \in Leased[r] : <<c, r>> \notin ended}
    BY DEF Leased
  <1>2. Leased' = [r \in Resources |-> {c \in Leased[r] : <<c, r>> \notin ended}]
    BY <1>1 DEF Leased
  <1>3. ended \in SUBSET (Calls \X Resources)
    OBVIOUS
  <1> HIDE DEF ended
  <1> QED
    BY <1>2, <1>3 DEF Service!EndLeases

LEMMA GrantIsService ==
  ASSUME TypeOK, RevokedIsHeld, LeaseExclusive',
         NEW c \in Calls, NEW r \in Resources, NEW e, IsNext(c, r), Grant(c, r, e)
  PROVE  Service!GrantLease(c, r)
  <1> DEFINE kept == Leased'[r] \ {c}
  <1>1. r \notin held[c] /\ held' = [held EXCEPT ![c] = @ \cup {r}]
    BY DEF IsNext, Grant
  <1>2. revoked' = revoked \cup LostToEviction(r)
    BY DEF Grant
  <1>3. \A p \in LostToEviction(r) : p[2] = r /\ r \in held[p[1]]
    BY DEF LostToEviction, Leases, Believers
  <1>4. c \notin Leased[r] /\ r \in held'[c] /\ <<c, r>> \notin revoked'
    BY <1>1, <1>2, <1>3 DEF Leased, TypeOK, RevokedIsHeld
  <1>5. c \in Leased'[r]
    BY <1>4 DEF Leased
  <1>6. kept \in SUBSET Leased[r]
    <2>1. ASSUME NEW d \in kept PROVE d \in Leased[r]
      <3>1. d \in Calls /\ d # c /\ r \in held'[d] /\ <<d, r>> \notin revoked'
        BY DEF Leased
      <3>2. r \in held[d] /\ <<d, r>> \notin revoked
        BY <1>1, <1>2, <3>1 DEF TypeOK
      <3> QED
        BY <3>1, <3>2 DEF Leased
    <2> QED
      BY <2>1
  <1>7. ASSUME NEW d \in kept PROVE Owner[c] = Owner[d] /\ r \notin Terminal
    <2>1. d \in Calls /\ d # c /\ r \in held'[d] /\ <<d, r>> \notin revoked'
      BY DEF Leased
    <2>2. r \in (held'[c] \cap held'[d])
      BY <1>4, <2>1
    <2> QED
      BY <1>4, <2>1, <2>2 DEF LeaseExclusive
  <1>8. \A q \in Resources : q # r => Leased'[q] = Leased[q]
    <2>1. ASSUME NEW q \in Resources, q # r, NEW d \in Calls
          PROVE  (q \in held'[d] <=> q \in held[d])
                 /\ (<<d, q>> \in revoked' <=> <<d, q>> \in revoked)
      <3>1. <<d, q>> \notin LostToEviction(r)
        BY <1>3, <2>1
      <3> QED
        BY <1>1, <1>2, <2>1, <3>1 DEF TypeOK
    <2> QED
      BY <2>1 DEF Leased
  <1>9. Leased' = [Leased EXCEPT ![r] = kept \cup {c}]
    <2>1. Leased \in [Resources -> SUBSET Calls] /\ Leased' \in [Resources -> SUBSET Calls]
      BY DEF Leased
    <2>2. Leased'[r] = kept \cup {c}
      BY <1>5
    <2> HIDE DEF kept
    <2> QED
      BY <1>8, <2>1, <2>2
  <1> HIDE DEF kept
  <1> QED
    BY <1>4, <1>6, <1>7, <1>9 DEF Service!GrantLease, Service!Compatible

(***************************************************************************)
(* Every step of the manager is a step of the service or none.             *)
(***************************************************************************)
LEMMA ServiceStep ==
  TypeOK /\ RevokedIsHeld /\ LeaseExclusive' /\ [Next]_vars => [Service!Next]_Leased
  <1> SUFFICES ASSUME TypeOK, RevokedIsHeld, LeaseExclusive', [Next]_vars
               PROVE  Service!Next \/ Leased' = Leased
    OBVIOUS
  <1>1. ASSUME NEW c \in Calls, NEW r \in Resources, AcquireFree(c, r) \/ AcquireShared(c, r)
        PROVE  Service!Next
    BY <1>1, GrantIsService DEF AcquireFree, AcquireShared, Service!Next
  <1>2. ASSUME NEW c \in Calls, TimeOut(c) \/ Release(c)
        PROVE  Service!Next
    <2>1. Leave(c)
      BY <1>2 DEF TimeOut, Release
    <2>2. \A p \in revoked : p \notin LeasesOf(c) => p \in revoked'
      BY <1>2 DEF TimeOut, Release
    <2>3. \A d \in Calls, r \in Resources : r \in held'[d] => d # c /\ r \in held[d]
      BY <2>1 DEF Leave, TypeOK
    <2>4. \A d \in Calls, r \in Resources : d # c => <<d, r>> \notin LeasesOf(c)
      BY DEF LeasesOf
    <2>5. \A r \in Resources : Leased'[r] \subseteq Leased[r]
      BY <2>2, <2>3, <2>4 DEF Leased
    <2> QED
      BY <2>5, EndingIsService DEF Service!Next
  <1>3. ASSUME NEW t \in Tasks, ReleaseByTask(t)
        PROVE  Service!Next
    <2>1. \A r \in Resources : Leased'[r] \subseteq Leased[r]
      BY <1>3 DEF ReleaseByTask, Leased
    <2> QED
      BY <2>1, EndingIsService DEF Service!Next
  <1>4. CASE UNCHANGED <<held, revoked>>
    BY <1>4 DEF Leased
  <1> QED
    BY <1>1, <1>2, <1>3, <1>4 DEF Next, Request, Tick, vars

(***************************************************************************)
(* The lock manager, with its table, its polling, its reference counts and *)
(* its evictions, implements the lock service on standing leases.          *)
(***************************************************************************)
THEOREM ServiceImplemented == Spec => ImplementsService
  <1>1. Init => RevokedIsHeld
    BY DEF Init, RevokedIsHeld
  <1>2. Init => Service!Init
    BY DEF Init, Leased, Service!Init
  <1>3. Spec => []RevokedIsHeld
    BY <1>1, TypeCorrect, RevokedIsHeldStep, PTL DEF Spec
  <1>4. Spec => []TypeOK /\ []LeaseExclusive
    BY TypeCorrect, Exclusive, PTL
  <1> QED
    BY <1>2, <1>3, <1>4, ServiceStep, PTL DEF Spec, ImplementsService, Service!Spec
=============================================================================
