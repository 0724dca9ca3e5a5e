--------------------------- MODULE ReadCacheProofs ---------------------------
(***************************************************************************)
(* Proofs about ReadCache: the safety properties of its run, for every     *)
(* set of files and every number of edits.                                 *)
(***************************************************************************)
EXTENDS ReadCache, TLAPS

(***************************************************************************)
(* Who is under way.  Outside a batch the turn reads nothing, what can be  *)
(* adopted is still running, and only files that can be guessed are read   *)
(* speculatively.                                                          *)
(***************************************************************************)
ReadersInv ==
  /\ AdoptedIsRunning
  /\ batch # "running" => \A p \in Paths : turn[p] = "idle"
  /\ \A p \in Paths : p \in job => spec[p] # "idle"
  /\ \A p \in Paths \ Predicted : spec[p] = "idle"

(***************************************************************************)
(* How old things can be.  What the handler has read is at least as new as *)
(* the cached entry, which was stored before that handler started, and     *)
(* both are at least as new as what a read through the cache last          *)
(* returned; nothing is newer than the disk.                               *)
(***************************************************************************)
AgesInv ==
  \A p \in Paths :
    /\ flushed[p] <= disk[p]
    /\ last[p] <= disk[p]
    /\ cache[p] # None => last[p] <= cache[p] /\ cache[p] <= disk[p]
    /\ handler[p] \in Version =>
         /\ last[p] <= handler[p] /\ handler[p] <= disk[p]
         /\ cache[p] <= handler[p]

(***************************************************************************)
(* A file nobody guesses at is read by nobody at the end of a batch, so    *)
(* whatever is read after an invalidation was fetched after it.            *)
(***************************************************************************)
FreshInv ==
  /\ NothingOlderThanFlush
  /\ \A p \in Paths \ Predicted : handler[p] \in Version => flushed[p] <= handler[p]

ReadInv == ReadersInv /\ AgesInv /\ FreshInv

(***************************************************************************)
(* The steps that concern one path.                                        *)
(***************************************************************************)
PathStep(p) ==
  ReadStep(p) \/ EditSucceeds(p) \/ EditFails(p) \/ Speculate(p) \/ Expire(p)

(***************************************************************************)
(* What an answer with version v changes: the entries of the path alone,   *)
(* and the newest version returned only upwards.                           *)
(***************************************************************************)
Recorded(p, v) ==
  /\ answer' \in [Paths -> Version \cup {None}]
  /\ last' \in [Paths -> Version]
  /\ \A q \in Paths : answer'[q] = answer[q] \/ (q = p /\ answer'[q] = v)
  /\ \A q \in Paths : last'[q] = last[q] \/ (q = p /\ last'[q] = Newest(last[q], v))

(***************************************************************************)
(* An answer records no more than its version, for no path but its own.    *)
(***************************************************************************)
LEMMA AnsweredMeaning ==
  ASSUME TypeOK, NEW p \in Paths, NEW S \in SUBSET {p}, NEW v \in Version,
         Answered(S, p, v)
  PROVE  Recorded(p, v)
<1> USE DEF Recorded
<1>1. /\ answer \in [Paths -> Version \cup {None}] /\ last \in [Paths -> Version]
      /\ last[p] \in Version
  BY DEF TypeOK
<1>2. Newest(last[p], v) \in Version
  BY <1>1 DEF Newest
<1>3. CASE S = {p}
  <2>1. /\ answer' = [answer EXCEPT ![p] = v]
        /\ last' = [last EXCEPT ![p] = Newest(last[p], v)]
    BY <1>3 DEF Answered
  <2> QED BY <1>1, <1>2, <1>3, <2>1
<1>4. CASE S = {}
  BY <1>1, <1>4 DEF Answered
<1> QED BY <1>3, <1>4

(***************************************************************************)
(* A cache hit records the cached version, whoever asked.                  *)
(***************************************************************************)
LEMMA HitRecords ==
  ASSUME TypeOK, NEW p \in Paths, TurnHit(p) \/ SpecHit(p)
  PROVE  cache[p] \in Version /\ Recorded(p, cache[p])
<1>1. cache[p] \in Version
  BY DEF TypeOK, TurnHit, SpecHit
<1>2. \E S \in SUBSET {p} : Answered(S, p, cache[p])
  <2>1. CASE TurnHit(p)
    BY <2>1 DEF TurnHit
  <2>2. CASE SpecHit(p)
    BY <2>2 DEF SpecHit, Adopters
  <2> QED BY <2>1, <2>2
<1> QED
  BY <1>1, <1>2, AnsweredMeaning

(***************************************************************************)
(* A handler that settles records the version it read.                     *)
(***************************************************************************)
LEMMA ReadRecords ==
  ASSUME TypeOK, NEW p \in Paths, ReadSucceeds(p)
  PROVE  handler[p] \in Version /\ Recorded(p, handler[p])
<1>1. handler[p] \in Version /\ Answered(Awaiters(p), p, handler[p])
  BY DEF ReadSucceeds
<1>2. Awaiters(p) \in SUBSET {p}
  BY DEF Awaiters
<1> QED
  BY <1>1, <1>2, AnsweredMeaning

(***************************************************************************)
(* Every step keeps the types.                                             *)
(***************************************************************************)
LEMMA ReadTypeStep ==
  ASSUME TypeOK, [Next]_vars
  PROVE  TypeOK'
<1> USE CacheAssumption DEF None, Started, Version, CallState, TypeOK
<1>1. ASSUME NEW R \in SUBSET Paths, NEW E \in SUBSET Paths, NEW D \in SUBSET R,
             StartBatch(R, E, D)
      PROVE  TypeOK'
  BY <1>1 DEF StartBatch
<1>2. ASSUME NEW p \in Paths, PathStep(p) PROVE TypeOK'
  <2>1. CASE TurnHit(p)
    <3>1. cache[p] \in Version /\ Recorded(p, cache[p])
      BY <1>2, <2>1, HitRecords
    <3> QED BY <1>2, <2>1, <3>1 DEF TurnHit, Recorded
  <2>2. CASE TurnMiss(p)
    BY <1>2, <2>2 DEF TurnMiss
  <2>3. CASE TurnRefused(p)
    BY <1>2, <2>3 DEF TurnRefused
  <2>4. CASE TurnRun(p)
    BY <1>2, <2>4 DEF TurnRun, Joined
  <2>5. CASE SpecHit(p)
    <3>1. cache[p] \in Version /\ Recorded(p, cache[p])
      BY <1>2, <2>5, HitRecords
    <3> QED BY <1>2, <2>5, <3>1 DEF SpecHit, Adopters, Recorded
  <2>6. CASE SpecMiss(p)
    BY <1>2, <2>6 DEF SpecMiss
  <2>7. CASE SpecRefused(p)
    BY <1>2, <2>7 DEF SpecRefused, Adopters
  <2>8. CASE SpecRun(p)
    BY <1>2, <2>8 DEF SpecRun, Joined
  <2>9. CASE Fetch(p)
    BY <1>2, <2>9 DEF Fetch
  <2>10. CASE ReadSucceeds(p)
    <3>1. handler[p] \in Version /\ Recorded(p, handler[p])
      BY <1>2, <2>10, ReadRecords
    <3> QED BY <1>2, <2>10, <3>1 DEF ReadSucceeds, Settled, Awaiters, Recorded
  <2>11. CASE ReadFails(p)
    BY <1>2, <2>11 DEF ReadFails, Settled, Awaiters
  <2>12. CASE EditSucceeds(p)
    BY <1>2, <2>12 DEF EditSucceeds
  <2>13. CASE EditFails(p)
    BY <1>2, <2>13 DEF EditFails
  <2>14. CASE Speculate(p)
    BY <1>2, <2>14 DEF Speculate
  <2>15. CASE Expire(p)
    BY <1>2, <2>15 DEF Expire
  <2>16. CASE DependentAdopts(p)
    BY <1>2, <2>16 DEF DependentAdopts
  <2>17. CASE DependentRuns(p)
    BY <1>2, <2>17 DEF DependentRuns
  <2>18. CASE AloneReads(p)
    BY <1>2, <2>18 DEF AloneReads
  <2> QED
    BY <1>2, <2>1, <2>2, <2>3, <2>4, <2>5, <2>6, <2>7, <2>8, <2>9, <2>10, <2>11, <2>12,
       <2>13, <2>14, <2>15, <2>16, <2>17, <2>18 DEF PathStep, ReadStep
<1>3. ASSUME EndBatch PROVE TypeOK'
  BY <1>3 DEF EndBatch, InvalidateCaches, RoundForgotten
<1>4. ASSUME StopBatch PROVE TypeOK'
  BY <1>4 DEF StopBatch, RoundForgotten
<1>5. ASSUME NewTurn PROVE TypeOK'
  BY <1>5 DEF NewTurn
<1>6. ASSUME UNCHANGED vars PROVE TypeOK'
  BY <1>6 DEF vars
<1> QED
  BY <1>1, <1>2, <1>3, <1>4, <1>5, <1>6 DEF Next, BatchStep, PathStep

(***************************************************************************)
(* Every step keeps the bookkeeping of the readers under way.              *)
(***************************************************************************)
LEMMA ReadersStep ==
  ASSUME TypeOK', ReadersInv, [Next]_vars
  PROVE  ReadersInv'
<1> USE CacheAssumption DEF None, Started, Version, CallState, TypeOK,
        AdoptedIsRunning, ReadersInv
<1>1. ASSUME NEW R \in SUBSET Paths, NEW E \in SUBSET Paths, NEW D \in SUBSET R,
             StartBatch(R, E, D)
      PROVE  ReadersInv'
  BY <1>1 DEF StartBatch
<1>2. ASSUME NEW p \in Paths, PathStep(p) PROVE ReadersInv'
  <2>1. CASE TurnHit(p)
    BY <1>2, <2>1 DEF TurnHit, Answered
  <2>2. CASE TurnMiss(p)
    BY <1>2, <2>2 DEF TurnMiss
  <2>3. CASE TurnRefused(p)
    BY <1>2, <2>3 DEF TurnRefused
  <2>4. CASE TurnRun(p)
    BY <1>2, <2>4 DEF TurnRun, Joined
  <2>5. CASE SpecHit(p)
    BY <1>2, <2>5 DEF SpecHit, Adopters, Answered
  <2>6. CASE SpecMiss(p)
    BY <1>2, <2>6 DEF SpecMiss
  <2>7. CASE SpecRefused(p)
    BY <1>2, <2>7 DEF SpecRefused, Adopters
  <2>8. CASE SpecRun(p)
    BY <1>2, <2>8 DEF SpecRun, Joined
  <2>9. CASE Fetch(p)
    BY <1>2, <2>9 DEF Fetch
  <2>10. CASE ReadSucceeds(p)
    BY <1>2, <2>10 DEF ReadSucceeds, Settled, Awaiters, Answered
  <2>11. CASE ReadFails(p)
    BY <1>2, <2>11 DEF ReadFails, Settled, Awaiters
  <2>12. CASE EditSucceeds(p)
    BY <1>2, <2>12 DEF EditSucceeds
  <2>13. CASE EditFails(p)
    BY <1>2, <2>13 DEF EditFails
  <2>14. CASE Speculate(p)
    BY <1>2, <2>14 DEF Speculate
  <2>15. CASE Expire(p)
    BY <1>2, <2>15 DEF Expire
  <2>16. CASE DependentAdopts(p)
    BY <1>2, <2>16 DEF DependentAdopts
  <2>17. CASE DependentRuns(p)
    BY <1>2, <2>17 DEF DependentRuns
  <2>18. CASE AloneReads(p)
    BY <1>2, <2>18 DEF AloneReads
  <2> QED
    BY <1>2, <2>1, <2>2, <2>3, <2>4, <2>5, <2>6, <2>7, <2>8, <2>9, <2>10, <2>11, <2>12,
       <2>13, <2>14, <2>15, <2>16, <2>17, <2>18 DEF PathStep, ReadStep
<1>3. ASSUME EndBatch PROVE ReadersInv'
  BY <1>3 DEF EndBatch, InvalidateCaches, RoundForgotten
<1>4. ASSUME StopBatch PROVE ReadersInv'
  BY <1>4 DEF StopBatch, RoundForgotten
<1>5. ASSUME NewTurn PROVE ReadersInv'
  BY <1>5 DEF NewTurn
<1>6. ASSUME UNCHANGED vars PROVE ReadersInv'
  BY <1>6 DEF vars
<1> QED
  BY <1>1, <1>2, <1>3, <1>4, <1>5, <1>6 DEF Next, BatchStep, PathStep

(***************************************************************************)
(* Every step keeps the order of the versions.                             *)
(***************************************************************************)
LEMMA AgesStep ==
  ASSUME ReadersInv, AgesInv, [Next]_vars
  PROVE  AgesInv'
<1> USE CacheAssumption DEF None, Started, Version, CallState, TypeOK,
        AdoptedIsRunning, ReadersInv, AgesInv
<1>1. ASSUME NEW R \in SUBSET Paths, NEW E \in SUBSET Paths, NEW D \in SUBSET R,
             StartBatch(R, E, D)
      PROVE  AgesInv'
  BY <1>1 DEF StartBatch
<1>2. ASSUME NEW p \in Paths, PathStep(p) PROVE AgesInv'
  <2>1. CASE TurnHit(p)
    <3>1. cache[p] \in Version /\ Recorded(p, cache[p])
      BY <1>2, <2>1, HitRecords
    <3>2. last[p] \in Version /\ last[p] <= cache[p] /\ cache[p] <= disk[p]
      BY <1>2, <2>1 DEF TurnHit
    <3>3. Newest(last[p], cache[p]) = cache[p]
      BY <3>1, <3>2 DEF Newest
    <3> QED BY <1>2, <2>1, <3>1, <3>2, <3>3 DEF TurnHit, Recorded
  <2>2. CASE TurnMiss(p)
    BY <1>2, <2>2 DEF TurnMiss
  <2>3. CASE TurnRefused(p)
    BY <1>2, <2>3 DEF TurnRefused
  <2>4. CASE TurnRun(p)
    BY <1>2, <2>4 DEF TurnRun, Joined
  <2>5. CASE SpecHit(p)
    <3>1. cache[p] \in Version /\ Recorded(p, cache[p])
      BY <1>2, <2>5, HitRecords
    <3>2. last[p] \in Version /\ last[p] <= cache[p] /\ cache[p] <= disk[p]
      BY <1>2, <2>5 DEF SpecHit, Adopters
    <3>3. Newest(last[p], cache[p]) = cache[p]
      BY <3>1, <3>2 DEF Newest
    <3> QED BY <1>2, <2>5, <3>1, <3>2, <3>3 DEF SpecHit, Adopters, Recorded
  <2>6. CASE SpecMiss(p)
    BY <1>2, <2>6 DEF SpecMiss
  <2>7. CASE SpecRefused(p)
    BY <1>2, <2>7 DEF SpecRefused, Adopters
  <2>8. CASE SpecRun(p)
    BY <1>2, <2>8 DEF SpecRun, Joined
  <2>9. CASE Fetch(p)
    BY <1>2, <2>9 DEF Fetch
  <2>10. CASE ReadSucceeds(p)
    <3>1. handler[p] \in Version /\ Recorded(p, handler[p])
      BY <1>2, <2>10, ReadRecords
    <3>2. last[p] \in Version /\ last[p] <= handler[p] /\ handler[p] <= disk[p]
      BY <1>2, <2>10 DEF ReadSucceeds, Settled, Awaiters
    <3>3. Newest(last[p], handler[p]) = handler[p]
      BY <3>1, <3>2 DEF Newest
    <3> QED BY <1>2, <2>10, <3>1, <3>2, <3>3 DEF ReadSucceeds, Settled, Awaiters, Recorded
  <2>11. CASE ReadFails(p)
    BY <1>2, <2>11 DEF ReadFails, Settled, Awaiters
  <2>12. CASE EditSucceeds(p)
    BY <1>2, <2>12 DEF EditSucceeds
  <2>13. CASE EditFails(p)
    BY <1>2, <2>13 DEF EditFails
  <2>14. CASE Speculate(p)
    BY <1>2, <2>14 DEF Speculate
  <2>15. CASE Expire(p)
    BY <1>2, <2>15 DEF Expire
  <2>16. CASE DependentAdopts(p)
    BY <1>2, <2>16 DEF DependentAdopts
  <2>17. CASE DependentRuns(p)
    BY <1>2, <2>17 DEF DependentRuns
  <2>18. CASE AloneReads(p)
    BY <1>2, <2>18 DEF AloneReads
  <2> QED
    BY <1>2, <2>1, <2>2, <2>3, <2>4, <2>5, <2>6, <2>7, <2>8, <2>9, <2>10, <2>11, <2>12,
       <2>13, <2>14, <2>15, <2>16, <2>17, <2>18 DEF PathStep, ReadStep
<1>3. ASSUME EndBatch PROVE AgesInv'
  BY <1>3 DEF EndBatch, InvalidateCaches, RoundForgotten
<1>4. ASSUME StopBatch PROVE AgesInv'
  BY <1>4 DEF StopBatch, RoundForgotten
<1>5. ASSUME NewTurn PROVE AgesInv'
  BY <1>5 DEF NewTurn
<1>6. ASSUME UNCHANGED vars PROVE AgesInv'
  BY <1>6 DEF vars
<1> QED
  BY <1>1, <1>2, <1>3, <1>4, <1>5, <1>6 DEF Next, BatchStep, PathStep

(***************************************************************************)
(* Every step keeps what an invalidation separates.                        *)
(***************************************************************************)
LEMMA FreshStep ==
  ASSUME ReadInv, [Next]_vars
  PROVE  FreshInv'
<1> USE CacheAssumption DEF None, Started, Version, CallState, TypeOK,
        AdoptedIsRunning, ReadersInv, AgesInv, FreshInv,
        NothingOlderThanFlush, ReadInv
<1>1. ASSUME NEW R \in SUBSET Paths, NEW E \in SUBSET Paths, NEW D \in SUBSET R,
             StartBatch(R, E, D)
      PROVE  FreshInv'
  BY <1>1 DEF StartBatch
<1>2. ASSUME NEW p \in Paths, PathStep(p) PROVE FreshInv'
  <2>1. CASE TurnHit(p)
    <3>1. cache[p] \in Version /\ Recorded(p, cache[p])
      BY <1>2, <2>1, HitRecords
    <3> QED BY <1>2, <2>1, <3>1 DEF TurnHit, Recorded
  <2>2. CASE TurnMiss(p)
    BY <1>2, <2>2 DEF TurnMiss
  <2>3. CASE TurnRefused(p)
    BY <1>2, <2>3 DEF TurnRefused
  <2>4. CASE TurnRun(p)
    BY <1>2, <2>4 DEF TurnRun, Joined
  <2>5. CASE SpecHit(p)
    <3>1. cache[p] \in Version /\ Recorded(p, cache[p])
      BY <1>2, <2>5, HitRecords
    <3> QED BY <1>2, <2>5, <3>1 DEF SpecHit, Adopters, Recorded
  <2>6. CASE SpecMiss(p)
    BY <1>2, <2>6 DEF SpecMiss
  <2>7. CASE SpecRefused(p)
    BY <1>2, <2>7 DEF SpecRefused, Adopters
  <2>8. CASE SpecRun(p)
    BY <1>2, <2>8 DEF SpecRun, Joined
  <2>9. CASE Fetch(p)
    BY <1>2, <2>9 DEF Fetch
  <2>10. CASE ReadSucceeds(p)
    <3>1. handler[p] \in Version /\ Recorded(p, handler[p])
      BY <1>2, <2>10, ReadRecords
    <3> QED BY <1>2, <2>10, <3>1 DEF ReadSucceeds, Settled, Awaiters, Recorded
  <2>11. CASE ReadFails(p)
    BY <1>2, <2>11 DEF ReadFails, Settled, Awaiters
  <2>12. CASE EditSucceeds(p)
    BY <1>2, <2>12 DEF EditSucceeds
  <2>13. CASE EditFails(p)
    BY <1>2, <2>13 DEF EditFails
  <2>14. CASE Speculate(p)
    BY <1>2, <2>14 DEF Speculate
  <2>15. CASE Expire(p)
    BY <1>2, <2>15 DEF Expire
  <2>16. CASE DependentAdopts(p)
    BY <1>2, <2>16 DEF DependentAdopts
  <2>17. CASE DependentRuns(p)
    BY <1>2, <2>17 DEF DependentRuns
  <2>18. CASE AloneReads(p)
    BY <1>2, <2>18 DEF AloneReads
  <2> QED
    BY <1>2, <2>1, <2>2, <2>3, <2>4, <2>5, <2>6, <2>7, <2>8, <2>9, <2>10, <2>11, <2>12,
       <2>13, <2>14, <2>15, <2>16, <2>17, <2>18 DEF PathStep, ReadStep
<1>3. ASSUME EndBatch PROVE FreshInv'
  BY <1>3 DEF EndBatch, InvalidateCaches, RoundForgotten
<1>4. ASSUME StopBatch PROVE FreshInv'
  BY <1>4 DEF StopBatch, RoundForgotten
<1>5. ASSUME NewTurn PROVE FreshInv'
  BY <1>5 DEF NewTurn
<1>6. ASSUME UNCHANGED vars PROVE FreshInv'
  BY <1>6 DEF vars
<1> QED
  BY <1>1, <1>2, <1>3, <1>4, <1>5, <1>6 DEF Next, BatchStep, PathStep

(***************************************************************************)
(* The first state satisfies the invariant.                                *)
(***************************************************************************)
LEMMA ReadInit == Init => TypeOK /\ ReadInv
<1> SUFFICES ASSUME Init PROVE TypeOK /\ ReadInv
  OBVIOUS
<1> USE DEF Init, None, Started, Version, CallState
<1>1. TypeOK
  BY DEF TypeOK
<1>2. ReadersInv
  BY <1>1 DEF ReadersInv, AdoptedIsRunning
<1>3. AgesInv
  BY DEF AgesInv
<1>4. FreshInv
  BY DEF FreshInv, NothingOlderThanFlush
<1> QED
  BY <1>1, <1>2, <1>3, <1>4 DEF ReadInv

(***************************************************************************)
(* Every step keeps the invariant.                                         *)
(***************************************************************************)
LEMMA ReadStepInv == TypeOK /\ ReadInv /\ [Next]_vars => TypeOK' /\ ReadInv'
<1> SUFFICES ASSUME TypeOK, ReadInv, [Next]_vars PROVE TypeOK' /\ ReadInv'
  OBVIOUS
<1>1. TypeOK /\ TypeOK'
  BY ReadTypeStep
<1>2. ReadersInv /\ AgesInv /\ FreshInv
  BY DEF ReadInv
<1>3. ReadersInv'
  BY <1>1, <1>2, ReadersStep
<1>4. AgesInv'
  BY <1>2, <1>3, AgesStep
<1>5. FreshInv'
  BY FreshStep
<1> QED
  BY <1>1, <1>3, <1>4, <1>5 DEF ReadInv

(***************************************************************************)
(* Whatever is read, edited, expired or stopped, the invariant holds.      *)
(***************************************************************************)
THEOREM ReadInvariant == Spec => [](TypeOK /\ ReadInv)
  BY ReadInit, ReadStepInv, PTL DEF Spec

(***************************************************************************)
(* A round adopts only what still runs, and a handler is in flight exactly *)
(* while a call awaits it: the job of a speculation is dropped in the step *)
(* in which it settles (dispatcher.ts, PasteScheduler.inFlight).           *)
(***************************************************************************)
THEOREM AdoptedRuns == Spec => []AdoptedIsRunning
<1>1. TypeOK /\ ReadInv => AdoptedIsRunning
  BY DEF ReadInv, ReadersInv
<1> QED
  BY <1>1, ReadInvariant, PTL

(***************************************************************************)
(* No read of a file nobody guesses at is older than the last invalidation *)
(* of the cache, be it cached, coalesced or fetched.                       *)
(***************************************************************************)
THEOREM FreshAfterFlush == Spec => []NothingOlderThanFlush
<1>1. TypeOK /\ ReadInv => NothingOlderThanFlush
  BY DEF ReadInv, FreshInv
<1> QED
  BY <1>1, ReadInvariant, PTL

(***************************************************************************)
(* An answer that is new is what the cache, the handler or, for a read     *)
(* with prerequisites, the disk held.                                      *)
(***************************************************************************)
LEMMA AnswerSource ==
  ASSUME TypeOK, [Next]_vars, NEW q \in Paths, answer'[q] \notin {answer[q], None}
  PROVE  \/ cache[q] # None /\ answer'[q] = cache[q]
         \/ handler[q] \in Version /\ answer'[q] = handler[q]
         \/ answer'[q] = disk[q]
<1>1. ASSUME NEW p \in Paths, NEW v \in Version, Recorded(p, v)
      PROVE  p = q /\ answer'[q] = v
  BY <1>1 DEF Recorded
<1>2. ASSUME NEW p \in Paths, TurnHit(p) \/ SpecHit(p)
      PROVE  cache[q] # None /\ answer'[q] = cache[q]
  <2>1. cache[p] # None
    BY <1>2 DEF TurnHit, SpecHit
  <2> QED BY <1>1, <1>2, <2>1, HitRecords
<1>3. ASSUME NEW p \in Paths, ReadSucceeds(p)
      PROVE  handler[q] \in Version /\ answer'[q] = handler[q]
  BY <1>1, <1>3, ReadRecords
<1>4. ASSUME NEW p \in Paths, AloneReads(p)
      PROVE  answer'[q] = disk[q]
  BY <1>4 DEF AloneReads, TypeOK
<1>5. ASSUME answer' = answer PROVE FALSE
  BY <1>5
<1>6. ASSUME NEW p \in Paths,
             \/ TurnMiss(p) \/ TurnRefused(p) \/ TurnRun(p)
             \/ SpecMiss(p) \/ SpecRefused(p) \/ SpecRun(p)
             \/ DependentAdopts(p) \/ DependentRuns(p)
             \/ Fetch(p) \/ ReadFails(p) \/ EditSucceeds(p) \/ EditFails(p)
             \/ Speculate(p) \/ Expire(p)
      PROVE  answer' = answer
  BY <1>6 DEF TurnMiss, TurnRefused, TurnRun, SpecMiss, SpecRefused, SpecRun, Fetch,
              DependentAdopts, DependentRuns, ReadFails, EditSucceeds, EditFails, Speculate, Expire
<1>7. ASSUME NEW R \in SUBSET Paths, NEW E \in SUBSET Paths, NEW D \in SUBSET R,
             StartBatch(R, E, D)
      PROVE  answer' = answer
  BY <1>7 DEF StartBatch
<1>8. ASSUME NewTurn \/ UNCHANGED vars PROVE answer' = answer
  BY <1>8 DEF NewTurn, vars
<1>9. ASSUME EndBatch \/ StopBatch PROVE FALSE
  BY <1>9 DEF EndBatch, StopBatch, RoundForgotten
<1> QED
  BY <1>2, <1>3, <1>4, <1>5, <1>6, <1>7, <1>8, <1>9 DEF Next, BatchStep, ReadStep

(***************************************************************************)
(* No read returns less than a read through the cache has returned before  *)
(* it, be it cached, coalesced, adopted or dispatched past the cache.      *)
(***************************************************************************)
THEOREM CachedReadsCount == Spec => NoOlderThanCachedReads
<1> DEFINE Monotone ==
      \A p \in Paths : answer'[p] \notin {answer[p], None} => answer'[p] >= last[p]
<1>1. ASSUME TypeOK, ReadInv, [Next]_vars PROVE Monotone
  <2> SUFFICES ASSUME NEW q \in Paths, answer'[q] \notin {answer[q], None}
               PROVE  answer'[q] >= last[q]
    OBVIOUS
  <2>1. /\ cache[q] # None => last[q] <= cache[q]
        /\ handler[q] \in Version => last[q] <= handler[q]
        /\ last[q] <= disk[q]
    BY <1>1 DEF ReadInv, AgesInv
  <2>2. /\ cache[q] \in Nat \cup {None} /\ last[q] \in Nat
        /\ handler[q] \in Nat \cup {None, Started} /\ disk[q] \in Nat
    BY <1>1 DEF TypeOK, Version
  <2> QED BY <1>1, <2>1, <2>2, AnswerSource DEF None, Started, Version
<1> QED
  BY <1>1, ReadInvariant, PTL DEF Spec, NoOlderThanCachedReads
=============================================================================
