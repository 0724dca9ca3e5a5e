---------------------------- MODULE ToolRoundProofs ----------------------------
(***************************************************************************)
(* Proofs about ToolRound, for any calls, any graph, any budget and any    *)
(* size of the ledger: the order of calls, the vault budget, and what the  *)
(* playback of a failed round restores.                                    *)
(***************************************************************************)
EXTENDS ToolRound, FiniteSetTheorems, SequenceTheorems, WellFoundedInduction, TLAPS

USE RoundAssumption DEF RoundAssumption, Kinds, Rounds, Dispatched, Over, batchVars, undoVars

(***************************************************************************)
(* What the proofs need of the types, and where calls can be: one whose    *)
(* batch has not come is nowhere, every other call of the round somewhere. *)
(***************************************************************************)
CallsPlaced ==
  /\ calls \in SUBSET Calls /\ todo \in SUBSET calls
  /\ kind \in [Calls -> Kinds]
  /\ prereq \in [Calls -> SUBSET Calls] /\ \A c \in calls : prereq[c] \subseteq calls
  /\ at \in [Calls -> {"none"} \cup Dispatched]
  /\ \A c \in Calls : at[c] # "none" <=> c \in calls \ todo
  /\ vaultWrites \in Nat

(***************************************************************************)
(* The calls of the next batch are among those that remain.                *)
(***************************************************************************)
LEMMA BatchRemains ==
  ASSUME NEW rem, NEW pre
  PROVE  NextBatch(rem, pre) \subseteq rem
  BY DEF NextBatch

LEMMA PlacedStep == CallsPlaced /\ [RoundNext]_roundVars => CallsPlaced'
  <1> SUFFICES ASSUME CallsPlaced, [RoundNext]_roundVars
               PROVE  CallsPlaced'
    OBVIOUS
  <1>1. ASSUME NEW K \in SUBSET Calls, NEW k \in [Calls -> Kinds],
               NEW pre \in [Calls -> SUBSET K], RoundBegins(K, k, pre)
        PROVE  CallsPlaced'
    <2>1. \A c \in Calls : at[c] = "none"
      BY <1>1 DEF RoundBegins, CallsPlaced
    <2>2. NextBatch(K, pre) \subseteq K
      BY BatchRemains
    <2>3. \A c \in Calls : at'[c] = (IF c \in NextBatch(K, pre)
                                     THEN IF k[c] = "edit_file" THEN "snapshot" ELSE "enter"
                                     ELSE at[c])
      BY <1>1 DEF RoundBegins, Dispatch
    <2>4. at' \in [Calls -> {"none"} \cup Dispatched]
      BY <1>1 DEF RoundBegins, Dispatch, CallsPlaced
    <2>5. calls' = K /\ kind' = k /\ prereq' = pre /\ todo' = K \ NextBatch(K, pre)
          /\ vaultWrites' = vaultWrites
      BY <1>1 DEF RoundBegins
    <2> QED
      BY <2>1, <2>2, <2>3, <2>4, <2>5 DEF CallsPlaced
  <1>2. ASSUME NextBatchBegins
        PROVE  CallsPlaced'
    <2>1. NextBatch(todo, prereq) \subseteq todo
      BY BatchRemains
    <2>2. \A c \in Calls : at'[c] = (IF c \in NextBatch(todo, prereq)
                                     THEN IF kind[c] = "edit_file" THEN "snapshot" ELSE "enter"
                                     ELSE at[c])
      BY <1>2 DEF NextBatchBegins, Dispatch
    <2>3. at' \in [Calls -> {"none"} \cup Dispatched]
      BY <1>2 DEF NextBatchBegins, Dispatch, CallsPlaced
    <2>4. UNCHANGED <<calls, kind, prereq, vaultWrites>> /\ todo' = todo \ NextBatch(todo, prereq)
      BY <1>2 DEF NextBatchBegins
    <2> QED
      BY <2>1, <2>2, <2>3, <2>4 DEF CallsPlaced
  <1>3. ASSUME NEW c \in calls, CallNext(c)
        PROVE  CallsPlaced'
    <2>1. UNCHANGED <<calls, todo, kind, prereq>>
      BY <1>3 DEF CallNext, Snapshot, Record, Enter, Succeeds, Fails
    <2>2. vaultWrites' \in Nat
      <3>1. vaultWrites' = vaultWrites \/ vaultWrites' = vaultWrites + 1 \/ vaultWrites' = vaultWrites + 0
        BY <1>3 DEF CallNext, Snapshot, Record, Enter, Succeeds, Fails
      <3> QED
        BY <3>1 DEF CallsPlaced
    <2>3. PICK p \in Dispatched : at' = [at EXCEPT ![c] = p]
      BY <1>3 DEF CallNext, Snapshot, Record, Enter, Succeeds, Fails
    <2>4. at[c] # "none"
      BY <1>3 DEF CallNext, Snapshot, Record, Enter, Succeeds, Fails
    <2> QED
      BY <2>1, <2>2, <2>3, <2>4 DEF CallsPlaced
  <1>4. ASSUME RoundOver
        PROVE  CallsPlaced'
    BY <1>4 DEF RoundOver, Idle, CallsPlaced
  <1>5. ASSUME NEW r \in playing, Restore(r) \/ PlaybackEnds(r)
        PROVE  CallsPlaced'
    BY <1>5 DEF Restore, PlaybackEnds, CallsPlaced
  <1>6. ASSUME TurnBegins
        PROVE  CallsPlaced'
    BY <1>6 DEF TurnBegins, ResetTurnCounters, CallsPlaced
  <1>7. CASE UNCHANGED roundVars
    BY <1>7 DEF roundVars, CallsPlaced
  <1>8. ASSUME NEW K \in SUBSET Calls, NEW edits \in SUBSET K, NEW E \in Graphs(K),
               RoundBegins(K, [c \in Calls |-> IF c \in edits THEN "edit_file" ELSE "vault_write"],
                           [c \in Calls |-> {d \in K : <<c, d>> \in E}])
        PROVE  CallsPlaced'
    <2> DEFINE k   == [c \in Calls |-> IF c \in edits THEN "edit_file" ELSE "vault_write"]
               pre == [c \in Calls |-> {d \in K : <<c, d>> \in E}]
    <2>1. k \in [Calls -> Kinds] /\ pre \in [Calls -> SUBSET K]
      OBVIOUS
    <2>2. RoundBegins(K, k, pre)
      BY <1>8
    <2> HIDE DEF k, pre
    <2> QED
      BY <1>1, <2>1, <2>2
  <1> QED
    BY <1>2, <1>3, <1>4, <1>5, <1>6, <1>7, <1>8 DEF RoundNext

(***************************************************************************)
(* Calls are where they belong.                                            *)
(***************************************************************************)
THEOREM PlacedCorrect == RoundSpec => []CallsPlaced
  <1>1. RoundInit => CallsPlaced
    BY DEF RoundInit, CallsPlaced
  <1> QED
    BY <1>1, PlacedStep, PTL DEF RoundSpec

-----------------------------------------------------------------------------
(***************************************************************************)
(* Among calls with ranks one has the least.                               *)
(***************************************************************************)
LEMMA LeastRank ==
  ASSUME NEW S, NEW T \in SUBSET S, T # {}, NEW rank \in [S -> Nat]
  PROVE  \E t \in T : \A u \in T : ~(rank[u] < rank[t])
  <1> DEFINE N == {rank[t] : t \in T}
  <1>1. N \subseteq Nat /\ N # {}
    OBVIOUS
  <1>2. PICK x \in N : \A y \in N : <<y, x>> \notin OpToRel(<, Nat)
    <2> HIDE DEF N
    <2> QED
      BY <1>1, NatLessThanWellFounded, WFMin, Zenon
  <1>3. \A y \in N : ~(y < x)
    <2> SUFFICES ASSUME NEW y \in N, y < x
                 PROVE  FALSE
      OBVIOUS
    <2>1. <<y, x>> \in Nat \X Nat
      BY <1>1
    <2>2. <<y, x>> \in OpToRel(<, Nat)
      BY <2>1, Zenon DEF OpToRel
    <2> QED
      BY <1>2, <2>2, Zenon
  <1> QED
    BY <1>3

(***************************************************************************)
(* The next batch of a graph without a cycle has no prerequisite left: if  *)
(* no call that remains were free, the one of least rank would need one of *)
(* less.                                                                   *)
(***************************************************************************)
LEMMA BatchIsFree ==
  ASSUME NEW K, NEW rem \in SUBSET K, NEW pre, NEW rank \in [K -> Nat],
         \A c \in K : \A p \in pre[c] : rank[p] < rank[c],
         NEW c \in NextBatch(rem, pre)
  PROVE  pre[c] \cap rem = {}
  <1>1. CASE \E t \in rem : pre[t] \cap rem = {}
    BY <1>1 DEF NextBatch
  <1>2. CASE \A t \in rem : pre[t] \cap rem # {}
    <2>1. rem # {}
      BY BatchRemains
    <2>2. \E t \in rem : \A u \in rem : ~(rank[u] < rank[t])
      BY <2>1, LeastRank
    <2>3. PICK t \in rem : \A u \in rem : ~(rank[u] < rank[t])
      BY <2>2
    <2>4. PICK p \in pre[t] : p \in rem
      BY <1>2
    <2> QED
      BY <2>3, <2>4
  <1> QED
    BY <1>1, <1>2

LEMMA AcyclicBatch ==
  ASSUME Acyclic, NEW rem \in SUBSET calls, NEW c \in NextBatch(rem, prereq)
  PROVE  prereq[c] \cap rem = {}
  <1>1. PICK rank \in [calls -> 1..Cardinality(calls)] :
          \A d \in calls : \A p \in prereq[d] : rank[p] < rank[d]
    BY DEF Acyclic
  <1>2. rank \in [calls -> Nat]
    OBVIOUS
  <1> QED
    BY <1>1, <1>2, BatchIsFree

LEMMA PrerequisitesStep ==
  CallsPlaced /\ PrerequisitesFirst /\ [RoundNext]_roundVars => PrerequisitesFirst'
  <1> SUFFICES ASSUME CallsPlaced, PrerequisitesFirst, [RoundNext]_roundVars
               PROVE  PrerequisitesFirst'
    OBVIOUS
  <1>1. CallsPlaced'
    BY PlacedStep
  <1> DEFINE Done(c) == c \in {"ok", "failed"}
  <1>2. ASSUME UNCHANGED <<calls, prereq>>,
               \A c \in calls : at[c] \in Dispatched <=> at'[c] \in Dispatched,
               \A c \in calls : Done(at[c]) => Done(at'[c])
        PROVE  PrerequisitesFirst'
    BY <1>2 DEF PrerequisitesFirst, Acyclic, CallsPlaced
  <1>3. ASSUME NEW K, NEW k, NEW pre, RoundBegins(K, k, pre)
        PROVE  PrerequisitesFirst'
    <2>1. \A c \in Calls : at[c] = "none"
      BY <1>3 DEF RoundBegins, CallsPlaced
    <2>2. calls' = K /\ prereq' = pre /\ todo' = K \ NextBatch(K, pre)
      BY <1>3 DEF RoundBegins
    <2>3. ASSUME Acyclic', NEW c \in calls', at'[c] \in Dispatched, NEW p \in prereq'[c]
          PROVE  FALSE
      <3>1. c \in NextBatch(calls', prereq')
        BY <1>1, <2>2, <2>3 DEF CallsPlaced
      <3>2. PICK rank \in [calls' -> 1..Cardinality(calls')] :
              \A d \in calls' : \A q \in prereq'[d] : rank[q] < rank[d]
        BY <2>3 DEF Acyclic
      <3>3. rank \in [calls' -> Nat]
        BY <3>2
      <3>4. prereq'[c] \cap calls' = {}
        BY <3>1, <3>2, <3>3, BatchIsFree
      <3> QED
        BY <1>1, <2>3, <3>4 DEF CallsPlaced
    <2> QED
      BY <2>3 DEF PrerequisitesFirst
  <1>4. ASSUME NextBatchBegins
        PROVE  PrerequisitesFirst'
    <2>1. UNCHANGED <<calls, prereq>> /\ todo' = todo \ NextBatch(todo, prereq)
      BY <1>4 DEF NextBatchBegins, batchVars
    <2>2. \A c \in calls \ todo : at'[c] = at[c] /\ Done(at[c])
      BY <1>4, BatchRemains DEF NextBatchBegins, Dispatch, CallsPlaced
    <2>3. ASSUME Acyclic, NEW c \in calls, at'[c] \in Dispatched, NEW p \in prereq[c]
          PROVE  Done(at'[p])
      <3>1. p \in calls
        BY DEF CallsPlaced
      <3>2. CASE c \in NextBatch(todo, prereq)
        <4>1. prereq[c] \cap todo = {}
          BY <2>3, <3>2, AcyclicBatch DEF CallsPlaced
        <4> QED
          BY <2>2, <3>1, <4>1
      <3>3. CASE c \notin NextBatch(todo, prereq)
        <4>1. c \in calls \ todo
          BY <1>1, <2>1, <2>3, <3>3 DEF CallsPlaced
        <4>2. at[c] \in Dispatched
          BY <2>2, <2>3, <4>1
        <4>3. Done(at[p])
          BY <2>3, <4>2 DEF PrerequisitesFirst
        <4> QED
          BY <2>2, <3>1, <4>3 DEF CallsPlaced
      <3> QED
        BY <3>2, <3>3
    <2> QED
      BY <2>1, <2>3 DEF PrerequisitesFirst, Acyclic
  <1>5. ASSUME NEW c \in calls, CallNext(c)
        PROVE  PrerequisitesFirst'
    <2>1. UNCHANGED <<calls, prereq>>
      BY <1>5 DEF CallNext, Snapshot, Record, Enter, Succeeds, Fails
    <2>2. PICK p \in Dispatched : at' = [at EXCEPT ![c] = p]
      BY <1>5 DEF CallNext, Snapshot, Record, Enter, Succeeds, Fails
    <2>3. at[c] \in Dispatched /\ ~Done(at[c])
      BY <1>5 DEF CallNext, Snapshot, Record, Enter, Succeeds, Fails
    <2>4. \A d \in calls : at'[d] = (IF d = c THEN p ELSE at[d])
      BY <2>2 DEF CallsPlaced
    <2> QED
      BY <1>2, <2>1, <2>3, <2>4
  <1>6. ASSUME RoundOver
        PROVE  PrerequisitesFirst'
    BY <1>6 DEF RoundOver, PrerequisitesFirst
  <1>7. ASSUME TurnBegins \/ UNCHANGED roundVars \/ \E r \in playing : Restore(r) \/ PlaybackEnds(r)
        PROVE  PrerequisitesFirst'
    BY <1>2, <1>7 DEF TurnBegins, ResetTurnCounters, Restore, PlaybackEnds, roundVars
  <1> QED
    BY <1>3, <1>4, <1>5, <1>6, <1>7 DEF RoundNext

(***************************************************************************)
(* Whatever the graph, if it has no cycle, prerequisites come first.       *)
(***************************************************************************)
THEOREM PrerequisitesCorrect == RoundSpec => []PrerequisitesFirst
  <1>1. RoundInit => PrerequisitesFirst
    BY DEF RoundInit, PrerequisitesFirst
  <1> QED
    BY <1>1, PlacedStep, PrerequisitesStep, PlacedCorrect, PTL DEF RoundSpec

-----------------------------------------------------------------------------
(***************************************************************************)
(* The vault_write calls that have passed the test and not been counted.   *)
(***************************************************************************)
Uncounted == {c \in Calls : at[c] = "run" /\ kind[c] = "vault_write"}

(***************************************************************************)
(* Counted and uncounted calls together pass the budget by less than a     *)
(* round's.                                                                *)
(***************************************************************************)
BudgetInv == vaultWrites + Cardinality(Uncounted) < VaultBudget + Cardinality(Calls)

LEMMA UncountedFinite ==
  /\ IsFiniteSet(Uncounted) /\ Cardinality(Uncounted) \in Nat
  /\ Cardinality(Calls) \in Nat /\ Cardinality(Uncounted) <= Cardinality(Calls)
  <1>1. Uncounted \in SUBSET Calls
    BY DEF Uncounted
  <1>2. IsFiniteSet(Uncounted) /\ Cardinality(Uncounted) <= Cardinality(Calls)
    BY <1>1, FS_Subset
  <1> QED
    BY <1>2, FS_CardinalityType

LEMMA UncountedFinitePrimed ==
  /\ IsFiniteSet(Uncounted') /\ Cardinality(Uncounted') \in Nat
  /\ Cardinality(Uncounted') <= Cardinality(Calls)
  <1>1. Uncounted' \in SUBSET Calls
    BY DEF Uncounted
  <1>2. IsFiniteSet(Uncounted') /\ Cardinality(Uncounted') <= Cardinality(Calls)
    BY <1>1, FS_Subset
  <1> QED
    BY <1>2, FS_CardinalityType

LEMMA BudgetStep == CallsPlaced /\ BudgetInv /\ [RoundNext]_roundVars => BudgetInv'
  <1> SUFFICES ASSUME CallsPlaced, BudgetInv, [RoundNext]_roundVars
               PROVE  BudgetInv'
    OBVIOUS
  <1>1. CallsPlaced'
    BY PlacedStep
  <1> USE DEF CallsPlaced
  <1>2. ASSUME Uncounted' \subseteq Uncounted, vaultWrites' = vaultWrites
        PROVE  BudgetInv'
    <2>1. Cardinality(Uncounted') <= Cardinality(Uncounted)
      BY <1>2, UncountedFinite, FS_Subset
    <2> QED
      BY <1>2, <2>1, UncountedFinite, UncountedFinitePrimed DEF BudgetInv
  <1>3. ASSUME vaultWrites' < VaultBudget
        PROVE  BudgetInv'
    BY <1>1, <1>3, UncountedFinite, UncountedFinitePrimed DEF BudgetInv
  <1>4. ASSUME NEW K, NEW k, NEW pre, RoundBegins(K, k, pre)
        PROVE  BudgetInv'
    <2>1. \A c \in Calls : at[c] = "none"
      BY <1>4 DEF RoundBegins
    <2>2. \A c \in Calls : at'[c] # "run"
      BY <1>4, <2>1 DEF RoundBegins, Dispatch
    <2> QED
      BY <1>2, <1>4, <2>2 DEF Uncounted, RoundBegins
  <1>5. ASSUME NextBatchBegins
        PROVE  BudgetInv'
    BY <1>2, <1>5 DEF Uncounted, NextBatchBegins, Dispatch
  <1>6. ASSUME NEW c \in calls, CallNext(c)
        PROVE  BudgetInv'
    <2>1. CASE Snapshot(c) \/ (\E tie \in BOOLEAN : Record(c, tie))
               \/ (\E changed \in BOOLEAN : Fails(c, changed))
      BY <1>2, <2>1 DEF Uncounted, Snapshot, Record, Fails
    <2>2. CASE Enter(c)
      <3>1. CASE kind[c] = "vault_write" /\ Admitted(c)
        BY <1>3, <2>2, <3>1 DEF Enter, Admitted
      <3>2. CASE kind[c] # "vault_write" \/ ~Admitted(c)
        BY <1>2, <2>2, <3>2 DEF Uncounted, Enter
      <3> QED
        BY <3>1, <3>2
    <2>3. CASE Succeeds(c) /\ kind[c] = "vault_write"
      <3>1. Uncounted' = Uncounted \ {c} /\ c \in Uncounted
        BY <2>3 DEF Uncounted, Succeeds
      <3>2. Cardinality(Uncounted') = Cardinality(Uncounted) - 1
        BY <3>1, UncountedFinite, FS_RemoveElement
      <3>3. vaultWrites' = vaultWrites + 1
        BY <2>3 DEF Succeeds
      <3> QED
        BY <3>2, <3>3, UncountedFinite DEF BudgetInv
    <2>4. CASE Succeeds(c) /\ kind[c] # "vault_write"
      <3>1. vaultWrites' = vaultWrites + 0 /\ Uncounted' \subseteq Uncounted
        BY <2>4 DEF Uncounted, Succeeds
      <3> QED
        BY <1>2, <3>1
    <2> QED
      BY <1>6, <2>1, <2>2, <2>3, <2>4 DEF CallNext
  <1>7. ASSUME RoundOver
        PROVE  BudgetInv'
    BY <1>2, <1>7 DEF Uncounted, RoundOver
  <1>8. ASSUME TurnBegins
        PROVE  BudgetInv'
    BY <1>3, <1>8 DEF TurnBegins, ResetTurnCounters
  <1>9. ASSUME UNCHANGED roundVars \/ \E r \in playing : Restore(r) \/ PlaybackEnds(r)
        PROVE  BudgetInv'
    BY <1>2, <1>9 DEF Uncounted, Restore, PlaybackEnds, roundVars
  <1> QED
    BY <1>4, <1>5, <1>6, <1>7, <1>8, <1>9 DEF RoundNext

(***************************************************************************)
(* The budget is passed by less than the calls of a round.                 *)
(***************************************************************************)
THEOREM BudgetCorrect == RoundSpec => []BudgetOvershoot
  <1>1. RoundInit => BudgetInv
    <2> SUFFICES ASSUME RoundInit
                 PROVE  BudgetInv
      OBVIOUS
    <2>1. Uncounted = {} /\ vaultWrites = 0
      BY DEF RoundInit, Uncounted
    <2>2. Cardinality(Uncounted) = 0
      BY <2>1, FS_EmptySet
    <2> QED
      BY <2>1, <2>2, UncountedFinite DEF BudgetInv
  <1>2. CallsPlaced /\ BudgetInv => BudgetOvershoot
    BY UncountedFinite DEF CallsPlaced, BudgetInv, BudgetOvershoot
  <1> QED
    BY <1>1, <1>2, PlacedStep, BudgetStep, PlacedCorrect, PTL DEF RoundSpec
-----------------------------------------------------------------------------
(***************************************************************************)
(* Sequences that list a finite set in the order of a relation.            *)
(***************************************************************************)

(***************************************************************************)
(* R puts the elements of S one after another.                             *)
(***************************************************************************)
Linear(S, R) ==
  /\ \A i \in S : <<i, i>> \notin R
  /\ \A i, j, k \in S : <<i, j>> \in R /\ <<j, k>> \in R => <<i, k>> \in R
  /\ \A i, j \in S : i # j => <<i, j>> \in R \/ <<j, i>> \in R

(***************************************************************************)
(* InOrder lists elements of S, as many as there are, and at last the one  *)
(* that all others come before.                                            *)
(***************************************************************************)
LEMMA InOrderMeaning ==
  ASSUME NEW S, IsFiniteSet(S), NEW R, Linear(S, R)
  PROVE  /\ Cardinality(S) \in Nat
         /\ InOrder(S, R) \in [1..Cardinality(S) -> S]
         /\ \A j \in S : (\A i \in S : i # j => <<i, j>> \in R)
                           => Cardinality(S) > 0 /\ InOrder(S, R)[Cardinality(S)] = j
  <1> DEFINE Pre(j) == {i \in S : <<i, j>> \in R}
             N      == Cardinality(S)
             rank   == [j \in S |-> Cardinality(Pre(j)) + 1]
  <1>1. N \in Nat
    BY FS_CardinalityType
  <1>2. \A T \in SUBSET S : IsFiniteSet(T) /\ Cardinality(T) \in Nat /\ Cardinality(T) <= N
    BY FS_Subset, FS_CardinalityType
  <1>3. ASSUME NEW i \in S, NEW j \in S, <<i, j>> \in R
        PROVE  Cardinality(Pre(i)) < Cardinality(Pre(j))
    <2>1. Pre(i) \in SUBSET Pre(j) /\ i \in Pre(j) /\ i \notin Pre(i)
      BY <1>3 DEF Linear
    <2>2. IsFiniteSet(Pre(j)) /\ Cardinality(Pre(i)) \in Nat /\ Cardinality(Pre(j)) \in Nat
      BY <1>2
    <2> HIDE DEF Pre
    <2>3. Cardinality(Pre(i)) <= Cardinality(Pre(j)) /\ Cardinality(Pre(i)) # Cardinality(Pre(j))
      BY <2>1, <2>2, FS_Subset
    <2> QED
      BY <2>2, <2>3
  <1>4. \A i, j \in S : Cardinality(Pre(i)) = Cardinality(Pre(j)) => i = j
    <2> SUFFICES ASSUME NEW i \in S, NEW j \in S, Cardinality(Pre(i)) = Cardinality(Pre(j)), i # j
                 PROVE  FALSE
      BY Zenon
    <2>1. <<i, j>> \in R \/ <<j, i>> \in R
      BY DEF Linear
    <2>2. Cardinality(Pre(i)) \in Nat /\ Cardinality(Pre(j)) \in Nat
      BY <1>2
    <2> HIDE DEF Pre
    <2> QED
      BY <1>3, <2>1, <2>2
  <1>5. ASSUME NEW j \in S PROVE Cardinality(Pre(j)) \in Nat /\ Cardinality(Pre(j)) < N
    <2>1. Pre(j) \in SUBSET S /\ j \notin Pre(j)
      BY DEF Linear
    <2> HIDE DEF Pre
    <2> QED
      BY <1>1, <1>2, <2>1, FS_Subset
  <1>6. \A n \in 1..N : \E j \in S : Cardinality(Pre(j)) = n - 1
    <2>1. rank \in [S -> 1..N]
      <3> HIDE DEF Pre, N
      <3> QED
        BY <1>1, <1>5
    <2>2. \A i, j \in S : rank[i] = rank[j] => i = j
      <3> HIDE DEF Pre, N
      <3> QED
        BY <1>4, <1>5
    <2>3. IsFiniteSet(1..N) /\ Cardinality(1..N) = N
      <3> HIDE DEF N
      <3> QED
        BY <1>1, FS_Interval
    <2>4. rank \in Injection(S, 1..N)
      <3> HIDE DEF rank, N
      <3> QED
        BY <2>1, <2>2 DEF Injection, IsInjective
    <2>5. rank \in Surjection(S, 1..N)
      <3> HIDE DEF rank
      <3> QED
        BY <2>3, <2>4, FS_Injection
    <2>6. \A n \in 1..N : \E j \in S : rank[j] = n
      <3> HIDE DEF rank, N
      <3> QED
        BY <2>5 DEF Surjection
    <2> SUFFICES ASSUME NEW n \in 1..N
                 PROVE  \E j \in S : Cardinality(Pre(j)) = n - 1
      OBVIOUS
    <2>7. PICK j \in S : rank[j] = n
      BY <2>6
    <2>8. Cardinality(Pre(j)) + 1 = n /\ Cardinality(Pre(j)) \in Nat
      BY <1>5, <2>7
    <2> HIDE DEF Pre, N
    <2> QED
      BY <1>1, <2>8
  <1>7. \A n \in 1..N : /\ InOrder(S, R)[n] \in S
                        /\ Cardinality(Pre(InOrder(S, R)[n])) = n - 1
    <2> SUFFICES ASSUME NEW n \in 1..N
                 PROVE  /\ InOrder(S, R)[n] \in S
                        /\ Cardinality(Pre(InOrder(S, R)[n])) = n - 1
      OBVIOUS
    <2>1. InOrder(S, R)[n] = CHOOSE j \in S : Cardinality(Pre(j)) = n - 1
      BY DEF InOrder
    <2> HIDE DEF Pre, N
    <2> QED
      BY <1>6, <2>1
  <1>8. InOrder(S, R) \in [1..N -> S]
    BY <1>7 DEF InOrder
  <1>9. ASSUME NEW j \in S, \A i \in S : i # j => <<i, j>> \in R
        PROVE  N > 0 /\ InOrder(S, R)[N] = j
    <2>1. Pre(j) = S \ {j}
      BY <1>9 DEF Linear
    <2>2. Cardinality(Pre(j)) = N - 1
      <3> HIDE DEF Pre
      <3> QED
        BY <2>1, FS_RemoveElement
    <2>3. Cardinality(Pre(j)) \in Nat
      BY <1>5
    <2>4. N > 0 /\ N \in 1..N
      <3> HIDE DEF Pre, N
      <3> QED
        BY <1>1, <2>2, <2>3
    <2> DEFINE l == InOrder(S, R)[N]
    <2>5. l \in S /\ Cardinality(Pre(l)) = N - 1
      BY <1>7, <2>4
    <2> HIDE DEF Pre, l
    <2>6. l = j
      BY <1>4, <2>2, <2>5
    <2> QED
      BY <2>4, <2>6 DEF l
  <1> QED
    BY <1>1, <1>8, <1>9

(***************************************************************************)
(* A sequence over some values is one over more of them.                   *)
(***************************************************************************)
LEMMA Widens ==
  ASSUME NEW A, NEW B, A \subseteq B, NEW s \in Seq(A)
  PROVE  s \in Seq(B)
  OBVIOUS

(***************************************************************************)
(* A function on the first numbers is a sequence.                          *)
(***************************************************************************)
LEMMA IsSequence ==
  ASSUME NEW A, NEW n \in Nat, NEW s \in [1..n -> A]
  PROVE  s \in Seq(A) /\ Len(s) = n
  OBVIOUS

(***************************************************************************)
(* Taking the head of a sequence leaves its last element where it was.     *)
(***************************************************************************)
LEMMA HeadAndTail ==
  ASSUME NEW A, NEW s \in Seq(A), s # <<>>
  PROVE  /\ Len(s) \in Nat \ {0} /\ Head(s) = s[1] /\ Head(s) \in A
         /\ Tail(s) \in Seq(A) /\ Len(Tail(s)) = Len(s) - 1
         /\ Tail(s) = <<>> <=> Len(s) = 1
         /\ Len(s) > 1 => Tail(s)[Len(s) - 1] = s[Len(s)]
  <1>1. Len(s) \in Nat /\ Len(s) # 0
    OBVIOUS
  <1>2. Head(s) = s[1] /\ Head(s) \in A
    BY <1>1
  <1>3. Tail(s) \in Seq(A) /\ Len(Tail(s)) = Len(s) - 1
    BY <1>1
  <1>4. Tail(s) = <<>> <=> Len(s) = 1
    <2> DEFINE t == Tail(s)
    <2>1. t \in Seq(A) /\ Len(t) = Len(s) - 1
      BY <1>3
    <2> HIDE DEF t
    <2>2. t = <<>> <=> Len(t) = 0
      BY <2>1, EmptySeq
    <2>3. t = <<>> <=> Len(s) = 1
      BY <1>1, <2>1, <2>2
    <2> QED
      BY <2>3 DEF t
  <1>5. Len(s) > 1 => Tail(s)[Len(s) - 1] = s[Len(s)]
    BY <1>1
  <1> QED
    BY <1>1, <1>2, <1>3, <1>4, <1>5

-----------------------------------------------------------------------------
(***************************************************************************)
(* The types, as tight as playback needs them: entries are of rounds begun *)
(* and of contents written, and the round that runs has no playback yet.   *)
(***************************************************************************)
Entries == [step : 1..round, tie : BOOLEAN, content : 1..contents]

UndoTyped ==
  /\ round \in 0..MaxRounds
  /\ calls # {} => round \in Rounds /\ round \notin playing
  /\ contents \in Nat /\ file \in 1..contents
  /\ seen \in [Calls -> 0..contents]
  /\ \A c \in Calls : at[c] = "record" => seen[c] # 0
  /\ ledger \in Seq(Entries) /\ Len(ledger) <= MaxActions
  /\ play \in [Rounds -> Seq(1..contents)] /\ playing \in SUBSET (1..round)
  /\ before \in [Rounds -> Nat] /\ disturbed \in SUBSET Rounds

(***************************************************************************)
(* The ledger's entries, one by one.                                       *)
(***************************************************************************)
LEMMA LedgerMeaning ==
  ASSUME UndoTyped
  PROVE  /\ Len(ledger) \in Nat /\ DOMAIN ledger = 1..Len(ledger)
         /\ IsFiniteSet(DOMAIN ledger) /\ Cardinality(DOMAIN ledger) = Len(ledger)
         /\ \A i \in DOMAIN ledger : /\ ledger[i] \in Entries
                                     /\ ledger[i].step \in 1..round
                                     /\ ledger[i].content \in 1..contents
  <1>1. ledger \in Seq(Entries) /\ Len(ledger) \in Nat /\ DOMAIN ledger = 1..Len(ledger)
    BY DEF UndoTyped
  <1>2. \A n \in Nat : IsFiniteSet(1..n) /\ Cardinality(1..n) = n
    BY FS_Interval
  <1>3. \A i \in DOMAIN ledger : ledger[i] \in Entries
    BY <1>1
  <1> QED
    BY <1>1, <1>2, <1>3 DEF Entries

(***************************************************************************)
(* An entry has the time of the one before it all along, or not.           *)
(***************************************************************************)
LEMMA SameTimeJoins ==
  ASSUME NEW i \in Int, NEW j \in Int, NEW k \in Int, i <= j, j <= k
  PROVE  SameTime(i, k) <=> SameTime(i, j) /\ SameTime(j, k)
  <1>1. \A n : n \in (i + 1)..k <=> n \in (i + 1)..j \/ n \in (j + 1)..k
    OBVIOUS
  <1> QED
    BY <1>1 DEF SameTime

(***************************************************************************)
(* Playback orders the entries of a step, and what it leaves keeps its     *)
(* order.                                                                  *)
(***************************************************************************)
LEMMA SoonerIsLinear ==
  ASSUME UndoTyped, NEW r
  PROVE  Linear(Relevant(r), Sooner)
  <1>1. \A i, j \in Relevant(r) :
          <<i, j>> \in Sooner <=> \/ i < j /\ SameTime(i, j)
                                  \/ j < i /\ ~SameTime(j, i)
    BY DEF Relevant, Sooner, Together
  <1>2. \A i \in Relevant(r) : i \in Int
    BY LedgerMeaning DEF Relevant
  <1>3. \A i \in Relevant(r) : <<i, i>> \notin Sooner
    BY <1>1, <1>2
  <1>4. ASSUME NEW i \in Relevant(r), NEW j \in Relevant(r), NEW k \in Relevant(r),
               <<i, j>> \in Sooner, <<j, k>> \in Sooner
        PROVE  <<i, k>> \in Sooner
    <2>1. i \in Int /\ j \in Int /\ k \in Int
      BY <1>2
    <2>2. (i < j /\ SameTime(i, j)) \/ (j < i /\ ~SameTime(j, i))
      BY <1>1, <1>4
    <2>3. (j < k /\ SameTime(j, k)) \/ (k < j /\ ~SameTime(k, j))
      BY <1>1, <1>4
    <2>4. ASSUME NEW a \in Int, NEW b \in Int, NEW c \in Int, a <= b, b <= c
          PROVE  SameTime(a, c) <=> SameTime(a, b) /\ SameTime(b, c)
      BY <2>4, SameTimeJoins
    <2>5. CASE i < j /\ j < k
      BY <1>1, <2>1, <2>2, <2>3, <2>4, <2>5
    <2>6. CASE j < i /\ k < j
      BY <1>1, <2>1, <2>2, <2>3, <2>4, <2>6
    <2>7. CASE i < j /\ k < j
      <3>1. i # k
        BY <2>1, <2>2, <2>3, <2>7
      <3>2. CASE i < k
        BY <1>1, <2>1, <2>2, <2>3, <2>4, <2>7, <3>2
      <3>3. CASE k < i
        BY <1>1, <2>1, <2>2, <2>3, <2>4, <2>7, <3>3
      <3> QED
        BY <2>1, <3>1, <3>2, <3>3
    <2>8. CASE j < i /\ j < k
      <3>1. i # k
        BY <2>1, <2>2, <2>3, <2>8
      <3>2. CASE i < k
        BY <1>1, <2>1, <2>2, <2>3, <2>4, <2>8, <3>2
      <3>3. CASE k < i
        BY <1>1, <2>1, <2>2, <2>3, <2>4, <2>8, <3>3
      <3> QED
        BY <2>1, <3>1, <3>2, <3>3
    <2> QED
      BY <2>1, <2>2, <2>3, <2>5, <2>6, <2>7, <2>8
  <1>5. \A i, j \in Relevant(r) : i # j => <<i, j>> \in Sooner \/ <<j, i>> \in Sooner
    BY <1>1, <1>2
  <1> QED
    BY <1>3, <1>4, <1>5 DEF Linear

LEMMA EarlierIsLinear ==
  ASSUME UndoTyped, NEW S \in SUBSET (DOMAIN ledger)
  PROVE  Linear(S, Earlier)
  <1>1. \A i \in S : i \in Int
    BY LedgerMeaning
  <1>2. \A i, j \in S : <<i, j>> \in Earlier <=> i < j
    BY DEF Earlier
  <1> QED
    BY <1>1, <1>2 DEF Linear

(***************************************************************************)
(* Playback restores contents there have been; where all times differ, the *)
(* first entry's at last.                                                  *)
(***************************************************************************)
LEMMA PlaybackMeaning ==
  ASSUME UndoTyped, NEW r, Relevant(r) # {}
  PROVE  /\ Playback(r) \in Seq(1..contents)
         /\ \A j \in Relevant(r) :
              Timestamped(r) /\ (\A i \in Relevant(r) : j <= i)
                => /\ Playback(r) # <<>>
                   /\ Playback(r)[Len(Playback(r))] = ledger[j].content
  <1> DEFINE S     == Relevant(r)
             N     == Cardinality(S)
             order == InOrder(S, Sooner)
  <1>1. S \in SUBSET (DOMAIN ledger) /\ IsFiniteSet(S) /\ Linear(S, Sooner)
    <2>1. S \in SUBSET (DOMAIN ledger)
      BY DEF Relevant
    <2> QED
      BY <2>1, LedgerMeaning, SoonerIsLinear, FS_Subset
  <1>2. /\ N \in Nat /\ order \in [1..N -> S]
        /\ \A j \in S : (\A i \in S : i # j => <<i, j>> \in Sooner)
                          => N > 0 /\ order[N] = j
    <2> HIDE DEF S
    <2> QED
      BY <1>1, InOrderMeaning
  <1>3. Playback(r) = [n \in 1..N |-> ledger[order[n]].content]
    BY <1>2 DEF Playback
  <1>4. \A n \in 1..N : ledger[order[n]].content \in 1..contents
    <2>1. \A n \in 1..N : order[n] \in DOMAIN ledger
      BY <1>1, <1>2
    <2> QED
      BY <2>1, LedgerMeaning
  <1> HIDE DEF order, N
  <1>5. Playback(r) \in [1..N -> 1..contents]
    BY <1>3, <1>4
  <1>6. Playback(r) \in Seq(1..contents) /\ Len(Playback(r)) = N
    <2>1. N \in Nat
      BY <1>2
    <2> QED
      BY <1>5, <2>1, IsSequence
  <1>7. ASSUME NEW j \in S, Timestamped(r), \A i \in S : j <= i
        PROVE  Playback(r) # <<>> /\ Playback(r)[Len(Playback(r))] = ledger[j].content
    <2>1. ASSUME NEW i \in S, i # j PROVE <<i, j>> \in Sooner
      <3>1. i \in Int /\ j \in Int /\ j <= i
        BY <1>1, <1>7, LedgerMeaning
      <3>2. j < i
        BY <2>1, <3>1
      <3>3. ~SameTime(j, i)
        BY <1>7, <3>2 DEF Timestamped
      <3>4. i \in DOMAIN ledger /\ j \in DOMAIN ledger
        BY <1>1
      <3> QED
        BY <3>2, <3>3, <3>4 DEF Sooner, Together
    <2>2. N > 0 /\ order[N] = j
      BY <1>2, <2>1
    <2>3. N \in 1..N
      BY <1>2, <2>2
    <2>4. Playback(r)[N] = ledger[j].content
      BY <1>3, <2>2, <2>3
    <2> QED
      BY <1>6, <2>2, <2>4
  <1> QED
    BY <1>6, <1>7

(***************************************************************************)
(* What playback leaves are entries of the ledger, and no more of them.    *)
(***************************************************************************)
LEMMA WithoutMeaning ==
  ASSUME UndoTyped, NEW r
  PROVE  /\ Without(r) \in Seq(Entries)
         /\ Len(Without(r)) <= Len(ledger)
  <1> DEFINE S    == {i \in DOMAIN ledger : ledger[i].step # r}
             N    == Cardinality(S)
             kept == InOrder(S, Earlier)
  <1>1. S \in SUBSET (DOMAIN ledger)
    OBVIOUS
  <1>2. IsFiniteSet(S) /\ N <= Len(ledger) /\ Linear(S, Earlier)
    <2> HIDE DEF S
    <2> QED
      BY <1>1, LedgerMeaning, EarlierIsLinear, FS_Subset
  <1>3. N \in Nat /\ kept \in [1..N -> S]
    <2> HIDE DEF S
    <2> QED
      BY <1>2, InOrderMeaning
  <1>4. Without(r) = [n \in 1..N |-> ledger[kept[n]]]
    BY <1>3 DEF Without
  <1>5. \A n \in 1..N : ledger[kept[n]] \in Entries
    <2>1. \A n \in 1..N : kept[n] \in DOMAIN ledger
      BY <1>1, <1>3
    <2> QED
      BY <2>1, LedgerMeaning
  <1> HIDE DEF kept, N
  <1>6. Without(r) \in [1..N -> Entries]
    BY <1>4, <1>5
  <1> QED
    BY <1>2, <1>3, <1>6

-----------------------------------------------------------------------------
(***************************************************************************)
(* Rounds begin and contents are written, and none of it is taken back.    *)
(***************************************************************************)
LEMMA Grows ==
  ASSUME UndoTyped, round' \in Nat, round <= round', contents' \in Nat, contents <= contents'
  PROVE  /\ ledger \in Seq(Entries') /\ play \in [Rounds -> Seq(1..contents')]
         /\ 1..contents \subseteq 1..contents' /\ 0..contents \subseteq 0..contents'
         /\ 1..round \subseteq 1..round'
  <1>1. /\ 1..contents \subseteq 1..contents' /\ 0..contents \subseteq 0..contents'
        /\ 1..round \subseteq 1..round'
    BY DEF UndoTyped
  <1>2. Entries \subseteq Entries'
    BY <1>1 DEF Entries
  <1>3. ledger \in Seq(Entries) /\ play \in [Rounds -> Seq(1..contents)]
    BY DEF UndoTyped
  <1>4. ledger \in Seq(Entries')
    BY <1>2, <1>3, Widens
  <1>5. Seq(1..contents) \subseteq Seq(1..contents')
    BY <1>1, Widens
  <1>6. play \in [Rounds -> Seq(1..contents')]
    BY <1>3, <1>5
  <1> QED
    BY <1>1, <1>4, <1>6

LEMMA UndoTypedStep ==
  CallsPlaced /\ UndoTyped /\ [RoundNext]_roundVars => UndoTyped'
  <1> SUFFICES ASSUME CallsPlaced, UndoTyped, [RoundNext]_roundVars
               PROVE  UndoTyped'
    OBVIOUS
  <1>0. round \in Nat /\ contents \in Nat /\ playing \subseteq Rounds
    BY DEF UndoTyped
  <1>1. ASSUME NEW K, NEW k, NEW pre, RoundBegins(K, k, pre)
        PROVE  UndoTyped'
    <2>1. round' = round + 1 /\ round' \in Rounds /\ round' \notin playing
      BY <1>1 DEF RoundBegins, UndoTyped
    <2>2. /\ UNCHANGED <<seen, file, contents, ledger, play, playing>>
          /\ before' = [before EXCEPT ![round'] = file]
          /\ disturbed' \in SUBSET Rounds
      BY <1>0, <1>1, <2>1 DEF RoundBegins, UndoTyped
    <2>3. \A c \in Calls : at'[c] # "record"
      <3>1. \A c \in Calls : at[c] = "none"
        BY <1>1 DEF RoundBegins, CallsPlaced
      <3> QED
        BY <1>1, <3>1 DEF RoundBegins, Dispatch
    <2>4. ledger \in Seq(Entries') /\ 1..round \subseteq 1..round'
      BY <1>0, <2>1, <2>2, Grows
    <2>5. before' \in [Rounds -> Nat]
      <3>1. file \in Nat /\ before \in [Rounds -> Nat]
        BY <1>0 DEF UndoTyped
      <3> QED
        BY <2>2, <3>1
    <2> QED
      BY <1>0, <2>1, <2>2, <2>3, <2>4, <2>5 DEF UndoTyped
  <1>2. ASSUME NextBatchBegins
        PROVE  UndoTyped'
    <2>1. /\ UNCHANGED <<round, calls, seen, file, contents, ledger, play, playing, before>>
          /\ UNCHANGED disturbed
      BY <1>2 DEF NextBatchBegins
    <2>2. \A c \in Calls : at'[c] = "record" => at[c] = "record"
      BY <1>2 DEF NextBatchBegins, Dispatch
    <2> QED
      BY <2>1, <2>2 DEF UndoTyped, Entries
  <1>3. ASSUME NEW c \in calls, CallNext(c)
        PROVE  UndoTyped'
    <2>0. c \in Calls /\ at \in [Calls -> {"none"} \cup Dispatched]
      BY DEF CallsPlaced
    <2>1. CASE Snapshot(c)
      <3>1. /\ UNCHANGED <<round, calls, file, contents, ledger, play, playing, before, disturbed>>
            /\ seen' = [seen EXCEPT ![c] = file] /\ at' = [at EXCEPT ![c] = "record"]
        BY <2>1 DEF Snapshot
      <3>2. seen' \in [Calls -> 0..contents]
        BY <2>0, <3>1 DEF UndoTyped
      <3>3. \A d \in Calls : at'[d] = "record" => seen'[d] # 0
        BY <2>0, <3>1 DEF UndoTyped
      <3> QED
        BY <3>1, <3>2, <3>3 DEF UndoTyped, Entries
    <2>2. ASSUME NEW tie \in BOOLEAN, Record(c, tie)
          PROVE  UndoTyped'
      <3>1. /\ UNCHANGED <<round, calls, file, contents, play, playing, before, disturbed>>
            /\ seen' = [seen EXCEPT ![c] = 0] /\ at' = [at EXCEPT ![c] = "enter"]
            /\ at[c] = "record"
        BY <2>2 DEF Record
      <3>2. seen' \in [Calls -> 0..contents]
        BY <1>0, <2>0, <3>1 DEF UndoTyped
      <3>3. \A d \in Calls : at'[d] = "record" => seen'[d] # 0
        BY <2>0, <3>1 DEF UndoTyped
      <3>4. ledger' \in Seq(Entries) /\ Len(ledger') <= MaxActions
        <4> DEFINE e == [step |-> round, tie |-> tie, content |-> seen[c]]
        <4>1. e \in Entries
          BY <1>0, <2>0, <3>1 DEF UndoTyped, Entries
        <4>2. ledger' = IF Len(ledger) < MaxActions THEN Append(ledger, e) ELSE ledger
          BY <2>2 DEF Record
        <4> HIDE DEF e
        <4>3. ledger \in Seq(Entries) /\ Len(ledger) <= MaxActions /\ Len(ledger) \in Nat
          BY DEF UndoTyped
        <4>4. Append(ledger, e) \in Seq(Entries) /\ Len(Append(ledger, e)) = Len(ledger) + 1
          BY <4>1, <4>3
        <4> QED
          BY <4>2, <4>3, <4>4
      <3> QED
        BY <3>1, <3>2, <3>3, <3>4 DEF UndoTyped, Entries
    <2>3. CASE Enter(c)
      <3>1. /\ UNCHANGED <<round, calls, seen, file, contents, ledger, play, playing, before>>
            /\ UNCHANGED disturbed
        BY <2>3 DEF Enter
      <3>2. \A d \in Calls : at'[d] = "record" => at[d] = "record"
        BY <2>0, <2>3 DEF Enter
      <3> QED
        BY <3>1, <3>2 DEF UndoTyped, Entries
    <2>4. CASE Succeeds(c) \/ \E changed \in BOOLEAN : Fails(c, changed)
      <3>1. UNCHANGED <<round, calls, seen, ledger, play, playing, before>>
        BY <2>4 DEF Succeeds, Fails
      <3>2. \A d \in Calls : at'[d] = "record" => at[d] = "record"
        BY <2>0, <2>4 DEF Succeeds, Fails
      <3>3. /\ contents' \in Nat /\ contents <= contents' /\ file' \in 1..contents'
            /\ disturbed' \in SUBSET Rounds
        <4>1. PICK changed \in BOOLEAN : Writes(c, changed)
          BY <2>4 DEF Succeeds, Fails
        <4>2. file \in 1..contents /\ disturbed \in SUBSET Rounds
          BY DEF UndoTyped
        <4>3. CASE kind[c] = "edit_file" /\ changed
          <5>1. /\ contents' = contents + 1 /\ file' = contents + 1
                /\ disturbed' = disturbed \cup playing
            BY <4>1, <4>3 DEF Writes
          <5> QED
            BY <1>0, <4>2, <5>1
        <4>4. CASE ~(kind[c] = "edit_file" /\ changed)
          <5>1. UNCHANGED <<contents, file, disturbed>>
            BY <4>1, <4>4 DEF Writes
          <5> QED
            BY <1>0, <4>2, <5>1
        <4> QED
          BY <4>3, <4>4
      <3>4. /\ ledger \in Seq(Entries') /\ play \in [Rounds -> Seq(1..contents')]
            /\ 0..contents \subseteq 0..contents'
        BY <1>0, <3>1, <3>3, Grows
      <3>5. seen' \in [Calls -> 0..contents']
        BY <3>1, <3>4 DEF UndoTyped
      <3> QED
        BY <3>1, <3>2, <3>3, <3>4, <3>5 DEF UndoTyped
    <2> QED
      BY <1>3, <2>1, <2>2, <2>3, <2>4 DEF CallNext
  <1>4. ASSUME RoundOver
        PROVE  UndoTyped'
    <2>1. /\ UNCHANGED <<round, seen, file, contents, before>> /\ calls' = {}
          /\ ledger' \in {<<>>, ledger} /\ round \in Rounds
          /\ at' = [c \in Calls |-> "none"]
      BY <1>4 DEF RoundOver, UndoTyped
    <2>2. /\ play' \in [Rounds -> Seq(1..contents)]
          /\ playing' \in SUBSET (1..round) /\ disturbed' \in SUBSET Rounds
      <3>1. CASE UNCHANGED <<play, playing, disturbed>>
        BY <3>1 DEF UndoTyped
      <3>2. CASE /\ Relevant(round) # {} /\ play' = [play EXCEPT ![round] = Playback(round)]
                 /\ playing' = playing \cup {round}
                 /\ disturbed' = disturbed \cup (IF playing = {} THEN {} ELSE playing')
                                           \cup (IF Timestamped(round) THEN {} ELSE {round})
        <4>1. Playback(round) \in Seq(1..contents)
          BY <3>2, PlaybackMeaning
        <4>2. play' \in [Rounds -> Seq(1..contents)]
          BY <2>1, <3>2, <4>1 DEF UndoTyped
        <4>3. playing' \in SUBSET (1..round)
          BY <1>0, <2>1, <3>2 DEF UndoTyped
        <4>4. disturbed' \in SUBSET Rounds
          BY <1>0, <2>1, <3>2 DEF UndoTyped
        <4> QED
          BY <4>2, <4>3, <4>4
      <3> QED
        BY <1>4, <3>1, <3>2 DEF RoundOver
    <2>3. ledger' \in Seq(Entries) /\ Len(ledger') <= MaxActions
      <3>1. ledger \in Seq(Entries) /\ Len(ledger) <= MaxActions
        BY DEF UndoTyped
      <3>2. <<>> \in Seq(Entries) /\ Len(<<>>) = 0 /\ 0 <= MaxActions
        OBVIOUS
      <3>3. CASE ledger' = <<>>
        BY <3>2, <3>3
      <3>4. CASE ledger' = ledger
        BY <3>1, <3>4
      <3> QED
        BY <2>1, <3>3, <3>4
    <2>4. \A c \in Calls : at'[c] # "record"
      BY <2>1
    <2> QED
      BY <2>1, <2>2, <2>3, <2>4 DEF UndoTyped, Entries
  <1>5. ASSUME NEW r \in playing, Restore(r)
        PROVE  UndoTyped'
    <2>1. /\ UNCHANGED <<round, calls, at, seen, contents, ledger, playing, before, disturbed>>
          /\ file' = Head(play[r]) /\ play[r] # <<>>
          /\ play' = [play EXCEPT ![r] = Tail(@)]
      BY <1>5 DEF Restore
    <2>2. play[r] \in Seq(1..contents)
      BY <1>0 DEF UndoTyped
    <2>3. Head(play[r]) \in 1..contents /\ Tail(play[r]) \in Seq(1..contents)
      BY <2>1, <2>2, HeadAndTail
    <2>4. play' \in [Rounds -> Seq(1..contents)]
      BY <2>1, <2>3 DEF UndoTyped
    <2> QED
      BY <2>1, <2>3, <2>4 DEF UndoTyped, Entries
  <1>6. ASSUME NEW r \in playing, PlaybackEnds(r)
        PROVE  UndoTyped'
    <2>1. /\ UNCHANGED <<round, calls, at, seen, file, contents, play>>
          /\ playing' = playing \ {r} /\ disturbed' = disturbed \ {r}
          /\ before' = [before EXCEPT ![r] = 0] /\ ledger' = Without(r)
      BY <1>6 DEF PlaybackEnds
    <2>2. ledger' \in Seq(Entries) /\ Len(ledger') <= MaxActions
      <3>1. Len(ledger) <= MaxActions /\ Len(ledger) \in Nat /\ MaxActions \in Nat
        BY DEF UndoTyped
      <3>2. Without(r) \in Seq(Entries) /\ Len(Without(r)) <= Len(ledger)
        BY WithoutMeaning
      <3>3. Len(Without(r)) \in Nat
        BY <3>2
      <3> QED
        BY <2>1, <3>1, <3>2, <3>3
    <2>3. before' \in [Rounds -> Nat]
      BY <2>1 DEF UndoTyped
    <2> QED
      BY <2>1, <2>2, <2>3 DEF UndoTyped, Entries
  <1>7. ASSUME TurnBegins
        PROVE  UndoTyped'
    <2>1. /\ UNCHANGED <<round, calls, at, seen, file, contents, play, playing, before, disturbed>>
          /\ ledger' = <<>>
      BY <1>7 DEF TurnBegins, ResetTurnCounters
    <2> QED
      BY <2>1 DEF UndoTyped, Entries
  <1>8. CASE UNCHANGED roundVars
    BY <1>8 DEF roundVars, UndoTyped, Entries
  <1> QED
    BY <1>1, <1>2, <1>3, <1>4, <1>5, <1>6, <1>7, <1>8 DEF RoundNext

LEMMA UndoHolds == RoundSpec => []UndoTyped
  <1>1. RoundInit => UndoTyped
    <2> SUFFICES ASSUME RoundInit
                 PROVE  UndoTyped
      OBVIOUS
    <2>1. /\ round = 0 /\ calls = {} /\ contents = 1 /\ file = 1 /\ ledger = <<>>
          /\ playing = {} /\ disturbed = {} /\ \A c \in Calls : at[c] = "none"
      BY DEF RoundInit
    <2>2. /\ seen \in [Calls -> 0..contents] /\ before \in [Rounds -> Nat]
          /\ play \in [Rounds -> Seq(1..contents)]
      BY <2>1 DEF RoundInit
    <2> QED
      BY <2>1, <2>2 DEF UndoTyped
  <1> QED
    BY <1>1, UndoTypedStep, PlacedCorrect, PTL DEF RoundSpec

(***************************************************************************)
(* The calls, the ledger and the playbacks keep their types: the ledger    *)
(* never passes its limit, and what is restored has been there.            *)
(***************************************************************************)
THEOREM RoundTypeCorrect == RoundSpec => []RoundTypeOK
  <1>1. CallsPlaced /\ UndoTyped => RoundTypeOK
    <2> SUFFICES ASSUME CallsPlaced, UndoTyped
                 PROVE  RoundTypeOK
      OBVIOUS
    <2>1. Entries \subseteq Entry /\ 0..contents \subseteq Nat
      BY DEF UndoTyped, Entries, Entry
    <2>2. ledger \in Seq(Entry)
      BY <2>1, Widens DEF UndoTyped
    <2>3. seen \in [Calls -> Nat]
      BY <2>1 DEF UndoTyped
    <2> QED
      BY <2>2, <2>3 DEF RoundTypeOK, CallsPlaced, UndoTyped
  <1> QED
    BY <1>1, PlacedCorrect, UndoHolds, PTL

-----------------------------------------------------------------------------
(***************************************************************************)
(* Why a playback ends where its round began.  While a round that is not   *)
(* disturbed runs, nothing is played back; until it has an entry, nothing  *)
(* of it has passed the ledger unrecorded, so the file is as it was; and   *)
(* its first entry is of that content.                                     *)
(***************************************************************************)
Unrecorded == Relevant(round) = {} /\ Len(ledger) < MaxActions

NothingWritten ==
  /\ file = before[round]
  /\ \A c \in calls : /\ kind[c] = "edit_file" => at[c] \in {"none", "snapshot", "record"}
                      /\ at[c] = "record" => seen[c] = before[round]

FirstIsStart ==
  \A i \in Relevant(round) :
    (\A j \in Relevant(round) : i <= j) => ledger[i].content = before[round]

StartKept ==
  calls # {} /\ round \notin disturbed =>
    /\ playing = {}
    /\ Unrecorded => NothingWritten
    /\ FirstIsStart

(***************************************************************************)
(* A playback that is not disturbed is alone, and the last it restores is  *)
(* that content.                                                           *)
(***************************************************************************)
PlaybackKept ==
  \A r \in playing \ disturbed :
    /\ playing = {r}
    /\ play[r] = <<>> => file = before[r]
    /\ play[r] # <<>> => play[r][Len(play[r])] = before[r]

UndoInv == StartKept /\ PlaybackKept

(***************************************************************************)
(* A round begins: it has no entry, and its edits have only to read.       *)
(***************************************************************************)
LEMMA BeginKeeps ==
  ASSUME CallsPlaced, UndoTyped, UndoInv,
         NEW K \in SUBSET Calls, NEW k, NEW pre, RoundBegins(K, k, pre)
  PROVE  UndoInv'
  <1>1. /\ calls = {} /\ round' = round + 1 /\ round' \in Rounds /\ round' # round
        /\ calls' = K /\ kind' = k /\ before' = [before EXCEPT ![round'] = file]
        /\ disturbed' = IF playing = {} THEN disturbed ELSE disturbed \cup {round'} \cup playing
        /\ UNCHANGED <<file, ledger, play, playing>>
    BY DEF RoundBegins, UndoTyped
  <1>2. before'[round'] = file /\ \A r \in Rounds : r # round' => before'[r] = before[r]
    BY <1>1 DEF UndoTyped
  <1>3. Relevant(round)' = {}
    <2>1. \A i \in DOMAIN ledger : ledger[i].step # round'
      <3>1. \A i \in DOMAIN ledger : ledger[i].step \in 1..round
        BY LedgerMeaning
      <3>2. round \in Nat
        BY DEF UndoTyped
      <3> QED
        BY <1>1, <3>1, <3>2
    <2> QED
      BY <1>1, <2>1 DEF Relevant
  <1>4. StartKept'
    <2>1. \A c \in Calls : at[c] = "none"
      BY <1>1 DEF CallsPlaced
    <2>2. \A c \in Calls : /\ at'[c] # "record"
                           /\ k[c] = "edit_file" => at'[c] \in {"none", "snapshot"}
      BY <2>1 DEF RoundBegins, Dispatch
    <2>3. \A c \in calls' : /\ k[c] = "edit_file" => at'[c] \in {"none", "snapshot", "record"}
                            /\ at'[c] # "record"
      BY <1>1, <2>2
    <2> QED
      BY <1>1, <1>2, <1>3, <2>3 DEF StartKept, NothingWritten, FirstIsStart
  <1>5. PlaybackKept'
    <2>1. \A r \in playing : r \in Rounds /\ r # round'
      BY <1>1 DEF UndoTyped
    <2> QED
      BY <1>1, <1>2, <2>1 DEF UndoInv, PlaybackKept
  <1> QED
    BY <1>4, <1>5 DEF UndoInv

(***************************************************************************)
(* A step of a call.                                                       *)
(***************************************************************************)
LEMMA CallKeeps ==
  ASSUME CallsPlaced, UndoTyped, UndoInv, NEW c \in calls, CallNext(c)
  PROVE  UndoInv'
  <1>0. /\ c \in Calls /\ at \in [Calls -> {"none"} \cup Dispatched] /\ calls \subseteq Calls
        /\ seen \in [Calls -> 0..contents]
    BY DEF CallsPlaced, UndoTyped
  <1>1. /\ UNCHANGED <<round, calls, kind, play, playing, before>>
        /\ disturbed \subseteq disturbed'
    BY DEF CallNext, Snapshot, Record, Enter, Succeeds, Fails, Writes
  <1>2. CASE Snapshot(c)
    <2>1. /\ UNCHANGED <<file, ledger, disturbed>>
          /\ seen' = [seen EXCEPT ![c] = file] /\ at' = [at EXCEPT ![c] = "record"]
      BY <1>2 DEF Snapshot
    <2>2. Relevant(round)' = Relevant(round)
      BY <1>1, <2>1 DEF Relevant
    <2>3. NothingWritten => NothingWritten'
      BY <1>0, <1>1, <2>1 DEF NothingWritten
    <2>4. StartKept'
      BY <1>1, <2>1, <2>2, <2>3 DEF UndoInv, StartKept, FirstIsStart, Unrecorded
    <2>5. PlaybackKept'
      BY <1>1, <2>1 DEF UndoInv, PlaybackKept
    <2> QED
      BY <2>4, <2>5 DEF UndoInv
  <1>3. ASSUME NEW tie \in BOOLEAN, Record(c, tie)
        PROVE  UndoInv'
    <2> DEFINE e == [step |-> round, tie |-> tie, content |-> seen[c]]
    <2>1. /\ UNCHANGED <<file, disturbed>> /\ at[c] = "record"
          /\ ledger' = IF Len(ledger) < MaxActions THEN Append(ledger, e) ELSE ledger
      BY <1>3 DEF Record
    <2>2. PlaybackKept'
      BY <1>1, <2>1 DEF UndoInv, PlaybackKept
    <2>3. CASE ~(Len(ledger) < MaxActions)
      <3>1. ledger' = ledger /\ Relevant(round)' = Relevant(round)
        BY <1>1, <2>1, <2>3 DEF Relevant
      <3>2. ~Unrecorded'
        BY <2>3, <3>1 DEF Unrecorded
      <3>3. StartKept'
        BY <1>1, <2>1, <3>1, <3>2 DEF UndoInv, StartKept, FirstIsStart
      <3> QED
        BY <2>2, <3>3 DEF UndoInv
    <2>4. CASE Len(ledger) < MaxActions
      <3> DEFINE l == Len(ledger) + 1
      <3>1. e.step = round /\ e.content = seen[c]
        OBVIOUS
      <3>2. ledger' = Append(ledger, e)
        BY <2>1, <2>4
      <3> HIDE DEF e
      <3>3. ledger \in Seq(Entries) /\ Len(ledger) \in Nat /\ DOMAIN ledger = 1..Len(ledger)
        BY LedgerMeaning DEF UndoTyped
      <3>4. /\ DOMAIN ledger' = 1..l /\ ledger'[l] = e
            /\ \A i \in DOMAIN ledger : ledger'[i] = ledger[i]
        BY <3>2, <3>3
      <3>5. Relevant(round)' = Relevant(round) \cup {l}
        BY <1>1, <3>1, <3>3, <3>4 DEF Relevant
      <3>6. \A i \in Relevant(round) : i \in Nat /\ i < l /\ ledger'[i] = ledger[i]
        BY <3>3, <3>4 DEF Relevant
      <3>7. ASSUME StartKept, calls # {}, round \notin disturbed
            PROVE  FirstIsStart'
        <4> SUFFICES ASSUME NEW i \in Relevant(round)', \A j \in Relevant(round)' : i <= j
                     PROVE  ledger'[i].content = before[round]
          BY <1>1 DEF FirstIsStart
        <4>1. CASE Relevant(round) = {}
          <5>1. seen[c] = before[round]
            BY <2>1, <2>4, <3>7, <4>1 DEF StartKept, Unrecorded, NothingWritten
          <5>2. i = l
            BY <3>5, <4>1
          <5> QED
            BY <3>1, <3>4, <5>1, <5>2
        <4>2. CASE Relevant(round) # {}
          <5>1. i # l
            <6>1. PICK j \in Relevant(round) : TRUE
              BY <4>2
            <6>2. i <= j /\ j < l /\ j \in Nat
              BY <3>5, <3>6, <6>1
            <6> QED
              BY <3>3, <6>2
          <5>2. i \in Relevant(round) /\ \A j \in Relevant(round) : i <= j
            BY <3>5, <5>1
          <5>3. ledger[i].content = before[round]
            BY <3>7, <5>2 DEF StartKept, FirstIsStart
          <5> QED
            BY <3>6, <5>2, <5>3
        <4> QED
          BY <4>1, <4>2
      <3>8. ~Unrecorded'
        BY <3>5 DEF Unrecorded
      <3>9. StartKept'
        BY <1>1, <2>1, <3>7, <3>8 DEF UndoInv, StartKept
      <3> QED
        BY <2>2, <3>9 DEF UndoInv
    <2> QED
      BY <2>3, <2>4
  <1>4. CASE Enter(c) \/ Succeeds(c) \/ \E changed \in BOOLEAN : Fails(c, changed)
    <2>1. /\ UNCHANGED <<ledger, seen>> /\ at[c] \in {"enter", "run"}
          /\ \E p \in {"run", "ok", "failed"} : at' = [at EXCEPT ![c] = p]
      BY <1>4 DEF Enter, Succeeds, Fails
    <2>2. Relevant(round)' = Relevant(round)
      BY <1>1, <2>1 DEF Relevant
    <2>3. \/ UNCHANGED <<file, disturbed>>
          \/ kind[c] = "edit_file" /\ disturbed' = disturbed \cup playing
      BY <1>4 DEF Enter, Succeeds, Fails, Writes
    <2>4. NothingWritten => NothingWritten'
      <3> SUFFICES ASSUME NothingWritten
                   PROVE  NothingWritten'
        OBVIOUS
      <3>1. kind[c] # "edit_file"
        BY <2>1 DEF NothingWritten
      <3>2. file' = file
        BY <2>3, <3>1
      <3>3. \A d \in calls : /\ kind[d] = "edit_file" => at'[d] = at[d]
                             /\ at'[d] = "record" => at[d] = "record"
        BY <1>0, <2>1, <3>1
      <3> QED
        BY <1>1, <2>1, <3>2, <3>3 DEF NothingWritten
    <2>5. StartKept'
      BY <1>1, <2>1, <2>2, <2>4 DEF UndoInv, StartKept, FirstIsStart, Unrecorded
    <2>6. PlaybackKept'
      BY <1>1, <2>3 DEF UndoInv, PlaybackKept
    <2> QED
      BY <2>5, <2>6 DEF UndoInv
  <1> QED
    BY <1>2, <1>3, <1>4 DEF CallNext

(***************************************************************************)
(* A round ends: what it plays back ends with its first entry.             *)
(***************************************************************************)
LEMMA OverKeeps ==
  ASSUME CallsPlaced, UndoTyped, UndoInv, RoundOver
  PROVE  UndoInv'
  <1>1. calls' = {} /\ calls # {} /\ round \in Rounds /\ UNCHANGED <<file, before>>
    BY DEF RoundOver, UndoTyped
  <1>2. StartKept'
    BY <1>1 DEF StartKept
  <1>3. CASE UNCHANGED <<play, playing, disturbed>>
    BY <1>1, <1>2, <1>3 DEF UndoInv, PlaybackKept
  <1>4. CASE /\ Relevant(round) # {} /\ play' = [play EXCEPT ![round] = Playback(round)]
             /\ playing' = playing \cup {round}
             /\ disturbed' = disturbed \cup (IF playing = {} THEN {} ELSE playing')
                                       \cup (IF Timestamped(round) THEN {} ELSE {round})
    <2> SUFFICES ASSUME NEW r \in playing' \ disturbed'
                 PROVE  /\ playing' = {r}
                        /\ play'[r] = <<>> => file = before[r]
                        /\ play'[r] # <<>> => play'[r][Len(play'[r])] = before[r]
      BY <1>1, <1>2 DEF UndoInv, PlaybackKept
    <2>1. playing = {} /\ r = round /\ round \notin disturbed /\ Timestamped(round)
      BY <1>4
    <2>2. play'[r] = Playback(round)
      BY <1>1, <1>4, <2>1 DEF UndoTyped
    <2>3. PICK j \in Relevant(round) : \A i \in Relevant(round) : j <= i
      <3>1. \A i \in Relevant(round) : i \in Nat
        BY LedgerMeaning DEF Relevant
      <3>2. [i \in Relevant(round) |-> i] \in [Relevant(round) -> Nat]
        BY <3>1
      <3> DEFINE self == [i \in Relevant(round) |-> i]
      <3>3. \E t \in Relevant(round) : \A u \in Relevant(round) : ~(self[u] < self[t])
        <4> HIDE DEF self
        <4>1. self \in [Relevant(round) -> Nat]
          BY <3>2 DEF self
        <4>2. Relevant(round) \in SUBSET Relevant(round) /\ Relevant(round) # {}
          BY <1>4
        <4> QED
          BY <4>1, <4>2, LeastRank
      <3> QED
        BY <3>1, <3>3
    <2>4. ledger[j].content = before[round]
      BY <1>1, <2>1, <2>3 DEF UndoInv, StartKept, FirstIsStart
    <2>5. Playback(round) # <<>> /\ Playback(round)[Len(Playback(round))] = ledger[j].content
      BY <1>4, <2>1, <2>3, PlaybackMeaning
    <2> QED
      BY <1>4, <2>1, <2>2, <2>4, <2>5
  <1> QED
    BY <1>3, <1>4 DEF RoundOver

(***************************************************************************)
(* A step of a playback, which disturbs whatever is beside it.             *)
(***************************************************************************)
LEMMA PlaybackKeeps ==
  ASSUME CallsPlaced, UndoTyped, UndoInv, NEW r \in playing, Restore(r) \/ PlaybackEnds(r)
  PROVE  UndoInv'
  <1>0. r \in Rounds
    BY DEF UndoTyped
  <1>1. CASE Restore(r)
    <2>1. /\ UNCHANGED <<round, calls, playing, before, disturbed>>
          /\ file' = Head(play[r]) /\ play[r] # <<>>
          /\ play' = [play EXCEPT ![r] = Tail(@)]
      BY <1>1 DEF Restore
    <2>2. StartKept'
      BY <2>1 DEF UndoInv, StartKept
    <2>3. ASSUME NEW q \in playing \ disturbed
          PROVE  /\ playing = {q}
                 /\ play'[q] = <<>> => file' = before[q]
                 /\ play'[q] # <<>> => play'[q][Len(play'[q])] = before[q]
      <3>1. playing = {q} /\ q = r /\ play[r][Len(play[r])] = before[r]
        BY <2>1 DEF UndoInv, PlaybackKept
      <3>2. play'[q] = Tail(play[r]) /\ play[r] \in Seq(1..contents)
        BY <1>0, <2>1, <3>1 DEF UndoTyped
      <3>3. /\ Len(play[r]) \in Nat \ {0} /\ Head(play[r]) = play[r][1]
            /\ Len(Tail(play[r])) = Len(play[r]) - 1
            /\ Tail(play[r]) = <<>> <=> Len(play[r]) = 1
            /\ Len(play[r]) > 1 => Tail(play[r])[Len(play[r]) - 1] = play[r][Len(play[r])]
        BY <2>1, <3>2, HeadAndTail
      <3>4. CASE Len(play[r]) = 1
        BY <2>1, <3>1, <3>2, <3>3, <3>4
      <3>5. CASE Len(play[r]) # 1
        <4>1. Len(play[r]) > 1 /\ play'[q] # <<>>
          BY <3>2, <3>3, <3>5
        <4> QED
          BY <3>1, <3>2, <3>3, <4>1
      <3> QED
        BY <3>4, <3>5
    <2>4. PlaybackKept'
      BY <2>1, <2>3 DEF PlaybackKept
    <2> QED
      BY <2>2, <2>4 DEF UndoInv
  <1>2. CASE PlaybackEnds(r)
    <2>1. /\ UNCHANGED <<round, calls>>
          /\ playing' = playing \ {r} /\ disturbed' = disturbed \ {r}
      BY <1>2 DEF PlaybackEnds
    <2>2. StartKept'
      <3>1. calls # {} => round # r
        BY DEF UndoTyped
      <3>2. calls # {} => round \in disturbed
        BY DEF UndoInv, StartKept
      <3> QED
        BY <2>1, <3>1, <3>2 DEF StartKept
    <2>3. playing' \ disturbed' = {}
      <3>1. \A q \in playing \ disturbed : playing = {q}
        BY DEF UndoInv, PlaybackKept
      <3> QED
        BY <2>1, <3>1
    <2>4. PlaybackKept'
      BY <2>3 DEF PlaybackKept
    <2> QED
      BY <2>2, <2>4 DEF UndoInv
  <1> QED
    BY <1>1, <1>2

LEMMA UndoStep ==
  CallsPlaced /\ UndoTyped /\ UndoInv /\ [RoundNext]_roundVars => UndoInv'
  <1> SUFFICES ASSUME CallsPlaced, UndoTyped, UndoInv, [RoundNext]_roundVars
               PROVE  UndoInv'
    OBVIOUS
  <1>1. CASE NextBatchBegins
    <2>1. UNCHANGED <<round, calls, kind, seen, file, ledger, play, playing, before, disturbed>>
      BY <1>1 DEF NextBatchBegins
    <2>2. \A c \in Calls : /\ at'[c] = "record" => at[c] = "record"
                           /\ at'[c] = at[c] \/ (kind[c] = "edit_file" => at'[c] = "snapshot")
      BY <1>1 DEF NextBatchBegins, Dispatch
    <2>3. Relevant(round)' = Relevant(round)
      BY <2>1 DEF Relevant
    <2>4. NothingWritten => NothingWritten'
      BY <2>1, <2>2 DEF NothingWritten, CallsPlaced
    <2>5. StartKept'
      BY <2>1, <2>3, <2>4 DEF UndoInv, StartKept, FirstIsStart, Unrecorded
    <2>6. PlaybackKept'
      BY <2>1 DEF UndoInv, PlaybackKept
    <2> QED
      BY <2>5, <2>6 DEF UndoInv
  <1>2. CASE TurnBegins
    <2>1. calls' = {} /\ UNCHANGED <<file, play, playing, before, disturbed>>
      BY <1>2 DEF TurnBegins, ResetTurnCounters
    <2> QED
      BY <2>1 DEF UndoInv, StartKept, PlaybackKept
  <1>3. CASE UNCHANGED roundVars
    <2>1. Relevant(round)' = Relevant(round)
      BY <1>3 DEF roundVars, Relevant
    <2>2. NothingWritten' = NothingWritten /\ Unrecorded' = Unrecorded /\ FirstIsStart' = FirstIsStart
      BY <1>3, <2>1 DEF roundVars, NothingWritten, Unrecorded, FirstIsStart
    <2> QED
      BY <1>3, <2>2 DEF roundVars, UndoInv, StartKept, PlaybackKept
  <1> QED
    BY <1>1, <1>2, <1>3, BeginKeeps, CallKeeps, OverKeeps, PlaybackKeeps DEF RoundNext

(***************************************************************************)
(* The playback of a round that failed altogether leaves the file as it    *)
(* was when the round began, whatever of its calls overlapped, failed      *)
(* after they had written or found the ledger full.                        *)
(***************************************************************************)
THEOREM RestoreCorrect == RoundSpec => []RestoresRoundStart
  <1>1. RoundInit => UndoInv
    BY DEF RoundInit, UndoInv, StartKept, PlaybackKept
  <1>2. UndoInv => RestoresRoundStart
    BY DEF UndoInv, PlaybackKept, RestoresRoundStart
  <1> QED
    BY <1>1, <1>2, UndoStep, PlacedCorrect, UndoHolds, PTL DEF RoundSpec
=============================================================================
