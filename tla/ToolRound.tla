------------------------------- MODULE ToolRound -------------------------------
(***************************************************************************)
(* One round of the agent after another (packages/core/src/agent.ts): the  *)
(* calls of a round are dispatched batch by batch, as ToolDag orders them; *)
(* the dispatcher lets a call in or not; edits of one file are recorded in *)
(* the compensation ledger, which a round that failed altogether plays     *)
(* back, without the next round waiting for it.                            *)
(*                                                                         *)
(* All edits are of one file, whose contents are numbered.                 *)
(***************************************************************************)
EXTENDS Integers, FiniteSets, Sequences

CONSTANTS
  Calls,       \* representatives of the calls of a round
  MaxRounds,   \* rounds (bounds the model)
  MaxEdits,    \* edits of the file in a round (bounds the model)
  MaxEdges,    \* edges dispatch_graph registers in a round (bounds the model)
  MaxActions,  \* maxActions() of the ledger
  VaultBudget  \* AGENT_VAULT_WRITE_BUDGET

ASSUME RoundAssumption ==
  /\ IsFiniteSet(Calls)
  /\ MaxRounds \in Nat
  /\ MaxEdits \in Nat
  /\ MaxEdges \in Nat
  /\ MaxActions \in Nat \ {0}
  /\ VaultBudget \in Nat \ {0}

Kinds  == {"edit_file", "vault_write"}
Rounds == 1..MaxRounds

VARIABLES
  round,       \* roundCount
  calls,       \* the calls of the round
  kind,        \* their tools
  prereq,      \* the edges dispatch_graph registered
  todo,        \* the calls whose batch has not come
  at,          \* where each call is
  seen,        \* the content a call read for its undo entry
  file,        \* the content of the file
  contents,    \* contents so far
  ledger,      \* the entries
  play,        \* what each round's playback has still to restore
  playing,     \* rounds whose playback has not returned
  vaultWrites, \* vaultWritesThisTurn
  before,      \* history: the content at the start of each round
  disturbed    \* history: rounds whose playback was not alone with the file, or
               \* had entries of one millisecond

batchVars  == <<round, calls, kind, prereq>>
undoVars   == <<ledger, play, playing>>
roundVars  == <<batchVars, todo, at, seen, file, contents, undoVars, vaultWrites, before, disturbed>>

Dispatched == {"snapshot", "record", "enter", "run", "ok", "failed"}
Over       == {"none", "ok", "failed"}

-----------------------------------------------------------------------------
NextBatchFlat(rem, pre) ==                      \* mutant: what was placed is not crossed off
  LET free == {c \in rem : pre[c] = {}}
  IN  IF free = {} THEN rem ELSE free

(***************************************************************************)
(* topologicalBatches, one batch at a time: the calls all of whose         *)
(* prerequisites were in earlier batches, or, on a cycle, what is left.    *)
(***************************************************************************)
NextBatch(rem, pre) ==
  LET free == {c \in rem : pre[c] \cap rem = {}}
  IN  IF free = {} THEN rem ELSE free

(***************************************************************************)
(* dispatchAt, for the calls of a batch: an edit first reads the file.     *)
(***************************************************************************)
Dispatch(B, k) ==
  at' = [c \in Calls |-> IF c \in B THEN IF k[c] = "edit_file" THEN "snapshot" ELSE "enter"
                         ELSE at[c]]

Idle == todo = {} /\ \A c \in calls : at[c] \in Over

RoundBegins(K, k, pre) ==
  /\ calls = {}
  /\ round < MaxRounds
  /\ round' = round + 1
  /\ calls' = K
  /\ kind' = k
  /\ prereq' = pre
  /\ todo' = K \ NextBatch(K, pre)
  /\ Dispatch(NextBatch(K, pre), k)
  /\ before' = [before EXCEPT ![round'] = file]
  /\ disturbed' = IF playing = {} THEN disturbed ELSE disturbed \cup {round'} \cup playing
  /\ UNCHANGED <<seen, file, contents, undoVars, vaultWrites>>

(***************************************************************************)
(* The calls of a batch have all returned (Promise.all).                   *)
(***************************************************************************)
NextBatchBegins ==
  /\ todo # {}
  /\ \A c \in calls \ todo : at[c] \in Over
  /\ todo' = todo \ NextBatch(todo, prereq)
  /\ Dispatch(NextBatch(todo, prereq), kind)
  /\ UNCHANGED <<batchVars, seen, file, contents, undoVars, vaultWrites, before, disturbed>>

-----------------------------------------------------------------------------
(***************************************************************************)
(* The undo entry: read before the call waits for the path, recorded after *)
(* the read; a full ledger throws, and the call goes on without an entry.  *)
(* Of its time, only whether it is that of the entry before it is kept.    *)
(***************************************************************************)
Snapshot(c) ==
  /\ at[c] = "snapshot"
  /\ seen' = [seen EXCEPT ![c] = file]
  /\ at' = [at EXCEPT ![c] = "record"]
  /\ UNCHANGED <<batchVars, todo, file, contents, undoVars, vaultWrites, before, disturbed>>

RecordPast(c, tie) ==                           \* mutant: one entry too many
  /\ at[c] = "record"
  /\ ledger' = IF Len(ledger) <= MaxActions
               THEN Append(ledger, [step |-> round, tie |-> tie, content |-> seen[c]])
               ELSE ledger
  /\ at' = [at EXCEPT ![c] = "enter"]
  /\ seen' = [seen EXCEPT ![c] = 0]
  /\ UNCHANGED <<batchVars, todo, file, contents, play, playing, vaultWrites, before, disturbed>>

Record(c, tie) ==
  /\ at[c] = "record"
  /\ ledger' = IF Len(ledger) < MaxActions
               THEN Append(ledger, [step |-> round, tie |-> tie, content |-> seen[c]])
               ELSE ledger
  /\ at' = [at EXCEPT ![c] = "enter"]
  /\ seen' = [seen EXCEPT ![c] = 0]
  /\ UNCHANGED <<batchVars, todo, file, contents, play, playing, vaultWrites, before, disturbed>>

(***************************************************************************)
(* The dispatcher tests the budget when the call enters; what it awaits    *)
(* then (approval, locks) comes before the handler.  Edits of one path     *)
(* enter one after the other.                                              *)
(***************************************************************************)
AdmittedPast(c) ==                              \* mutant: > for >=
  kind[c] = "vault_write" => vaultWrites <= VaultBudget

Admitted(c) == kind[c] = "vault_write" => vaultWrites < VaultBudget

Enter(c) ==
  /\ at[c] = "enter"
  /\ kind[c] = "edit_file" => \A d \in calls : ~(kind[d] = "edit_file" /\ at[d] = "run")
  /\ at' = [at EXCEPT ![c] = IF Admitted(c) THEN "run" ELSE "failed"]
  /\ UNCHANGED <<batchVars, todo, seen, file, contents, undoVars, vaultWrites, before, disturbed>>

(***************************************************************************)
(* The handler, or what refuses the call before it: the circuit breaker,   *)
(* an approval, a lock.  An edit that fails may have changed the file.     *)
(***************************************************************************)
Writes(c, changed) ==
  IF kind[c] = "edit_file" /\ changed
  THEN /\ contents' = contents + 1
       /\ file' = contents'
       /\ disturbed' = disturbed \cup playing
  ELSE UNCHANGED <<contents, file, disturbed>>

Succeeds(c) ==
  /\ at[c] = "run"
  /\ at' = [at EXCEPT ![c] = "ok"]
  /\ Writes(c, TRUE)
  /\ vaultWrites' = vaultWrites + (IF kind[c] = "vault_write" THEN 1 ELSE 0)
  /\ UNCHANGED <<batchVars, todo, seen, undoVars, before>>

Fails(c, changed) ==
  /\ at[c] = "run"
  /\ at' = [at EXCEPT ![c] = "failed"]
  /\ Writes(c, changed)
  /\ UNCHANGED <<batchVars, todo, seen, undoVars, vaultWrites, before>>

-----------------------------------------------------------------------------
(***************************************************************************)
(* The numbers of S as R orders them: <<i, j>> when i comes before j.      *)
(***************************************************************************)
InOrder(S, R) ==
  [n \in 1..Cardinality(S) |->
     CHOOSE j \in S : Cardinality({i \in S : <<i, j>> \in R}) = n - 1]

Earlier == {p \in (DOMAIN ledger) \X (DOMAIN ledger) : p[1] < p[2]}

(***************************************************************************)
(* The entries in the order of playback: later steps first, then later     *)
(* times, and those of one millisecond as they were recorded.              *)
(***************************************************************************)
SameTime(i, j) == \A k \in (i + 1)..j : ledger[k].tie

Together(i, j) == ledger[i].step = ledger[j].step /\ SameTime(i, j)

Sooner ==
  {p \in (DOMAIN ledger) \X (DOMAIN ledger) :
     \/ p[1] < p[2] /\ Together(p[1], p[2])
     \/ p[2] < p[1] /\ ~Together(p[2], p[1])}

RelevantAll(r) == DOMAIN ledger                 \* mutant: no onlyStepIndex

Relevant(r) == {i \in DOMAIN ledger : ledger[i].step = r}

Timestamped(r) == \A i, j \in Relevant(r) : i < j => ~SameTime(i, j)

Playback(r) ==
  LET order == InOrder(Relevant(r), Sooner)
  IN  [n \in DOMAIN order |-> ledger[order[n]].content]

(***************************************************************************)
(* The ledger without the entries of step r.                               *)
(***************************************************************************)
Without(r) ==
  LET kept == InOrder({i \in DOMAIN ledger : ledger[i].step # r}, Earlier)
  IN  [n \in DOMAIN kept |-> ledger[kept[n]]]

(***************************************************************************)
(* All results are in.  A successful edit drops the file's entries; a      *)
(* round in which every call failed starts its playback.                   *)
(***************************************************************************)
RoundOver ==
  /\ calls # {} /\ Idle
  /\ calls' = {}
  /\ kind' = [c \in Calls |-> "vault_write"] /\ prereq' = [c \in Calls |-> {}]
  /\ at' = [c \in Calls |-> "none"]
  /\ ledger' = IF \E c \in calls : at[c] = "ok" /\ kind[c] = "edit_file" THEN <<>> ELSE ledger
  /\ IF Relevant(round) # {} /\ \A c \in calls : at[c] = "failed"
     THEN /\ play' = [play EXCEPT ![round] = Playback(round)]
          /\ playing' = playing \cup {round}
          /\ disturbed' = disturbed \cup (IF playing = {} THEN {} ELSE playing')
                                    \cup (IF Timestamped(round) THEN {} ELSE {round})
     ELSE UNCHANGED <<play, playing, disturbed>>
  /\ UNCHANGED <<round, todo, seen, file, contents, vaultWrites, before>>

Restore(r) ==
  /\ r \in playing /\ play[r] # <<>>
  /\ file' = Head(play[r])
  /\ play' = [play EXCEPT ![r] = Tail(@)]
  /\ UNCHANGED <<batchVars, todo, at, seen, contents, ledger, playing, vaultWrites, before,
                 disturbed>>

(***************************************************************************)
(* playback returns: what it replayed leaves the ledger.                   *)
(***************************************************************************)
PlaybackEnds(r) ==
  /\ r \in playing /\ play[r] = <<>>
  /\ playing' = playing \ {r}
  /\ ledger' = Without(r)
  /\ before' = [before EXCEPT ![r] = 0]
  /\ disturbed' = disturbed \ {r}
  /\ UNCHANGED <<batchVars, todo, at, seen, file, contents, play, vaultWrites>>

(***************************************************************************)
(* A new send: the ledger and the budget start afresh.                     *)
(***************************************************************************)
ResetTurnCounters == vaultWrites' = 0

TurnBegins ==
  /\ calls = {}
  /\ ledger # <<>> \/ vaultWrites > 0
  /\ ledger' = <<>>
  /\ ResetTurnCounters
  /\ UNCHANGED <<batchVars, todo, at, seen, file, contents, play, playing, before, disturbed>>

-----------------------------------------------------------------------------
RoundInit ==
  /\ round = 0 /\ calls = {} /\ todo = {}
  /\ kind = [c \in Calls |-> "vault_write"]
  /\ prereq = [c \in Calls |-> {}]
  /\ at = [c \in Calls |-> "none"]
  /\ seen = [c \in Calls |-> 0]
  /\ file = 1 /\ contents = 1
  /\ ledger = <<>>
  /\ play = [r \in Rounds |-> <<>>] /\ playing = {}
  /\ vaultWrites = 0
  /\ before = [r \in Rounds |-> 0] /\ disturbed = {}

Graphs(K) == {E \in SUBSET (K \X K) : Cardinality(E) <= MaxEdges}

CallNext(c) ==
  \/ Snapshot(c)
  \/ \E tie \in BOOLEAN : Record(c, tie)
  \/ Enter(c) \/ Succeeds(c)
  \/ \E changed \in BOOLEAN : Fails(c, changed)

RoundNext ==
  \/ /\ calls = {} /\ round < MaxRounds
     /\ \E K \in SUBSET Calls \ {{}} :
          \E edits \in SUBSET K, E \in Graphs(K) :
            /\ Cardinality(edits) <= MaxEdits
            /\ RoundBegins(K, [c \in Calls |-> IF c \in edits THEN "edit_file" ELSE "vault_write"],
                           [c \in Calls |-> {d \in K : <<c, d>> \in E}])
  \/ NextBatchBegins
  \/ \E c \in calls : CallNext(c)
  \/ RoundOver
  \/ \E r \in playing : Restore(r) \/ PlaybackEnds(r)
  \/ TurnBegins

RoundSpec == RoundInit /\ [][RoundNext]_roundVars

-----------------------------------------------------------------------------
Entry == [step : Rounds, tie : BOOLEAN, content : Nat]

RoundTypeOK ==
  /\ round \in 0..MaxRounds
  /\ calls \in SUBSET Calls /\ todo \in SUBSET calls
  /\ kind \in [Calls -> Kinds]
  /\ prereq \in [Calls -> SUBSET Calls]
  /\ at \in [Calls -> {"none"} \cup Dispatched]
  /\ seen \in [Calls -> Nat]
  /\ contents \in Nat /\ file \in 1..contents
  /\ ledger \in Seq(Entry) /\ Len(ledger) <= MaxActions
  /\ play \in [Rounds -> Seq(1..contents)] /\ playing \in SUBSET (1..round)
  /\ vaultWrites \in Nat
  /\ before \in [Rounds -> Nat] /\ disturbed \in SUBSET Rounds

(***************************************************************************)
(* The calls of the round can be ordered by their prerequisites.           *)
(***************************************************************************)
Acyclic ==
  \E rank \in [calls -> 1..Cardinality(calls)] :
    \A c \in calls : \A p \in prereq[c] : rank[p] < rank[c]

(***************************************************************************)
(* Whenever the edges dispatch_graph registered have no cycle, a call is   *)
(* dispatched only when all its prerequisites have returned, also when     *)
(* they have prerequisites of their own (tool_dag.ts, lines 4 to 5).       *)
(***************************************************************************)
PrerequisitesFirst ==
  (\E c \in calls : at[c] \in Dispatched /\ \E p \in prereq[c] : at[p] \notin {"ok", "failed"})
    => ~Acyclic

(***************************************************************************)
(* A round that failed altogether leaves no edit behind: when its playback *)
(* has restored its last entry, the file is as it was when the round       *)
(* began.  This needs undo entries with different times, and a playback    *)
(* that has the file for itself (agent.ts lines 6297 to 6328 and 7158,     *)
(* compensation_ledger.ts lines 74 to 93).                                 *)
(***************************************************************************)
RestoresRoundStart ==
  \A r \in playing \ disturbed :
    play[r] = <<>> => file = before[r]

(***************************************************************************)
(* However the calls of a batch overlap, the vault_write calls of a send   *)
(* pass the budget by less than the calls of one round (dispatcher.ts      *)
(* lines 449 to 467 and 682).                                              *)
(***************************************************************************)
BudgetOvershoot == vaultWrites < VaultBudget + Cardinality(Calls)
=============================================================================
