---------------------------- MODULE SidecarProofs ----------------------------
(***************************************************************************)
(* Proofs about the activities of the sidecar: the inbox watcher, for any  *)
(* number of mails, processors, crashes and commands, and missions, for    *)
(* any tasks, any plan, any number of workers and of missions; then about  *)
(* the two together, as the run Sidecar explores them.                     *)
(***************************************************************************)
EXTENDS MCSidecar, TLAPS

-----------------------------------------------------------------------------
(***************************************************************************)
(* The inbox watcher.                                                      *)
(***************************************************************************)

USE InboxAssumption DEF InboxAssumption, Mails, Actors, Status, Baseline, Nothing,
                        settings, cycleVars, processVars, boundVars, diskVars, historyVars

(***************************************************************************)
(* What is read, forgotten and written are queues.                         *)
(***************************************************************************)
LEMMA UpdatedType ==
  ASSUME NEW q \in [Mails -> Status], NEW S, NEW st \in Status
  PROVE  Updated(q, S, st) \in [Mails -> Status]
  BY DEF Updated

LEMMA AtRest ==
  /\ Nothing \in [Mails -> Status]
  /\ [a \in Actors |-> Nothing] \in [Actors -> [Mails -> Status]]
  <1> DEFINE N == Nothing
  <1>1. N \in [Mails -> Status]
    OBVIOUS
  <1> HIDE DEF N
  <1>2. [a \in Actors |-> N] \in [Actors -> [Mails -> Status]]
    BY <1>1
  <1> QED
    BY <1>1, <1>2 DEF N

LEMMA CopyType ==
  ASSUME InboxTypeOK, NEW a \in Actors, Read(a) \/ Forget(a)
  PROVE  copy' \in [Actors -> [Mails -> Status]]
  <1>1. Nothing \in [Mails -> Status]
    OBVIOUS
  <1>2. queue \in [Mails -> Status] /\ copy \in [Actors -> [Mails -> Status]]
    BY DEF InboxTypeOK
  <1>3. CASE Read(a)
    BY <1>2, <1>3 DEF Read
  <1>4. CASE Forget(a)
    <2> DEFINE N == Nothing
    <2>1. copy' = [copy EXCEPT ![a] = N]
      BY <1>4 DEF Forget
    <2>2. N \in [Mails -> Status]
      BY <1>1
    <2> HIDE DEF N
    <2> QED
      BY <1>2, <2>1, <2>2
  <1> QED
    BY <1>3, <1>4

(***************************************************************************)
(* Every step of a cycle keeps the types.                                  *)
(***************************************************************************)
LEMMA CycleTypeStep == InboxTypeOK /\ CycleStep => InboxTypeOK'
  <1> SUFFICES ASSUME InboxTypeOK, CycleStep
               PROVE  InboxTypeOK'
    OBVIOUS
  <1>1. ASSUME NEW b \in BOOLEAN, CycleBegins(b)
        PROVE  InboxTypeOK'
    BY <1>1, CopyType DEF CycleBegins, InboxTypeOK
  <1>2. ASSUME NEW old \in SUBSET Mails, Recover(old)
        PROVE  InboxTypeOK'
    <2>1. queue' \in [Mails -> Status]
      BY <1>2, UpdatedType DEF Recover, InboxTypeOK
    <2>2. copy' \in [Actors -> [Mails -> Status]]
      BY <1>2, CopyType DEF Recover
    <2>3. lost' \in SUBSET Mails
      BY <1>2 DEF Recover, LossesNoted, Kept, InboxTypeOK
    <2> QED
      BY <1>2, <2>1, <2>2, <2>3 DEF Recover, InboxTypeOK
  <1>3. ASSUME CycleReads \/ MergeReads
        PROVE  InboxTypeOK'
    <2>1. copy' \in [Actors -> [Mails -> Status]]
      BY <1>3, CopyType DEF CycleReads, MergeReads
    <2>2. CASE CycleReads
      BY <2>1, <2>2 DEF CycleReads, InboxTypeOK
    <2>3. CASE MergeReads
      BY <2>1, <2>3 DEF MergeReads, InboxTypeOK
    <2> QED
      BY <1>3, <2>2, <2>3
  <1>4. ASSUME NEW S \in SUBSET Mails,
               PollBaseline \/ PollSkips \/ PollBackfill(S) \/ PollChanges(S)
        PROVE  InboxTypeOK'
    <2>1. PICK T \in SUBSET Mails, c \in 0..LastMail, b \in Baseline : Polled(T, c, b)
      <3>1. CASE PollBaseline
        <4>1. Polled({}, newCursor, "half") \/ Polled({}, newCursor, "set")
          BY <3>1 DEF PollBaseline
        <4> QED
          BY <4>1 DEF InboxTypeOK
      <3>2. CASE PollSkips
        BY <3>2 DEF PollSkips, InboxTypeOK
      <3>3. CASE PollBackfill(S)
        BY <3>3 DEF PollBackfill, InboxTypeOK
      <3>4. CASE PollChanges(S)
        BY <3>4 DEF PollChanges, InboxTypeOK
      <3> QED
        BY <1>4, <3>1, <3>2, <3>3, <3>4
    <2>2. backfilled' \in SUBSET Mails
      BY <1>4 DEF PollBaseline, PollSkips, PollBackfill, PollChanges, InboxTypeOK
    <2> QED
      BY <2>1, <2>2 DEF Polled, InboxTypeOK
  <1>5. ASSUME NEW B \in SUBSET Mails, WriteCursor(B)
        PROVE  InboxTypeOK'
    <2>1. copy' \in [Actors -> [Mails -> Status]]
      BY <1>5, CopyType DEF WriteCursor, CursorWritten
    <2> QED
      BY <1>5, <2>1 DEF WriteCursor, CursorWritten, InboxTypeOK
  <1>6. ASSUME NEW m \in Mails, NEW st \in {"pending", "done"}, Triage(m, st)
        PROVE  InboxTypeOK'
    <2>1. triages \in [Mails -> 0..2]
      BY DEF InboxTypeOK
    <2>2. PICK n \in 0..2 : triages' = [triages EXCEPT ![m] = n]
      <3>1. triages[m] \in 0..2
        BY <2>1
      <3>2. (IF triages[m] < 2 THEN triages[m] + 1 ELSE 2) \in 0..2
        BY <3>1
      <3> QED
        BY <1>6, <3>2 DEF Triage
    <2>3. triages' \in [Mails -> 0..2]
      BY <2>1, <2>2
    <2> QED
      BY <1>6, <2>3 DEF Triage, InboxTypeOK
  <1>7. ASSUME NEW D \in SUBSET Mails, Merge(D)
        PROVE  InboxTypeOK'
    <2>1. Merged(copy["cycle"]) \in [Mails -> Status]
      BY DEF Merged, InboxTypeOK
    <2>2. queue' \in [Mails -> Status]
      BY <1>7, <2>1 DEF Merge
    <2>3. copy' \in [Actors -> [Mails -> Status]]
      BY <1>7, CopyType DEF Merge
    <2>4. lost' \in SUBSET Mails
      BY <1>7 DEF Merge, LossesNoted, Kept, InboxTypeOK
    <2>5. newItems' \in [Mails -> Status]
      BY <1>7, AtRest DEF Merge
    <2> QED
      BY <1>7, <2>2, <2>3, <2>4, <2>5 DEF Merge, InboxTypeOK
  <1>8. ASSUME CycleEnds
        PROVE  InboxTypeOK'
    <2>1. lost' \in SUBSET Mails
      BY <1>8 DEF CycleEnds, LossesNoted, Kept, InboxTypeOK
    <2>2. newItems' \in [Mails -> Status]
      BY <1>8, AtRest DEF CycleEnds
    <2>3. copy' \in [Actors -> [Mails -> Status]]
      BY <1>8, CopyType DEF CycleEnds
    <2> QED
      BY <1>8, <2>1, <2>2, <2>3 DEF CycleEnds, InboxTypeOK
  <1>9. ASSUME NEW p \in Processors, NEW S \in SUBSET Mails, AutoProcess(p, S)
        PROVE  InboxTypeOK'
    BY <1>9 DEF AutoProcess, InboxTypeOK
  <1> QED
    BY <1>1, <1>2, <1>3, <1>4, <1>5, <1>6, <1>7, <1>8, <1>9 DEF CycleStep

(***************************************************************************)
(* So does every step of a processItems, which leaves the cycle alone.     *)
(***************************************************************************)
LEMMA ProcessTyped ==
  ASSUME InboxTypeOK,
         UNCHANGED <<settings, arrived, cursor, baseline, cycleVars, dismissing, boundVars,
                     triages, backfilled>>,
         queue' \in [Mails -> Status],
         copy' \in [Actors -> [Mails -> Status]],
         at' \in [Processors -> {"idle", "enter", "marking", "send", "turn", "settle", "settling"}],
         items' \in [Processors -> SUBSET Mails],
         outcome' \in [Processors -> {"done", "pending"}],
         turn' \in {"none", "user"} \cup Processors,
         lost' \in SUBSET Mails
  PROVE  InboxTypeOK'
  <1>1. /\ enabled' \in BOOLEAN /\ provider' \in {"gmail", "microsoft"}
        /\ arrived' \in 0..LastMail /\ cursor' \in 0..LastMail /\ baseline' \in Baseline
    BY DEF InboxTypeOK
  <1>2. /\ cycle' \in {"idle", "recover", "read", "poll", "cursor", "triage", "merge", "merged"}
        /\ anyAge' \in BOOLEAN /\ found' \in SUBSET Mails
        /\ newCursor' \in 0..LastMail /\ newBaseline' \in Baseline
        /\ newItems' \in [Mails -> Status]
    BY DEF InboxTypeOK
  <1>3. /\ dismissing' \in SUBSET Mails
        /\ commands' \in 0..MaxCommands /\ crashes' \in 0..MaxCrashes
        /\ triages' \in [Mails -> 0..2] /\ backfilled' \in SUBSET Mails
    BY DEF InboxTypeOK
  <1> QED
    BY <1>1, <1>2, <1>3 DEF InboxTypeOK

LEMMA ProcessTypeStep ==
  ASSUME InboxTypeOK, NEW p \in Processors, ProcessStep(p)
  PROVE  InboxTypeOK'
  <1>1. UNCHANGED <<settings, arrived, cursor, baseline, cycleVars, dismissing, boundVars,
                    triages, backfilled>>
    BY DEF ProcessStep, Select, Mark, Send, TurnOver, SettleReads, Settle
  <1>2. \/ queue' = queue /\ lost' = lost
        \/ queue' \in [Mails -> Status] /\ LossesNoted
    <2>1. CASE Mark(p)
      BY <2>1, UpdatedType DEF Mark, InboxTypeOK
    <2>2. CASE Settle(p)
      <3>1. outcome[p] \in Status
        BY DEF InboxTypeOK
      <3> QED
        BY <2>2, <3>1, UpdatedType DEF Settle, InboxTypeOK
    <2> QED
      BY <2>1, <2>2 DEF ProcessStep, Select, Send, TurnOver, SettleReads
  <1>3. queue' \in [Mails -> Status] /\ lost' \in SUBSET Mails
    BY <1>2 DEF LossesNoted, Kept, InboxTypeOK
  <1>4. copy' = copy \/ Read(p) \/ Forget(p)
    BY DEF ProcessStep, Select, Mark, Send, TurnOver, SettleReads, Settle
  <1>5. copy' \in [Actors -> [Mails -> Status]]
    BY <1>4, CopyType DEF InboxTypeOK
  <1>6. \/ at' = at
        \/ \E st \in {"idle", "marking", "send", "turn", "settle", "settling"} :
             at' = [at EXCEPT ![p] = st]
    BY DEF ProcessStep, Select, Mark, Send, TurnOver, SettleReads, Settle
  <1>7. at' \in [Processors -> {"idle", "enter", "marking", "send", "turn", "settle", "settling"}]
    BY <1>6 DEF InboxTypeOK
  <1>8. items' = items \/ \E S \in SUBSET Mails : items' = [items EXCEPT ![p] = S]
    <2>1. CASE Select(p)
      BY <2>1 DEF Select, InboxTypeOK
    <2>2. CASE Settle(p)
      BY <2>2 DEF Settle
    <2> QED
      BY <2>1, <2>2 DEF ProcessStep, Mark, Send, TurnOver, SettleReads
  <1>9. items' \in [Processors -> SUBSET Mails]
    BY <1>8 DEF InboxTypeOK
  <1>10. outcome' = outcome \/ \E st \in {"done", "pending"} : outcome' = [outcome EXCEPT ![p] = st]
    BY DEF ProcessStep, Select, Mark, Send, TurnOver, SettleReads, Settle
  <1>11. outcome' \in [Processors -> {"done", "pending"}]
    BY <1>10 DEF InboxTypeOK
  <1>12. turn' \in {turn, "none", p}
    BY DEF ProcessStep, Select, Mark, Send, TurnOver, SettleReads, Settle
  <1>13. turn' \in {"none", "user"} \cup Processors
    BY <1>12 DEF InboxTypeOK
  <1> QED
    BY <1>1, <1>3, <1>5, <1>7, <1>9, <1>11, <1>13, ProcessTyped

(***************************************************************************)
(* And so does everything else.                                            *)
(***************************************************************************)
LEMMA InboxTypeStep == InboxTypeOK /\ [InboxNext]_inboxVars => InboxTypeOK'
  <1> SUFFICES ASSUME InboxTypeOK, [InboxNext]_inboxVars
               PROVE  InboxTypeOK'
    OBVIOUS
  <1>1. CASE MailArrives
    BY <1>1 DEF MailArrives, InboxTypeOK
  <1>2. CASE CycleStep
    BY <1>2, CycleTypeStep
  <1>3. ASSUME NEW p \in Processors, ProcessStep(p)
        PROVE  InboxTypeOK'
    BY <1>3, ProcessTypeStep
  <1>4. ASSUME NEW S \in SUBSET Seen \ {{}}, DismissReads(S)
        PROVE  InboxTypeOK'
    <2>1. S \in SUBSET Mails
      BY DEF Seen
    <2>2. copy' \in [Actors -> [Mails -> Status]]
      BY <1>4, CopyType DEF DismissReads
    <2>3. commands' \in 0..MaxCommands
      BY <1>4 DEF DismissReads, InboxTypeOK
    <2> QED
      BY <1>4, <2>1, <2>2, <2>3 DEF DismissReads, InboxTypeOK
  <1>5. ASSUME NEW S \in SUBSET Seen \ {{}}, NEW p \in Processors, ProcessItems(p, S)
        PROVE  InboxTypeOK'
    <2>1. S \in SUBSET Mails
      BY DEF Seen
    <2> QED
      BY <1>5, <2>1 DEF ProcessItems, InboxTypeOK
  <1>6. CASE DismissWrites
    <2>1. queue' \in [Mails -> Status]
      BY <1>6, UpdatedType DEF DismissWrites, InboxTypeOK
    <2>2. lost' \in SUBSET Mails
      BY <1>6 DEF DismissWrites, LossesNoted, Kept, InboxTypeOK
    <2>3. copy' \in [Actors -> [Mails -> Status]]
      BY <1>6, CopyType DEF DismissWrites
    <2> QED
      BY <1>6, <2>1, <2>2, <2>3 DEF DismissWrites, InboxTypeOK
  <1>7. CASE UserTurnBegins \/ UserTurnEnds
    <2>1. commands' \in 0..MaxCommands
      BY <1>7 DEF UserTurnBegins, UserTurnEnds, InboxTypeOK
    <2>2. turn' \in {"none", "user"}
      BY <1>7 DEF UserTurnBegins, UserTurnEnds
    <2>3. UNCHANGED <<settings, arrived, diskVars, copy, cycleVars, processVars, dismissing,
                      crashes, historyVars>>
      BY <1>7 DEF UserTurnBegins, UserTurnEnds
    <2> QED
      BY <2>1, <2>2, <2>3 DEF InboxTypeOK
  <1>8. CASE Crash
    <2>1. copy' \in [Actors -> [Mails -> Status]] /\ newItems' \in [Mails -> Status]
      BY <1>8, AtRest DEF Crash
    <2>2. crashes' \in 0..MaxCrashes
      BY <1>8 DEF Crash, InboxTypeOK
    <2>3. /\ at' \in [Processors -> {"idle", "enter", "marking", "send", "turn", "settle", "settling"}]
          /\ items' \in [Processors -> SUBSET Mails]
          /\ outcome' \in [Processors -> {"done", "pending"}]
      BY <1>8 DEF Crash
    <2>4. /\ UNCHANGED <<settings, arrived, cursor, baseline, queue, commands, triages, backfilled>>
          /\ lost' \in SUBSET Mails
      BY <1>8 DEF Crash, LossesNoted, Kept, InboxTypeOK
    <2>5. /\ cycle' = "idle" /\ anyAge' = FALSE /\ found' = {} /\ newCursor' = 0
          /\ newBaseline' = "none" /\ dismissing' = {} /\ turn' = "none"
      BY <1>8 DEF Crash
    <2>6. /\ found' \in SUBSET Mails /\ dismissing' \in SUBSET Mails
          /\ newCursor' \in 0..LastMail /\ newBaseline' \in Baseline
      BY <2>5
    <2>7. turn' \in {"none", "user"} \cup Processors
      BY <2>5
    <2> QED
      BY <2>1, <2>2, <2>3, <2>4, <2>5, <2>6, <2>7 DEF InboxTypeOK
  <1>9. CASE UNCHANGED inboxVars
    BY <1>9 DEF inboxVars, InboxTypeOK
  <1> QED
    BY <1>1, <1>2, <1>3, <1>4, <1>5, <1>6, <1>7, <1>8, <1>9 DEF InboxNext

(***************************************************************************)
(* The queue, its copies and the cursors keep their types.                 *)
(***************************************************************************)
THEOREM InboxTypeCorrect == InboxSpec => []InboxTypeOK
  <1>1. InboxInit => InboxTypeOK
    <2> SUFFICES ASSUME InboxInit
                 PROVE  InboxTypeOK
      OBVIOUS
    <2>1. /\ queue \in [Mails -> Status] /\ newItems \in [Mails -> Status]
          /\ copy \in [Actors -> [Mails -> Status]]
      BY AtRest DEF InboxInit
    <2>2. /\ at \in [Processors -> {"idle", "enter", "marking", "send", "turn", "settle", "settling"}]
          /\ items \in [Processors -> SUBSET Mails]
          /\ outcome \in [Processors -> {"done", "pending"}]
          /\ triages \in [Mails -> 0..2]
      BY DEF InboxInit
    <2>3. /\ enabled \in BOOLEAN /\ provider \in {"gmail", "microsoft"} /\ arrived \in 0..LastMail
          /\ cursor = 0 /\ baseline = "none" /\ cycle = "idle" /\ anyAge = FALSE
          /\ found = {} /\ newCursor = 0 /\ newBaseline = "none" /\ dismissing = {}
          /\ turn = "none" /\ commands = 0 /\ crashes = 0 /\ lost = {} /\ backfilled = {}
      BY DEF InboxInit
    <2>4. /\ found \in SUBSET Mails /\ dismissing \in SUBSET Mails
          /\ lost \in SUBSET Mails /\ backfilled \in SUBSET Mails
          /\ newCursor \in 0..LastMail /\ cursor \in 0..LastMail
          /\ baseline \in Baseline /\ newBaseline \in Baseline
      BY <2>3
    <2>5. turn \in {"none", "user"} \cup Processors /\ anyAge \in BOOLEAN
          /\ cycle \in {"idle", "recover", "read", "poll", "cursor", "triage", "merge", "merged"}
      BY <2>3
    <2>6. commands \in 0..MaxCommands /\ crashes \in 0..MaxCrashes
      BY <2>3
    <2> QED
      BY <2>1, <2>2, <2>3, <2>4, <2>5, <2>6 DEF InboxTypeOK
  <1> QED
    BY <1>1, InboxTypeStep, PTL DEF InboxSpec

-----------------------------------------------------------------------------
(***************************************************************************)
(* With Gmail, and but for mails of a backfill, the cursor covers what was *)
(* triaged and what is about to be, which was not before; a poll finds     *)
(* only mails after it.                                                    *)
(***************************************************************************)
HistoryTriagedOnce ==
  provider = "gmail" => \A m \in Mails \ backfilled : triages[m] <= 1

CursorCovers ==
  /\ cursor <= arrived
  /\ cycle \in {"poll", "cursor"} => cursor <= newCursor /\ newCursor <= arrived
  /\ provider = "gmail" => \A m \in Mails \ backfilled :
       /\ triages[m] > 0 => m <= cursor
       /\ cycle = "cursor" /\ m \in found => cursor < m /\ m <= newCursor
       /\ cycle = "triage" /\ m \in found => m <= cursor /\ triages[m] = 0
  /\ HistoryTriagedOnce

(***************************************************************************)
(* Steps that leave the cursor and the histories alone, and find nothing,  *)
(* keep this.                                                              *)
(***************************************************************************)
LEMMA CursorUntouched ==
  ASSUME InboxTypeOK, CursorCovers,
         UNCHANGED <<provider, cursor, triages, backfilled>>,
         arrived' >= arrived, arrived' \in Nat,
         \/ UNCHANGED <<cycle, found, newCursor>>
         \/ cycle' \notin {"poll", "cursor", "triage"}
  PROVE  CursorCovers'
  <1>1. cursor' <= arrived'
    BY DEF CursorCovers, InboxTypeOK
  <1>2. CASE UNCHANGED <<cycle, found, newCursor>>
    BY <1>1, <1>2 DEF InboxTypeOK, CursorCovers, HistoryTriagedOnce
  <1>3. CASE cycle' \notin {"poll", "cursor", "triage"}
    BY <1>1, <1>3 DEF CursorCovers, HistoryTriagedOnce
  <1> QED
    BY <1>2, <1>3

(***************************************************************************)
(* A poll of Gmail finds only mails after the cursor, or of a backfill.    *)
(***************************************************************************)
LEMMA CursorPolled ==
  ASSUME InboxTypeOK, CursorCovers, NEW S \in SUBSET Mails,
         PollBaseline \/ PollSkips \/ PollBackfill(S) \/ PollChanges(S)
  PROVE  CursorCovers'
  <1>1. /\ cycle = "poll" /\ cycle' = "cursor"
        /\ UNCHANGED <<provider, arrived, cursor, triages>>
        /\ backfilled \subseteq backfilled'
        /\ newCursor' = newCursor \/ newCursor' = arrived
    BY DEF PollBaseline, PollSkips, PollBackfill, PollChanges, Polled
  <1>2. cursor <= newCursor' /\ newCursor' <= arrived
    BY <1>1 DEF CursorCovers, InboxTypeOK
  <1>3. \A m \in found' \ backfilled' : provider = "gmail" => cursor < m /\ m <= newCursor'
    <2> SUFFICES ASSUME NEW m \in found' \ backfilled', provider = "gmail"
                 PROVE  cursor < m /\ m <= newCursor'
      OBVIOUS
    <2>1. CASE PollChanges(S)
      BY <2>1 DEF PollChanges, Polled, Reported, InboxTypeOK
    <2> QED
      BY <2>1 DEF PollBaseline, PollSkips, PollBackfill, Polled
  <1>4. HistoryTriagedOnce'
    BY <1>1 DEF CursorCovers, HistoryTriagedOnce
  <1> QED
    BY <1>1, <1>2, <1>3, <1>4 DEF CursorCovers

LEMMA CursorStep == InboxTypeOK /\ CursorCovers /\ [InboxNext]_inboxVars => CursorCovers'
  <1> SUFFICES ASSUME InboxTypeOK, CursorCovers, [InboxNext]_inboxVars
               PROVE  CursorCovers'
    OBVIOUS
  <1> DEFINE Untouched ==
        /\ UNCHANGED <<provider, cursor, triages, backfilled>>
        /\ arrived' >= arrived /\ arrived' \in Nat
        /\ \/ UNCHANGED <<cycle, found, newCursor>>
           \/ cycle' \notin {"poll", "cursor", "triage"}
  <1>1. CASE CycleReads
    BY <1>1 DEF CycleReads, InboxTypeOK, CursorCovers, HistoryTriagedOnce
  <1>2. ASSUME NEW B \in SUBSET Mails, WriteCursor(B)
        PROVE  CursorCovers'
    <2>1. /\ B \subseteq found /\ found' = B /\ cursor' = newCursor /\ cycle = "cursor"
          /\ cycle' \notin {"poll", "cursor"}
          /\ UNCHANGED <<provider, arrived, triages, backfilled>>
      BY <1>2 DEF WriteCursor, CursorWritten, Batches, Fresh
    <2>2. cursor <= newCursor /\ newCursor <= arrived
      BY <2>1 DEF CursorCovers
    <2>3. ASSUME provider = "gmail", NEW m \in Mails \ backfilled
          PROVE  /\ triages[m] > 0 => m <= newCursor
                 /\ m \in B => m <= newCursor /\ triages[m] = 0
      BY <2>1, <2>2, <2>3 DEF InboxTypeOK, CursorCovers
    <2>4. HistoryTriagedOnce'
      BY <2>1 DEF CursorCovers, HistoryTriagedOnce
    <2> QED
      BY <2>1, <2>2, <2>3, <2>4 DEF CursorCovers
  <1>3. ASSUME NEW m \in Mails, NEW st \in {"pending", "done"}, Triage(m, st)
        PROVE  CursorCovers'
    <2>1. /\ \A n \in Mails : n # m => triages'[n] = triages[n]
          /\ triages[m] = 0 => triages'[m] = 1
      BY <1>3 DEF Triage, InboxTypeOK
    <2>2. /\ UNCHANGED <<provider, arrived, cursor, backfilled, cycle, newCursor>>
          /\ cycle = "triage" /\ m \in found /\ found' = found \ {m}
      BY <1>3 DEF Triage
    <2>3. provider = "gmail" /\ m \notin backfilled => m <= cursor /\ triages[m] = 0
      BY <2>2 DEF CursorCovers
    <2>4. HistoryTriagedOnce'
      BY <2>1, <2>2, <2>3 DEF CursorCovers, HistoryTriagedOnce
    <2>5. ASSUME provider = "gmail", NEW n \in Mails \ backfilled
          PROVE  /\ triages'[n] > 0 => n <= cursor
                 /\ n \in found' => n <= cursor /\ triages'[n] = 0
      BY <2>1, <2>2, <2>3, <2>5 DEF CursorCovers
    <2> QED
      BY <2>2, <2>4, <2>5 DEF CursorCovers
  <1>4. ASSUME \/ \E b \in BOOLEAN : CycleBegins(b)
               \/ \E old \in SUBSET Mails : Recover(old)
               \/ MergeReads \/ CycleEnds
               \/ \E D \in SUBSET Mails : Merge(D)
               \/ \E p \in Processors, S \in SUBSET Mails : AutoProcess(p, S)
        PROVE  Untouched
    <2>1. arrived' = arrived /\ UNCHANGED <<provider, cursor, triages, backfilled>>
      BY <1>4 DEF CycleBegins, Recover, MergeReads, Merge, CycleEnds, AutoProcess
    <2>2. cycle' \notin {"poll", "cursor", "triage"}
      BY <1>4 DEF CycleBegins, Recover, MergeReads, Merge, CycleEnds, AutoProcess
    <2> QED
      BY <2>1, <2>2 DEF InboxTypeOK
  <1>5. ASSUME NEW p \in Processors, ProcessStep(p)
        PROVE  Untouched
    BY <1>5 DEF ProcessStep, Select, Mark, Send, TurnOver, SettleReads, Settle, InboxTypeOK
  <1>6. ASSUME NEW S \in SUBSET Seen \ {{}},
               DismissReads(S) \/ \E p \in Processors : ProcessItems(p, S)
        PROVE  Untouched
    BY <1>6 DEF DismissReads, ProcessItems, InboxTypeOK
  <1>7. CASE MailArrives \/ DismissWrites \/ UserTurnBegins \/ UserTurnEnds \/ Crash
             \/ UNCHANGED inboxVars
    <2>1. Untouched
      BY <1>7 DEF MailArrives, DismissWrites, UserTurnBegins, UserTurnEnds, Crash, inboxVars,
                  InboxTypeOK
    <2> QED
      BY <2>1, CursorUntouched
  <1>8. CASE Untouched
    BY <1>8, CursorUntouched
  <1> HIDE DEF Untouched
  <1>9. CASE CycleStep
    <2>1. CASE PollBaseline \/ PollSkips \/ \E S \in SUBSET Mails : PollBackfill(S) \/ PollChanges(S)
      BY <2>1, CursorPolled
    <2>2. CASE \E B \in SUBSET Mails : WriteCursor(B)
      BY <1>2, <2>2
    <2>3. CASE \E m \in Mails, st \in {"pending", "done"} : Triage(m, st)
      BY <1>3, <2>3
    <2> QED
      BY <1>1, <1>4, <1>8, <1>9, <2>1, <2>2, <2>3 DEF CycleStep
  <1> QED
    BY <1>5, <1>6, <1>7, <1>8, <1>9 DEF InboxNext

(***************************************************************************)
(* A mail of Gmail that no backfill returned is not triaged twice,         *)
(* whatever crashes and whoever writes the queue in between.               *)
(***************************************************************************)
THEOREM HistoryOnce == InboxSpec => []HistoryTriagedOnce
  <1>1. InboxInit => CursorCovers
    BY DEF InboxInit, CursorCovers, HistoryTriagedOnce
  <1>2. CursorCovers => HistoryTriagedOnce
    BY DEF CursorCovers
  <1> QED
    BY <1>1, <1>2, CursorStep, InboxTypeCorrect, PTL DEF InboxSpec

-----------------------------------------------------------------------------
(***************************************************************************)
(* What was triaged is kept, or was lost; what the cycle does not see in   *)
(* its copy of the queue was not triaged, or was lost, and so was what it  *)
(* is about to triage.                                                     *)
(***************************************************************************)
Forgotten(m) == triages[m] = 0 \/ m \in lost

TriagedAgainOnlyIfLost == \A m \in Mails : triages[m] > 1 => m \in lost

KeptOrLost ==
  /\ \A m \in Mails : m \in Kept(queue, newItems) \/ Forgotten(m)
  /\ cycle \notin {"triage", "merge"} => newItems = Nothing
  /\ cycle \in {"poll", "cursor"} =>
       \A m \in Mails : copy["cycle"][m] = "absent" => Forgotten(m)
  /\ cycle = "triage" => \A m \in found : Forgotten(m)
  /\ TriagedAgainOnlyIfLost

(***************************************************************************)
(* Steps that triage nothing and note what they lose keep this.            *)
(***************************************************************************)
LEMMA KeptUntouched ==
  ASSUME InboxTypeOK, KeptOrLost,
         UNCHANGED triages,
         LossesNoted \/ UNCHANGED <<queue, newItems, lost>>,
         UNCHANGED <<cycle, newItems>> \/ newItems' = Nothing,
         \/ UNCHANGED <<cycle, found>> /\ copy'["cycle"] = copy["cycle"]
         \/ cycle' \notin {"poll", "cursor", "triage"}
  PROVE  KeptOrLost'
  <1>1. lost \subseteq lost'
    BY DEF LossesNoted
  <1>2. \A m \in Mails : Forgotten(m) => Forgotten(m)'
    BY <1>1 DEF Forgotten
  <1>3. \A m \in Mails : (m \in Kept(queue, newItems))' \/ Forgotten(m)'
    <2>1. CASE UNCHANGED <<queue, newItems, lost>>
      BY <1>2, <2>1 DEF KeptOrLost, Kept
    <2>2. CASE LossesNoted
      <3> SUFFICES ASSUME NEW m \in Mails
                   PROVE  m \in Kept(queue', newItems') \/ Forgotten(m)'
        BY DEF Kept
      <3>1. m \in Kept(queue, newItems) \/ Forgotten(m)
        BY DEF KeptOrLost
      <3> QED
        BY <1>2, <2>2, <3>1 DEF LossesNoted, Forgotten
    <2> QED
      BY <2>1, <2>2
  <1>4. (cycle \notin {"triage", "merge"} => newItems = Nothing)'
    BY DEF KeptOrLost
  <1>5. TriagedAgainOnlyIfLost'
    BY <1>1 DEF KeptOrLost, TriagedAgainOnlyIfLost
  <1>6. /\ (cycle \in {"poll", "cursor"} =>
              \A m \in Mails : copy["cycle"][m] = "absent" => Forgotten(m))'
        /\ (cycle = "triage" => \A m \in found : Forgotten(m))'
    BY <1>2 DEF KeptOrLost, InboxTypeOK
  <1> QED
    BY <1>3, <1>4, <1>5, <1>6 DEF KeptOrLost

LEMMA KeptCycle ==
  ASSUME InboxTypeOK, KeptOrLost, CycleStep
  PROVE  KeptOrLost'
  <1>1. CASE CycleReads
    <2>1. /\ UNCHANGED <<queue, newItems, triages, lost>> /\ cycle = "read" /\ cycle' = "poll"
          /\ copy'["cycle"] = queue
      BY <1>1 DEF CycleReads, Read, InboxTypeOK
    <2>2. \A m \in Mails : queue[m] = "absent" => Forgotten(m)
      BY <2>1 DEF KeptOrLost, Kept
    <2> QED
      BY <2>1, <2>2 DEF KeptOrLost, Kept, Forgotten, TriagedAgainOnlyIfLost
  <1>2. ASSUME NEW S \in SUBSET Mails,
               PollBaseline \/ PollSkips \/ PollBackfill(S) \/ PollChanges(S)
        PROVE  KeptOrLost'
    <2>1. /\ UNCHANGED <<queue, copy, newItems, triages, lost>>
          /\ cycle = "poll" /\ cycle' = "cursor"
      BY <1>2 DEF PollBaseline, PollSkips, PollBackfill, PollChanges, Polled
    <2> QED
      BY <2>1 DEF KeptOrLost, Kept, Forgotten, TriagedAgainOnlyIfLost
  <1>3. ASSUME NEW B \in SUBSET Mails, WriteCursor(B)
        PROVE  KeptOrLost'
    <2>1. /\ B \subseteq Fresh /\ found' = B /\ cycle = "cursor" /\ cycle' \in {"idle", "triage"}
          /\ UNCHANGED <<queue, newItems, triages, lost>>
      BY <1>3 DEF WriteCursor, CursorWritten, Batches
    <2>2. \A m \in B : Forgotten(m)
      BY <2>1 DEF KeptOrLost, Fresh, InboxTypeOK
    <2> QED
      BY <2>1, <2>2 DEF KeptOrLost, Kept, Forgotten, TriagedAgainOnlyIfLost
  <1>4. ASSUME NEW m \in Mails, NEW st \in {"pending", "done"}, Triage(m, st)
        PROVE  KeptOrLost'
    <2>1. /\ \A n \in Mails : n # m => triages'[n] = triages[n] /\ newItems'[n] = newItems[n]
          /\ newItems'[m] # "absent"
          /\ triages[m] = 0 => triages'[m] = 1
      BY <1>4 DEF Triage, InboxTypeOK
    <2>2. /\ UNCHANGED <<queue, cycle, lost>>
          /\ cycle = "triage" /\ m \in found /\ found' = found \ {m}
      BY <1>4 DEF Triage
    <2>3. Forgotten(m)
      BY <2>2 DEF KeptOrLost
    <2>4. TriagedAgainOnlyIfLost'
      BY <2>1, <2>2, <2>3 DEF KeptOrLost, TriagedAgainOnlyIfLost, Forgotten
    <2>5. \A n \in Mails : (n \in Kept(queue, newItems))' \/ Forgotten(n)'
      BY <2>1, <2>2 DEF KeptOrLost, Kept, Forgotten
    <2>6. \A n \in found' : Forgotten(n)'
      BY <2>1, <2>2 DEF KeptOrLost, Forgotten, InboxTypeOK
    <2> QED
      BY <2>2, <2>4, <2>5, <2>6 DEF KeptOrLost
  <1>5. ASSUME \/ \E b \in BOOLEAN : CycleBegins(b)
               \/ MergeReads
               \/ \E p \in Processors, S \in SUBSET Mails : AutoProcess(p, S)
        PROVE  KeptOrLost'
    <2>1. /\ UNCHANGED <<queue, newItems, triages, lost>>
          /\ cycle' \notin {"poll", "cursor", "triage"}
          /\ cycle' = "merge" \/ cycle \notin {"triage", "merge"}
      BY <1>5 DEF CycleBegins, MergeReads, AutoProcess
    <2> QED
      BY <2>1 DEF KeptOrLost, Kept, Forgotten, TriagedAgainOnlyIfLost
  <1>6. ASSUME \/ \E old \in SUBSET Mails : Recover(old)
               \/ CycleEnds
               \/ \E D \in SUBSET Mails : Merge(D)
        PROVE  KeptOrLost'
    <2>1. UNCHANGED triages /\ LossesNoted /\ cycle' \notin {"poll", "cursor", "triage"}
      BY <1>6 DEF Recover, CycleEnds, Merge
    <2>2. newItems' = Nothing
      BY <1>6 DEF Recover, CycleEnds, Merge, KeptOrLost
    <2> QED
      BY <2>1, <2>2, KeptUntouched
  <1> QED
    BY <1>1, <1>2, <1>3, <1>4, <1>5, <1>6 DEF CycleStep

LEMMA KeptStep == InboxTypeOK /\ KeptOrLost /\ [InboxNext]_inboxVars => KeptOrLost'
  <1> SUFFICES ASSUME InboxTypeOK, KeptOrLost, [InboxNext]_inboxVars
               PROVE  KeptOrLost'
    OBVIOUS
  <1> DEFINE Untouched ==
        /\ UNCHANGED triages
        /\ LossesNoted \/ UNCHANGED <<queue, newItems, lost>>
        /\ UNCHANGED <<cycle, newItems>> \/ newItems' = Nothing
        /\ \/ UNCHANGED <<cycle, found>> /\ copy'["cycle"] = copy["cycle"]
           \/ cycle' \notin {"poll", "cursor", "triage"}
  <1>1. CASE CycleStep
    BY <1>1, KeptCycle
  <1>2. ASSUME NEW p \in Processors, ProcessStep(p)
        PROVE  Untouched
    <2>1. copy'["cycle"] = copy["cycle"]
      BY <1>2 DEF ProcessStep, Select, Mark, Send, TurnOver, SettleReads, Settle, Read, Forget,
                  InboxTypeOK
    <2>2. /\ UNCHANGED <<triages, cycle, newItems, found>>
          /\ LossesNoted \/ UNCHANGED <<queue, newItems, lost>>
      BY <1>2 DEF ProcessStep, Select, Mark, Send, TurnOver, SettleReads, Settle
    <2> QED
      BY <2>1, <2>2
  <1>3. ASSUME NEW S \in SUBSET Seen \ {{}},
               DismissReads(S) \/ \E p \in Processors : ProcessItems(p, S)
        PROVE  Untouched
    BY <1>3 DEF DismissReads, ProcessItems, Read, InboxTypeOK
  <1>4. CASE MailArrives \/ DismissWrites \/ UserTurnBegins \/ UserTurnEnds \/ Crash
             \/ UNCHANGED inboxVars
    <2>1. Untouched
      BY <1>4 DEF MailArrives, DismissWrites, UserTurnBegins, UserTurnEnds, Crash, inboxVars,
                  Forget, InboxTypeOK
    <2> QED
      BY <2>1, KeptUntouched
  <1>5. CASE Untouched
    BY <1>5, KeptUntouched
  <1> HIDE DEF Untouched
  <1> QED
    BY <1>1, <1>2, <1>3, <1>4, <1>5 DEF InboxNext

(***************************************************************************)
(* A mail is triaged again only after its item was lost.                   *)
(***************************************************************************)
THEOREM AgainOnlyIfLost == InboxSpec => []TriagedAgainOnlyIfLost
  <1>1. InboxInit => KeptOrLost
    BY DEF InboxInit, KeptOrLost, Forgotten, TriagedAgainOnlyIfLost
  <1>2. KeptOrLost => TriagedAgainOnlyIfLost
    BY DEF KeptOrLost
  <1> QED
    BY <1>1, <1>2, KeptStep, InboxTypeCorrect, PTL DEF InboxSpec

(***************************************************************************)
(* Together: a mail is triaged again only if it was lost and its provider  *)
(* lists it again.                                                         *)
(***************************************************************************)
THEOREM RepeatsCorrect == InboxSpec => []RepeatedOnlyIfLost
  <1>1. InboxTypeOK /\ HistoryTriagedOnce /\ TriagedAgainOnlyIfLost => RepeatedOnlyIfLost
    BY DEF InboxTypeOK, HistoryTriagedOnce, TriagedAgainOnlyIfLost, RepeatedOnlyIfLost, ListedAgain
  <1> QED
    BY <1>1, InboxTypeCorrect, HistoryOnce, AgainOnlyIfLost, PTL

HIDE InboxAssumption DEF InboxAssumption, Mails, Actors, Status, Baseline, Nothing,
                         settings, cycleVars, processVars, boundVars, diskVars, historyVars

-----------------------------------------------------------------------------
(***************************************************************************)
(* Missions.                                                               *)
(***************************************************************************)

USE OrchestrationAssumption DEF OrchestrationAssumption, Jobs, Runs, Busy, Terminal, AtWork,
                                Unplanned, NoJob

WorkerStates == {"none", "pending", "running", "done", "failed", "skipped"}
JobStates    == {"none", "ended", "create", "turn", "gate"}

(***************************************************************************)
(* Where execute is, what it has started, and what the snapshot says.      *)
(***************************************************************************)
Shape ==
  /\ exec <= runId
  /\ runId = 0 => status = "idle"
  /\ exec = 0 => pc = "idle"
  /\ pc \in {"idle", "planning"} => \A j \in Jobs : job[j] = "none"
  /\ pc = "wave" => job[Synth] = "none"
  /\ pc = "synthesis" => \A t \in TaskIds : job[t] \notin AtWork
  /\ ~aborted /\ exec < runId => status = "planning"
  /\ Current /\ pc = "planning" => status = "planning"
  /\ Current /\ pc = "wave" => status = "running"
  /\ Current /\ pc = "synthesis" => status = "synthesizing"

-----------------------------------------------------------------------------
(***************************************************************************)
(* A notice, or none, leaves the parent chat typed.                        *)
(***************************************************************************)
LEMMA NotifyType ==
  ASSUME MissionTypeOK, NEW st, MaybeNotify(st)
  PROVE  /\ notified' \in 0..MaxRuns /\ noticeFor' \in 0..MaxRuns
         /\ parentTurn' \in {"none", "user", "notice"} /\ parentEnded' \in BOOLEAN
         /\ told' \in [Runs -> Nat]
  BY DEF MissionTypeOK, MaybeNotify

(***************************************************************************)
(* Starting a wave keeps the workers and the jobs typed, and takes the     *)
(* wave from what remains.                                                 *)
(***************************************************************************)
LEMMA StartWaveType ==
  ASSUME NEW rem \in SUBSET TaskIds, NEW deps, NEW ws \in [TaskIds -> WorkerStates], NEW ho,
         StartWave(rem, deps, ws, ho)
  PROVE  /\ remaining' \in SUBSET TaskIds
         /\ wstatus' \in [TaskIds -> WorkerStates]
         /\ job' \in [Jobs -> JobStates]
  BY DEF StartWave, NextWave, WorkerStates, JobStates

(***************************************************************************)
(* The steps of clients, of the parent chat and of execute keep the types. *)
(***************************************************************************)
LEMMA ClientType == MissionTypeOK /\ (ClientNext \/ ParentNext) => MissionTypeOK'
  <1> SUFFICES ASSUME MissionTypeOK, ClientNext \/ ParentNext
               PROVE  MissionTypeOK'
    OBVIOUS
  <1> USE DEF MissionTypeOK, snapshotVars, executeVars, parentVars
  <1>1. ASSUME NEW parent \in BOOLEAN, Start(parent)
        PROVE  MissionTypeOK'
    <2>1. runId' \in 0..MaxRuns /\ yolo' \in BOOLEAN /\ hasParent' \in BOOLEAN
      BY <1>1 DEF Start
    <2>2. wstatus' = Unplanned /\ handoff' = Unplanned /\ notified' = 0 /\ planned' = {}
          /\ twice' = FALSE /\ aborted' = FALSE /\ status' = "planning"
      BY <1>1 DEF Start
    <2>3. UNCHANGED <<executeVars, autopilot, parentTurn, noticeFor, parentEnded, retryTimer, told>>
      BY <1>1 DEF Start
    <2>4. wstatus' \in [TaskIds -> WorkerStates] /\ handoff' \in [TaskIds -> {"none", "done", "partial"}]
      BY <2>2 DEF WorkerStates
    <2>5. planned' \in SUBSET TaskIds /\ notified' \in 0..MaxRuns
      BY <2>2
    <2> QED
      BY <2>1, <2>2, <2>3, <2>4, <2>5 DEF WorkerStates
  <1>2. CASE Stop
    BY <1>2, NotifyType DEF Stop, Emit
  <1>3. CASE UserTurn
    BY <1>3 DEF UserTurn
  <1>6. CASE ParentTurnEnd
    <2>1. retryTimer' \in BOOLEAN /\ parentEnded' \in BOOLEAN
      BY <1>6 DEF ParentTurnEnd
    <2> QED
      BY <1>6, <2>1 DEF ParentTurnEnd
  <1>4. CASE RetryTimerFires
    <2>1. MaybeNotify(status) /\ retryTimer' = FALSE
          /\ UNCHANGED <<snapshotVars, executeVars, aborted, autopilot>>
      BY <1>4, Zenon DEF RetryTimerFires
    <2>2. /\ notified' \in 0..MaxRuns /\ noticeFor' \in 0..MaxRuns
          /\ parentTurn' \in {"none", "user", "notice"} /\ parentEnded' \in BOOLEAN
          /\ told' \in [Runs -> Nat]
      <3>1. MaybeNotify(status)
        BY <2>1, Zenon
      <3> QED
        BY <3>1, NotifyType, Zenon
    <2> QED
      BY <2>1, <2>2
  <1>5. CASE ParentSendReturns \/ ParentSendRejects
    <2>1. told' \in [Runs -> Nat]
      <3>1. told' = told \/ told' = [told EXCEPT ![noticeFor] = told[noticeFor] + 1]
        BY <1>5 DEF ParentSendReturns, ParentSendRejects
      <3> QED
        BY <3>1
    <2>3. notified' \in 0..MaxRuns /\ noticeFor' \in 0..MaxRuns
      BY <1>5 DEF ParentSendReturns, ParentSendRejects
    <2>2. parentTurn' = "none" /\ parentEnded' = FALSE
          /\ UNCHANGED <<snapshotVars, executeVars, aborted, autopilot, retryTimer>>
      BY <1>5 DEF ParentSendReturns, ParentSendRejects
    <2>4. /\ runId' \in 0..MaxRuns /\ status' \in {"idle"} \cup Busy \cup Terminal
          /\ planned' \in SUBSET TaskIds /\ twice' \in BOOLEAN
          /\ wstatus' \in [TaskIds -> {"none", "pending", "running", "done", "failed", "skipped"}]
          /\ handoff' \in [TaskIds -> {"none", "done", "partial"}]
          /\ yolo' \in BOOLEAN /\ hasParent' \in BOOLEAN
      BY <2>2, Zenon
    <2>5. /\ exec' \in 0..MaxRuns /\ pc' \in {"idle", "planning", "wave", "synthesis"}
          /\ dependsOn' \in [TaskIds -> SUBSET TaskIds] /\ remaining' \in SUBSET TaskIds
          /\ job' \in [Jobs -> {"none", "ended"} \cup AtWork]
      BY <2>2, Zenon
    <2>6. aborted' \in BOOLEAN /\ autopilot' \in SUBSET (Runs \X Jobs) /\ retryTimer' \in BOOLEAN
          /\ parentTurn' \in {"none", "user", "notice"} /\ parentEnded' \in BOOLEAN
      BY <2>2, Zenon
    <2> QED
      BY <2>1, <2>3, <2>4, <2>5, <2>6, Zenon
  <1> QED
    BY <1>1, <1>2, <1>3, <1>4, <1>5, <1>6 DEF ClientNext, ParentNext

LEMMA ExecuteType == MissionTypeOK /\ ExecuteNext => MissionTypeOK'
  <1> SUFFICES ASSUME MissionTypeOK, ExecuteNext
               PROVE  MissionTypeOK'
    OBVIOUS
  <1> USE DEF snapshotVars, executeVars, parentVars
  <1>1. CASE BeginExecute
    BY <1>1 DEF BeginExecute, MissionTypeOK
  <1>2. ASSUME NEW ids \in SUBSET TaskIds \ {{}}, NEW dup \in BOOLEAN,
               NEW deps \in [TaskIds -> SUBSET TaskIds], PlanArrives(ids, deps, dup)
        PROVE  MissionTypeOK'
    <2> DEFINE ws == [t \in TaskIds |-> IF t \in ids THEN "pending" ELSE "none"]
    <2>1. ws \in [TaskIds -> WorkerStates]
      BY DEF WorkerStates
    <2>2. StartWave(ids, deps, ws, Unplanned)
      BY <1>2 DEF PlanArrives
    <2> HIDE DEF ws
    <2>3. /\ remaining' \in SUBSET TaskIds /\ wstatus' \in [TaskIds -> WorkerStates]
          /\ job' \in [Jobs -> JobStates]
      BY <2>1, <2>2, StartWaveType
    <2>4. MaybeNotify("running") /\ UNCHANGED retryTimer
      BY <1>2 DEF PlanArrives, Emit
    <2> QED
      BY <1>2, <2>3, <2>4, NotifyType DEF PlanArrives, MissionTypeOK, WorkerStates, JobStates
  <1>3. CASE PlanNext
    <2>1. PICK ids \in SUBSET TaskIds \ {{}}, dup \in BOOLEAN : \E d \in [ids -> SUBSET TaskIds] :
            PlanArrives(ids, [t \in TaskIds |-> IF t \in ids THEN d[t] ELSE {}], dup)
      BY <1>3 DEF PlanNext
    <2>2. PICK d \in [ids -> SUBSET TaskIds] :
            PlanArrives(ids, [t \in TaskIds |-> IF t \in ids THEN d[t] ELSE {}], dup)
      BY <2>1
    <2>3. [t \in TaskIds |-> IF t \in ids THEN d[t] ELSE {}] \in [TaskIds -> SUBSET TaskIds]
      OBVIOUS
    <2> QED
      BY <1>2, <2>2, <2>3
  <1>4. CASE PlanFails \/ AllWorkersFailed
    <2>1. MaybeNotify("failed") /\ UNCHANGED retryTimer /\ job' = NoJob
      BY <1>4 DEF PlanFails, AllWorkersFailed, Finish, Emit
    <2> QED
      BY <1>4, <2>1, NotifyType DEF PlanFails, AllWorkersFailed, Finish, MissionTypeOK
  <1>5. CASE NextWaveStarts
    <2>1. wstatus \in [TaskIds -> WorkerStates] /\ remaining \in SUBSET TaskIds
      BY DEF MissionTypeOK, WorkerStates
    <2>2. /\ remaining' \in SUBSET TaskIds /\ wstatus' \in [TaskIds -> WorkerStates]
          /\ job' \in [Jobs -> JobStates]
      BY <1>5, <2>1, StartWaveType DEF NextWaveStarts
    <2>3. MaybeNotify("running") /\ UNCHANGED retryTimer
      BY <1>5 DEF NextWaveStarts, Emit
    <2> QED
      BY <1>5, <2>2, <2>3, NotifyType DEF NextWaveStarts, MissionTypeOK, WorkerStates, JobStates
  <1>6. CASE SynthesisStarts
    <2>1. MaybeNotify("synthesizing") /\ UNCHANGED retryTimer
      BY <1>6 DEF SynthesisStarts, Emit
    <2> QED
      BY <1>6, <2>1, NotifyType DEF SynthesisStarts, MissionTypeOK
  <1>7. CASE GiveUp
    BY <1>7 DEF GiveUp, Return, MissionTypeOK
  <1> QED
    BY <1>1, <1>3, <1>4, <1>5, <1>6, <1>7 DEF ExecuteNext

(***************************************************************************)
(* So do the steps of the chats.                                           *)
(***************************************************************************)
LEMMA ChatType ==
  MissionTypeOK /\ Shape
  /\ (SynthesisEnds \/ (\E j \in Jobs : ChatNext(j)) \/ \E t \in TaskIds : WorkerEnds(t))
    => MissionTypeOK'
  <1> SUFFICES ASSUME MissionTypeOK, Shape,
                      SynthesisEnds \/ (\E j \in Jobs : ChatNext(j)) \/ \E t \in TaskIds : WorkerEnds(t)
               PROVE  MissionTypeOK'
    OBVIOUS
  <1> USE DEF MissionTypeOK, snapshotVars, executeVars, parentVars
  <1>1. ASSUME NEW j \in Jobs, ChatCreated(j)
        PROVE  MissionTypeOK'
    <2>1. exec \in Runs
      BY <1>1 DEF ChatCreated, Shape
    <2> QED
      BY <1>1, <2>1 DEF ChatCreated, Chat
  <1>2. ASSUME NEW j \in Jobs, NEW gate, GateWaits(j, gate) \/ GateAnswered(j)
        PROVE  MissionTypeOK'
    BY <1>2 DEF GateWaits, GateAnswered
  <1>3. ASSUME NEW t \in TaskIds, NEW ho \in {"done", "partial"}, WorkerReturns(t, ho)
        PROVE  MissionTypeOK'
    <2>1. MaybeNotify(status) /\ UNCHANGED retryTimer
      BY <1>3 DEF WorkerReturns, Emit
    <2> QED
      BY <1>3, <2>1, NotifyType DEF WorkerReturns, Leave, Ended
  <1>4. ASSUME NEW t \in TaskIds, WorkerThrows(t)
        PROVE  MissionTypeOK'
    <2>1. MaybeNotify(status) /\ UNCHANGED retryTimer
      BY <1>4 DEF WorkerThrows, Emit
    <2> QED
      BY <1>4, <2>1, NotifyType DEF WorkerThrows, Leave, Ended
  <1>5. ASSUME NEW t \in TaskIds, WorkerAbandoned(t)
        PROVE  MissionTypeOK'
    BY <1>5 DEF WorkerAbandoned, Leave, Ended
  <1>6. CASE SynthesisReturns \/ SynthesisThrows
    <2>1. PICK st \in Terminal : Finish(st)
      BY <1>6 DEF SynthesisReturns, SynthesisThrows
    <2>2. MaybeNotify(st) /\ UNCHANGED retryTimer /\ status' = st
      BY <2>1 DEF Finish, Emit
    <2> QED
      BY <1>6, <2>1, <2>2, NotifyType DEF SynthesisReturns, SynthesisThrows, Finish, Leave
  <1>7. CASE SynthesisAbandoned
    BY <1>7 DEF SynthesisAbandoned, Leave
  <1>8. ASSUME NEW j \in Jobs, ChatNext(j)
        PROVE  MissionTypeOK'
    BY <1>1, <1>2, <1>8 DEF ChatNext
  <1>9. ASSUME NEW t \in TaskIds, WorkerEnds(t)
        PROVE  MissionTypeOK'
    BY <1>3, <1>4, <1>5, <1>9 DEF WorkerEnds
  <1> HIDE DEF MissionTypeOK
  <1> QED
    BY <1>6, <1>7, <1>8, <1>9 DEF SynthesisEnds

-----------------------------------------------------------------------------
(***************************************************************************)
(* Every step keeps the shape.                                             *)
(***************************************************************************)
LEMMA ShapeStep == MissionTypeOK /\ Shape /\ [MissionNext]_missionVars => Shape'
  <1> SUFFICES ASSUME MissionTypeOK, Shape, [MissionNext]_missionVars
               PROVE  Shape'
    OBVIOUS
  <1> USE DEF Current, snapshotVars, executeVars, parentVars
  <1>1. ASSUME NEW parent \in BOOLEAN, Start(parent)
        PROVE  Shape'
    BY <1>1 DEF Start, Shape, MissionTypeOK
  <1>2. CASE Stop
    BY <1>2 DEF Stop, Shape, MissionTypeOK
  <1>3. CASE ParentNext
    BY <1>3 DEF ParentNext, UserTurn, ParentTurnEnd, RetryTimerFires, ParentSendReturns,
                ParentSendRejects, Shape
  <1>4. CASE BeginExecute
    BY <1>4 DEF BeginExecute, Shape, MissionTypeOK
  <1>5. ASSUME NEW ids \in SUBSET TaskIds, NEW deps, NEW dup, PlanArrives(ids, deps, dup)
        PROVE  Shape'
    BY <1>5 DEF PlanArrives, StartWave, NextWave, Shape, MissionTypeOK
  <1>6. CASE PlanFails \/ AllWorkersFailed
    <2>1. exec = runId /\ runId \in Nat /\ exec # 0
      BY <1>6 DEF PlanFails, AllWorkersFailed, WaveOver, Shape, MissionTypeOK
    <2>2. pc' = "idle" /\ job' = NoJob /\ UNCHANGED <<runId, exec, aborted>>
      BY <1>6 DEF PlanFails, AllWorkersFailed, Finish
    <2> QED
      BY <2>1, <2>2 DEF Shape
  <1>7. CASE NextWaveStarts
    BY <1>7 DEF NextWaveStarts, WaveOver, StartWave, NextWave, Shape, MissionTypeOK
  <1>8. CASE SynthesisStarts
    BY <1>8 DEF SynthesisStarts, WaveOver, Shape, MissionTypeOK
  <1>9. CASE GiveUp
    BY <1>9 DEF GiveUp, Return, Shape, MissionTypeOK
  <1>10. ASSUME NEW j \in Jobs, ChatNext(j)
         PROVE  Shape'
    BY <1>10 DEF ChatNext, ChatCreated, GateWaits, GateAnswered, Shape, MissionTypeOK
  <1>11. ASSUME NEW t \in TaskIds, WorkerEnds(t)
         PROVE  Shape'
    BY <1>11 DEF WorkerEnds, WorkerReturns, WorkerThrows, WorkerAbandoned, Leave, Ended, Shape,
                 MissionTypeOK
  <1>12. CASE SynthesisEnds
    BY <1>12 DEF SynthesisEnds, SynthesisReturns, SynthesisThrows, SynthesisAbandoned, Finish,
                 Leave, Shape, MissionTypeOK
  <1>13. CASE UNCHANGED missionVars
    BY <1>13 DEF missionVars, Shape
  <1> QED
    BY <1>1, <1>2, <1>3, <1>4, <1>5, <1>6, <1>7, <1>8, <1>9, <1>10, <1>11, <1>12, <1>13
       DEF MissionNext, ClientNext, ExecuteNext, PlanNext

LEMMA MissionTypeStep == MissionTypeOK /\ Shape /\ [MissionNext]_missionVars => MissionTypeOK'
  <1>1. MissionTypeOK /\ UNCHANGED missionVars => MissionTypeOK'
    BY DEF MissionTypeOK, missionVars, snapshotVars, executeVars, parentVars
  <1> QED
    BY <1>1, ClientType, ExecuteType, ChatType DEF MissionNext

(***************************************************************************)
(* The snapshot, execute and the parent chat keep their types.             *)
(***************************************************************************)
THEOREM MissionTypeCorrect == MissionSpec => [](MissionTypeOK /\ Shape)
  <1>1. MissionInit => MissionTypeOK
    <2> SUFFICES ASSUME MissionInit
                 PROVE  MissionTypeOK
      OBVIOUS
    <2>1. /\ wstatus = Unplanned /\ handoff = Unplanned
          /\ dependsOn = [t \in TaskIds |-> {}] /\ job = [j \in Jobs |-> "none"]
          /\ told = [r \in Runs |-> 0]
      BY DEF MissionInit
    <2>2. runId = 0 /\ exec = 0 /\ notified = 0 /\ noticeFor = 0
      BY DEF MissionInit
    <2>3. /\ status = "idle" /\ planned = {} /\ twice = FALSE /\ yolo = TRUE /\ hasParent = FALSE
          /\ aborted = FALSE /\ autopilot = {} /\ pc = "idle" /\ remaining = {}
          /\ parentTurn = "none" /\ parentEnded = FALSE /\ retryTimer = FALSE
      BY DEF MissionInit
    <2>4. /\ wstatus \in [TaskIds -> WorkerStates] /\ handoff \in [TaskIds -> {"none", "done", "partial"}]
          /\ dependsOn \in [TaskIds -> SUBSET TaskIds] /\ job \in [Jobs -> {"none", "ended"} \cup AtWork]
          /\ told \in [Runs -> Nat]
      BY <2>1 DEF WorkerStates
    <2>5. /\ runId \in 0..MaxRuns /\ exec \in 0..MaxRuns
          /\ notified \in 0..MaxRuns /\ noticeFor \in 0..MaxRuns
      BY <2>2
    <2>6. /\ planned \in SUBSET TaskIds /\ remaining \in SUBSET TaskIds
          /\ autopilot \in SUBSET (Runs \X Jobs)
      BY <2>3
    <2> QED
      BY <2>3, <2>4, <2>5, <2>6 DEF MissionTypeOK, WorkerStates
  <1>2. MissionInit => Shape
    BY DEF MissionInit, Shape, Current
  <1> QED
    BY <1>1, <1>2, MissionTypeStep, ShapeStep, PTL DEF MissionSpec

-----------------------------------------------------------------------------
(***************************************************************************)
(* The chats on autopilot are those of execute that are in a turn.         *)
(***************************************************************************)
AutopilotInTurn ==
  \A c \in autopilot : c[1] = exec /\ c = Chat(c[2]) /\ c[2] \in Jobs /\ job[c[2]] \in {"turn", "gate"}

(***************************************************************************)
(* A mission that is not current, or whose chats have ended, has none.     *)
(***************************************************************************)
LEMMA NoneLeft ==
  ASSUME MissionTypeOK, Shape, AutopilotInTurn, AutopilotIsCurrent,
         \/ ~Current \/ status \notin Busy
         \/ \A j \in Jobs : job[j] \notin {"turn", "gate"}
  PROVE  autopilot = {}
  BY DEF AutopilotInTurn, AutopilotIsCurrent, Current

LEMMA AutopilotStep ==
  MissionTypeOK /\ Shape /\ AutopilotInTurn /\ AutopilotIsCurrent /\ [MissionNext]_missionVars
    => AutopilotInTurn' /\ AutopilotIsCurrent'
  <1> SUFFICES ASSUME MissionTypeOK, Shape, AutopilotInTurn, AutopilotIsCurrent,
                      [MissionNext]_missionVars
               PROVE  AutopilotInTurn' /\ AutopilotIsCurrent'
    OBVIOUS
  <1> USE DEF snapshotVars, executeVars, parentVars
  <1> DEFINE Goal == AutopilotInTurn' /\ AutopilotIsCurrent'
  <1>1. ASSUME autopilot' = {}
        PROVE  Goal
    BY <1>1 DEF AutopilotInTurn, AutopilotIsCurrent
  <1>2. ASSUME NEW parent \in BOOLEAN, Start(parent)
        PROVE  Goal
    BY <1>1, <1>2, NoneLeft DEF Start
  <1>3. ASSUME Stop
        PROVE  Goal
    BY <1>1, <1>3 DEF Stop
  <1>4. ASSUME ParentNext \/ UNCHANGED missionVars
        PROVE  Goal
    BY <1>4 DEF ParentNext, UserTurn, ParentTurnEnd, RetryTimerFires, ParentSendReturns,
                ParentSendRejects, missionVars, AutopilotInTurn, AutopilotIsCurrent, Chat
  <1>5. ASSUME BeginExecute
        PROVE  Goal
    BY <1>1, <1>5, NoneLeft DEF BeginExecute, Shape
  <1>6. ASSUME PlanNext \/ PlanFails
        PROVE  Goal
    <2>1. autopilot' = autopilot /\ pc = "planning"
      BY <1>6 DEF PlanNext, PlanArrives, PlanFails
    <2> QED
      BY <1>1, <2>1, NoneLeft DEF Shape
  <1>7. ASSUME NextWaveStarts \/ AllWorkersFailed \/ SynthesisStarts
        PROVE  Goal
    <2>1. autopilot' = autopilot /\ WaveOver
      BY <1>7 DEF NextWaveStarts, AllWorkersFailed, SynthesisStarts
    <2>2. \A j \in Jobs : job[j] \notin {"turn", "gate"}
      BY <2>1 DEF WaveOver, Shape
    <2> QED
      BY <1>1, <2>1, <2>2, NoneLeft
  <1>8. ASSUME GiveUp
        PROVE  Goal
    BY <1>1, <1>8, NoneLeft DEF GiveUp, Return
  <1>9. ASSUME NEW j \in Jobs, ChatCreated(j)
        PROVE  Goal
    <2>1. \A i \in Jobs : job'[i] = (IF i = j THEN "turn" ELSE job[i])
      BY <1>9 DEF ChatCreated, MissionTypeOK
    <2>2. autopilot' = autopilot \cup {<<exec, j>>} /\ UNCHANGED <<exec, runId, status, aborted>>
      BY <1>9 DEF ChatCreated, Chat
    <2>3. exec = runId /\ ~aborted /\ status \in Busy
      BY <1>9 DEF ChatCreated, Current, Shape, MissionTypeOK
    <2>4. AutopilotInTurn'
      BY <2>1, <2>2 DEF AutopilotInTurn, Chat
    <2>5. AutopilotIsCurrent'
      BY <2>2, <2>3 DEF AutopilotIsCurrent
    <2> QED
      BY <2>4, <2>5
  <1>10. ASSUME NEW j \in Jobs, NEW gate, GateWaits(j, gate) \/ GateAnswered(j)
         PROVE  Goal
    <2>1. \A i \in Jobs : i # j => job'[i] = job[i]
      BY <1>10 DEF GateWaits, GateAnswered, MissionTypeOK
    <2>2. job'[j] \in {"turn", "gate"}
      BY <1>10 DEF GateWaits, GateAnswered, MissionTypeOK
    <2>3. UNCHANGED <<exec, runId, status, aborted, autopilot>>
      BY <1>10 DEF GateWaits, GateAnswered
    <2> QED
      BY <2>1, <2>2, <2>3 DEF AutopilotInTurn, AutopilotIsCurrent, Chat
  <1>11. ASSUME NEW t \in TaskIds, WorkerEnds(t)
         PROVE  Goal
    <2>1. autopilot' = autopilot \ {<<exec, t>>} /\ UNCHANGED <<exec, runId, status, aborted>>
      BY <1>11 DEF WorkerEnds, WorkerReturns, WorkerThrows, WorkerAbandoned, Leave, Chat
    <2>2. \A i \in Jobs : i # t => job'[i] = job[i]
      BY <1>11 DEF WorkerEnds, WorkerReturns, WorkerThrows, WorkerAbandoned, Ended, MissionTypeOK
    <2> QED
      BY <2>1, <2>2 DEF AutopilotInTurn, AutopilotIsCurrent, Chat
  <1>12. ASSUME SynthesisEnds
         PROVE  Goal
    <2>1. autopilot' = autopilot \ {<<exec, Synth>>} /\ job[Synth] \in AtWork
      BY <1>12 DEF SynthesisEnds, SynthesisReturns, SynthesisThrows, SynthesisAbandoned, Leave, Chat
    <2>2. \A t \in TaskIds : job[t] \notin AtWork
      BY <2>1 DEF Shape, MissionTypeOK
    <2>3. \A c \in autopilot : c = <<exec, Synth>>
      BY <2>2 DEF AutopilotInTurn, Chat
    <2> QED
      BY <1>1, <2>1, <2>3
  <1> HIDE DEF Goal
  <1> QED
    <2>1. ASSUME NEW j \in Jobs, ChatNext(j)
          PROVE  Goal
      BY <1>9, <1>10, <2>1 DEF ChatNext
    <2>2. ASSUME ExecuteNext
          PROVE  Goal
      BY <1>5, <1>6, <1>7, <1>8, <2>2 DEF ExecuteNext
    <2>3. Goal
      BY <1>2, <1>3, <1>4, <1>11, <1>12, <2>1, <2>2 DEF MissionNext, ClientNext
    <2> QED
      BY <2>3 DEF Goal

(***************************************************************************)
(* Only chats of the mission that runs are on autopilot.                   *)
(***************************************************************************)
THEOREM AutopilotCorrect == MissionSpec => []AutopilotIsCurrent
  <1>1. MissionInit => AutopilotInTurn /\ AutopilotIsCurrent
    BY DEF MissionInit, AutopilotInTurn, AutopilotIsCurrent
  <1> QED
    BY <1>1, AutopilotStep, MissionTypeCorrect, PTL DEF MissionSpec

-----------------------------------------------------------------------------
(***************************************************************************)
(* What has ended stays as it ended.                                       *)
(***************************************************************************)
THEOREM OutcomeIsFinal == MissionSpec => TerminalIsFinal
  <1> DEFINE RunKept == runId' = runId /\ status \in Terminal
                          => UNCHANGED <<status, planned, wstatus, handoff>>
  <1>1. MissionTypeOK /\ Shape /\ [MissionNext]_missionVars => [RunKept]_missionVars
    <2> SUFFICES ASSUME MissionTypeOK, Shape, MissionNext, runId' = runId, status \in Terminal
                 PROVE  UNCHANGED <<status, planned, wstatus, handoff>>
      OBVIOUS
    <2> USE DEF snapshotVars, executeVars, parentVars
    <2>1. ASSUME Current
          PROVE  pc = "idle"
      BY <2>1 DEF Shape, MissionTypeOK
    <2>2. CASE ClientNext
      <3>1. ~ \E parent \in BOOLEAN : Start(parent)
        BY DEF Start, MissionTypeOK
      <3> QED
        BY <2>2, <3>1 DEF ClientNext, Stop
    <2>3. CASE ParentNext
      BY <2>3 DEF ParentNext, UserTurn, ParentTurnEnd, RetryTimerFires, ParentSendReturns,
                  ParentSendRejects
    <2>4. CASE ExecuteNext
      BY <2>1, <2>4 DEF ExecuteNext, BeginExecute, PlanNext, PlanArrives, PlanFails, NextWaveStarts,
                        AllWorkersFailed, SynthesisStarts, WaveOver, GiveUp, Return
    <2>5. ASSUME NEW j \in Jobs, ChatNext(j)
          PROVE  UNCHANGED <<status, planned, wstatus, handoff>>
      BY <2>5 DEF ChatNext, ChatCreated, GateWaits, GateAnswered
    <2>6. ASSUME NEW t \in TaskIds, WorkerEnds(t)
          PROVE  UNCHANGED <<status, planned, wstatus, handoff>>
      <3>1. job[t] \in AtWork
        BY <2>6 DEF WorkerEnds, WorkerReturns, WorkerThrows, WorkerAbandoned
      <3>2. ~Current
        BY <2>1, <3>1 DEF Shape
      <3> QED
        BY <2>6, <3>2 DEF WorkerEnds, WorkerReturns, WorkerThrows, WorkerAbandoned
    <2>7. CASE SynthesisEnds
      <3>1. job[Synth] \in AtWork
        BY <2>7 DEF SynthesisEnds, SynthesisReturns, SynthesisThrows, SynthesisAbandoned
      <3>2. ~Current
        BY <2>1, <3>1 DEF Shape
      <3> QED
        BY <2>7, <3>2 DEF SynthesisEnds, SynthesisReturns, SynthesisThrows, SynthesisAbandoned
    <2> QED
      BY <2>2, <2>3, <2>4, <2>5, <2>6, <2>7 DEF MissionNext
  <1> QED
    BY <1>1, MissionTypeCorrect, PTL DEF MissionSpec, TerminalIsFinal

-----------------------------------------------------------------------------
(***************************************************************************)
(* A notice under way is about a mission not told yet, and one that was    *)
(* told, or is being told, is the one parentNotifiedForId names.           *)
(***************************************************************************)
ToldInv ==
  /\ \A r \in Runs : told[r] <= 1 /\ (r > runId => told[r] = 0)
  /\ parentTurn = "notice" => noticeFor \in Runs /\ noticeFor <= runId /\ told[noticeFor] = 0
  /\ runId > 0 /\ (told[runId] = 1 \/ (parentTurn = "notice" /\ noticeFor = runId))
       => notified = runId

LEMMA NotifyTold ==
  ASSUME MissionTypeOK, ToldInv, NEW st, runId > 0 \/ st \notin Terminal, MaybeNotify(st),
         runId' = runId
  PROVE  ToldInv'
  BY DEF MissionTypeOK, ToldInv, MaybeNotify

LEMMA ToldStep == MissionTypeOK /\ Shape /\ ToldInv /\ [MissionNext]_missionVars => ToldInv'
  <1> SUFFICES ASSUME MissionTypeOK, Shape, ToldInv, [MissionNext]_missionVars
               PROVE  ToldInv'
    OBVIOUS
  <1> USE DEF snapshotVars, executeVars, parentVars
  <1>1. ASSUME UNCHANGED <<runId, notified, parentTurn, noticeFor, told>>
        PROVE  ToldInv'
    BY <1>1 DEF ToldInv
  <1>2. ASSUME NEW parent \in BOOLEAN, Start(parent)
        PROVE  ToldInv'
    BY <1>2 DEF Start, ToldInv, MissionTypeOK
  <1>3. ASSUME Stop
        PROVE  ToldInv'
    <2>1. runId > 0 /\ MaybeNotify("stopped") /\ runId' = runId
      BY <1>3 DEF Stop, Emit, Shape, MissionTypeOK
    <2> QED
      BY <2>1, NotifyTold
  <1>4. ASSUME UserTurn \/ ParentTurnEnd
        PROVE  ToldInv'
    BY <1>4 DEF UserTurn, ParentTurnEnd, ToldInv
  <1>5. ASSUME RetryTimerFires
        PROVE  ToldInv'
    <2>1. MaybeNotify(status) /\ runId' = runId
      BY <1>5 DEF RetryTimerFires
    <2>2. runId > 0 \/ status \notin Terminal
      BY DEF Shape, MissionTypeOK
    <2> QED
      BY <2>1, <2>2, NotifyTold
  <1>6. ASSUME ParentSendReturns
        PROVE  ToldInv'
    <2>1. CASE parentTurn = "notice"
      <3>1. \A r \in Runs : told'[r] = (IF r = noticeFor THEN told[r] + 1 ELSE told[r])
        BY <1>6, <2>1 DEF ParentSendReturns, MissionTypeOK
      <3>2. noticeFor \in Runs /\ noticeFor <= runId /\ told[noticeFor] = 0
        BY <2>1 DEF ToldInv
      <3>3. \A r \in Runs : told'[r] <= 1 /\ (r > runId => told'[r] = 0)
        BY <3>1, <3>2 DEF ToldInv, MissionTypeOK
      <3>4. runId > 0 /\ told'[runId] = 1 => notified = runId
        BY <2>1, <3>1 DEF ToldInv, MissionTypeOK
      <3>5. UNCHANGED <<runId, notified>> /\ parentTurn' = "none"
        BY <1>6 DEF ParentSendReturns
      <3> QED
        BY <3>3, <3>4, <3>5 DEF ToldInv
    <2>2. CASE parentTurn # "notice"
      BY <1>6, <2>2 DEF ParentSendReturns, ToldInv
    <2> QED
      BY <2>1, <2>2
  <1>7. ASSUME ParentSendRejects
        PROVE  ToldInv'
    <2>1. UNCHANGED <<runId, told>> /\ parentTurn' = "none"
      BY <1>7 DEF ParentSendRejects
    <2>2. runId > 0 /\ told[runId] = 1 => notified' = runId
      BY <1>7 DEF ParentSendRejects, ToldInv, MissionTypeOK
    <2> QED
      BY <2>1, <2>2 DEF ToldInv
  <1>8. ASSUME ExecuteNext
        PROVE  ToldInv'
    <2>1. CASE BeginExecute \/ GiveUp
      BY <1>1, <2>1 DEF BeginExecute, GiveUp, Return
    <2>2. CASE PlanNext \/ PlanFails \/ NextWaveStarts \/ AllWorkersFailed \/ SynthesisStarts
      <3>1. Current /\ pc # "idle" /\ runId' = runId
        BY <2>2 DEF PlanNext, PlanArrives, PlanFails, NextWaveStarts, AllWorkersFailed,
                    SynthesisStarts, WaveOver
      <3>2. runId > 0
        BY <3>1 DEF Current, Shape, MissionTypeOK
      <3>3. \E st : MaybeNotify(st)
        BY <2>2 DEF PlanNext, PlanArrives, PlanFails, NextWaveStarts, AllWorkersFailed,
                    SynthesisStarts, Finish, Emit
      <3> QED
        BY <3>1, <3>2, <3>3, NotifyTold
    <2> QED
      BY <1>8, <2>1, <2>2 DEF ExecuteNext
  <1>9. ASSUME NEW j \in Jobs, ChatNext(j)
        PROVE  ToldInv'
    BY <1>1, <1>9 DEF ChatNext, ChatCreated, GateWaits, GateAnswered
  <1>10. ASSUME SynthesisEnds \/ \E t \in TaskIds : WorkerEnds(t)
         PROVE  ToldInv'
    <2>1. CASE SynthesisAbandoned \/ \E t \in TaskIds : WorkerAbandoned(t)
      BY <1>1, <2>1 DEF SynthesisAbandoned, WorkerAbandoned
    <2>2. CASE SynthesisReturns \/ SynthesisThrows
               \/ \E t \in TaskIds, ho \in {"done", "partial"} : WorkerReturns(t, ho) \/ WorkerThrows(t)
      <3>1. Current /\ runId' = runId /\ \E j \in Jobs : job[j] \in AtWork
        BY <2>2 DEF SynthesisReturns, SynthesisThrows, WorkerReturns, WorkerThrows
      <3>2. runId > 0
        BY <3>1 DEF Current, Shape, MissionTypeOK
      <3>3. \E st : MaybeNotify(st)
        BY <2>2 DEF SynthesisReturns, SynthesisThrows, WorkerReturns, WorkerThrows, Finish, Emit
      <3> QED
        BY <3>1, <3>2, <3>3, NotifyTold
    <2> QED
      BY <1>10, <2>1, <2>2 DEF SynthesisEnds, WorkerEnds
  <1>11. CASE UNCHANGED missionVars
    BY <1>1, <1>11 DEF missionVars
  <1> QED
    BY <1>2, <1>3, <1>4, <1>5, <1>6, <1>7, <1>8, <1>9, <1>10, <1>11
       DEF MissionNext, ClientNext, ParentNext

(***************************************************************************)
(* The parent chat hears of a mission at most once.                        *)
(***************************************************************************)
THEOREM ToldCorrect == MissionSpec => []ToldOnce
  <1>1. MissionInit => ToldInv
    BY DEF MissionInit, ToldInv
  <1>2. ToldInv => ToldOnce
    BY DEF ToldInv, ToldOnce
  <1> QED
    BY <1>1, <1>2, ToldStep, MissionTypeCorrect, PTL DEF MissionSpec

-----------------------------------------------------------------------------
(***************************************************************************)
(* What a worker's state and handoff will be is decided: they are those of *)
(* an id that is not planned, or of a worker that does not run any more,   *)
(* and its dependents must not start.                                      *)
(***************************************************************************)
Blocks(d, ws, ho) ==
  \/ ws[d] \in {"none", "failed", "skipped"}
  \/ ws[d] = "done" /\ ho[d] # "done"

Satisfied(d, ws, ho) == ws[d] = "done" /\ ho[d] = "done"

(***************************************************************************)
(* A skipped worker has a dependency that blocks it for good, and while    *)
(* execute is in its waves, the workers that run are those it awaits, and  *)
(* the pending ones those that remain.                                     *)
(***************************************************************************)
UpstreamInv ==
  /\ exec < runId => planned = {} /\ wstatus = Unplanned
  /\ exec = runId =>
       /\ \A t \in TaskIds \ planned : wstatus[t] = "none"
       /\ \A t \in planned :
            /\ wstatus[t] \in {"running", "done", "failed"} => \A d \in dependsOn[t] : Satisfied(d, wstatus, handoff)
            /\ wstatus[t] = "skipped" => \E d \in dependsOn[t] : Blocks(d, wstatus, handoff)
  /\ Current /\ pc = "wave" =>
       \A t \in TaskIds :
         /\ wstatus[t] = "running" <=> job[t] \in AtWork
         /\ wstatus[t] = "pending" <=> t \in remaining

LEMMA UpstreamImplied == MissionTypeOK /\ UpstreamInv => UpstreamDecides
  <1> SUFFICES ASSUME MissionTypeOK, UpstreamInv, exec = runId, NEW t \in planned
               PROVE  /\ wstatus[t] \in {"running", "done", "failed"} =>
                           UpstreamDone(t, dependsOn, wstatus, handoff)
                      /\ wstatus[t] = "skipped" => ~UpstreamDone(t, dependsOn, wstatus, handoff)
    BY DEF UpstreamDecides
  <1>1. ASSUME NEW d, Blocks(d, wstatus, handoff)
        PROVE  ~Satisfied(d, wstatus, handoff)
    BY <1>1 DEF Blocks, Satisfied
  <1> QED
    BY <1>1 DEF UpstreamInv, UpstreamDone, Satisfied

(***************************************************************************)
(* A wave starts when nothing runs: those that start have all they need,   *)
(* and for those that are skipped something is missing for good, because   *)
(* it is in no wave still to come, or, on a cycle, is skipped as well.     *)
(***************************************************************************)
LEMMA WaveStep ==
  ASSUME MissionTypeOK,
         NEW rem \in SUBSET TaskIds,
         NEW deps \in [TaskIds -> SUBSET TaskIds],
         NEW ws \in [TaskIds -> WorkerStates],
         NEW ho \in [TaskIds -> {"none", "done", "partial"}],
         StartWave(rem, deps, ws, ho),
         dependsOn' = deps, handoff' = ho,
         \A t \in TaskIds : ws[t] = "pending" <=> t \in rem,
         \A t \in TaskIds : ws[t] # "running",
         \A t \in TaskIds : ws[t] \in {"done", "failed"} =>
                              \A d \in deps[t] : Satisfied(d, ws, ho),
         \A t \in TaskIds : ws[t] = "skipped" =>
                              \E d \in deps[t] : Blocks(d, ws, ho)
  PROVE  /\ \A t \in TaskIds : wstatus'[t] = "none" <=> ws[t] = "none"
         /\ \A t \in TaskIds :
              /\ wstatus'[t] \in {"running", "done", "failed"} => \A d \in dependsOn'[t] : Satisfied(d, wstatus', handoff')
              /\ wstatus'[t] = "skipped" => \E d \in dependsOn'[t] : Blocks(d, wstatus', handoff')
         /\ \A t \in TaskIds :
              /\ wstatus'[t] = "running" <=> job'[t] \in AtWork
              /\ wstatus'[t] = "pending" <=> t \in remaining'
  <1> DEFINE wave == NextWave(rem, deps)
             go   == {t \in wave : UpstreamDone(t, deps, ws, ho)}
  <1>1. /\ remaining' = rem \ wave
        /\ \A t \in TaskIds : wstatus'[t] = (IF t \in go THEN "running"
                                             ELSE IF t \in wave THEN "skipped" ELSE ws[t])
        /\ \A t \in TaskIds : job'[t] = (IF t \in go THEN "create" ELSE "none")
    BY DEF StartWave
  <1>2. wave \subseteq rem /\ go \subseteq wave
    BY DEF NextWave
  <1>3. ASSUME NEW d \in TaskIds, ws[d] # "pending"
        PROVE  wstatus'[d] = ws[d]
    BY <1>1, <1>2, <1>3
  <1>4. ASSUME NEW t \in go
        PROVE  \A d \in deps[t] : Satisfied(d, ws, ho)
    BY DEF UpstreamDone, Satisfied
  <1>5. ASSUME NEW t \in wave, t \notin go
        PROVE  \E d \in deps[t] : Blocks(d, wstatus', handoff')
    <2>1. PICK d \in deps[t] : ~(ws[d] = "done" /\ ho[d] = "done")
      BY <1>5 DEF UpstreamDone
    <2>2. t \in TaskIds /\ d \in TaskIds
      BY <1>2
    <2>3. CASE d \notin rem
      <3>1. wstatus'[d] = ws[d]
        BY <1>3, <2>2, <2>3
      <3>2. ws[d] \in {"none", "failed", "skipped", "done"}
        BY <2>2, <2>3 DEF WorkerStates
      <3>3. Blocks(d, wstatus', handoff')
        BY <2>1, <3>1, <3>2 DEF Blocks
      <3> QED
        BY <2>1, <3>3
    <2>4. CASE d \in rem
      <3>1. wave = rem /\ \A s \in rem : deps[s] \cap rem # {}
        BY <1>5, <2>2, <2>4 DEF NextWave
      <3>2. d \notin go
        <4>1. PICK e \in deps[d] : e \in rem
          BY <2>4, <3>1
        <4>2. ws[e] = "pending"
          BY <4>1
        <4> QED
          BY <1>4, <4>1, <4>2 DEF Satisfied
      <3>3. wstatus'[d] = "skipped"
        BY <1>1, <2>2, <2>4, <3>1, <3>2
      <3>4. Blocks(d, wstatus', handoff')
        BY <3>3 DEF Blocks
      <3> QED
        BY <2>1, <3>4
    <2> QED
      BY <2>3, <2>4
  <1> HIDE DEF wave, go
  <1>6. ASSUME NEW t \in TaskIds, wstatus'[t] \in {"running", "done", "failed"}
        PROVE  \A d \in dependsOn'[t] : Satisfied(d, wstatus', handoff')
    <2>1. \A d \in deps[t] : Satisfied(d, ws, ho)
      BY <1>1, <1>4, <1>6
    <2>2. \A d \in deps[t] : wstatus'[d] = ws[d]
      BY <1>3, <2>1 DEF Satisfied
    <2> QED
      BY <2>1, <2>2 DEF Satisfied
  <1>7. ASSUME NEW t \in TaskIds, wstatus'[t] = "skipped"
        PROVE  \E d \in dependsOn'[t] : Blocks(d, wstatus', handoff')
    <2>1. CASE t \in wave
      BY <1>1, <1>5, <1>7, <2>1
    <2>2. CASE t \notin wave
      <3>1. ws[t] = "skipped"
        BY <1>1, <1>2, <1>7, <2>2
      <3>2. PICK d \in deps[t] : Blocks(d, ws, ho)
        BY <3>1
      <3>3. wstatus'[d] = ws[d]
        BY <1>3, <3>2 DEF Blocks
      <3> QED
        BY <3>2, <3>3 DEF Blocks
    <2> QED
      BY <2>1, <2>2
  <1>8. ASSUME NEW t \in TaskIds
        PROVE  /\ wstatus'[t] = "none" <=> ws[t] = "none"
               /\ wstatus'[t] = "running" <=> job'[t] \in AtWork
               /\ wstatus'[t] = "pending" <=> t \in remaining'
    BY <1>1, <1>2
  <1> QED
    BY <1>6, <1>7, <1>8

LEMMA UpstreamStep ==
  MissionTypeOK /\ Shape /\ UpstreamInv /\ [MissionNext]_missionVars => UpstreamInv'
  <1> SUFFICES ASSUME MissionTypeOK, Shape, UpstreamInv, [MissionNext]_missionVars
               PROVE  UpstreamInv'
    OBVIOUS
  <1> USE DEF snapshotVars, executeVars, parentVars
  <1>1. ASSUME UNCHANGED <<exec, runId, planned, wstatus, handoff, dependsOn>>,
               \/ ~Current'
               \/ pc' # "wave"
               \/ UNCHANGED <<pc, aborted, remaining>> /\ \A t \in TaskIds : job'[t] \in AtWork <=> job[t] \in AtWork
        PROVE  UpstreamInv'
    BY <1>1 DEF UpstreamInv, Current, Satisfied, Blocks
  <1>2. ASSUME NEW parent \in BOOLEAN, Start(parent)
        PROVE  UpstreamInv'
    BY <1>2 DEF Start, UpstreamInv, Current, Shape, MissionTypeOK
  <1>3. ASSUME Stop
        PROVE  UpstreamInv'
    BY <1>1, <1>3 DEF Stop, Current
  <1>4. ASSUME ParentNext \/ UNCHANGED missionVars
        PROVE  UpstreamInv'
    BY <1>1, <1>4 DEF ParentNext, UserTurn, ParentTurnEnd, RetryTimerFires, ParentSendReturns,
                      ParentSendRejects, missionVars
  <1>5. ASSUME BeginExecute
        PROVE  UpstreamInv'
    <2>1. planned = {} /\ wstatus = Unplanned /\ UNCHANGED <<runId, planned, wstatus>> /\ pc' # "wave"
      BY <1>5 DEF BeginExecute, UpstreamInv
    <2> QED
      BY <2>1 DEF UpstreamInv
  <1>6. ASSUME NEW ids \in SUBSET TaskIds, NEW dup, NEW deps \in [TaskIds -> SUBSET TaskIds],
               PlanArrives(ids, deps, dup)
        PROVE  UpstreamInv'
    <2> DEFINE ws == [t \in TaskIds |-> IF t \in ids THEN "pending" ELSE "none"]
               ho == Unplanned
    <2>1. StartWave(ids, deps, ws, ho) /\ dependsOn' = deps /\ handoff' = ho /\ planned' = ids
      BY <1>6 DEF PlanArrives
    <2>2. ws \in [TaskIds -> WorkerStates] /\ ho \in [TaskIds -> {"none", "done", "partial"}]
      BY DEF WorkerStates
    <2>3. \A t \in TaskIds : ws[t] = (IF t \in ids THEN "pending" ELSE "none")
      OBVIOUS
    <2>4. exec' = runId' /\ runId' \in Nat
      BY <1>6 DEF PlanArrives, Current, MissionTypeOK
    <2> HIDE DEF ws, ho
    <2>5. /\ \A t \in TaskIds : wstatus'[t] = "none" <=> ws[t] = "none"
          /\ \A t \in TaskIds :
              /\ wstatus'[t] \in {"running", "done", "failed"} => \A d \in dependsOn'[t] : Satisfied(d, wstatus', handoff')
              /\ wstatus'[t] = "skipped" => \E d \in dependsOn'[t] : Blocks(d, wstatus', handoff')
          /\ \A t \in TaskIds :
              /\ wstatus'[t] = "running" <=> job'[t] \in AtWork
              /\ wstatus'[t] = "pending" <=> t \in remaining'
      BY <2>1, <2>2, <2>3, WaveStep
    <2> QED
      BY <2>1, <2>3, <2>4, <2>5 DEF UpstreamInv
  <1>7. ASSUME NextWaveStarts
        PROVE  UpstreamInv'
    <2>1. StartWave(remaining, dependsOn, wstatus, handoff)
          /\ UNCHANGED <<dependsOn, handoff, planned, exec, runId>>
      BY <1>7 DEF NextWaveStarts
    <2>2. Current /\ exec = runId /\ pc = "wave" /\ \A t \in TaskIds : job[t] \notin AtWork
      BY <1>7 DEF NextWaveStarts, WaveOver, Current
    <2>3. /\ \A t \in TaskIds : wstatus[t] = "pending" <=> t \in remaining
          /\ \A t \in TaskIds : wstatus[t] # "running"
      BY <2>2 DEF UpstreamInv
    <2>4. /\ \A t \in TaskIds : wstatus[t] \in {"done", "failed"} =>
                \A d \in dependsOn[t] : Satisfied(d, wstatus, handoff)
          /\ \A t \in TaskIds : wstatus[t] = "skipped" =>
                \E d \in dependsOn[t] : Blocks(d, wstatus, handoff)
      BY <2>2 DEF UpstreamInv
    <2>5. /\ remaining \in SUBSET TaskIds /\ dependsOn \in [TaskIds -> SUBSET TaskIds]
          /\ wstatus \in [TaskIds -> WorkerStates] /\ handoff \in [TaskIds -> {"none", "done", "partial"}]
      BY DEF MissionTypeOK, WorkerStates
    <2>6. /\ \A t \in TaskIds : wstatus'[t] = "none" <=> wstatus[t] = "none"
          /\ \A t \in TaskIds :
              /\ wstatus'[t] \in {"running", "done", "failed"} => \A d \in dependsOn'[t] : Satisfied(d, wstatus', handoff')
              /\ wstatus'[t] = "skipped" => \E d \in dependsOn'[t] : Blocks(d, wstatus', handoff')
          /\ \A t \in TaskIds :
              /\ wstatus'[t] = "running" <=> job'[t] \in AtWork
              /\ wstatus'[t] = "pending" <=> t \in remaining'
      BY <2>1, <2>3, <2>4, <2>5, WaveStep
    <2> QED
      BY <2>1, <2>2, <2>6 DEF UpstreamInv, MissionTypeOK
  <1>8. ASSUME PlanFails \/ AllWorkersFailed \/ SynthesisStarts \/ GiveUp
        PROVE  UpstreamInv'
    <2>1. UNCHANGED <<exec, runId, planned, wstatus, handoff, dependsOn>> /\ pc' # "wave"
      BY <1>8 DEF PlanFails, AllWorkersFailed, SynthesisStarts, GiveUp, Finish, Return
    <2> QED
      BY <1>1, <2>1
  <1>9. ASSUME NEW j \in Jobs, ChatNext(j)
        PROVE  UpstreamInv'
    <2>1. UNCHANGED <<exec, runId, planned, wstatus, handoff, dependsOn, pc, aborted, remaining>>
      BY <1>9 DEF ChatNext, ChatCreated, GateWaits, GateAnswered
    <2>2. \A t \in TaskIds : job'[t] \in AtWork <=> job[t] \in AtWork
      BY <1>9 DEF ChatNext, ChatCreated, GateWaits, GateAnswered, MissionTypeOK
    <2> QED
      BY <1>1, <2>1, <2>2
  <1>10. ASSUME NEW t \in TaskIds, WorkerEnds(t), Current
         PROVE  UpstreamInv'
    <2>1. job[t] \in AtWork /\ pc = "wave"
      BY <1>10 DEF WorkerEnds, WorkerReturns, WorkerThrows, WorkerAbandoned, Shape, MissionTypeOK
    <2>2. wstatus[t] = "running" /\ exec = runId
      BY <1>10, <2>1 DEF UpstreamInv, Current
    <2>3. /\ \A s \in TaskIds : s # t => wstatus'[s] = wstatus[s] /\ handoff'[s] = handoff[s]
                                          /\ job'[s] = job[s]
          /\ wstatus'[t] \in {"done", "failed"} /\ job'[t] = "ended"
          /\ UNCHANGED <<planned, dependsOn, exec, runId, pc, aborted, remaining>>
      BY <1>10 DEF WorkerEnds, WorkerReturns, WorkerThrows, WorkerAbandoned, Leave, Ended, MissionTypeOK
    <2>4. \A d \in TaskIds : Satisfied(d, wstatus, handoff) => d # t /\ Satisfied(d, wstatus', handoff')
      BY <2>2, <2>3 DEF Satisfied
    <2>5. \A d \in TaskIds : Blocks(d, wstatus, handoff) => d # t /\ Blocks(d, wstatus', handoff')
      BY <2>2, <2>3 DEF Blocks
    <2>6. t \in planned
      BY <2>2 DEF UpstreamInv
    <2>7. /\ \A s \in TaskIds \ planned' : wstatus'[s] = "none"
          /\ \A s \in planned' :
               /\ wstatus'[s] \in {"running", "done", "failed"} => \A d \in dependsOn'[s] : Satisfied(d, wstatus', handoff')
               /\ wstatus'[s] = "skipped" => \E d \in dependsOn'[s] : Blocks(d, wstatus', handoff')
      BY <2>2, <2>3, <2>4, <2>5, <2>6 DEF UpstreamInv, MissionTypeOK
    <2>8. \A s \in TaskIds : /\ wstatus'[s] = "running" <=> job'[s] \in AtWork
                             /\ wstatus'[s] = "pending" <=> s \in remaining'
      BY <1>10, <2>1, <2>2, <2>3 DEF UpstreamInv
    <2> QED
      BY <2>2, <2>3, <2>7, <2>8 DEF UpstreamInv, MissionTypeOK
  <1>11. ASSUME NEW t \in TaskIds, WorkerEnds(t), ~Current
         PROVE  UpstreamInv'
    BY <1>1, <1>11 DEF WorkerEnds, WorkerReturns, WorkerThrows, WorkerAbandoned, Leave, Current
  <1>12. ASSUME SynthesisEnds
         PROVE  UpstreamInv'
    <2>1. UNCHANGED <<exec, runId, planned, wstatus, handoff, dependsOn>> /\ pc' # "wave"
      BY <1>12 DEF SynthesisEnds, SynthesisReturns, SynthesisThrows, SynthesisAbandoned, Finish, Leave
    <2> QED
      BY <1>1, <2>1
  <1>13. ASSUME PlanNext
         PROVE  UpstreamInv'
    <2>1. PICK ids \in SUBSET TaskIds \ {{}}, dup \in BOOLEAN : \E d \in [ids -> SUBSET TaskIds] :
            PlanArrives(ids, [t \in TaskIds |-> IF t \in ids THEN d[t] ELSE {}], dup)
      BY <1>13 DEF PlanNext
    <2>2. PICK d \in [ids -> SUBSET TaskIds] :
            PlanArrives(ids, [t \in TaskIds |-> IF t \in ids THEN d[t] ELSE {}], dup)
      BY <2>1
    <2>3. [t \in TaskIds |-> IF t \in ids THEN d[t] ELSE {}] \in [TaskIds -> SUBSET TaskIds]
      OBVIOUS
    <2> QED
      BY <1>6, <2>2, <2>3
  <1>14. ASSUME ExecuteNext
         PROVE  UpstreamInv'
    BY <1>5, <1>7, <1>8, <1>13, <1>14 DEF ExecuteNext
  <1> QED
    BY <1>2, <1>3, <1>4, <1>9, <1>10, <1>11, <1>12, <1>14 DEF MissionNext, ClientNext

(***************************************************************************)
(* Workers start, and are skipped, exactly as what they depend on says.    *)
(***************************************************************************)
THEOREM UpstreamCorrect == MissionSpec => []UpstreamDecides
  <1>1. MissionInit => UpstreamInv
    BY DEF MissionInit, UpstreamInv, Current
  <1> QED
    BY <1>1, UpstreamStep, UpstreamImplied, MissionTypeCorrect, PTL DEF MissionSpec

HIDE OrchestrationAssumption DEF OrchestrationAssumption, Jobs, Runs, Busy, Terminal, AtWork,
                                Unplanned, NoJob

-----------------------------------------------------------------------------
(***************************************************************************)
(* The two together.                                                       *)
(***************************************************************************)

(***************************************************************************)
(* What the composition explores is a behaviour of each activity: what is  *)
(* proved about one holds of the sidecar.                                  *)
(***************************************************************************)
LEMMA SidecarIsMissions == SidecarSpec => MissionSpec
  <1>1. SidecarInit => MissionInit
    BY DEF SidecarInit
  <1>2. [SidecarNext]_sidecarVars => [MissionNext]_missionVars
    BY DEF SidecarNext, sidecarVars
  <1> QED
    BY <1>1, <1>2, PTL DEF SidecarSpec, MissionSpec

(***************************************************************************)
(* The same of the inbox watcher.                                          *)
(***************************************************************************)
LEMMA SidecarIsInbox == SidecarSpec => InboxSpec
  <1>1. SidecarInit => InboxInit
    BY DEF SidecarInit
  <1>2. [SidecarNext]_sidecarVars => [InboxNext]_inboxVars
    BY DEF SidecarNext, sidecarVars
  <1> QED
    BY <1>1, <1>2, PTL DEF SidecarSpec, InboxSpec

(***************************************************************************)
(* Both activities keep their types, with the other one beside them.       *)
(***************************************************************************)
THEOREM SidecarTypeCorrect == SidecarSpec => []SidecarTypeOK
  <1>1. MissionTypeOK /\ InboxTypeOK => SidecarTypeOK
    BY DEF SidecarTypeOK
  <1> QED
    BY <1>1, SidecarIsMissions, SidecarIsInbox, MissionTypeCorrect, InboxTypeCorrect, PTL

(***************************************************************************)
(* In the sidecar too a mail is triaged again only if it was lost and is   *)
(* listed again, no other run's autopilot is set, a failure reaches those  *)
(* who wait for it, the chat is told once, and the outcome of a mission is *)
(* final.                                                                  *)
(***************************************************************************)
THEOREM SidecarCorrect ==
  SidecarSpec =>
    /\ [](RepeatedOnlyIfLost /\ AutopilotIsCurrent /\ UpstreamDecides /\ ToldOnce)
    /\ TerminalIsFinal
  BY SidecarIsMissions, SidecarIsInbox, RepeatsCorrect, AutopilotCorrect, UpstreamCorrect,
     ToldCorrect, OutcomeIsFinal, PTL
=============================================================================
