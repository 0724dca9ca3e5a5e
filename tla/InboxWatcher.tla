----------------------------- MODULE InboxWatcher -----------------------------
(***************************************************************************)
(* The inbox watcher: runInboxWatchCycle (core/src/inbox_watcher), the     *)
(* queue file it shares with processItems and dismissItems                 *)
(* (sidecar/src/inbox_watcher_service.ts), and a crash of the sidecar.     *)
(*                                                                         *)
(* Nobody locks the queue file: an update reads it, and writes it back at  *)
(* a later step, with whatever the others wrote in between undone.  A      *)
(* write itself is one step, and reads and writes of the files succeed.    *)
(***************************************************************************)
EXTENDS Naturals, FiniteSets

CONSTANTS
  LastMail,      \* mails that will arrive: 1..LastMail
  Processors,    \* calls of processItems that can be under way
  MaxTriage,     \* cfg.maxTriagePerCycle
  Backfill,      \* cfg.backfillMax, when it is not 0
  QueueMax,      \* QUEUE_MAX
  MaxCommands,   \* client commands and user turns (bounds the model)
  MaxCrashes     \* crashes (bounds the model)

ASSUME InboxAssumption ==
  /\ LastMail \in Nat
  /\ MaxTriage \in Nat \ {0}
  /\ Backfill \in Nat \ {0}
  /\ QueueMax \in Nat \ {0}
  /\ MaxCommands \in Nat
  /\ MaxCrashes \in Nat
  /\ {"cycle", "dismiss", "none", "user"} \cap Processors = {}

Mails  == 1..LastMail
Actors == {"cycle", "dismiss"} \cup Processors

VARIABLES
  enabled,   \* cfg.enabled: the watcher is switched on
  provider,  \* of the account that is watched
  arrived,   \* mails 1..arrived are in the mailbox
  cursor,    \* on disk: the provider cursor, the last mail it covers
  baseline,  \* on disk: absent, half established, established, and backfilled
  queue,     \* on disk: the status of each mail in the queue
  copy,      \* the queue as each actor last read it
  cycle,     \* where runInboxWatchCycle is
  anyAge,    \* the cycle found the chat idle: it recovers items of any age
  found,     \* poll's messages, and then the batch still to be triaged
  newCursor, \* the cursor poll returned
  newBaseline, \* what poll says of the baseline
  newItems,  \* mails triaged in this cycle: their status
  at,        \* where each processItems is
  items,     \* the mails each processItems works on
  outcome,   \* the status it will give them
  dismissing,\* the mails dismissItems is about to write
  turn,      \* whose turn the active chat is in
  commands,  \* client commands and user turns so far
  crashes,   \* crashes so far
  triages,   \* history: how often each mail was triaged, 2 for more than once
  lost,      \* history: mails that were kept, in queue or newItems, and then not
  backfilled \* history: mails that a backfill returned

settings    == <<enabled, provider>>
cycleVars   == <<cycle, anyAge, found, newCursor, newBaseline, newItems>>
processVars == <<at, items, outcome>>
boundVars   == <<commands, crashes>>
diskVars    == <<cursor, baseline, queue>>
historyVars == <<triages, lost, backfilled>>
inboxVars   == <<settings, arrived, diskVars, copy, cycleVars, processVars, dismissing, turn,
                 boundVars, historyVars>>

Status   == {"absent", "pending", "processing", "done", "dismissed"}
Baseline == {"none", "half", "set", "filled"}
Nothing == [m \in Mails |-> "absent"]

(***************************************************************************)
(* A mail is kept while the queue on disk or the cycle has an item for it. *)
(***************************************************************************)
Kept(q, new) == {m \in Mails : q[m] # "absent" \/ new[m] # "absent"}

LossesNoted == lost' = lost \cup (Kept(queue, newItems) \ Kept(queue', newItems'))

Read(a)   == copy' = [copy EXCEPT ![a] = queue]
Forget(a) == copy' = [copy EXCEPT ![a] = Nothing]

(***************************************************************************)
(* updateQueueItemStatus writes back what it read, with a new status for   *)
(* the items it was given; an item that is not in the queue stays absent.  *)
(***************************************************************************)
Updated(q, S, st) == [m \in Mails |-> IF m \in S /\ q[m] # "absent" THEN st ELSE q[m]]

-----------------------------------------------------------------------------
MailArrives ==
  /\ arrived < LastMail
  /\ arrived' = arrived + 1
  /\ UNCHANGED <<settings, diskVars, copy, cycleVars, processVars, dismissing, turn, boundVars,
                 historyVars>>

(***************************************************************************)
(* A cycle starts, if the watcher is enabled, unless one is in flight or,  *)
(* as configured by default, the active chat is busy.  A busy chat limits  *)
(* what it recovers.                                                       *)
(***************************************************************************)
CycleBegins(whileBusy) ==
  /\ enabled
  /\ cycle = "idle"
  /\ turn # "none" => whileBusy
  /\ cycle' = "recover"
  /\ anyAge' = (turn = "none")
  /\ Read("cycle")
  /\ UNCHANGED <<settings, arrived, diskVars, found, newCursor, newBaseline, newItems, processVars,
                 dismissing, turn, boundVars, historyVars>>

RecoverByAge(old) ==                            \* mutant: only items over 45 minutes old
  /\ cycle = "recover"
  /\ queue' = [m \in Mails |-> IF copy["cycle"][m] = "processing" /\ m \in old
                               THEN "pending" ELSE copy["cycle"][m]]
  /\ cycle' = "read"
  /\ anyAge' = FALSE
  /\ Forget("cycle")
  /\ UNCHANGED newItems
  /\ LossesNoted
  /\ UNCHANGED <<settings, arrived, cursor, baseline, found, newCursor, newBaseline, processVars,
                  dismissing, turn, boundVars, triages, backfilled>>

(***************************************************************************)
(* recoverStaleProcessingQueueItems, in a cycle that found the items old   *)
(* over 45 minutes old.  It writes only if there is something to recover.  *)
(***************************************************************************)
Recover(old) ==
  LET stale == {m \in Mails : copy["cycle"][m] = "processing" /\ (anyAge \/ m \in old)}
  IN  /\ cycle = "recover"
      /\ queue' = IF stale = {} THEN queue ELSE Updated(copy["cycle"], stale, "pending")
      /\ cycle' = "read"
      /\ anyAge' = FALSE
      /\ Forget("cycle")
      /\ UNCHANGED newItems
      /\ LossesNoted
      /\ UNCHANGED <<settings, arrived, cursor, baseline, found, newCursor, newBaseline,
                     processVars, dismissing, turn, boundVars, triages, backfilled>>

(***************************************************************************)
(* The queue is read, and the position of the mailbox, which a poll takes  *)
(* before it lists anything.                                               *)
(***************************************************************************)
CycleReads ==
  /\ cycle = "read"
  /\ cycle' = "poll"
  /\ Read("cycle")
  /\ newCursor' = arrived
  /\ UNCHANGED <<settings, arrived, diskVars, anyAge, found, newBaseline, newItems, processVars,
                 dismissing, turn, boundVars, historyVars>>

(***************************************************************************)
(* What a poll returns: the messages S, the cursor c, the baseline b.  A   *)
(* message whose metadata cannot be fetched, or that is beyond the page,   *)
(* is left out, so S can be any part of what the provider knows.           *)
(***************************************************************************)
Polled(S, c, b) ==
  /\ cycle = "poll"
  /\ found' = S
  /\ newCursor' = c
  /\ newBaseline' = b
  /\ cycle' = "cursor"
  /\ UNCHANGED <<settings, arrived, diskVars, copy, anyAge, newItems, processVars, dismissing,
                 turn, boundVars, triages, lost>>

(***************************************************************************)
(* The first polls of an account, with and without a backfill.  A backfill *)
(* is also made later, when it was off before.                             *)
(***************************************************************************)
PollBaseline ==
  /\ baseline \in {"none", "half"}
  /\ Polled({}, newCursor, IF baseline = "none" THEN "half" ELSE "set")
  /\ UNCHANGED backfilled

PollBackfill(S) ==
  /\ baseline # "filled"
  /\ S \subseteq 1..arrived /\ Cardinality(S) <= Backfill
  /\ Polled(S, newCursor, "filled")
  /\ backfilled' = backfilled \cup S

(***************************************************************************)
(* Later polls.  Gmail's history has the mails added after the cursor; the *)
(* delta of Microsoft Graph has every message that was added or changed.   *)
(***************************************************************************)
Reported == IF provider = "gmail" THEN (cursor + 1)..arrived ELSE 1..arrived

PollChanges(S) ==
  /\ baseline \in {"set", "filled"}
  /\ S \subseteq Reported
  /\ Polled(S, arrived, baseline)
  /\ UNCHANGED backfilled

(***************************************************************************)
(* Gmail has nothing new, or has forgotten the history since the cursor.   *)
(***************************************************************************)
PollSkips ==
  /\ provider = "gmail"
  /\ baseline \in {"set", "filled"}
  /\ Polled({}, newCursor, baseline)
  /\ UNCHANGED backfilled

(***************************************************************************)
(* The cursor is written before anything is triaged.  What the queue knows *)
(* already is dropped, and so is what exceeds the limit of a cycle.        *)
(***************************************************************************)
FreshAll == found                               \* mutant: the queue is not asked

Fresh == {m \in found : copy["cycle"][m] = "absent"}

Batches == {B \in SUBSET Fresh : Cardinality(B) <= MaxTriage
                                 /\ (B = Fresh \/ Cardinality(B) = MaxTriage)}

CursorWritten(B) ==
  /\ cycle = "cursor"
  /\ B \in Batches
  /\ baseline' = newBaseline
  /\ found' = B
  /\ newCursor' = 0 /\ newBaseline' = "none"
  /\ Forget("cycle")
  /\ cycle' = IF B = {} THEN "idle" ELSE "triage"
  /\ UNCHANGED <<settings, arrived, queue, anyAge, newItems, processVars, dismissing, turn,
                 boundVars, historyVars>>

WriteCursorLater(B) == CursorWritten(B) /\ UNCHANGED cursor     \* mutant: not before the triage

WriteCursorPast(B) == CursorWritten(B) /\ cursor' = newCursor + 1        \* mutant: one too far

WriteCursor(B) == CursorWritten(B) /\ cursor' = newCursor

(***************************************************************************)
(* One mail is triaged: it stays pending, or its label settles it.         *)
(***************************************************************************)
Triage(m, st) ==
  /\ cycle = "triage"
  /\ m \in found
  /\ found' = found \ {m}
  /\ newItems' = [newItems EXCEPT ![m] = st]
  /\ triages' = [triages EXCEPT ![m] = IF @ < 2 THEN @ + 1 ELSE 2]
  /\ UNCHANGED <<settings, arrived, diskVars, copy, cycle, anyAge, newCursor, newBaseline,
                 processVars, dismissing, turn, boundVars, lost, backfilled>>

(***************************************************************************)
(* upsertQueueItems: the queue is read again, and merged; beyond QUEUE_MAX *)
(* what was triaged last is dropped, as the queue is sorted newest first   *)
(* and its last QUEUE_MAX items are written.                               *)
(***************************************************************************)
MergeReads ==
  /\ cycle = "triage" /\ found = {}
  /\ cycle' = "merge"
  /\ Read("cycle")
  /\ UNCHANGED <<settings, arrived, diskVars, anyAge, found, newCursor, newBaseline, newItems,
                 processVars, dismissing, turn, boundVars, historyVars>>

Merged(q) == [m \in Mails |-> IF newItems[m] = "absent" \/ q[m] = "done" THEN q[m]
                              ELSE newItems[m]]

Listed(q) == {m \in Mails : q[m] # "absent"}

Overflows(q) ==
  {D \in SUBSET Listed(newItems) : \/ D = {} /\ Cardinality(Listed(q)) <= QueueMax
                                   \/ Cardinality(Listed(q) \ D) = QueueMax}

Merge(D) ==
  /\ cycle = "merge"
  /\ D \in Overflows(Merged(copy["cycle"]))
  /\ queue' = [m \in Mails |-> IF m \in D THEN "absent" ELSE Merged(copy["cycle"])[m]]
  /\ cycle' = "merged"
  /\ newItems' = Nothing
  /\ Forget("cycle")
  /\ LossesNoted
  /\ UNCHANGED <<settings, arrived, cursor, baseline, anyAge, found, newCursor, newBaseline,
                 processVars, dismissing, turn, boundVars, triages, backfilled>>

(***************************************************************************)
(* The cycle is over: after the merge, or with a failed poll or an error   *)
(* of the triage or of a label, which leave what was triaged out.          *)
(***************************************************************************)
CycleEnds ==
  /\ cycle \in {"poll", "triage", "merged"}
  /\ cycle' = "idle"
  /\ found' = {} /\ newCursor' = 0 /\ newItems' = Nothing
  /\ Forget("cycle")
  /\ UNCHANGED queue
  /\ LossesNoted
  /\ UNCHANGED <<settings, arrived, cursor, baseline, newBaseline, anyAge, processVars,
                 dismissing, turn, boundVars, triages, backfilled>>

-----------------------------------------------------------------------------
(***************************************************************************)
(* autoProcessNeedsAction, not awaited by the cycle that calls it; a call  *)
(* of processItems by a client.                                            *)
(***************************************************************************)
AutoProcess(p, S) ==
  /\ cycle = "merged"
  /\ turn = "none"
  /\ at[p] = "idle"
  /\ S # {} /\ \A m \in S : queue[m] = "pending"
  /\ cycle' = "idle"
  /\ at' = [at EXCEPT ![p] = "enter"]
  /\ items' = [items EXCEPT ![p] = S]
  /\ UNCHANGED <<settings, arrived, diskVars, copy, anyAge, found, newCursor, newBaseline, newItems,
                 outcome, dismissing, turn, boundVars, historyVars>>

ProcessItems(p, S) ==
  /\ commands < MaxCommands
  /\ commands' = commands + 1
  /\ at[p] = "idle"
  /\ at' = [at EXCEPT ![p] = "enter"]
  /\ items' = [items EXCEPT ![p] = S]
  /\ UNCHANGED <<settings, arrived, diskVars, copy, cycleVars, outcome, dismissing, turn, crashes,
                 historyVars>>

(***************************************************************************)
(* The chat must not be busy.  The items are looked up, and the queue is   *)
(* read again to mark them (two reads in a row, taken as one).             *)
(***************************************************************************)
Select(p) ==
  LET S == {m \in items[p] : queue[m] # "absent"}
      go == turn = "none" /\ S # {}
  IN  /\ at[p] = "enter"
      /\ at' = [at EXCEPT ![p] = IF go THEN "marking" ELSE "idle"]
      /\ items' = [items EXCEPT ![p] = IF go THEN S ELSE {}]
      /\ IF go THEN Read(p) ELSE UNCHANGED copy
      /\ UNCHANGED <<settings, arrived, diskVars, cycleVars, outcome, dismissing, turn, boundVars,
                     historyVars>>

Mark(p) ==
  /\ at[p] = "marking"
  /\ queue' = Updated(copy[p], items[p], "processing")
  /\ at' = [at EXCEPT ![p] = "send"]
  /\ Forget(p)
  /\ UNCHANGED cycleVars
  /\ LossesNoted
  /\ UNCHANGED <<settings, arrived, cursor, baseline, items, outcome, dismissing, turn,
                 boundVars, triages, backfilled>>

(***************************************************************************)
(* sendUserMessage throws if the chat became busy meanwhile.               *)
(***************************************************************************)
Send(p) ==
  /\ at[p] = "send"
  /\ IF turn = "none"
     THEN turn' = p /\ at' = [at EXCEPT ![p] = "turn"] /\ UNCHANGED outcome
     ELSE /\ at' = [at EXCEPT ![p] = "settle"]
          /\ outcome' = [outcome EXCEPT ![p] = "pending"]
          /\ UNCHANGED turn
  /\ UNCHANGED <<settings, arrived, diskVars, copy, cycleVars, items, dismissing, boundVars, historyVars>>

TurnOver(p, st) ==
  /\ at[p] = "turn"
  /\ turn' = "none"
  /\ at' = [at EXCEPT ![p] = "settle"]
  /\ outcome' = [outcome EXCEPT ![p] = st]
  /\ UNCHANGED <<settings, arrived, diskVars, copy, cycleVars, items, dismissing, boundVars, historyVars>>

SettleReads(p) ==
  /\ at[p] = "settle"
  /\ at' = [at EXCEPT ![p] = "settling"]
  /\ Read(p)
  /\ UNCHANGED <<settings, arrived, diskVars, cycleVars, items, outcome, dismissing, turn, boundVars,
                 historyVars>>

Settle(p) ==
  /\ at[p] = "settling"
  /\ queue' = Updated(copy[p], items[p], outcome[p])
  /\ at' = [at EXCEPT ![p] = "idle"]
  /\ items' = [items EXCEPT ![p] = {}]
  /\ outcome' = [outcome EXCEPT ![p] = "pending"]
  /\ Forget(p)
  /\ UNCHANGED cycleVars
  /\ LossesNoted
  /\ UNCHANGED <<settings, arrived, cursor, baseline, dismissing, turn, boundVars,
                 triages, backfilled>>

(***************************************************************************)
(* dismissItems.                                                           *)
(***************************************************************************)
DismissReads(S) ==
  /\ commands < MaxCommands
  /\ commands' = commands + 1
  /\ dismissing = {}
  /\ dismissing' = S
  /\ Read("dismiss")
  /\ UNCHANGED <<settings, arrived, diskVars, cycleVars, processVars, turn, crashes, historyVars>>

DismissWrites ==
  /\ dismissing # {}
  /\ queue' = Updated(copy["dismiss"], dismissing, "dismissed")
  /\ dismissing' = {}
  /\ Forget("dismiss")
  /\ UNCHANGED cycleVars
  /\ LossesNoted
  /\ UNCHANGED <<settings, arrived, cursor, baseline, processVars, turn, boundVars,
                 triages, backfilled>>

UserTurnBegins ==
  /\ commands < MaxCommands
  /\ commands' = commands + 1
  /\ turn = "none"
  /\ turn' = "user"
  /\ UNCHANGED <<settings, arrived, diskVars, copy, cycleVars, processVars, dismissing, crashes, historyVars>>

UserTurnEnds ==
  /\ turn = "user"
  /\ turn' = "none"
  /\ UNCHANGED <<settings, arrived, diskVars, copy, cycleVars, processVars, dismissing, boundVars,
                 historyVars>>

(***************************************************************************)
(* The sidecar stops between two steps and is started again: the files     *)
(* stay, everything else is lost.                                          *)
(***************************************************************************)
Crash ==
  /\ crashes < MaxCrashes
  /\ crashes' = crashes + 1
  /\ copy' = [a \in Actors |-> Nothing]
  /\ cycle' = "idle" /\ anyAge' = FALSE
  /\ found' = {} /\ newCursor' = 0 /\ newBaseline' = "none" /\ newItems' = Nothing
  /\ at' = [p \in Processors |-> "idle"]
  /\ items' = [p \in Processors |-> {}]
  /\ outcome' = [p \in Processors |-> "pending"]
  /\ dismissing' = {}
  /\ turn' = "none"
  /\ UNCHANGED queue
  /\ LossesNoted
  /\ UNCHANGED <<settings, arrived, cursor, baseline, commands, triages, backfilled>>

-----------------------------------------------------------------------------
(***************************************************************************)
(* An account that was just connected: no cursor, perhaps mails already.   *)
(***************************************************************************)
InboxInit ==
  /\ enabled \in BOOLEAN
  /\ provider \in {"gmail", "microsoft"}
  /\ arrived \in 0..LastMail
  /\ cursor = 0 /\ baseline = "none"
  /\ queue = Nothing
  /\ copy = [a \in Actors |-> Nothing]
  /\ cycle = "idle" /\ anyAge = FALSE
  /\ found = {} /\ newCursor = 0 /\ newBaseline = "none" /\ newItems = Nothing
  /\ at = [p \in Processors |-> "idle"]
  /\ items = [p \in Processors |-> {}]
  /\ outcome = [p \in Processors |-> "pending"]
  /\ dismissing = {}
  /\ turn = "none"
  /\ commands = 0 /\ crashes = 0
  /\ triages = [m \in Mails |-> 0]
  /\ lost = {} /\ backfilled = {}

CycleStep ==
  \/ \E whileBusy \in BOOLEAN : CycleBegins(whileBusy)
  \/ \E old \in SUBSET Mails : Recover(old)
  \/ CycleReads
  \/ PollBaseline \/ PollSkips
  \/ \E S \in SUBSET Mails : PollBackfill(S) \/ PollChanges(S)
  \/ \E B \in SUBSET Mails : WriteCursor(B)
  \/ \E m \in Mails, st \in {"pending", "done"} : Triage(m, st)
  \/ MergeReads \/ CycleEnds
  \/ \E D \in SUBSET Mails : Merge(D)
  \/ \E p \in Processors, S \in SUBSET Mails : AutoProcess(p, S)

ProcessStep(p) ==
  \/ Select(p) \/ Mark(p) \/ Send(p)
  \/ \E st \in {"done", "pending"} : TurnOver(p, st)
  \/ SettleReads(p) \/ Settle(p)

(***************************************************************************)
(* A client names items that were in the queue once.                       *)
(***************************************************************************)
Seen == {m \in Mails : triages[m] > 0}

InboxNext ==
  \/ MailArrives \/ CycleStep
  \/ \E p \in Processors : ProcessStep(p)
  \/ \E S \in SUBSET Seen \ {{}} :
       DismissReads(S) \/ \E p \in Processors : ProcessItems(p, S)
  \/ DismissWrites \/ UserTurnBegins \/ UserTurnEnds
  \/ Crash

InboxSpec == InboxInit /\ [][InboxNext]_inboxVars

(***************************************************************************)
(* The interval timer keeps starting cycles, awaited calls return, and     *)
(* turns of the chat end.                                                  *)
(***************************************************************************)
InboxFairness ==
  /\ WF_inboxVars(CycleStep)
  /\ \A p \in Processors : WF_inboxVars(ProcessStep(p))
  /\ WF_inboxVars(DismissWrites)
  /\ WF_inboxVars(UserTurnEnds)

-----------------------------------------------------------------------------
InboxTypeOK ==
  /\ enabled \in BOOLEAN
  /\ provider \in {"gmail", "microsoft"}
  /\ arrived \in 0..LastMail /\ cursor \in 0..LastMail
  /\ baseline \in Baseline
  /\ queue \in [Mails -> Status]
  /\ copy \in [Actors -> [Mails -> Status]]
  /\ cycle \in {"idle", "recover", "read", "poll", "cursor", "triage", "merge", "merged"}
  /\ anyAge \in BOOLEAN
  /\ found \in SUBSET Mails
  /\ newCursor \in 0..LastMail /\ newBaseline \in Baseline
  /\ newItems \in [Mails -> Status]
  /\ at \in [Processors -> {"idle", "enter", "marking", "send", "turn", "settle", "settling"}]
  /\ items \in [Processors -> SUBSET Mails]
  /\ outcome \in [Processors -> {"done", "pending"}]
  /\ dismissing \in SUBSET Mails
  /\ turn \in {"none", "user"} \cup Processors
  /\ commands \in 0..MaxCommands /\ crashes \in 0..MaxCrashes
  /\ triages \in [Mails -> 0..2]
  /\ lost \in SUBSET Mails /\ backfilled \in SUBSET Mails

ListedAgain(m) == provider = "microsoft" \/ m \in backfilled

(***************************************************************************)
(* A mail is triaged, and possibly labelled, again only after its item was *)
(* lost: by a crash or an error before the merge, by a stale write of the  *)
(* queue, or beyond QUEUE_MAX.  As long as it is kept, the queue holds off *)
(* every provider that lists it again (run_cycle.ts, lines 134 to 140).    *)
(* And a mail of Gmail that no backfill returned is not triaged twice, be  *)
(* it lost or not: the cursor is on disk before the triage (line 116).     *)
(***************************************************************************)
RepeatedOnlyIfLost == \A m \in Mails : triages[m] > 1 => m \in lost /\ ListedAgain(m)

(***************************************************************************)
(* A mail marked as being processed does not stay so, though the turn it   *)
(* was in may have died with the sidecar: the queue gets to a state where  *)
(* none is (recoverStaleProcessingQueueItems).                             *)
(***************************************************************************)
ProcessingIsRecovered ==
  (\E m \in Mails : queue[m] = "processing") ~> (\A m \in Mails : queue[m] # "processing")
=============================================================================
