----------------------------- MODULE PartsProofs -----------------------------
(***************************************************************************)
(* Proofs about the parts that calls from all sides share: the queue of    *)
(* provider requests, for any requests and any intervals, and the registry *)
(* of chats, for any number of chats, of concurrent calls and of commands; *)
(* then about the four parts together, as the run Parts explores them.     *)
(* The lock table and the sort of phases have modules of their own.        *)
(***************************************************************************)
EXTENDS MCParts, ResourceLocksProofs, PhaseOrderProofs

-----------------------------------------------------------------------------
(***************************************************************************)
(* The queue of provider requests.                                         *)
(***************************************************************************)

USE GateAssumption DEF GateAssumption, MayStart, Settled, Less

(***************************************************************************)
(* A request in its delay is the head of the chain, and its timer does not *)
(* end before the slot is free.                                            *)
(***************************************************************************)
DelayCoversSlot ==
  \A r \in Requests : stage[r] = "delay" => line # <<>> /\ r = Head(line) /\ left <= wait[r]

(***************************************************************************)
(* At most one request has taken a slot and not been sent, the slot is     *)
(* still all its own, and the interval before it is over.                  *)
(***************************************************************************)
SlotIsExclusive ==
  \A r \in Requests : stage[r] = "reserved" =>
    /\ left = interval[r] /\ quiet = 0
    /\ \A s \in Requests : stage[s] = "reserved" => s = r

(***************************************************************************)
(* Otherwise nextAllowedAt covers the interval of the last request sent.   *)
(***************************************************************************)
SlotCoversInterval == (\A r \in Requests : stage[r] # "reserved") => quiet <= left

IntervalsPositive == \A r \in Requests : stage[r] # "none" => interval[r] > 0

GateInv ==
  GateTypeOK /\ IntervalsPositive /\ DelayCoversSlot /\ SlotIsExclusive /\ SlotCoversInterval

-----------------------------------------------------------------------------
(***************************************************************************)
(* Whoever takes the slot finds it free, the last interval over, and no    *)
(* other request between its slot and its being sent.                      *)
(***************************************************************************)
LEMMA SlotIsFree ==
  ASSUME GateInv, left = 0
  PROVE  quiet = 0 /\ \A s \in Requests : stage[s] # "reserved"
  <1>1. ASSUME NEW s \in Requests, stage[s] = "reserved"
        PROVE  FALSE
    <2>1. left = interval[s]
      BY <1>1 DEF GateInv, SlotIsExclusive
    <2>2. interval[s] > 0
      BY <1>1 DEF GateInv, IntervalsPositive
    <2> QED
      BY <2>1, <2>2
  <1>2. quiet = 0
    BY <1>1 DEF GateInv, GateTypeOK, SlotCoversInterval
  <1> QED
    BY <1>1, <1>2

(***************************************************************************)
(* Taking the slot keeps the invariant.                                    *)
(***************************************************************************)
LEMMA ReservesStep ==
  ASSUME GateInv, left = 0, NEW r \in Requests,
         stage[r] \in {"queued", "delay"}, line # <<>>, r = Head(line),
         Reserves(r), UNCHANGED <<caller, stopped, interval, wait, quiet>>
  PROVE  GateInv'
  <1>1. quiet = 0 /\ \A s \in Requests : stage[s] # "reserved"
    BY SlotIsFree
  <1>2. GateTypeOK'
    BY DEF GateInv, GateTypeOK, Reserves
  <1>3. \A s \in Requests : stage'[s] = (IF s = r THEN "reserved" ELSE stage[s])
    BY DEF GateInv, GateTypeOK, Reserves
  <1>4. IntervalsPositive'
    BY <1>3 DEF GateInv, IntervalsPositive
  <1>5. DelayCoversSlot'
    BY <1>3 DEF GateInv, DelayCoversSlot
  <1>6. SlotIsExclusive'
    BY <1>1, <1>3 DEF SlotIsExclusive, Reserves
  <1>7. SlotCoversInterval'
    BY <1>3 DEF SlotCoversInterval
  <1> QED
    BY <1>2, <1>4, <1>5, <1>6, <1>7 DEF GateInv

(***************************************************************************)
(* Every step keeps the invariant.                                         *)
(***************************************************************************)
LEMMA GateStep == GateInv /\ [GateNext]_gateVars => GateInv'
  <1> SUFFICES ASSUME GateInv, [GateNext]_gateVars
               PROVE  GateInv'
    OBVIOUS
  <1> USE DEF startVars
  <1>1. ASSUME NEW r \in Requests, Refused(r) \/ SentUnspaced(r) \/ Aborts(r)
        PROVE  GateInv'
    <2>1. GateTypeOK'
      BY <1>1 DEF GateInv, GateTypeOK, Refused, SentUnspaced, Aborts
    <2> QED
      BY <1>1, <2>1 DEF GateInv, IntervalsPositive, DelayCoversSlot, SlotIsExclusive,
                        SlotCoversInterval, Refused, SentUnspaced, Aborts
  <1>2. ASSUME NEW r \in Requests, NEW ms \in Intervals \ {0}, Queues(r, ms)
        PROVE  GateInv'
    <2>1. GateTypeOK'
      BY <1>2 DEF GateInv, GateTypeOK, Queues
    <2>2. \A s \in Requests : /\ stage'[s] = (IF s = r THEN "queued" ELSE stage[s])
                              /\ interval'[s] = (IF s = r THEN ms ELSE interval[s])
      BY <1>2 DEF GateInv, GateTypeOK, Queues
    <2>3. IntervalsPositive'
      BY <2>2 DEF GateInv, IntervalsPositive
    <2>4. line # <<>> => line' # <<>> /\ Head(line') = Head(line)
      BY <1>2 DEF GateInv, GateTypeOK, Queues
    <2>5. DelayCoversSlot'
      BY <1>2, <2>2, <2>4 DEF GateInv, DelayCoversSlot, Queues
    <2>6. SlotIsExclusive' /\ SlotCoversInterval'
      BY <1>2, <2>2 DEF GateInv, GateTypeOK, SlotIsExclusive, SlotCoversInterval, Queues
    <2> QED
      BY <2>1, <2>3, <2>5, <2>6 DEF GateInv
  <1>3. ASSUME NEW r \in Requests, TurnComes(r)
        PROVE  GateInv'
    <2>1. CASE left = 0
      BY <1>3, <2>1, ReservesStep DEF TurnComes
    <2>2. CASE left > 0
      <3>1. GateTypeOK'
        BY <1>3, <2>2 DEF GateInv, GateTypeOK, TurnComes
      <3>2. \A s \in Requests : /\ stage'[s] = (IF s = r THEN "delay" ELSE stage[s])
                                /\ wait'[s] = (IF s = r THEN left ELSE wait[s])
        BY <1>3, <2>2 DEF GateInv, GateTypeOK, TurnComes
      <3> QED
        BY <1>3, <2>2, <3>1, <3>2 DEF GateInv, GateTypeOK, IntervalsPositive, DelayCoversSlot,
             SlotIsExclusive, SlotCoversInterval, TurnComes
    <2> QED
      BY <2>1, <2>2 DEF GateInv, GateTypeOK
  <1>4. ASSUME NEW r \in Requests, DelayOver(r)
        PROVE  GateInv'
    <2>1. line # <<>> /\ r = Head(line) /\ left = 0
      BY <1>4 DEF GateInv, GateTypeOK, DelayCoversSlot, DelayOver
    <2> QED
      BY <1>4, <2>1, ReservesStep DEF DelayOver
  <1>5. ASSUME NEW r \in Requests, Dropped(r)
        PROVE  GateInv'
    <2>1. GateTypeOK'
      BY <1>5 DEF GateInv, GateTypeOK, Dropped
    <2>2. \A s \in Requests : stage'[s] = (IF s = r THEN "none" ELSE stage[s])
      BY <1>5 DEF GateInv, GateTypeOK, Dropped
    <2>3. DelayCoversSlot'
      BY <1>5, <2>2 DEF GateInv, DelayCoversSlot, Dropped
    <2> QED
      BY <1>5, <2>1, <2>2, <2>3 DEF GateInv, IntervalsPositive, SlotIsExclusive,
                                    SlotCoversInterval, Dropped
  <1>6. ASSUME NEW r \in Requests, Resumes(r)
        PROVE  GateInv'
    <2>1. GateTypeOK'
      BY <1>6 DEF GateInv, GateTypeOK, Resumes
    <2>2. \A s \in Requests : stage'[s] = (IF s = r THEN "none" ELSE stage[s])
      BY <1>6 DEF GateInv, GateTypeOK, Resumes
    <2>3. IntervalsPositive' /\ DelayCoversSlot' /\ SlotIsExclusive'
      BY <1>6, <2>2 DEF GateInv, IntervalsPositive, DelayCoversSlot, SlotIsExclusive, Resumes
    <2>4. quiet' <= left'
      BY <1>6 DEF GateInv, GateTypeOK, SlotIsExclusive, Resumes
    <2> QED
      BY <2>1, <2>3, <2>4 DEF GateInv, SlotCoversInterval
  <1>7. ASSUME ClockTicks
        PROVE  GateInv'
    <2>1. GateTypeOK'
      BY <1>7 DEF GateInv, GateTypeOK, ClockTicks
    <2>2. \A r \in Requests : wait'[r] = Less(wait[r])
      BY <1>7 DEF ClockTicks
    <2> QED
      BY <1>7, <2>1, <2>2 DEF GateInv, GateTypeOK, IntervalsPositive, DelayCoversSlot,
           SlotIsExclusive, SlotCoversInterval, ClockTicks
  <1>8. CASE UNCHANGED gateVars
    BY <1>8 DEF gateVars, GateInv, GateTypeOK, IntervalsPositive, DelayCoversSlot,
                SlotIsExclusive, SlotCoversInterval
  <1> QED
    BY <1>1, <1>2, <1>3, <1>4, <1>5, <1>6, <1>7, <1>8 DEF GateNext, StartStep

(***************************************************************************)
(* The chain, the slot and the timers agree in every reachable state.      *)
(***************************************************************************)
THEOREM GateCorrect == GateSpec => []GateInv
  <1>1. GateInit => GateInv
    BY DEF GateInit, GateInv, GateTypeOK, IntervalsPositive, DelayCoversSlot,
           SlotIsExclusive, SlotCoversInterval
  <1> QED
    BY <1>1, GateStep, PTL DEF GateSpec

(***************************************************************************)
(* No spaced request is sent before the interval of the last one is over.  *)
(***************************************************************************)
THEOREM Spaced == GateSpec => RequestsAreSpaced
  <1> DEFINE SpacedStep == \A r \in Requests :
                             caller[r] = "waiting" /\ caller'[r] = "sent" => quiet = 0
  <1>1. GateInv /\ [GateNext]_gateVars => [SpacedStep]_gateVars
    <2> SUFFICES ASSUME GateInv, GateNext, NEW q \in Requests,
                        caller[q] = "waiting", caller'[q] = "sent"
                 PROVE  quiet = 0
      OBVIOUS
    <2> USE DEF startVars, GateInv, GateTypeOK
    <2>1. ASSUME NEW r \in Requests, Resumes(r)
          PROVE  quiet = 0
      BY <2>1 DEF Resumes, SlotIsExclusive
    <2>2. ASSUME NEW r \in Requests, Refused(r) \/ SentUnspaced(r) \/ Aborts(r)
          PROVE  FALSE
      BY <2>2 DEF Refused, SentUnspaced, Aborts
    <2>3. ASSUME NEW r \in Requests, NEW ms \in Intervals \ {0}, Queues(r, ms)
          PROVE  FALSE
      BY <2>3 DEF Queues
    <2>4. ASSUME NEW r \in Requests, TurnComes(r) \/ DelayOver(r) \/ Dropped(r)
          PROVE  FALSE
      BY <2>4 DEF TurnComes, DelayOver, Dropped
    <2>5. ~ClockTicks
      BY DEF ClockTicks
    <2> QED
      BY <2>1, <2>2, <2>3, <2>4, <2>5 DEF GateNext, StartStep
  <1> QED
    BY <1>1, GateCorrect, PTL DEF GateSpec, RequestsAreSpaced

HIDE GateAssumption DEF GateAssumption, MayStart, Settled, Less

-----------------------------------------------------------------------------
(***************************************************************************)
(* The registry of chats.                                                  *)
(***************************************************************************)

USE RegistryAssumption DEF RegistryAssumption, Threads, Bridges, chatFiles, openVars, threadVars

Located == {"meta", "look", "build", "opened", "save", "close", "rm", "refresh"}

(***************************************************************************)
(* What the calls are working on: a chat that has been made, a bridge of   *)
(* their own, and boot deletes nothing.                                    *)
(***************************************************************************)
CallsAreSound ==
  /\ active \in born \cup {NoChat}
  /\ \A t \in Threads :
       /\ chat[t] \in born \cup {NoChat}
       /\ step[t] \in Located => chat[t] \in born
       /\ op[t] \in {"open", "activate", "delete"} => chat[t] \in born
       /\ step[t] = "build" => built[t] # 0
  /\ step["boot"] \in {"idle", "look", "build", "opened", "save"}

(***************************************************************************)
(* A call that is about to activate its chat has seen it open, and only a  *)
(* deletion can have closed it since.                                      *)
(***************************************************************************)
OpenedIsOpen ==
  \A t \in Threads :
    step[t] = "opened" /\ chat[t] \in saved /\ ~Deleting(chat[t]) => slots[chat[t]] # 0

RegistryInv == RegistryTypeOK /\ CallsAreSound /\ OpenedIsOpen /\ ActiveIsOpen

(***************************************************************************)
(* A command is the arrival of a call, of a chat if it is about one.       *)
(***************************************************************************)
LEMMA CommandArrives ==
  ASSUME NEW t \in Callers, Command(t)
  PROVE  \E method \in {"open", "activate", "delete", "create", "mission", "current"},
            c \in born \cup {NoChat}, activate \in BOOLEAN :
           /\ Arrives(t, method, c, activate)
           /\ method \in {"open", "activate", "delete"} => c \in born
  BY DEF Command

(***************************************************************************)
(* Every step keeps the types.                                             *)
(***************************************************************************)
LEMMA RegistryTypeStep == RegistryInv /\ [RegistryNext]_chatVars => RegistryTypeOK'
  <1> SUFFICES ASSUME RegistryInv, [RegistryNext]_chatVars
               PROVE  RegistryTypeOK'
    OBVIOUS
  <1> USE DEF RegistryInv
  <1>1. ASSUME NEW t \in Callers, Command(t)
        PROVE  RegistryTypeOK'
    <2>1. PICK method \in {"open", "activate", "delete", "create", "mission", "current"},
               c \in born \cup {NoChat}, activate \in BOOLEAN : Arrives(t, method, c, activate)
      BY <1>1, CommandArrives
    <2> QED
      BY <2>1 DEF RegistryTypeOK, Steps, Arrives, Goes, Takes
  <1>2. ASSUME NEW c \in ChatIds, Boot(c)
        PROVE  RegistryTypeOK'
    BY <1>2 DEF RegistryTypeOK, Steps, CallsAreSound, Located, Boot, Goes, Takes
  <1>3. ASSUME NEW c \in ChatIds, TurnStarts(c)
        PROVE  RegistryTypeOK'
    BY <1>3 DEF RegistryTypeOK, Steps, CallsAreSound, Located, TurnStarts
  <1>4. ASSUME NEW b \in Bridges, TurnEnds(b)
        PROVE  RegistryTypeOK'
    BY <1>4 DEF RegistryTypeOK, Steps, CallsAreSound, Located, TurnEnds
  <1>5. ASSUME NEW t \in Threads, ReadsMetadata(t)
        PROVE  RegistryTypeOK'
    <2>1. step[t] \in {"boot", "meta"} /\ t \in Callers
      BY <1>5 DEF ReadsMetadata, After, CallsAreSound
    <2>0. chat = [chat EXCEPT ![t] = chat[t]] /\ chat[t] \in ChatIds \cup {NoChat}
      BY DEF RegistryTypeOK
    <2>2. PICK where \in {"idle", "create", "join", "look"}, d \in ChatIds \cup {NoChat} :
            step' = [step EXCEPT ![t] = where] /\ chat' = [chat EXCEPT ![t] = d]
      BY <1>5, <2>0 DEF ReadsMetadata, After, EnsuresActive, Returns, Goes, Takes, RegistryTypeOK
    <2>3. step' \in [Threads -> Steps] /\ chat' \in [Threads -> ChatIds \cup {NoChat}]
      BY <2>2 DEF RegistryTypeOK, Steps
    <2>4. op' = op \/ op' = [op EXCEPT ![t] = "none"]
      BY <1>5 DEF ReadsMetadata, EnsuresActive, Returns, Goes, Takes
    <2>5. show' = show \/ show' = [show EXCEPT ![t] = TRUE] \/ show' = [show EXCEPT ![t] = FALSE]
      BY <1>5 DEF ReadsMetadata, EnsuresActive, Returns, Goes, Takes
    <2>6. built' = built \/ built' = [built EXCEPT ![t] = 0]
      BY <1>5 DEF ReadsMetadata, EnsuresActive, Returns, Goes, Takes
    <2>7. ensuring' \in {ensuring, t}
      BY <1>5 DEF ReadsMetadata, EnsuresActive
    <2>8. UNCHANGED <<chatFiles, openVars, active, booted, inTurn, requests>>
      BY <1>5 DEF ReadsMetadata
    <2>9. /\ op' \in [Threads -> {"none", "open", "activate", "create", "mission", "current",
                                 "delete", "boot"}]
          /\ show' \in [Threads -> BOOLEAN] /\ built' \in [Threads -> {0} \cup Bridges]
      BY <2>4, <2>5, <2>6 DEF RegistryTypeOK
    <2> QED
      BY <2>1, <2>3, <2>7, <2>8, <2>9 DEF RegistryTypeOK
  <1>6. ASSUME NEW t \in Threads, AsksForActive(t)
        PROVE  RegistryTypeOK'
    <2>1. step[t] \in {"boot", "meta"} /\ t \in Callers
      BY <1>6 DEF AsksForActive, After, CallsAreSound
    <2>2. PICK where \in {"idle", "meta", "create", "join", "look"}, d \in ChatIds \cup {NoChat} :
            step' = [step EXCEPT ![t] = where] /\ chat' = [chat EXCEPT ![t] = d]
      BY <1>6, <2>1 DEF AsksForActive, After, EnsuresActive, Returns, Goes, Takes, RegistryTypeOK
    <2>3. step' \in [Threads -> Steps] /\ chat' \in [Threads -> ChatIds \cup {NoChat}]
      BY <2>2 DEF RegistryTypeOK, Steps
    <2>4. op' = op \/ op' = [op EXCEPT ![t] = "none"]
      BY <1>6 DEF AsksForActive, EnsuresActive, Returns, Goes, Takes
    <2>5. show' = show \/ show' = [show EXCEPT ![t] = TRUE] \/ show' = [show EXCEPT ![t] = FALSE]
      BY <1>6 DEF AsksForActive, EnsuresActive, Returns, Goes, Takes
    <2>6. built' = built \/ built' = [built EXCEPT ![t] = 0]
      BY <1>6 DEF AsksForActive, EnsuresActive, Returns, Goes, Takes
    <2>7. ensuring' \in {ensuring, t}
      BY <1>6 DEF AsksForActive, EnsuresActive
    <2>8. UNCHANGED <<chatFiles, openVars, active, booted, inTurn, requests>>
      BY <1>6 DEF AsksForActive
    <2>9. /\ op' \in [Threads -> {"none", "open", "activate", "create", "mission", "current",
                                 "delete", "boot"}]
          /\ show' \in [Threads -> BOOLEAN] /\ built' \in [Threads -> {0} \cup Bridges]
      BY <2>4, <2>5, <2>6 DEF RegistryTypeOK
    <2> QED
      BY <2>1, <2>3, <2>7, <2>8, <2>9 DEF RegistryTypeOK
  <1>7. ASSUME NEW t \in Threads, Joined(t)
        PROVE  RegistryTypeOK'
    BY <1>7 DEF RegistryTypeOK, Steps, CallsAreSound, Located, Joined, Returns, Goes, Takes
  <1>8. ASSUME NEW t \in Threads, FindsMission(t)
        PROVE  RegistryTypeOK'
    BY <1>8 DEF RegistryTypeOK, Steps, CallsAreSound, Located, FindsMission, After, Goes, Takes
  <1>9. ASSUME NEW t \in Threads, NEW c \in ChatIds, Creates(t, c)
        PROVE  RegistryTypeOK'
    <2>1. mission' \subseteq mission \cup {c}
      BY <1>9 DEF Creates, RegistryTypeOK
    <2> QED
      BY <2>1, <1>9 DEF RegistryTypeOK, Steps, CallsAreSound, Creates, After, Goes, Takes
  <1>10. ASSUME NEW t \in Threads, Looks(t)
        PROVE  RegistryTypeOK'
    <2>1. chat[t] \in ChatIds
      BY <1>10 DEF Looks, RegistryTypeOK, CallsAreSound, Located
    <2>2. /\ Append(harnesses, chat[t]) \in Seq(ChatIds)
          /\ DOMAIN harnesses \subseteq DOMAIN Append(harnesses, chat[t])
          /\ Len(Append(harnesses, chat[t])) \in DOMAIN Append(harnesses, chat[t])
      BY <2>1 DEF RegistryTypeOK
    <2>3. \/ harnesses' = harnesses /\ built' = built
          \/ /\ harnesses' = Append(harnesses, chat[t])
             /\ built' = [built EXCEPT ![t] = Len(Append(harnesses, chat[t]))]
      BY <1>10 DEF Looks
    <2>4. harnesses' \in Seq(ChatIds) /\ Bridges \subseteq Bridges'
      BY <2>2, <2>3 DEF RegistryTypeOK
    <2>7. \A u \in Threads : built'[u] \in {0} \cup Bridges'
      <3>1. CASE built' = built
        BY <3>1, <2>4 DEF RegistryTypeOK
      <3>2. CASE /\ harnesses' = Append(harnesses, chat[t])
                 /\ built' = [built EXCEPT ![t] = Len(Append(harnesses, chat[t]))]
        <4> DEFINE new == Len(Append(harnesses, chat[t]))
        <4>1. new \in Bridges'
          BY <3>2, <2>2
        <4> HIDE DEF new
        <4>2. built' = [built EXCEPT ![t] = new]
          BY <3>2 DEF new
        <4> QED
          BY <4>1, <4>2, <2>4 DEF RegistryTypeOK
      <3> QED
        BY <2>3, <3>1, <3>2
    <2>8. built' \in [Threads -> {0} \cup Bridges']
      BY <2>3, <2>7 DEF RegistryTypeOK
    <2>5. step' \in [Threads -> Steps]
      <3>1. \/ step' = [step EXCEPT ![t] = "opened"]
            \/ step' = [step EXCEPT ![t] = "build"]
        BY <1>10 DEF Looks, Goes
      <3> QED
        BY <3>1 DEF RegistryTypeOK, Steps
    <2> QED
      BY <1>10, <2>4, <2>5, <2>8 DEF Looks, RegistryTypeOK
  <1>11. ASSUME NEW t \in Threads, FillsSlot(t)
        PROVE  RegistryTypeOK'
    BY <1>11 DEF RegistryTypeOK, Steps, CallsAreSound, Located, FillsSlot, Goes
  <1>12. ASSUME NEW t \in Threads, Activates(t)
        PROVE  RegistryTypeOK'
    BY <1>12 DEF RegistryTypeOK, Steps, CallsAreSound, Located, Activates, Goes
  <1>13. ASSUME NEW t \in Threads, OpenReturns(t)
        PROVE  RegistryTypeOK'
    BY <1>13 DEF RegistryTypeOK, Steps, CallsAreSound, Located, OpenReturns, Returns, Goes, Takes
  <1>14. ASSUME NEW t \in Threads, Disposes(t)
        PROVE  RegistryTypeOK'
    BY <1>14 DEF RegistryTypeOK, Steps, CallsAreSound, Located, Disposes, Goes
  <1>15. ASSUME NEW t \in Threads, Removes(t)
        PROVE  RegistryTypeOK'
    BY <1>15 DEF RegistryTypeOK, Steps, CallsAreSound, Located, Removes, Goes
  <1>16. ASSUME NEW t \in Threads, DeleteReturns(t)
        PROVE  RegistryTypeOK'
    BY <1>16 DEF RegistryTypeOK, Steps, CallsAreSound, Located, DeleteReturns, Returns, Goes, Takes
  <1>17. ASSUME NEW t \in Threads, NEW c \in ChatIds, ActivatesNext(t, c)
        PROVE  RegistryTypeOK'
    BY <1>17 DEF RegistryTypeOK, Steps, CallsAreSound, Located, ActivatesNext, Goes, Takes
  <1>18. ASSUME UNCHANGED chatVars
        PROVE  RegistryTypeOK'
    BY <1>18 DEF RegistryTypeOK, Steps, CallsAreSound, Located, chatVars
  <1> QED
    BY <1>1, <1>2, <1>3, <1>4, <1>5, <1>6, <1>7, <1>8, <1>9,
       <1>10, <1>11, <1>12, <1>13, <1>14, <1>15, <1>16, <1>17, <1>18
       DEF RegistryNext, ThreadNext

(***************************************************************************)
(* Every step leaves the calls working on chats that have been made.       *)
(***************************************************************************)
LEMMA CallsStep == RegistryInv /\ [RegistryNext]_chatVars => CallsAreSound'
  <1> SUFFICES ASSUME RegistryInv, [RegistryNext]_chatVars
               PROVE  CallsAreSound'
    OBVIOUS
  <1> USE DEF RegistryInv
  <1>1. ASSUME NEW t \in Callers, Command(t)
        PROVE  CallsAreSound'
    BY <1>1 DEF RegistryTypeOK, CallsAreSound, Steps, Located, Command, Arrives, Goes, Takes
  <1>2. ASSUME NEW c \in ChatIds, Boot(c)
        PROVE  CallsAreSound'
    BY <1>2 DEF RegistryTypeOK, CallsAreSound, Steps, Located, Boot, Goes, Takes
  <1>3. ASSUME NEW c \in ChatIds, TurnStarts(c)
        PROVE  CallsAreSound'
    BY <1>3 DEF RegistryTypeOK, CallsAreSound, Steps, Located, TurnStarts
  <1>4. ASSUME NEW b \in Bridges, TurnEnds(b)
        PROVE  CallsAreSound'
    BY <1>4 DEF RegistryTypeOK, CallsAreSound, Steps, Located, TurnEnds
  <1>5. ASSUME NEW t \in Threads, ReadsMetadata(t)
        PROVE  CallsAreSound'
    BY <1>5 DEF RegistryTypeOK, CallsAreSound, Steps, Located, ReadsMetadata, After,
           EnsuresActive, Returns, Goes, Takes
  <1>6. ASSUME NEW t \in Threads, AsksForActive(t)
        PROVE  CallsAreSound'
    BY <1>6 DEF RegistryTypeOK, CallsAreSound, Steps, Located, AsksForActive, After,
           EnsuresActive, Returns, Goes, Takes
  <1>7. ASSUME NEW t \in Threads, Joined(t)
        PROVE  CallsAreSound'
    BY <1>7 DEF RegistryTypeOK, CallsAreSound, Steps, Located, Joined, Returns, Goes, Takes
  <1>8. ASSUME NEW t \in Threads, FindsMission(t)
        PROVE  CallsAreSound'
    BY <1>8 DEF RegistryTypeOK, CallsAreSound, Steps, Located, FindsMission, After, Goes, Takes
  <1>9. ASSUME NEW t \in Threads, NEW c \in ChatIds, Creates(t, c)
        PROVE  CallsAreSound'
    BY <1>9 DEF RegistryTypeOK, CallsAreSound, Steps, Located, Creates, After, Goes, Takes
  <1>10. ASSUME NEW t \in Threads, Looks(t)
        PROVE  CallsAreSound'
    BY <1>10 DEF RegistryTypeOK, CallsAreSound, Steps, Located, Looks, Goes
  <1>11. ASSUME NEW t \in Threads, FillsSlot(t)
        PROVE  CallsAreSound'
    BY <1>11 DEF RegistryTypeOK, CallsAreSound, Steps, Located, FillsSlot, Goes
  <1>12. ASSUME NEW t \in Threads, Activates(t)
        PROVE  CallsAreSound'
    BY <1>12 DEF RegistryTypeOK, CallsAreSound, Steps, Located, Activates, Goes
  <1>13. ASSUME NEW t \in Threads, OpenReturns(t)
        PROVE  CallsAreSound'
    BY <1>13 DEF RegistryTypeOK, CallsAreSound, Steps, Located, OpenReturns, Returns, Goes, Takes
  <1>14. ASSUME NEW t \in Threads, Disposes(t)
        PROVE  CallsAreSound'
    BY <1>14 DEF RegistryTypeOK, CallsAreSound, Steps, Located, Disposes, Goes
  <1>15. ASSUME NEW t \in Threads, Removes(t)
        PROVE  CallsAreSound'
    BY <1>15 DEF RegistryTypeOK, CallsAreSound, Steps, Located, Removes, Goes
  <1>16. ASSUME NEW t \in Threads, DeleteReturns(t)
        PROVE  CallsAreSound'
    BY <1>16 DEF RegistryTypeOK, CallsAreSound, Steps, Located, DeleteReturns, Returns, Goes, Takes
  <1>17. ASSUME NEW t \in Threads, NEW c \in ChatIds, ActivatesNext(t, c)
        PROVE  CallsAreSound'
    BY <1>17 DEF RegistryTypeOK, CallsAreSound, Steps, Located, ActivatesNext, Goes, Takes
  <1>18. ASSUME UNCHANGED chatVars
        PROVE  CallsAreSound'
    BY <1>18 DEF RegistryTypeOK, CallsAreSound, Steps, Located, chatVars
  <1> QED
    BY <1>1, <1>2, <1>3, <1>4, <1>5, <1>6, <1>7, <1>8, <1>9,
       <1>10, <1>11, <1>12, <1>13, <1>14, <1>15, <1>16, <1>17, <1>18
       DEF RegistryNext, ThreadNext

(***************************************************************************)
(* Between the opening of a chat and its activation only a deletion closes it.*)
(***************************************************************************)
LEMMA OpenedStep == RegistryInv /\ [RegistryNext]_chatVars => OpenedIsOpen'
  <1> SUFFICES ASSUME RegistryInv, [RegistryNext]_chatVars
               PROVE  OpenedIsOpen'
    OBVIOUS
  <1> USE DEF RegistryInv
  <1>1. ASSUME NEW t \in Callers, Command(t)
        PROVE  OpenedIsOpen'
    <2>1. PICK method \in {"open", "activate", "delete", "create", "mission", "current"},
               c \in born \cup {NoChat}, activate \in BOOLEAN : Arrives(t, method, c, activate)
      BY <1>1, CommandArrives
    <2>2. step' = [step EXCEPT ![t] = IF method = "delete" THEN "close" ELSE "boot"]
          /\ chat' = [chat EXCEPT ![t] = c] /\ step[t] = "idle"
          /\ UNCHANGED <<saved, slots>>
      BY <2>1 DEF Arrives, Goes, Takes
    <2>3. \A d \in ChatIds : Deleting(d) => Deleting(d)'
      BY <2>2 DEF Deleting, RegistryTypeOK
    <2> QED
      BY <2>2, <2>3 DEF RegistryTypeOK, OpenedIsOpen
  <1>2. ASSUME NEW c \in ChatIds, Boot(c)
        PROVE  OpenedIsOpen'
    BY <1>2 DEF RegistryTypeOK, CallsAreSound, OpenedIsOpen, Deleting, Steps, Located, Boot,
           Goes, Takes
  <1>3. ASSUME NEW c \in ChatIds, TurnStarts(c)
        PROVE  OpenedIsOpen'
    BY <1>3 DEF RegistryTypeOK, CallsAreSound, OpenedIsOpen, Deleting, Steps, Located, TurnStarts
  <1>4. ASSUME NEW b \in Bridges, TurnEnds(b)
        PROVE  OpenedIsOpen'
    BY <1>4 DEF RegistryTypeOK, CallsAreSound, OpenedIsOpen, Deleting, Steps, Located, TurnEnds
  <1>5. ASSUME NEW t \in Threads, ReadsMetadata(t)
        PROVE  OpenedIsOpen'
    <2>0. chat = [chat EXCEPT ![t] = chat[t]] /\ chat[t] \in ChatIds \cup {NoChat}
      BY DEF RegistryTypeOK
    <2>1. PICK where \in {"idle", "create", "join", "look"}, d \in ChatIds \cup {NoChat} :
            step' = [step EXCEPT ![t] = where] /\ chat' = [chat EXCEPT ![t] = d]
      BY <1>5, <2>0 DEF ReadsMetadata, After, EnsuresActive, Returns, Goes, Takes, RegistryTypeOK
    <2>2. step[t] \in {"boot", "meta"} /\ UNCHANGED <<saved, slots>>
      BY <1>5 DEF ReadsMetadata, After
    <2>3. \A c \in ChatIds : Deleting(c) => Deleting(c)'
      BY <2>1, <2>2 DEF Deleting, RegistryTypeOK
    <2> QED
      BY <2>1, <2>2, <2>3 DEF RegistryTypeOK, OpenedIsOpen
  <1>6. ASSUME NEW t \in Threads, AsksForActive(t)
        PROVE  OpenedIsOpen'
    <2>1. PICK where \in {"idle", "meta", "create", "join", "look"}, d \in ChatIds \cup {NoChat} :
            step' = [step EXCEPT ![t] = where] /\ chat' = [chat EXCEPT ![t] = d]
      BY <1>6 DEF AsksForActive, After, EnsuresActive, Returns, Goes, Takes, RegistryTypeOK, Threads
    <2>2. step[t] = "boot" /\ UNCHANGED <<saved, slots>>
      BY <1>6 DEF AsksForActive, After
    <2>3. \A c \in ChatIds : Deleting(c) => Deleting(c)'
      BY <2>1, <2>2 DEF Deleting, RegistryTypeOK
    <2> QED
      BY <2>1, <2>2, <2>3 DEF RegistryTypeOK, OpenedIsOpen
  <1>7. ASSUME NEW t \in Threads, Joined(t)
        PROVE  OpenedIsOpen'
    BY <1>7 DEF RegistryTypeOK, CallsAreSound, OpenedIsOpen, Deleting, Steps, Located, Joined,
           Returns, Goes, Takes
  <1>8. ASSUME NEW t \in Threads, FindsMission(t)
        PROVE  OpenedIsOpen'
    <2>0. chat = [chat EXCEPT ![t] = chat[t]] /\ chat[t] \in ChatIds \cup {NoChat}
      BY DEF RegistryTypeOK
    <2>1. PICK where \in {"create", "look"}, d \in ChatIds \cup {NoChat} :
            step' = [step EXCEPT ![t] = where] /\ chat' = [chat EXCEPT ![t] = d]
      BY <1>8, <2>0 DEF FindsMission, Goes, Takes, RegistryTypeOK
    <2>2. step[t] = "boot" /\ UNCHANGED <<saved, slots>>
      BY <1>8 DEF FindsMission, After
    <2>3. \A c \in ChatIds : Deleting(c) => Deleting(c)'
      BY <2>1, <2>2 DEF Deleting, RegistryTypeOK
    <2> QED
      BY <2>1, <2>2, <2>3 DEF RegistryTypeOK, OpenedIsOpen
  <1>9. ASSUME NEW t \in Threads, NEW c \in ChatIds, Creates(t, c)
        PROVE  OpenedIsOpen'
    BY <1>9 DEF RegistryTypeOK, CallsAreSound, OpenedIsOpen, Deleting, Steps, Located, Creates,
           After, Goes, Takes
  <1>10. ASSUME NEW t \in Threads, Looks(t)
        PROVE  OpenedIsOpen'
    BY <1>10 DEF RegistryTypeOK, CallsAreSound, OpenedIsOpen, Deleting, Steps, Located, Looks, Goes
  <1>11. ASSUME NEW t \in Threads, FillsSlot(t)
        PROVE  OpenedIsOpen'
    BY <1>11 DEF RegistryTypeOK, CallsAreSound, OpenedIsOpen, Deleting, Steps, Located,
           FillsSlot, Goes
  <1>12. ASSUME NEW t \in Threads, Activates(t)
        PROVE  OpenedIsOpen'
    BY <1>12 DEF RegistryTypeOK, CallsAreSound, OpenedIsOpen, Deleting, Steps, Located,
           Activates, Goes
  <1>13. ASSUME NEW t \in Threads, OpenReturns(t)
        PROVE  OpenedIsOpen'
    BY <1>13 DEF RegistryTypeOK, CallsAreSound, OpenedIsOpen, Deleting, Steps, Located,
           OpenReturns, Returns, Goes, Takes
  <1>14. ASSUME NEW t \in Threads, Disposes(t)
        PROVE  OpenedIsOpen'
    BY <1>14 DEF RegistryTypeOK, CallsAreSound, OpenedIsOpen, Deleting, Steps, Located,
           Disposes, Goes
  <1>15. ASSUME NEW t \in Threads, Removes(t)
        PROVE  OpenedIsOpen'
    BY <1>15 DEF RegistryTypeOK, CallsAreSound, OpenedIsOpen, Deleting, Steps, Located, Removes,
           Goes
  <1>16. ASSUME NEW t \in Threads, DeleteReturns(t)
        PROVE  OpenedIsOpen'
    BY <1>16 DEF RegistryTypeOK, CallsAreSound, OpenedIsOpen, Deleting, Steps, Located,
           DeleteReturns, Returns, Goes, Takes
  <1>17. ASSUME NEW t \in Threads, NEW c \in ChatIds, ActivatesNext(t, c)
        PROVE  OpenedIsOpen'
    BY <1>17 DEF RegistryTypeOK, CallsAreSound, OpenedIsOpen, Deleting, Steps, Located,
           ActivatesNext, Goes, Takes
  <1>18. ASSUME UNCHANGED chatVars
        PROVE  OpenedIsOpen'
    BY <1>18 DEF RegistryTypeOK, CallsAreSound, OpenedIsOpen, Deleting, Steps, Located, chatVars
  <1> QED
    BY <1>1, <1>2, <1>3, <1>4, <1>5, <1>6, <1>7, <1>8, <1>9,
       <1>10, <1>11, <1>12, <1>13, <1>14, <1>15, <1>16, <1>17, <1>18
       DEF RegistryNext, ThreadNext

(***************************************************************************)
(* Every step leaves the active chat open.                                 *)
(***************************************************************************)
LEMMA ActiveStep == RegistryInv /\ [RegistryNext]_chatVars => ActiveIsOpen'
  <1> SUFFICES ASSUME RegistryInv, [RegistryNext]_chatVars
               PROVE  ActiveIsOpen'
    OBVIOUS
  <1> USE DEF RegistryInv
  <1>1. ASSUME NEW t \in Callers, Command(t)
        PROVE  ActiveIsOpen'
    <2>1. PICK method \in {"open", "activate", "delete", "create", "mission", "current"},
               c \in born \cup {NoChat}, activate \in BOOLEAN : Arrives(t, method, c, activate)
      BY <1>1, CommandArrives
    <2> QED
      BY <2>1 DEF RegistryTypeOK, ActiveIsOpen, Deleting, Arrives, Goes, Takes
  <1>2. ASSUME NEW c \in ChatIds, Boot(c)
        PROVE  ActiveIsOpen'
    BY <1>2 DEF RegistryTypeOK, CallsAreSound, OpenedIsOpen, ActiveIsOpen, Deleting, Steps,
           Located, Boot, Goes, Takes
  <1>3. ASSUME NEW c \in ChatIds, TurnStarts(c)
        PROVE  ActiveIsOpen'
    BY <1>3 DEF RegistryTypeOK, CallsAreSound, OpenedIsOpen, ActiveIsOpen, Deleting, Steps,
           Located, TurnStarts
  <1>4. ASSUME NEW b \in Bridges, TurnEnds(b)
        PROVE  ActiveIsOpen'
    BY <1>4 DEF RegistryTypeOK, CallsAreSound, OpenedIsOpen, ActiveIsOpen, Deleting, Steps,
           Located, TurnEnds
  <1>5. ASSUME NEW t \in Threads, ReadsMetadata(t)
        PROVE  ActiveIsOpen'
    BY <1>5 DEF RegistryTypeOK, CallsAreSound, OpenedIsOpen, ActiveIsOpen, Deleting, Steps,
           Located, ReadsMetadata, After, EnsuresActive, Returns, Goes, Takes
  <1>6. ASSUME NEW t \in Threads, AsksForActive(t)
        PROVE  ActiveIsOpen'
    BY <1>6 DEF RegistryTypeOK, CallsAreSound, OpenedIsOpen, ActiveIsOpen, Deleting, Steps,
           Located, AsksForActive, After, EnsuresActive, Returns, Goes, Takes
  <1>7. ASSUME NEW t \in Threads, Joined(t)
        PROVE  ActiveIsOpen'
    BY <1>7 DEF RegistryTypeOK, CallsAreSound, OpenedIsOpen, ActiveIsOpen, Deleting, Steps,
           Located, Joined, Returns, Goes, Takes
  <1>8. ASSUME NEW t \in Threads, FindsMission(t)
        PROVE  ActiveIsOpen'
    BY <1>8 DEF RegistryTypeOK, CallsAreSound, OpenedIsOpen, ActiveIsOpen, Deleting, Steps,
           Located, FindsMission, After, Goes, Takes
  <1>9. ASSUME NEW t \in Threads, NEW c \in ChatIds, Creates(t, c)
        PROVE  ActiveIsOpen'
    BY <1>9 DEF RegistryTypeOK, CallsAreSound, OpenedIsOpen, ActiveIsOpen, Deleting, Steps,
           Located, Creates, After, Goes, Takes
  <1>10. ASSUME NEW t \in Threads, Looks(t)
        PROVE  ActiveIsOpen'
    BY <1>10 DEF RegistryTypeOK, CallsAreSound, OpenedIsOpen, ActiveIsOpen, Deleting, Steps,
           Located, Looks, Goes
  <1>11. ASSUME NEW t \in Threads, FillsSlot(t)
        PROVE  ActiveIsOpen'
    BY <1>11 DEF RegistryTypeOK, CallsAreSound, OpenedIsOpen, ActiveIsOpen, Deleting, Steps,
           Located, FillsSlot, Goes
  <1>12. ASSUME NEW t \in Threads, Activates(t)
        PROVE  ActiveIsOpen'
    BY <1>12 DEF RegistryTypeOK, CallsAreSound, OpenedIsOpen, ActiveIsOpen, Deleting, Steps,
           Located, Activates, Goes
  <1>13. ASSUME NEW t \in Threads, OpenReturns(t)
        PROVE  ActiveIsOpen'
    BY <1>13 DEF RegistryTypeOK, CallsAreSound, OpenedIsOpen, ActiveIsOpen, Deleting, Steps,
           Located, OpenReturns, Returns, Goes, Takes
  <1>14. ASSUME NEW t \in Threads, Disposes(t)
        PROVE  ActiveIsOpen'
    BY <1>14 DEF RegistryTypeOK, CallsAreSound, OpenedIsOpen, ActiveIsOpen, Deleting, Steps,
           Located, Disposes, Goes
  <1>15. ASSUME NEW t \in Threads, Removes(t)
        PROVE  ActiveIsOpen'
    BY <1>15 DEF RegistryTypeOK, CallsAreSound, OpenedIsOpen, ActiveIsOpen, Deleting, Steps,
           Located, Removes, Goes
  <1>16. ASSUME NEW t \in Threads, DeleteReturns(t)
        PROVE  ActiveIsOpen'
    BY <1>16 DEF RegistryTypeOK, CallsAreSound, OpenedIsOpen, ActiveIsOpen, Deleting, Steps,
           Located, DeleteReturns, Returns, Goes, Takes
  <1>17. ASSUME NEW t \in Threads, NEW c \in ChatIds, ActivatesNext(t, c)
        PROVE  ActiveIsOpen'
    BY <1>17 DEF RegistryTypeOK, CallsAreSound, OpenedIsOpen, ActiveIsOpen, Deleting, Steps,
           Located, ActivatesNext, Goes, Takes
  <1>18. ASSUME UNCHANGED chatVars
        PROVE  ActiveIsOpen'
    BY <1>18 DEF RegistryTypeOK, CallsAreSound, OpenedIsOpen, ActiveIsOpen, Deleting, Steps,
           Located, chatVars
  <1> QED
    BY <1>1, <1>2, <1>3, <1>4, <1>5, <1>6, <1>7, <1>8, <1>9,
       <1>10, <1>11, <1>12, <1>13, <1>14, <1>15, <1>16, <1>17, <1>18
       DEF RegistryNext, ThreadNext

-----------------------------------------------------------------------------
(***************************************************************************)
(* The invariant holds at first.                                           *)
(***************************************************************************)
LEMMA RegistryStarts == RegistryInit => RegistryInv
  <1> SUFFICES ASSUME RegistryInit PROVE RegistryInv
    OBVIOUS
  <1>1. harnesses \in Seq(ChatIds) /\ slots \in [ChatIds -> {0} \cup Bridges]
        /\ built \in [Threads -> {0} \cup Bridges] /\ inTurn \in SUBSET Bridges
    BY DEF RegistryInit
  <1>2. RegistryTypeOK
    <2>1. step \in [Threads -> Steps] /\ chat \in [Threads -> ChatIds \cup {NoChat}]
          /\ show \in [Threads -> BOOLEAN]
      BY DEF RegistryInit, Steps
    <2>2. op \in [Threads -> {"none", "open", "activate", "create", "mission", "current", "delete",
                             "boot"}]
      BY DEF RegistryInit
    <2>3. active \in ChatIds \cup {NoChat} /\ booted \in BOOLEAN
          /\ ensuring \in Callers \cup {NoChat}
      BY Zenon DEF RegistryInit
    <2>5. requests \in 0..MaxCalls
      BY DEF RegistryInit
    <2>4. saved \in SUBSET born /\ born \in SUBSET ChatIds /\ mission \in SUBSET saved
      BY Zenon DEF RegistryInit
    <2> QED
      BY <1>1, <2>1, <2>2, <2>3, <2>4, <2>5 DEF RegistryTypeOK
  <1>3. CallsAreSound /\ OpenedIsOpen /\ ActiveIsOpen
    BY DEF RegistryInit, CallsAreSound, OpenedIsOpen, ActiveIsOpen, Located
  <1> QED
    BY <1>2, <1>3 DEF RegistryInv

(***************************************************************************)
(* The invariant is inductive.                                             *)
(***************************************************************************)
LEMMA RegistryHolds == RegistrySpec => []RegistryInv
  <1>1. RegistryInv /\ [RegistryNext]_chatVars => RegistryInv'
    BY RegistryTypeStep, CallsStep, OpenedStep, ActiveStep DEF RegistryInv
  <1> QED
    BY RegistryStarts, <1>1, PTL DEF RegistrySpec

(***************************************************************************)
(* The registry's maps and the places of its calls keep their types: a     *)
(* slot holds a bridge that was built, and metadata is of a known chat.    *)
(***************************************************************************)
THEOREM RegistryTypeCorrect == RegistrySpec => []RegistryTypeOK
  <1>1. RegistryInv => RegistryTypeOK
    BY DEF RegistryInv
  <1> QED
    BY RegistryHolds, <1>1, PTL

(***************************************************************************)
(* The active chat has a bridge, unless it is deleted or being deleted,    *)
(* however many calls of open, activate, create and delete interleave.     *)
(***************************************************************************)
THEOREM ActiveCorrect == RegistrySpec => []ActiveIsOpen
  <1>1. RegistryInv => ActiveIsOpen
    BY DEF RegistryInv
  <1> QED
    BY RegistryHolds, <1>1, PTL

HIDE RegistryAssumption DEF RegistryAssumption, Threads, Bridges, chatFiles, openVars, threadVars

-----------------------------------------------------------------------------
(***************************************************************************)
(* The four parts, of which one is explored and the others rest.           *)
(***************************************************************************)

(***************************************************************************)
(* With the other parts left out, the locks are those of ResourceLocks.    *)
(***************************************************************************)
LEMMA PartsAreLocks == PartsSpec => Spec
  <1>1. PartsInit => Init
    BY DEF PartsInit
  <1>2. [PartsNext]_partsVars => [Next]_vars
    BY DEF PartsNext, partsVars
  <1> QED
    BY <1>1, <1>2, PTL DEF PartsSpec, Spec

(***************************************************************************)
(* The same of the sort of phases.                                         *)
(***************************************************************************)
LEMMA PartsAreSort == PartsSpec => SortSpec
  <1>1. PartsInit => SortInit
    BY DEF PartsInit
  <1>2. [PartsNext]_partsVars => [Turn]_sortVars
    BY DEF PartsNext, partsVars
  <1> QED
    BY <1>1, <1>2, PTL DEF PartsSpec, SortSpec

(***************************************************************************)
(* The same of the queue of requests.                                      *)
(***************************************************************************)
LEMMA PartsAreGate == PartsSpec => GateSpec
  <1>1. PartsInit => GateInit
    BY DEF PartsInit
  <1>2. [PartsNext]_partsVars => [GateNext]_gateVars
    BY DEF PartsNext, partsVars
  <1> QED
    BY <1>1, <1>2, PTL DEF PartsSpec, GateSpec

(***************************************************************************)
(* The same of the registry of chats.                                      *)
(***************************************************************************)
LEMMA PartsAreRegistry == PartsSpec => RegistrySpec
  <1>1. PartsInit => RegistryInit
    BY DEF PartsInit
  <1>2. [PartsNext]_partsVars => [RegistryNext]_chatVars
    BY DEF PartsNext, partsVars
  <1> QED
    BY <1>1, <1>2, PTL DEF PartsSpec, RegistrySpec

(***************************************************************************)
(* The four parts keep their types, whichever of them is at work.          *)
(***************************************************************************)
THEOREM PartsTypeCorrect == PartsSpec => []PartsTypeOK
  <1>1. IndegreeIsExact => SortTypeOK
    BY DEF IndegreeIsExact
  <1>2. TypeOK /\ SortTypeOK /\ GateInv /\ RegistryTypeOK => PartsTypeOK
    BY DEF PartsTypeOK, GateInv
  <1> QED
    BY <1>1, <1>2, PartsAreLocks, PartsAreSort, PartsAreGate, PartsAreRegistry,
       TypeCorrect, IndegreeCorrect, GateCorrect, RegistryTypeCorrect, PTL

(***************************************************************************)
(* In the four together no entry is orphaned, a standing lease is backed   *)
(* and exclusive, waits form no cycle, the sort of phases is exact and     *)
(* ends in an order, the active chat is open, requests are spaced, and the *)
(* locks implement the lock service.                                       *)
(***************************************************************************)
THEOREM PartsCorrect ==
  PartsSpec =>
    /\ [](NoOrphanLock /\ LeaseBacked /\ LeaseExclusive /\ NoCircularWait)
    /\ [](IndegreeIsExact /\ OrderIsTopological /\ ActiveIsOpen)
    /\ RequestsAreSpaced
    /\ ImplementsService
  BY PartsAreLocks, PartsAreSort, PartsAreGate, PartsAreRegistry,
     NoOrphan, Backed, Exclusive, NoDeadlock, IndegreeCorrect, SortCorrect,
     ActiveCorrect, Spaced, ServiceImplemented, PTL
=============================================================================
