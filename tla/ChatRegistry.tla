----------------------------- MODULE ChatRegistry -----------------------------
(***************************************************************************)
(* The chats of the sidecar: ChatRegistry (packages/sidecar/src/           *)
(* chat_registry.ts) and the admission of turns by SessionBridge.          *)
(*                                                                         *)
(* Commands of the clients are dispatched without waiting for each other,  *)
(* so calls of the registry interleave at their awaits: the read of a      *)
(* chat's metadata, the set-up of its harness, writes and deletions on     *)
(* disk.  Files are read and written without errors.                       *)
(***************************************************************************)
EXTENDS Naturals, Sequences

CONSTANTS
  ChatIds,  \* chats there have ever been
  Callers,  \* calls of the registry that can be under way
  NoChat,   \* null
  MaxCalls  \* calls (bounds the model)

ASSUME RegistryAssumption ==
  /\ NoChat \notin ChatIds
  /\ "boot" \notin Callers
  /\ MaxCalls \in Nat

Threads == Callers \cup {"boot"}

VARIABLES
  saved,     \* on disk: chats with metadata
  mission,   \* those whose kind is orchestrator
  born,      \* chats that exist or have existed
  slots,     \* the bridge in each chat's slot, 0 if it has none
  harnesses, \* the chat of each bridge built so far
  active,    \* activeChatId
  booted,    \* booted
  ensuring,  \* the call whose create is ensureActive
  step,      \* where each call is
  op,        \* its method
  chat,      \* its chat
  show,      \* its chat is to be activated
  built,     \* the bridge it is setting up
  inTurn,    \* bridges with turnInFlight
  requests   \* calls so far

chatFiles  == <<saved, mission, born>>
openVars   == <<slots, harnesses>>
threadVars == <<step, op, chat, show, built>>
chatVars   == <<chatFiles, openVars, active, booted, ensuring, threadVars, inTurn, requests>>

Bridges == DOMAIN harnesses

Goes(t, where)  == step' = [step EXCEPT ![t] = where]
Takes(t, c)     == chat' = [chat EXCEPT ![t] = c]

Returns(t) ==
  /\ Goes(t, "idle")
  /\ Takes(t, NoChat)
  /\ op' = [op EXCEPT ![t] = "none"]
  /\ show' = [show EXCEPT ![t] = FALSE]
  /\ built' = [built EXCEPT ![t] = 0]

-----------------------------------------------------------------------------
(***************************************************************************)
(* A call arrives.  All but delete first await boot.                       *)
(***************************************************************************)
Arrives(t, method, c, activate) ==
  /\ requests < MaxCalls
  /\ requests' = requests + 1
  /\ step[t] = "idle"
  /\ op' = [op EXCEPT ![t] = method]
  /\ Goes(t, IF method = "delete" THEN "close" ELSE "boot")
  /\ Takes(t, c)
  /\ show' = [show EXCEPT ![t] = activate]
  /\ UNCHANGED <<chatFiles, openVars, active, booted, ensuring, built, inTurn>>

(***************************************************************************)
(* boot: one promise for all that wait for it.  resolveChatBoot takes the  *)
(* last active chat, or another one, or makes one, as it is configured.    *)
(***************************************************************************)
Boot(c) ==
  /\ ~booted /\ step["boot"] = "idle"
  /\ \E t \in Callers : step[t] = "boot"
  /\ c \in saved \/ c \notin born
  /\ saved' = saved \cup {c} /\ born' = born \cup {c}
  /\ op' = [op EXCEPT !["boot"] = "boot"]
  /\ Goes("boot", "look")
  /\ Takes("boot", c)
  /\ show' = [show EXCEPT !["boot"] = TRUE]
  /\ UNCHANGED <<mission, openVars, active, booted, ensuring, built, inTurn, requests>>

After(t, methods) == step[t] = "boot" /\ booted /\ op[t] \in methods

(***************************************************************************)
(* ensureActive: one create for all that find no active chat.              *)
(***************************************************************************)
EnsuresActive(t) ==
  /\ Takes(t, NoChat)
  /\ IF ensuring = NoChat
     THEN ensuring' = t /\ Goes(t, "create") /\ show' = [show EXCEPT ![t] = TRUE]
     ELSE Goes(t, "join") /\ UNCHANGED <<ensuring, show>>
  /\ UNCHANGED <<op, built>>

(***************************************************************************)
(* open and activate, and getOrCreateActive when the active chat has no    *)
(* slot: the metadata is read.                                             *)
(***************************************************************************)
ReadsMetadata(t) ==
  /\ After(t, {"open", "activate"}) \/ step[t] = "meta"
  /\ IF chat[t] \in saved
     THEN Goes(t, "look") /\ UNCHANGED <<op, chat, show, built, ensuring>>
     ELSE IF op[t] = "current" THEN EnsuresActive(t) ELSE Returns(t) /\ UNCHANGED ensuring
  /\ UNCHANGED <<chatFiles, openVars, active, booted, inTurn, requests>>

(***************************************************************************)
(* getOrCreateActive.                                                      *)
(***************************************************************************)
AsksForActive(t) ==
  /\ After(t, {"current"})
  /\ IF active = NoChat THEN EnsuresActive(t)
     ELSE IF slots[active] # 0 THEN Returns(t) /\ UNCHANGED ensuring
     ELSE Goes(t, "meta") /\ Takes(t, active) /\ UNCHANGED <<op, show, built, ensuring>>
  /\ UNCHANGED <<chatFiles, openVars, active, booted, inTurn, requests>>

Joined(t) ==
  /\ step[t] = "join" /\ ensuring = NoChat
  /\ Returns(t)
  /\ UNCHANGED <<chatFiles, openVars, active, booted, ensuring, inTurn, requests>>

(***************************************************************************)
(* getOrCreateOrchestratorChat looks for the Mission Control chat on disk. *)
(***************************************************************************)
FindsMission(t) ==
  /\ After(t, {"mission"})
  /\ IF mission = {}
     THEN Goes(t, "create") /\ UNCHANGED chat
     ELSE Goes(t, "look") /\ \E c \in mission : Takes(t, c)
  /\ UNCHANGED <<chatFiles, openVars, active, booted, ensuring, op, show, built, inTurn, requests>>

(***************************************************************************)
(* create: new metadata, with an id of its own, of the kind asked for.     *)
(***************************************************************************)
Creates(t, c) ==
  /\ step[t] = "create" \/ After(t, {"create"})
  /\ c \notin born
  /\ saved' = saved \cup {c} /\ born' = born \cup {c}
  /\ \/ op[t] # "current" /\ mission' = mission \cup {c}
     \/ op[t] # "mission" /\ mission' = mission
  /\ Goes(t, "look") /\ Takes(t, c)
  /\ UNCHANGED <<openVars, active, booted, ensuring, op, show, built, inTurn, requests>>

-----------------------------------------------------------------------------
LooksActivating(t) ==                           \* mutant: the chat is active before it is open
  /\ step[t] = "look"
  /\ IF slots[chat[t]] # 0
     THEN Goes(t, "opened") /\ UNCHANGED <<harnesses, built>>
     ELSE /\ harnesses' = Append(harnesses, chat[t])
          /\ built' = [built EXCEPT ![t] = Len(harnesses')]
          /\ Goes(t, "build")
  /\ active' = IF show[t] THEN chat[t] ELSE active
  /\ UNCHANGED <<chatFiles, slots, booted, ensuring, op, chat, show, inTurn, requests>>

(***************************************************************************)
(* openBridgeFromMeta: a chat with a slot is used as it is, for any other  *)
(* a harness is set up, which takes several awaits.                        *)
(***************************************************************************)
Looks(t) ==
  /\ step[t] = "look"
  /\ IF slots[chat[t]] # 0
     THEN Goes(t, "opened") /\ UNCHANGED <<harnesses, built>>
     ELSE /\ harnesses' = Append(harnesses, chat[t])
          /\ built' = [built EXCEPT ![t] = Len(harnesses')]
          /\ Goes(t, "build")
  /\ UNCHANGED <<chatFiles, slots, active, booted, ensuring, op, chat, show, inTurn, requests>>

FillsSlot(t) ==
  /\ step[t] = "build"
  /\ slots' = [slots EXCEPT ![chat[t]] = built[t]]
  /\ Goes(t, "opened")
  /\ UNCHANGED <<chatFiles, harnesses, active, booted, ensuring, op, chat, show, built, inTurn,
                 requests>>

(***************************************************************************)
(* The bridge is there (beginSession has returned): the chat becomes the   *)
(* active one, which is saved before the call returns.                     *)
(***************************************************************************)
Activates(t) ==
  /\ step[t] = "opened"
  /\ active' = IF show[t] THEN chat[t] ELSE active
  /\ Goes(t, "save")
  /\ UNCHANGED <<chatFiles, openVars, booted, ensuring, op, chat, show, built, inTurn, requests>>

OpenReturns(t) ==
  /\ step[t] = "save"
  /\ booted' = (booted \/ t = "boot")
  /\ ensuring' = IF ensuring = t THEN NoChat ELSE ensuring
  /\ Returns(t)
  /\ UNCHANGED <<chatFiles, openVars, active, inTurn, requests>>

-----------------------------------------------------------------------------
(***************************************************************************)
(* delete: the slot at once, then the files; if the chat was the active    *)
(* one, the newest of the others is activated.                             *)
(***************************************************************************)
Disposes(t) ==
  /\ step[t] = "close"
  /\ slots' = [slots EXCEPT ![chat[t]] = 0]
  /\ Goes(t, "rm")
  /\ UNCHANGED <<chatFiles, harnesses, active, booted, ensuring, op, chat, show, built, inTurn,
                 requests>>

Removes(t) ==
  /\ step[t] = "rm"
  /\ saved' = saved \ {chat[t]} /\ mission' = mission \ {chat[t]}
  /\ Goes(t, "refresh")
  /\ UNCHANGED <<born, openVars, active, booted, ensuring, op, chat, show, built, inTurn, requests>>

DeleteReturns(t) ==
  /\ step[t] = "refresh"
  /\ active # chat[t] \/ saved = {}
  /\ active' = IF active = chat[t] THEN NoChat ELSE active
  /\ Returns(t)
  /\ UNCHANGED <<chatFiles, openVars, booted, ensuring, inTurn, requests>>

ActivatesNext(t, c) ==
  /\ step[t] = "refresh"
  /\ active = chat[t] /\ c \in saved
  /\ op' = [op EXCEPT ![t] = "activate"]
  /\ Goes(t, "boot") /\ Takes(t, c)
  /\ show' = [show EXCEPT ![t] = TRUE]
  /\ UNCHANGED <<chatFiles, openVars, active, booted, ensuring, built, inTurn, requests>>

-----------------------------------------------------------------------------
(***************************************************************************)
(* send_message and sendUserMessage: the bridge in the slot takes the turn *)
(* unless it has one.  The turn of a bridge without a slot goes on.        *)
(***************************************************************************)
TurnStarts(c) ==
  /\ slots[c] # 0 /\ slots[c] \notin inTurn
  /\ inTurn' = inTurn \cup {slots[c]}
  /\ UNCHANGED <<chatFiles, openVars, active, booted, ensuring, threadVars, requests>>

TurnEnds(b) ==
  /\ b \in inTurn
  /\ inTurn' = inTurn \ {b}
  /\ UNCHANGED <<chatFiles, openVars, active, booted, ensuring, threadVars, requests>>

-----------------------------------------------------------------------------
RegistryInit ==
  /\ saved \in SUBSET ChatIds /\ mission \in SUBSET saved
  /\ born = saved
  /\ slots = [c \in ChatIds |-> 0] /\ harnesses = <<>>
  /\ active = NoChat /\ booted = FALSE /\ ensuring = NoChat
  /\ step = [t \in Threads |-> "idle"]
  /\ op = [t \in Threads |-> "none"]
  /\ chat = [t \in Threads |-> NoChat]
  /\ show = [t \in Threads |-> FALSE]
  /\ built = [t \in Threads |-> 0]
  /\ inTurn = {} /\ requests = 0

(***************************************************************************)
(* The commands of clients that reach the registry, and the watcher's and  *)
(* the integrations' use of the active chat.                               *)
(***************************************************************************)
Command(t) ==
  \/ \E c \in born : \/ Arrives(t, "open", c, FALSE)
                     \/ Arrives(t, "activate", c, TRUE)
                     \/ Arrives(t, "delete", c, FALSE)
  \/ \E method \in {"create", "mission"}, activate \in BOOLEAN :
       Arrives(t, method, NoChat, activate)
  \/ Arrives(t, "current", NoChat, FALSE)

ThreadNext(t) ==
  \/ ReadsMetadata(t) \/ AsksForActive(t) \/ Joined(t) \/ FindsMission(t)
  \/ \E c \in ChatIds : Creates(t, c)
  \/ Looks(t) \/ FillsSlot(t) \/ Activates(t) \/ OpenReturns(t)
  \/ Disposes(t) \/ Removes(t) \/ DeleteReturns(t)
  \/ \E c \in ChatIds : ActivatesNext(t, c)

RegistryNext ==
  \/ \E t \in Callers : Command(t)
  \/ \E c \in ChatIds : Boot(c) \/ TurnStarts(c)
  \/ \E t \in Threads : ThreadNext(t)
  \/ \E b \in Bridges : TurnEnds(b)

RegistrySpec == RegistryInit /\ [][RegistryNext]_chatVars

-----------------------------------------------------------------------------
Steps == {"idle", "boot", "meta", "create", "join", "look", "build", "opened", "save",
          "close", "rm", "refresh"}

RegistryTypeOK ==
  /\ saved \in SUBSET born /\ born \in SUBSET ChatIds
  /\ mission \in SUBSET saved
  /\ harnesses \in Seq(ChatIds)
  /\ slots \in [ChatIds -> {0} \cup Bridges]
  /\ active \in ChatIds \cup {NoChat} /\ booted \in BOOLEAN
  /\ ensuring \in Callers \cup {NoChat}
  /\ step \in [Threads -> Steps]
  /\ op \in [Threads -> {"none", "open", "activate", "create", "mission", "current", "delete",
                         "boot"}]
  /\ chat \in [Threads -> ChatIds \cup {NoChat}]
  /\ show \in [Threads -> BOOLEAN]
  /\ built \in [Threads -> {0} \cup Bridges]
  /\ inTurn \in SUBSET Bridges
  /\ requests \in 0..MaxCalls

Deleting(c) == \E t \in Callers : step[t] = "rm" /\ chat[t] = c

(***************************************************************************)
(* The active chat has a bridge, unless it is deleted or being deleted,    *)
(* however opens, activations and deletions of chats interleave: what      *)
(* works on the active chat (getActiveBridge) then finds one.              *)
(***************************************************************************)
ActiveIsOpen == active \in saved /\ ~Deleting(active) => slots[active] # 0

(***************************************************************************)
(* A chat that has not been deleted has at most one turn at a time:        *)
(* "second turn must reject before the first finishes"                     *)
(* (session_admission_regression.test.ts line 17).                         *)
(***************************************************************************)
OneTurnPerChat ==
  \A b1, b2 \in inTurn :
    /\ harnesses[b1] = harnesses[b2]
    /\ harnesses[b1] \in saved /\ ~Deleting(harnesses[b1])
    => b1 = b2
=============================================================================
