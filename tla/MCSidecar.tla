------------------------------ MODULE MCSidecar ------------------------------
(***************************************************************************)
(* Two activities of the sidecar beside the turns of its chats: missions   *)
(* and the inbox watcher.  They share no state of these modules, so each   *)
(* is explored with the other at rest.  The inbox is explored twice: with  *)
(* one mail and the commands of clients, and with all mails and none.      *)
(***************************************************************************)
EXTENDS ChatOrchestration, InboxWatcher

VARIABLE activity \* the one that is explored

sidecarVars == <<missionVars, inboxVars, activity>>

SidecarInit ==
  /\ MissionInit /\ InboxInit
  /\ \/ activity = "missions" /\ enabled = FALSE /\ provider = "gmail" /\ arrived = 0
     \/ activity = "oneMail"  /\ enabled = TRUE /\ arrived <= 1
     \/ activity = "mails"    /\ enabled = TRUE

SidecarNext ==
  /\ UNCHANGED activity
  /\ \/ activity = "missions" /\ MissionNext /\ UNCHANGED inboxVars
     \/ activity = "oneMail"  /\ InboxNext /\ arrived' <= 1 /\ UNCHANGED missionVars
     \/ activity = "mails"    /\ InboxNext /\ UNCHANGED <<commands, missionVars>>

SidecarSpec ==
  /\ SidecarInit /\ [][SidecarNext]_sidecarVars
  /\ MissionFairness /\ InboxFairness

SidecarTypeOK == MissionTypeOK /\ InboxTypeOK
=============================================================================
