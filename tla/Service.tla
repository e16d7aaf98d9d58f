------------------------------- MODULE Service -------------------------------
(***************************************************************************)
(* The smaller parts of the service, each beside the state of its own: the *)
(* clients' texts and menus, the web inbox, pausing and resuming, the      *)
(* state of operations, and the clients of the messengers' APIs.           *)
(*                                                                         *)
(* The parts share the process and no state, so a behaviour exercises one  *)
(* of them, chosen by its initial state, and leaves the others alone.      *)
(***************************************************************************)
EXTENDS ContentManagement, ClientMenu, WebInbox, ServiceControl, Operations, ApiClients

CONSTANT Parts  \* the parts exercised

ASSUME ServiceAssumption ==
  Parts \subseteq {"content", "menu", "inbox", "control", "operations", "api"}

VARIABLE part

vars == <<contentVars, menuVars, inboxVars, controlVars, operationsVars, apiVars, part>>

Init ==
  /\ ContentInit /\ MenuInit /\ InboxInit
  /\ ControlInit /\ OperationsInit /\ ApiInit
  /\ part \in Parts
  /\ part # "menu" => messenger = "telegram"
  /\ part # "inbox" => focus = "replies"
  /\ part # "api" => method = "sendMessage"

Next ==
  /\ part' = part
  /\ \/ /\ part = "content" /\ (ContentNext \/ RestartContent)
        /\ UNCHANGED <<menuVars, inboxVars, controlVars, operationsVars, apiVars>>
     \/ /\ part = "menu" /\ MenuNext
        /\ UNCHANGED <<contentVars, inboxVars, controlVars, operationsVars, apiVars>>
     \/ /\ part = "inbox" /\ InboxNext
        /\ UNCHANGED <<contentVars, menuVars, controlVars, operationsVars, apiVars>>
     \/ /\ part = "control" /\ (ControlNext \/ RestartControl)
        /\ UNCHANGED <<contentVars, menuVars, inboxVars, operationsVars, apiVars>>
     \/ /\ part = "operations" /\ OperationsNext
        /\ UNCHANGED <<contentVars, menuVars, inboxVars, controlVars, apiVars>>
     \/ /\ part = "api" /\ ApiNext
        /\ UNCHANGED <<contentVars, menuVars, inboxVars, controlVars, operationsVars>>

Spec == Init /\ [][Next]_vars

-----------------------------------------------------------------------------
\* What was answered with success is what a restart brings back that can read
\* its files: the texts clients are shown and the pauses.
RestartKeepsState == ContentSurvives /\ OrdersAreKept
=============================================================================
