------------------------------- MODULE VkInbox -------------------------------
(***************************************************************************)
(* VK's inbound events: the poller stores what a long poll returns in      *)
(* inbound_events, routes the oldest pending event, retries a failed one,  *)
(* puts it in quarantine when its attempts are used up, and operators      *)
(* retry or skip what is in quarantine.                                    *)
(*                                                                         *)
(* A disconnect aborts the poller but an event being routed is routed to   *)
(* the end; a connect may start the next poller meanwhile.  So pollers     *)
(* overlap, and what keeps them from dropping or doubling a message is the *)
(* claim in processed_events together with the KeyedTaskQueue.             *)
(*                                                                         *)
(* With a new long-poll server VK may hand out an earlier position of its  *)
(* event log: events are sent again.  Events it never sends are not        *)
(* counted.  Definitions marked "slip" are wrong variants of the           *)
(* definition that follows them; no specification uses them.               *)
(***************************************************************************)
EXTENDS Integers, Sequences, FiniteSets, SequencesExt

CONSTANTS
  MaxEvents,        \* bound: the events of the community are 1..MaxEvents
  Kind,             \* what each event is
  Conversation,     \* whom each event comes from
  Pollers,          \* bound: pollers that may run at once
  MaxEventAttempts  \* failures after which an event is quarantined

Events == 1..MaxEvents
Conversations == {Conversation[e] : e \in Events}
None == 0

\* A message goes to the operators, a menu text and an attachment are answered
\* by the bot, an invalid event throws, any other is ignored.
Kinds == {"message", "menu", "attachment", "invalid", "other"}

ASSUME VkInboxAssumption ==
  /\ MaxEvents \in Nat
  /\ Kind \in [Events -> Kinds]
  /\ DOMAIN Conversation = Events
  /\ None \notin Pollers
  /\ MaxEventAttempts \in Nat \ {0}

VARIABLES
  \* Persistent.
  inbound,    \* the row of each event in inbound_events
  order,      \* the stored events, as ORDER BY received_at, rowid gives them
  processed,  \* the row of each event in processed_events
  \* Volatile.
  poller,     \* what each poller awaits
  running,    \* the poller the runtime knows, None when VK is disconnected
  turns,      \* KeyedTaskQueue: pollers in line for each conversation
  paused,     \* the client intake of VK is paused
  \* VK and history.
  sent,       \* events VK has sent so far, in the order of its log
  relayed,    \* times the handling of each event came to its end
  ruling      \* last decision on each event: "declined" while the intake was
              \* paused, "skipped" or "retried" by an operator

store == <<inbound, order>>
vars == <<store, processed, poller, running, turns, paused, sent, relayed, ruling>>

-----------------------------------------------------------------------------
(* The store.                                                              *)

NoRow == [status |-> "absent", attempts |-> 0]
Off == [pc |-> "off", event |-> None, ts |-> None, aborted |-> FALSE]

Stored(e) == inbound[e].status # "absent"
Pending(e) == inbound[e].status = "pending"
Quarantined(e) == inbound[e].status = "quarantined"

First(e, Due(_)) ==
  \E i \in DOMAIN order : /\ order[i] = e /\ Due(e)
                          /\ \A j \in 1..i-1 : ~Due(order[j])

\* slip: an event that waits for its next attempt lets the others pass.
IsNextDue(e) == First(e, LAMBDA f : Pending(f) /\ inbound[f].attempts = 0)

\* findPendingInboundEvents(source, 1): the oldest, whatever its next attempt.
IsNext(e) == First(e, Pending)

\* INSERT OR IGNORE of a batch, in one transaction and in the order of the log.
EnqueueInboundEvents(batch) ==
  LET new == {e \in batch : ~Stored(e)} IN
  /\ inbound' = [e \in Events |->
                   IF e \in new THEN [status |-> "pending", attempts |-> 0]
                   ELSE inbound[e]]
  /\ \E rows \in [1..Cardinality(new) -> new] :
       /\ \A i, j \in DOMAIN rows : i < j => rows[i] < rows[j]
       /\ order' = order \o rows

\* A sequence without one of its elements.
Without(s, e) ==
  IF \E i \in DOMAIN s : s[i] = e
  THEN RemoveAt(s, CHOOSE i \in DOMAIN s : s[i] = e) ELSE s

\* Whatever the status of the row is by now.
CompleteInboundEvent(e) ==
  /\ inbound' = [inbound EXCEPT ![e] = NoRow]
  /\ order' = Without(order, e)

\* slip: a failed event is always tried again.
FailureWithoutLimit(row) == [row EXCEPT !.attempts = 1]

\* slip: counts the attempts before this one.
FailureOffByOne(row) ==
  [status |-> IF row.attempts >= MaxEventAttempts THEN "quarantined"
              ELSE "pending",
   attempts |-> row.attempts + 1]

\* recordInboundEventFailure's UPDATE.
Failure(row) ==
  [status |-> IF row.attempts + 1 >= MaxEventAttempts THEN "quarantined"
              ELSE "pending",
   attempts |-> row.attempts + 1]

-----------------------------------------------------------------------------
(* The poller, from one await to the next.                                 *)

\* slip: nobody waits for the task in progress.
AnyTurn(p, c) == Contains(turns[c], p)

\* KeyedTaskQueue: a task starts when those before it have ended.
HasTurn(p, c) == turns[c] # <<>> /\ Head(turns[c]) = p

\* The task in progress has ended.
LeaveQueue(p) ==
  turns' = [c \in Conversations |->
              IF HasTurn(p, c) THEN Tail(turns[c]) ELSE turns[c]]

\* slip: whoever completed the event before is forgotten.
CanReclaim(e) == processed[e] # "processing"

\* claimEvent inserts a row unless there is one.
CanClaim(e) == processed[e] = "none"

Await(p, pc, e) == poller' = [poller EXCEPT ![p].pc = pc, ![p].event = e]

\* The loop's top: an aborted poller ends there.
Loop(p) ==
  poller' = [poller EXCEPT ![p] = IF @.aborted THEN Off
                                  ELSE [@ EXCEPT !.pc = "idle", !.event = None]]

\* route() returned.
Handled(p, e) == CompleteInboundEvent(e) /\ Loop(p)

\* route() threw.  An aborted poller ends and leaves the row as it is; a row
\* that is not pending any more makes recordInboundEventFailure throw as well,
\* and the loop goes on.
Failed(p, e) ==
  /\ IF ~poller[p].aborted /\ Pending(e)
     THEN inbound' = [inbound EXCEPT ![e] = Failure(@)] ELSE UNCHANGED inbound
  /\ UNCHANGED order
  /\ Loop(p)

\* VkUpdateRouter.route up to its first await.
Route(p, e) ==
  CASE Kind[e] = "other" -> Handled(p, e) /\ UNCHANGED <<processed, ruling>>
    [] Kind[e] = "invalid" -> Failed(p, e) /\ UNCHANGED <<processed, ruling>>
    [] Kind[e] = "attachment" ->
         Await(p, "answering", e) /\ UNCHANGED <<store, processed, ruling>>
    [] Kind[e] = "menu" ->
         IF CanClaim(e)
         THEN /\ processed' = [processed EXCEPT ![e] = "processing"]
              /\ Await(p, "answering", e)
              /\ UNCHANGED <<store, ruling>>
         ELSE Handled(p, e) /\ UNCHANGED <<processed, ruling>>
    [] Kind[e] = "message" ->
         \/ Await(p, "naming", e) /\ UNCHANGED <<store, processed, ruling>>
         \/ /\ paused                       \* and the client has no request
            /\ ruling' = [ruling EXCEPT ![e] = "declined"]
            /\ Handled(p, e)
            /\ UNCHANGED processed

NextEvent(p) ==
  /\ poller[p].pc = "idle"
  /\ \E e \in Events :
       /\ IsNext(e)
       /\ \/ Route(p, e)
          \/ /\ inbound[e].attempts > 0    \* its next attempt is not due yet
             /\ Await(p, "delaying", e)
             /\ UNCHANGED <<store, processed, ruling>>
  /\ UNCHANGED <<running, turns, paused, sent, relayed>>

DelayEnds(p) ==
  /\ poller[p].pc = "delaying"
  /\ IF poller[p].aborted
     THEN Loop(p) /\ UNCHANGED <<store, processed, ruling>>
     ELSE Route(p, poller[p].event)
  /\ UNCHANGED <<running, turns, paused, sent, relayed>>

\* The client's name is known, or VK did not tell it.
NameAnswered(p) ==
  /\ poller[p].pc = "naming"
  /\ LET e == poller[p].event IN
       \/ /\ turns' = [turns EXCEPT ![Conversation[e]] = Append(@, p)]
          /\ Await(p, "queued", e)
          /\ UNCHANGED store
       \/ Failed(p, e) /\ UNCHANGED turns
  /\ UNCHANGED <<processed, running, paused, sent, relayed, ruling>>

\* handleClientMessage when its turn has come: claim the event or skip it.
TakeTurn(p) ==
  /\ poller[p].pc = "queued"
  /\ LET e == poller[p].event IN
       /\ HasTurn(p, Conversation[e])
       /\ IF CanClaim(e)
          THEN /\ processed' = [processed EXCEPT ![e] = "processing"]
               /\ Await(p, "handling", e)
               /\ UNCHANGED <<store, turns>>
          ELSE Handled(p, e) /\ LeaveQueue(p) /\ UNCHANGED processed
  /\ UNCHANGED <<running, paused, sent, relayed, ruling>>

\* The operators have the message, or the menu was answered.
HandlingSucceeds(p) ==
  /\ poller[p].pc \in {"handling", "answering"}
  /\ LET e == poller[p].event IN
       /\ processed' = IF Kind[e] = "attachment" THEN processed
                       ELSE [processed EXCEPT ![e] = "completed"]
       /\ relayed' = [relayed EXCEPT ![e] = IF Kind[e] = "message" THEN @ + 1 ELSE 1]
       /\ Handled(p, e)
  /\ LeaveQueue(p)
  /\ UNCHANGED <<running, paused, sent, ruling>>

\* The handling threw: the claim is released.
HandlingFails(p) ==
  /\ poller[p].pc \in {"handling", "answering"}
  /\ LET e == poller[p].event IN
       /\ processed' = IF Kind[e] = "attachment" THEN processed
                       ELSE [processed EXCEPT ![e] = "none"]
       /\ Failed(p, e)
  /\ LeaveQueue(p)
  /\ UNCHANGED <<running, paused, sent, relayed, ruling>>

-----------------------------------------------------------------------------
(* Long polling.  ts is None until a server is known; VK's positions are   *)
(* counted from 1.                                                         *)

LongPoll(p) ==
  /\ poller[p].pc = "idle" /\ ~\E e \in Events : IsNext(e)
  /\ poller' = [poller EXCEPT ![p].pc = "polling"]
  /\ UNCHANGED <<store, processed, running, turns, paused, sent, relayed, ruling>>

\* getLongPollServer, or failed = 1 with a ts, or 2 and 3.
NewPosition(p) ==
  /\ poller[p].pc = "polling" /\ ~poller[p].aborted
  /\ \E ts \in 1..sent + 1 :
       poller' = [poller EXCEPT ![p].pc = "idle", ![p].ts = ts]
  /\ UNCHANGED <<store, processed, running, turns, paused, sent, relayed, ruling>>

\* A batch, perhaps empty, is stored before the position moves past it.
PersistUpdates(p) ==
  /\ poller[p].pc = "polling" /\ ~poller[p].aborted /\ poller[p].ts # None
  /\ LET ts == poller[p].ts IN
       \E last \in sent..MaxEvents :
         /\ EnqueueInboundEvents(ts..last)
         /\ poller' = [poller EXCEPT ![p].pc = "idle", ![p].ts = last + 1]
         /\ sent' = last
  /\ UNCHANGED <<processed, running, turns, paused, relayed, ruling>>

\* The signal ends a poll at once.
PollAborted(p) ==
  /\ poller[p].pc = "polling" /\ poller[p].aborted
  /\ poller' = [poller EXCEPT ![p] = Off]
  /\ UNCHANGED <<store, processed, running, turns, paused, sent, relayed, ruling>>

-----------------------------------------------------------------------------
(* The owner, the operators, VK and the process.                           *)

\* VkRuntime.start: refused only while a poller that was not stopped runs.
Start(p) ==
  /\ running = None /\ poller[p].pc = "off"
  /\ running' = p
  /\ poller' = [poller EXCEPT ![p] = [Off EXCEPT !.pc = "idle"]]
  /\ UNCHANGED <<store, processed, turns, paused, sent, relayed, ruling>>

\* VkRuntime.stop up to its await; the poller ends by itself.
Stop ==
  /\ running # None
  /\ poller' = [poller EXCEPT ![running] = IF @.pc = "idle" THEN Off
                                           ELSE [@ EXCEPT !.aborted = TRUE]]
  /\ running' = None
  /\ UNCHANGED <<store, processed, turns, paused, sent, relayed, ruling>>

RetryQuarantined(e) ==
  /\ Quarantined(e)
  /\ inbound' = [inbound EXCEPT ![e] = [status |-> "pending", attempts |-> 0]]
  /\ ruling' = [ruling EXCEPT ![e] = "retried"]
  /\ UNCHANGED <<order, processed, poller, running, turns, paused, sent, relayed>>

SkipQuarantined(e) ==
  /\ Quarantined(e)
  /\ CompleteInboundEvent(e)
  /\ ruling' = [ruling EXCEPT ![e] = "skipped"]
  /\ UNCHANGED <<processed, poller, running, turns, paused, sent, relayed>>

SetPaused ==
  /\ paused' = ~paused
  /\ UNCHANGED <<store, processed, poller, running, turns, sent, relayed, ruling>>

\* slip: claims of the dead process are kept.
KeepInterruptedEvents == UNCHANGED processed

\* releaseInterruptedEvents.
ReleaseInterruptedEvents ==
  processed' = [e \in Events |->
                  IF processed[e] = "processing" THEN "none" ELSE processed[e]]

\* VK connects if it was configured.
CrashAndRestart ==
  /\ ReleaseInterruptedEvents
  /\ turns' = [c \in Conversations |-> <<>>]
  /\ \E p \in Pollers \cup {None} :
       /\ running' = p
       /\ poller' = [q \in Pollers |-> IF q = p THEN [Off EXCEPT !.pc = "idle"]
                                       ELSE Off]
  /\ UNCHANGED <<store, paused, sent, relayed, ruling>>

Init ==
  /\ inbound = [e \in Events |-> NoRow] /\ order = <<>>
  /\ processed = [e \in Events |-> "none"]
  /\ poller = [p \in Pollers |-> Off] /\ running = None
  /\ turns = [c \in Conversations |-> <<>>]
  /\ paused = FALSE
  /\ sent = 0
  /\ relayed = [e \in Events |-> 0]
  /\ ruling = [e \in Events |-> "none"]

Settles(p) == HandlingSucceeds(p) \/ HandlingFails(p)

Next ==
  \/ \E p \in Pollers :
       \/ NextEvent(p) \/ DelayEnds(p) \/ NameAnswered(p) \/ TakeTurn(p)
       \/ Settles(p)
       \/ LongPoll(p) \/ NewPosition(p) \/ PersistUpdates(p) \/ PollAborted(p)
       \/ Start(p)
  \/ Stop
  \/ \E e \in Events : RetryQuarantined(e) \/ SkipQuarantined(e)
  \/ SetPaused
  \/ CrashAndRestart

Spec == Init /\ [][Next]_vars

\* The loop runs, delays end and requests are answered or given up, between
\* crashes often enough to come to the end of an event.
Fairness ==
  \A p \in Pollers :
    /\ SF_vars(NextEvent(p)) /\ SF_vars(DelayEnds(p))
    /\ SF_vars(NewPosition(p) \/ PersistUpdates(p))
    /\ SF_vars(NameAnswered(p)) /\ SF_vars(TakeTurn(p)) /\ SF_vars(Settles(p))

FairSpec == Spec /\ Fairness

-----------------------------------------------------------------------------
(* Properties.                                                             *)

IsMessage(e) == Kind[e] = "message"

\* Rows and pollers keep their types; `order` lists the stored events once.
TypeOK ==
  /\ inbound \in [Events -> [status: {"absent", "pending", "quarantined"},
                             attempts: 0..MaxEventAttempts]]
  /\ IsInjective(order) /\ ToSet(order) = {e \in Events : Stored(e)}
  /\ processed \in [Events -> {"none", "processing", "completed"}]
  /\ poller \in [Pollers -> [pc: {"off", "idle", "delaying", "naming", "queued",
                                  "handling", "answering", "polling"},
                             event: Events \cup {None},
                             ts: 0..MaxEvents + 1, aborted: BOOLEAN]]
  /\ running \in Pollers \cup {None}
  /\ turns \in [Conversations -> Seq(Pollers)]
  /\ relayed \in [Events -> Nat]
  /\ ruling \in [Events -> {"none", "declined", "skipped", "retried"}]

\* A stored message leaves the store only when it was handed to the operators,
\* declined while the intake was paused, or skipped by an operator: not when
\* one poller takes another's claim for the end of the matter.
NoMessageDropped ==
  [][\A e \in Events :
       IsMessage(e) /\ Stored(e) /\ inbound'[e].status = "absent" =>
         processed'[e] = "completed" \/ ruling'[e] \in {"declined", "skipped"}]_vars

\* A message is handled once, however often VK sends it, the poller is replaced
\* or the process crashes.
HandledOnce == \A e \in Events : IsMessage(e) => relayed[e] <= 1

\* A claim that is not completed belongs to the one poller that is at work on
\* the event, so that none is left behind by a crash, a disconnect or a failure
\* and taken for another poller's work for ever.
ClaimIsHeld ==
  \A e \in Events :
    LET workers == {p \in Pollers : /\ poller[p].pc \in {"handling", "answering"}
                                    /\ poller[p].event = e}
    IN  /\ processed[e] = "processing" => workers # {}
        /\ Kind[e] # "attachment" =>
             \A p, q \in workers : p = q /\ processed[e] = "processing"

\* Handling a message of a client starts only when those stored before it are
\* done with, but for those in quarantine, taken from it or once declined.
InOrder ==
  [][\A e, f \in Events :
       /\ IsMessage(e) /\ processed[e] = "none" /\ processed'[e] = "processing"
       /\ IsMessage(f) /\ Conversation[e] = Conversation[f]
       /\ \E i, j \in 1..Len(order) : i < j /\ order[i] = f /\ order[j] = e
       => \/ processed[f] = "completed" \/ Quarantined(f)
          \/ ruling[f] # "none"]_vars

\* Once VK stays connected and operators retry nothing any more, each stored
\* event is handled or put in quarantine: one that always fails does not block
\* those behind it.
EventuallyLeavesQueue ==
  /\ <>[](running # None)
  /\ <>[][\A e \in Events : ~RetryQuarantined(e)]_vars
  => \A e \in Events : Pending(e) ~> ~Pending(e)
=============================================================================
