---------------------------- MODULE DeliveryQueue ----------------------------
(***************************************************************************)
(* The durable outbound queue: the `deliveries` table, the DeliveryWorker  *)
(* that drains it through the client channels, the failure policy, the     *)
(* operator's remedies and the recovery made at startup.                   *)
(*                                                                         *)
(* The worker is asynchronous only where it awaits: in channel.send and in *)
(* notifyDeliveryFailure.  What runs between two awaits is one step, and   *)
(* HTTP handlers, new replies and a crash may happen at each await.        *)
(*                                                                         *)
(* Definitions marked "slip" are wrong variants of the definition that     *)
(* follows them; no specification uses them.  They show that the           *)
(* properties notice the mistake.                                          *)
(***************************************************************************)
EXTENDS Integers, FiniteSets

CONSTANTS
  TelegramConversations,  \* client conversations of the Telegram channel
  VkConversations,        \* client conversations of the VK channel
  MaxDeliveries,          \* bound: replies ever queued
  MaxRequeues,            \* bound: manual requeues of one reply
  MaxAttempts,            \* attempts before an ordinary failure is final
  BatchLimit,             \* rows one cycle reads
  AlertLimit,             \* failures one cycle reports
  StorageMayFail          \* whether a SQLite statement of the worker may throw

Conversations == TelegramConversations \cup VkConversations
Deliveries == 1..MaxDeliveries
Channel(c) == IF c \in TelegramConversations THEN "telegram" ELSE "vk"
Channels == {Channel(c) : c \in Conversations}

ASSUME ConversationsAssumption ==
  /\ TelegramConversations \cap VkConversations = {}
  /\ "none" \notin Conversations

ASSUME BoundsAssumption ==
  /\ MaxDeliveries \in Nat
  /\ MaxRequeues \in Nat
  /\ MaxAttempts \in Nat \ {0}
  /\ BatchLimit \in Nat \ {0}
  /\ AlertLimit \in Nat \ {0}
  /\ StorageMayFail \in BOOLEAN

VARIABLES
  \* Persistent: the deliveries table and the service-control file.
  deliveries,   \* one row for each id, in insertion order
  paused,       \* delivery is paused by service control
  \* Volatile: the runtime and the worker's local variables.
  registered,   \* the client channels registered with the worker
  pc,           \* where the worker awaits
  batch,        \* rows of this cycle's list still to be tried
  listed,       \* the attempts each listed row had when it was read
  current,      \* the delivery being sent, 0 for none
  alerts,       \* failures of this cycle still to be reported
  \* The outside world.
  accepted,     \* the channel has accepted the request being awaited
  orphans,      \* abandoned requests that the channel may still accept
  received,     \* copies the client has seen
  \* History.
  denied,       \* "not received" resolutions of each delivery
  requeues,     \* manual requeues of each delivery
  alerted       \* the delivery has failed, and operators were told since it did

worker == <<pc, batch, listed, current, alerts>>
world == <<orphans, received>>
history == <<denied, requeues>>
vars == <<deliveries, paused, registered, worker, accepted, world, history, alerted>>

-----------------------------------------------------------------------------
(* Rows.  Times are kept as whether they have come: `due` for              *)
(* next_attempt_at, `alertDue` for notification_next_attempt_at.           *)

Row == [status: {"absent", "pending", "sent", "failed"},
        conversation: Conversations \cup {"none"},
        claimed: BOOLEAN,
        due: BOOLEAN,
        attempts: Nat,
        unknown: BOOLEAN,
        resolution: {"none", "confirmed_received", "confirmed_not_received"},
        notified: BOOLEAN,
        alertDue: BOOLEAN]

NoRow == [status |-> "absent", conversation |-> "none", claimed |-> FALSE,
          due |-> TRUE, attempts |-> 0, unknown |-> FALSE,
          resolution |-> "none", notified |-> FALSE, alertDue |-> TRUE]

IsTelegram(d) == deliveries[d].conversation \in TelegramConversations

Pending(r) == r.status = "pending"
Failed(r) == r.status = "failed"

\* slip: the attempt stays claimed.
MarkDeliveryRetryClaimed(r) ==
  IF ~Pending(r) THEN r ELSE [r EXCEPT !.attempts = @ + 1, !.due = FALSE]

MarkDeliveryRetry(r) ==
  IF ~Pending(r) THEN r
  ELSE [r EXCEPT !.attempts = @ + 1, !.due = FALSE, !.claimed = FALSE]

MarkDeliveryFailed(r) ==
  IF ~Pending(r) THEN r
  ELSE [r EXCEPT !.status = "failed", !.attempts = @ + 1, !.claimed = FALSE,
                 !.notified = FALSE, !.alertDue = TRUE]

\* slip: an uncertain attempt is filed as an ordinary failure.
MarkDeliveryOutcomeCertain(r) == MarkDeliveryFailed(r)

MarkDeliveryOutcomeUnknown(r) ==
  IF ~Pending(r) THEN r
  ELSE [r EXCEPT !.status = "failed", !.attempts = @ + 1, !.claimed = FALSE,
                 !.unknown = TRUE, !.notified = FALSE, !.alertDue = TRUE]

\* slip: a status the table's CHECK does not know.
CompleteDeliveryMisspelt(r) ==
  [r EXCEPT !.status = "delivered", !.attempts = @ + 1, !.claimed = FALSE]

CompleteDelivery(r) ==
  [r EXCEPT !.status = "sent", !.attempts = @ + 1, !.claimed = FALSE]

\* slip: the row may have been requeued while the report was awaited.
MarkAnyDeliveryNotified(r) == [r EXCEPT !.notified = TRUE, !.alertDue = TRUE]

MarkDeliveryFailureNotified(r) ==
  IF Failed(r) /\ ~r.notified
  THEN [r EXCEPT !.notified = TRUE, !.alertDue = TRUE] ELSE r

MarkDeliveryFailureNotificationRetry(r) ==
  IF Failed(r) /\ ~r.notified THEN [r EXCEPT !.alertDue = FALSE] ELSE r

\* slip: an interrupted attempt is simply tried again.
RecoverByRetrying(r) ==
  IF Pending(r) THEN [r EXCEPT !.claimed = FALSE] ELSE r

\* slip: an interrupted attempt is left as it is.
RecoverNothing(r) == r

RecoverInterrupted(r) ==
  IF Pending(r) /\ r.claimed
  THEN [r EXCEPT !.status = "failed", !.attempts = @ + 1, !.unknown = TRUE,
                 !.claimed = FALSE]
  ELSE r

\* slip: counts the attempts before this one.
RecordFailureOffByOne(d, unknown) ==
  LET r == deliveries[d] IN
  CASE unknown -> MarkDeliveryOutcomeUnknown(r)
    [] ~unknown /\ listed[d] >= MaxAttempts -> MarkDeliveryFailed(r)
    [] OTHER -> MarkDeliveryRetry(r)

\* The failure policy counts from the row as it was listed, not as it is now.
RecordFailure(d, unknown) ==
  LET r == deliveries[d] IN
  CASE unknown -> MarkDeliveryOutcomeUnknown(r)
    [] ~unknown /\ listed[d] + 1 >= MaxAttempts -> MarkDeliveryFailed(r)
    [] OTHER -> MarkDeliveryRetry(r)

\* The first n ids of S, as ORDER BY created_at, rowid LIMIT n returns them.
FirstOf(S, n) == {d \in S : Cardinality({e \in S : e < d}) < n}

IsFirst(d, S) == d \in S /\ \A e \in S : d <= e

\* findPendingDeliveries: due rows, each the oldest pending of its conversation.
Earlier(e, d) ==
  e < d /\ deliveries[e].conversation = deliveries[d].conversation

\* slip: every due row, whatever waits before it.
FindDueDeliveries ==
  FirstOf({d \in Deliveries : /\ Pending(deliveries[d])
                              /\ ~deliveries[d].claimed
                              /\ deliveries[d].due},
          BatchLimit)

FindPendingDeliveries ==
  FirstOf({d \in Deliveries :
             /\ Pending(deliveries[d]) /\ ~deliveries[d].claimed
             /\ deliveries[d].due
             /\ \A e \in Deliveries :
                  Earlier(e, d) => ~Pending(deliveries[e])},
          BatchLimit)

\* slip: only ordinary failures are reported.
FindUnnotifiedOrdinaryFailures(rows) ==
  FirstOf({d \in Deliveries : /\ Failed(rows[d]) /\ ~rows[d].unknown
                              /\ ~rows[d].notified /\ rows[d].alertDue},
          AlertLimit)

FindUnnotifiedFailedDeliveries(rows) ==
  FirstOf({d \in Deliveries : /\ Failed(rows[d]) /\ ~rows[d].notified
                              /\ rows[d].alertDue},
          AlertLimit)

-----------------------------------------------------------------------------
Init ==
  /\ deliveries = [d \in Deliveries |-> NoRow]
  /\ paused = FALSE
  /\ registered = {}
  /\ pc = "idle" /\ batch = {} /\ current = 0 /\ alerts = {}
  /\ listed = [d \in Deliveries |-> 0]
  /\ accepted = FALSE
  /\ orphans = [d \in Deliveries |-> 0]
  /\ received = [d \in Deliveries |-> 0]
  /\ denied = [d \in Deliveries |-> 0]
  /\ requeues = [d \in Deliveries |-> 0]
  /\ alerted = [d \in Deliveries |-> FALSE]

-----------------------------------------------------------------------------
(* Callers of the queue, the clock and service control.                    *)

\* A reply or an acknowledgement is queued; rowid order is insertion order.
EnqueueDelivery(c) ==
  /\ \E d \in Deliveries :
       /\ IsFirst(d, {e \in Deliveries : deliveries[e].status = "absent"})
       /\ deliveries' = [deliveries EXCEPT
                           ![d] = [NoRow EXCEPT !.status = "pending",
                                                !.conversation = c]]
  /\ UNCHANGED <<paused, registered, worker, accepted, world, history, alerted>>

RetryTimeComes(d) ==
  /\ Pending(deliveries[d]) /\ ~deliveries[d].due
  /\ deliveries' = [deliveries EXCEPT ![d].due = TRUE]
  /\ UNCHANGED <<paused, registered, worker, accepted, world, history, alerted>>

AlertTimeComes(d) ==
  /\ Failed(deliveries[d]) /\ ~deliveries[d].alertDue
  /\ deliveries' = [deliveries EXCEPT ![d].alertDue = TRUE]
  /\ UNCHANGED <<paused, registered, worker, accepted, world, history, alerted>>

SetPaused ==
  /\ paused' = ~paused
  /\ UNCHANGED <<deliveries, registered, worker, accepted, world, history, alerted>>

\* A channel connects or disconnects while the service runs.
RegisterChannel(k) ==
  /\ registered' = registered \cup {k}
  /\ UNCHANGED <<deliveries, paused, worker, accepted, world, history, alerted>>

UnregisterChannel(k) ==
  /\ registered' = registered \ {k}
  /\ UNCHANGED <<deliveries, paused, worker, accepted, world, history, alerted>>

-----------------------------------------------------------------------------
(* The operator's remedies, over HTTP, at any await of the worker.         *)

Requeued(r) ==
  [r EXCEPT !.status = "pending", !.attempts = 0, !.due = TRUE,
            !.claimed = FALSE, !.notified = FALSE, !.alertDue = TRUE]

\* slip: one click also retries an uncertain delivery.
RetryAnyFailedDelivery(d) ==
  /\ Failed(deliveries[d])
  /\ requeues[d] < MaxRequeues
  /\ deliveries' = [deliveries EXCEPT ![d] = Requeued(@)]
  /\ requeues' = [requeues EXCEPT ![d] = @ + 1]
  /\ alerted' = [alerted EXCEPT ![d] = FALSE]
  /\ UNCHANGED <<paused, registered, worker, accepted, world, denied>>

RetryFailedDelivery(d) ==
  /\ Failed(deliveries[d]) /\ ~deliveries[d].unknown
  /\ requeues[d] < MaxRequeues
  /\ deliveries' = [deliveries EXCEPT ![d] = Requeued(@)]
  /\ requeues' = [requeues EXCEPT ![d] = @ + 1]
  /\ alerted' = [alerted EXCEPT ![d] = FALSE]
  /\ UNCHANGED <<paused, registered, worker, accepted, world, denied>>

ConfirmUnknownDeliveryNotReceived(d) ==
  /\ Failed(deliveries[d]) /\ deliveries[d].unknown
  /\ requeues[d] < MaxRequeues
  /\ deliveries' = [deliveries EXCEPT
                      ![d] = [Requeued(@) EXCEPT
                                !.unknown = FALSE,
                                !.resolution = "confirmed_not_received"]]
  /\ requeues' = [requeues EXCEPT ![d] = @ + 1]
  /\ denied' = [denied EXCEPT ![d] = @ + 1]
  /\ alerted' = [alerted EXCEPT ![d] = FALSE]
  /\ UNCHANGED <<paused, registered, worker, accepted, world>>

\* slip: the operator's word is not recorded.
ConfirmReceivedUnrecorded(d) ==
  /\ Failed(deliveries[d]) /\ deliveries[d].unknown
  /\ deliveries' = [deliveries EXCEPT
                      ![d] = [@ EXCEPT !.status = "sent", !.unknown = FALSE]]
  /\ alerted' = [alerted EXCEPT ![d] = FALSE]
  /\ UNCHANGED <<paused, registered, worker, accepted, world, history>>

ConfirmUnknownDeliveryReceived(d) ==
  /\ Failed(deliveries[d]) /\ deliveries[d].unknown
  /\ deliveries' = [deliveries EXCEPT
                      ![d] = [@ EXCEPT !.status = "sent", !.unknown = FALSE,
                                       !.claimed = FALSE,
                                       !.resolution = "confirmed_received"]]
  /\ alerted' = [alerted EXCEPT ![d] = FALSE]
  /\ UNCHANGED <<paused, registered, worker, accepted, world, history>>

-----------------------------------------------------------------------------
(* The worker's loop, from one await to the next.  `rows` is the table as  *)
(* the step has left it so far.                                            *)

Sendable(rows, rest) ==
  IF paused THEN {}
  ELSE {d \in rest : /\ Channel(rows[d].conversation) \in registered
                     /\ Pending(rows[d]) /\ ~rows[d].claimed}

\* Skip what cannot be claimed, claim the next row and call channel.send.
ClaimNext(rows, rest) ==
  \E d \in Sendable(rows, rest) :
    /\ IsFirst(d, Sendable(rows, rest))
    /\ deliveries' = [rows EXCEPT ![d].claimed = TRUE]
    /\ pc' = "sending" /\ current' = d
    /\ batch' = {e \in rest : e > d}
    /\ UNCHANGED alerts

\* The list is used up, or delivery was paused: report failures, then sleep.
FinishBatch(rows, rest) ==
  /\ Sendable(rows, rest) = {}
  /\ deliveries' = rows
  /\ batch' = {} /\ current' = 0
  /\ alerts' = FindUnnotifiedFailedDeliveries(rows)
  /\ pc' = IF alerts' = {} THEN "idle" ELSE "alerting"

\* An exception leaves run(); the runtime logs it and starts no other worker.
StopUnexpectedly(rows) ==
  /\ StorageMayFail
  /\ deliveries' = rows
  /\ pc' = "dead" /\ batch' = {} /\ current' = 0 /\ alerts' = {}

Continue(rows, rest) ==
  ClaimNext(rows, rest) \/ FinishBatch(rows, rest) \/ StopUnexpectedly(rows)

StartCycle ==
  /\ pc = "idle"
  /\ LET list == IF paused THEN {} ELSE FindPendingDeliveries IN
       /\ listed' = [d \in Deliveries |->
                       IF d \in list THEN deliveries[d].attempts ELSE 0]
       /\ Continue(deliveries, list)
  /\ accepted' = FALSE
  /\ UNCHANGED <<paused, registered, world, history, alerted>>

-----------------------------------------------------------------------------
(* The channel.  Telegram shows every accepted request to the client; VK   *)
(* drops a request whose random_id, derived from the idempotency key, it   *)
(* has seen.                                                               *)

Show(d) ==
  received' = [received EXCEPT ![d] = IF IsTelegram(d) THEN @ + 1 ELSE 1]

ChannelAccepts ==
  /\ pc = "sending" /\ ~accepted
  /\ accepted' = TRUE
  /\ Show(current)
  /\ UNCHANGED <<deliveries, paused, registered, worker, orphans, history, alerted>>

\* A request nobody waits for any more arrives after all.
LateAcceptance(d) ==
  /\ orphans[d] > 0
  /\ orphans' = [orphans EXCEPT ![d] = @ - 1]
  /\ Show(d)
  /\ UNCHANGED <<deliveries, paused, registered, worker, accepted, history, alerted>>

\* The request being awaited is given up without knowing its fate.  VK's
\* repeated requests carry one random_id and count as one.
Abandon ==
  orphans' = IF accepted THEN orphans
             ELSE [orphans EXCEPT ![current] =
                     IF IsTelegram(current) THEN @ + 1 ELSE 1]

\* The outcome of the attempt is written, and the loop goes on.  Writing it
\* may throw, before the row changes or (in recordUsageEvent) after it.
Settle(row) ==
  /\ \/ Continue([deliveries EXCEPT ![current] = row], batch)
     \/ StopUnexpectedly(deliveries)
  /\ accepted' = FALSE
  /\ UNCHANGED <<paused, registered, listed, received, history, alerted>>

SendSucceeds ==
  /\ pc = "sending" /\ accepted
  /\ Continue([deliveries EXCEPT ![current] = CompleteDelivery(@)], batch)
  /\ accepted' = FALSE
  /\ UNCHANGED <<paused, registered, listed, world, history, alerted>>

\* The channel refused the request: an ordinary failure.
SendRejected ==
  /\ pc = "sending" /\ ~accepted
  /\ Settle(RecordFailure(current, FALSE))
  /\ UNCHANGED orphans

\* No usable answer: Telegram's outcome is unknown, VK's request may be
\* repeated under the same random_id.
SendUnanswered ==
  /\ pc = "sending"
  /\ Settle(RecordFailure(current, IsTelegram(current)))
  /\ Abandon

\* The channel accepted but completeDelivery threw and was rolled back.
CompletionFails ==
  /\ StorageMayFail
  /\ pc = "sending" /\ accepted
  /\ Settle(RecordFailure(current, IsTelegram(current)))
  /\ UNCHANGED orphans

-----------------------------------------------------------------------------
(* Reporting failures to the operators.                                    *)

NextAlert(a) ==
  /\ alerts' = alerts \ {a}
  /\ pc' = IF alerts' = {} THEN "idle" ELSE "alerting"
  /\ UNCHANGED <<batch, current>>

AlertSucceeds ==
  /\ pc = "alerting"
  /\ \E a \in Deliveries :
       /\ IsFirst(a, alerts)
       /\ alerted' = [alerted EXCEPT ![a] = Failed(deliveries[a])]
       /\ \/ /\ deliveries' = [deliveries EXCEPT ![a] = MarkDeliveryFailureNotified(@)]
             /\ NextAlert(a)
          \/ /\ StorageMayFail      \* marking threw: report it again later
             /\ deliveries' = [deliveries EXCEPT
                                 ![a] = MarkDeliveryFailureNotificationRetry(@)]
             /\ NextAlert(a)
          \/ StopUnexpectedly(deliveries)
  /\ UNCHANGED <<paused, registered, listed, accepted, world, history>>

AlertFails ==
  /\ pc = "alerting"
  /\ \E a \in Deliveries :
       /\ IsFirst(a, alerts)
       /\ \/ /\ deliveries' = [deliveries EXCEPT
                                 ![a] = MarkDeliveryFailureNotificationRetry(@)]
             /\ NextAlert(a)
          \/ StopUnexpectedly(deliveries)
  /\ UNCHANGED <<paused, registered, listed, accepted, world, history, alerted>>

-----------------------------------------------------------------------------
\* The process stops anywhere and starts again: the repository's constructor
\* recovers the table, the channels that can be connected register anew.
CrashAndRestart ==
  /\ deliveries' = [d \in Deliveries |-> RecoverInterrupted(deliveries[d])]
  /\ registered' \in SUBSET Channels
  /\ pc' = "idle" /\ batch' = {} /\ current' = 0 /\ alerts' = {}
  /\ listed' = [d \in Deliveries |-> 0]
  /\ accepted' = FALSE
  /\ IF pc = "sending" THEN Abandon ELSE UNCHANGED orphans
  /\ UNCHANGED <<paused, received, history, alerted>>

Operator(d) ==
  \/ RetryFailedDelivery(d)
  \/ ConfirmUnknownDeliveryNotReceived(d)
  \/ ConfirmUnknownDeliveryReceived(d)

Answer == SendSucceeds \/ SendRejected \/ SendUnanswered \/ CompletionFails

Next ==
  \/ \E c \in Conversations : EnqueueDelivery(c)
  \/ \E d \in Deliveries : RetryTimeComes(d) \/ AlertTimeComes(d)
  \/ \E d \in Deliveries : Operator(d)
  \/ \E d \in Deliveries : LateAcceptance(d)
  \/ \E k \in Channels : RegisterChannel(k) \/ UnregisterChannel(k)
  \/ SetPaused
  \/ StartCycle \/ ChannelAccepts \/ Answer
  \/ AlertSucceeds \/ AlertFails
  \/ CrashAndRestart

Spec == Init /\ [][Next]_vars

\* The worker's loop never stops by itself, every send ends (fetch gives up on
\* a silent server), clocks advance, and a failure that is reported again and
\* again is reported in the end.  Nothing is assumed of operators or of Telegram
\* and VK accepting anything.
Fairness ==
  /\ WF_vars(StartCycle)
  /\ WF_vars(Answer)
  /\ WF_vars(AlertSucceeds \/ AlertFails)
  /\ \A d \in Deliveries :
       /\ WF_vars(RetryTimeComes(d))
       /\ WF_vars(AlertTimeComes(d))
       /\ SF_vars(AlertSucceeds /\ IsFirst(d, alerts))

FairSpec == Spec /\ Fairness

-----------------------------------------------------------------------------
\* Every variable keeps its type, the rows those of the table's columns.
TypeOK ==
  /\ deliveries \in [Deliveries -> Row]
  /\ paused \in BOOLEAN
  /\ registered \subseteq Channels
  /\ pc \in {"idle", "sending", "alerting", "dead"}
  /\ batch \subseteq Deliveries
  /\ listed \in [Deliveries -> Nat]
  /\ current \in Deliveries \cup {0}
  /\ alerts \subseteq Deliveries
  /\ accepted \in BOOLEAN
  /\ orphans \in [Deliveries -> Nat]
  /\ received \in [Deliveries -> Nat]
  /\ denied \in [Deliveries -> Nat]
  /\ requeues \in [Deliveries -> Nat]
  /\ alerted \in [Deliveries -> BOOLEAN]

\* A client sees a reply once, and once more only for each time an operator
\* declared an uncertain attempt "not received": retries, restarts, lost
\* answers and late arrivals never duplicate a reply by themselves.
AtMostOnce == \A d \in Deliveries : received[d] <= 1 + denied[d]

\* A Telegram reply that is queued or may be retried with one click has not
\* reached the client in any attempt the operators have not vouched for: the
\* failures listed as ordinary are really failures.
SafeToRetry ==
  \A d \in Deliveries :
    /\ IsTelegram(d)
    /\ \/ Pending(deliveries[d]) /\ ~deliveries[d].claimed
       \/ Failed(deliveries[d]) /\ ~deliveries[d].unknown
    => received[d] <= denied[d]

\* A reply marked sent is on the client's side, unless an operator said so.
SentMeansReceived ==
  \A d \in Deliveries :
    deliveries[d].status = "sent" =>
      received[d] > 0 \/ deliveries[d].resolution = "confirmed_received"

\* A client sees no reply while an earlier one of the same conversation still
\* waits in the queue, unless an operator put the earlier one back there.
NoOvertaking ==
  \A d, e \in Deliveries :
    Earlier(e, d) /\ received[d] > 0 /\ Pending(deliveries[e]) => requeues[e] > 0

\* A started attempt is the one the worker is awaiting; only a worker that
\* stopped unexpectedly leaves one behind (it is recovered at the next start).
AttemptIsAwaited ==
  \A d \in Deliveries :
    deliveries[d].claimed =>
      \/ pc = "sending" /\ d = current
      \/ pc = "dead"

\* Attempts are bounded although the policy counts from the listed row: a row
\* that may be tried again has attempts left.
RetriesAreBounded ==
  \A d \in Deliveries :
    /\ deliveries[d].attempts <= MaxAttempts
    /\ Pending(deliveries[d]) => deliveries[d].attempts < MaxAttempts

\* A failure that is no longer going to be reported has been reported since
\* the reply last failed, whatever was retried while the report was awaited.
NotifiedMeansReported ==
  \A d \in Deliveries :
    Failed(deliveries[d]) /\ deliveries[d].notified => alerted[d]

\* A queued reply is eventually sent or reported as failed once delivery stays
\* unpaused and its channel connected: no reply is blocked for ever.
EventuallySettled ==
  \A d \in Deliveries :
    <>[](~paused /\ registered = Channels)
      => (Pending(deliveries[d]) ~> ~Pending(deliveries[d]))

\* A failed reply is eventually reported to the operators or taken up by one.
EventuallyReported ==
  \A d \in Deliveries :
    Failed(deliveries[d]) ~> (deliveries[d].notified \/ ~Failed(deliveries[d]))

-----------------------------------------------------------------------------
(* The queue implements the contract.                                      *)

Phase(r) ==
  CASE r.status = "absent" -> "unborn"
    [] r.status = "pending" -> "queued"
    [] r.status = "sent" -> "delivered"
    [] r.status = "failed" -> IF r.unknown THEN "unsure" ELSE "failed"

Contract == INSTANCE DeliveryContract
              WITH phase <- [d \in Deliveries |-> Phase(deliveries[d])],
                   copies <- received,
                   waivers <- denied

\* Every step of the worker, the channels, the operators and a crash is one the
\* contract allows, or changes nothing the contract speaks of.
ImplementsContract == Contract!Spec
=============================================================================
