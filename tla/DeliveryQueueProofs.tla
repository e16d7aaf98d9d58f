------------------------ MODULE DeliveryQueueProofs ------------------------
(***************************************************************************)
(* Proofs about DeliveryQueue, for any conversations, any number of        *)
(* replies and any limits.                                                 *)
(*                                                                         *)
(* AtMostOnce alone is not inductive: a copy the client has, a request     *)
(* abandoned on the wire and the request being awaited all count, and the  *)
(* row must admit what they amount to.  IInv states that balance.          *)
(*                                                                         *)
(* Order, retries and reports need more: QueueInv adds that the list the   *)
(* worker read still describes its rows.  On that invariant every step is  *)
(* of one of a few kinds (Rested, Moved, Accepted), and the kinds are what *)
(* the contract's steps are matched with.                                  *)
(***************************************************************************)
EXTENDS DeliveryQueue, TLAPS

-----------------------------------------------------------------------------
\* The row admits that the client may have one copy more than was waived.
Admits(d) ==
  \/ deliveries[d].claimed
  \/ deliveries[d].unknown
  \/ deliveries[d].status = "sent"

\* The awaited request, while the channel has not accepted it.
InFlight(d) == pc = "sending" /\ current = d /\ ~accepted

Exposure(d) == received[d] + orphans[d] + (IF InFlight(d) THEN 1 ELSE 0)

ExposureAdmitted ==
  \A d \in Deliveries :
    IsTelegram(d) => Exposure(d) <= denied[d] + (IF Admits(d) THEN 1 ELSE 0)

VkShowsOnce == \A d \in Deliveries : ~IsTelegram(d) => received[d] <= 1

RowsConsistent ==
  \A d \in Deliveries :
    /\ deliveries[d].claimed => Pending(deliveries[d])
    /\ deliveries[d].unknown => Failed(deliveries[d])
    /\ deliveries[d].status = "absent" =>
         /\ received[d] = 0 /\ orphans[d] = 0 /\ denied[d] = 0
         /\ ~IsTelegram(d)

WorkerConsistent ==
  /\ pc = "sending" => current \in Deliveries /\ deliveries[current].claimed
  /\ accepted => pc = "sending" /\ received[current] > 0

IInv ==
  /\ TypeOK
  /\ AttemptIsAwaited
  /\ RowsConsistent
  /\ WorkerConsistent
  /\ ExposureAdmitted
  /\ VkShowsOnce
  /\ SentMeansReceived

\* 0 stands for no delivery.
LEMMA NoDeliveryIsZero == 0 \notin Deliveries
BY BoundsAssumption DEF Deliveries

-----------------------------------------------------------------------------
(* What one pass of the worker's loop may do to the table.                 *)

\* A row keeps its type under each statement of the repository.
LEMMA RowsStayTyped ==
  ASSUME NEW r \in Row
  PROVE  /\ MarkDeliveryRetry(r) \in Row
         /\ MarkDeliveryFailed(r) \in Row
         /\ MarkDeliveryOutcomeUnknown(r) \in Row
         /\ CompleteDelivery(r) \in Row
         /\ MarkDeliveryFailureNotified(r) \in Row
         /\ MarkDeliveryFailureNotificationRetry(r) \in Row
         /\ RecoverInterrupted(r) \in Row
         /\ Requeued(r) \in Row
         /\ [r EXCEPT !.claimed = TRUE] \in Row
<1>0. r.attempts + 1 \in Nat
  BY DEF Row
<1>1. MarkDeliveryRetry(r) \in Row
  BY <1>0 DEF Row, MarkDeliveryRetry
<1>2. MarkDeliveryFailed(r) \in Row
  BY <1>0 DEF Row, MarkDeliveryFailed
<1>3. MarkDeliveryOutcomeUnknown(r) \in Row
  BY <1>0 DEF Row, MarkDeliveryOutcomeUnknown
<1>4. CompleteDelivery(r) \in Row
  BY <1>0 DEF Row, CompleteDelivery
<1>5. MarkDeliveryFailureNotified(r) \in Row
  BY DEF Row, MarkDeliveryFailureNotified
<1>6. MarkDeliveryFailureNotificationRetry(r) \in Row
  BY DEF Row, MarkDeliveryFailureNotificationRetry
<1>7. RecoverInterrupted(r) \in Row
  BY <1>0 DEF Row, RecoverInterrupted
<1>8. Requeued(r) \in Row
  BY DEF Row, Requeued
<1>9. [r EXCEPT !.claimed = TRUE] \in Row
  BY DEF Row
<1> QED
  BY <1>1, <1>2, <1>3, <1>4, <1>5, <1>6, <1>7, <1>8, <1>9

\* From one await to the next the worker claims at most one row, the one it
\* then sends, and leaves the others as it found them.
LEMMA LoopStep ==
  ASSUME NEW rows \in [Deliveries -> Row], NEW rest \in SUBSET Deliveries,
         Continue(rows, rest)
  PROVE  /\ batch' \subseteq Deliveries
         /\ \/ \E d \in Deliveries :
                 /\ Pending(rows[d]) /\ ~rows[d].claimed
                 /\ deliveries' = [rows EXCEPT ![d].claimed = TRUE]
                 /\ pc' = "sending" /\ current' = d /\ alerts' = alerts
            \/ /\ deliveries' = rows /\ current' = 0
               /\ pc' \in {"idle", "alerting", "dead"}
               /\ alerts' \subseteq Deliveries
<1>1. CASE ClaimNext(rows, rest)
  BY <1>1 DEF ClaimNext, Sendable
<1>2. CASE FinishBatch(rows, rest)
  BY <1>2 DEF FinishBatch, FindUnnotifiedFailedDeliveries, FirstOf
<1>3. CASE StopUnexpectedly(rows)
  BY <1>3 DEF StopUnexpectedly
<1> QED
  BY <1>1, <1>2, <1>3 DEF Continue

-----------------------------------------------------------------------------
(* The worker never works on the table while a row is claimed: between the *)
(* end of one attempt and the start of the next the table is quiet.        *)

Quiet(rows, wire) ==
  /\ rows \in [Deliveries -> Row]
  /\ wire \in [Deliveries -> Nat]
  /\ \A d \in Deliveries :
       /\ ~rows[d].claimed
       /\ rows[d].unknown => Failed(rows[d])
       /\ rows[d].status = "absent" =>
            /\ received[d] = 0 /\ wire[d] = 0 /\ denied[d] = 0
            /\ rows[d].conversation \notin TelegramConversations
       /\ rows[d].conversation \in TelegramConversations =>
            received[d] + wire[d] <=
              denied[d] + (IF rows[d].unknown \/ rows[d].status = "sent"
                           THEN 1 ELSE 0)
       /\ rows[d].conversation \notin TelegramConversations => received[d] <= 1
       /\ rows[d].status = "sent" =>
            received[d] > 0 \/ rows[d].resolution = "confirmed_received"

\* Going on from a quiet table leads to a state of the invariant.
LEMMA LoopKeepsInvariant ==
  ASSUME TypeOK,
         NEW rows, NEW rest \in SUBSET Deliveries,
         Quiet(rows, orphans'),
         Continue(rows, rest),
         listed' \in [Deliveries -> Nat], accepted' = FALSE,
         UNCHANGED <<paused, registered, received, history, alerted>>
  PROVE  IInv'
<1> rows \in [Deliveries -> Row]
  BY DEF Quiet
<1>0. /\ received' = received /\ denied' = denied /\ requeues' = requeues
      /\ paused' = paused /\ registered' = registered /\ alerted' = alerted
  BY DEF history
<1>1. CASE \E d \in Deliveries :
             /\ Pending(rows[d]) /\ ~rows[d].claimed
             /\ deliveries' = [rows EXCEPT ![d].claimed = TRUE]
             /\ pc' = "sending" /\ current' = d /\ alerts' = alerts
  <2> PICK d \in Deliveries :
             /\ Pending(rows[d]) /\ ~rows[d].claimed
             /\ deliveries' = [rows EXCEPT ![d].claimed = TRUE]
             /\ pc' = "sending" /\ current' = d /\ alerts' = alerts
    BY <1>1
  <2>1. deliveries' \in [Deliveries -> Row]
    BY RowsStayTyped
  <2>2. TypeOK'
    BY <1>0, <2>1, LoopStep DEF TypeOK, Quiet
  <2>3. /\ deliveries'[d].claimed /\ Pending(deliveries'[d])
        /\ ~deliveries'[d].unknown
        /\ deliveries'[d].conversation = rows[d].conversation
        /\ \A e \in Deliveries : e # d => deliveries'[e] = rows[e]
    BY DEF Row, Pending, Quiet, Failed
  <2>4. AttemptIsAwaited' /\ WorkerConsistent'
    BY <2>3 DEF AttemptIsAwaited, WorkerConsistent, Quiet
  <2>5. RowsConsistent'
    BY <1>0, <2>3 DEF RowsConsistent, Quiet, IsTelegram, Pending, Failed
  <2>6. ExposureAdmitted'
    <3> SUFFICES ASSUME NEW e \in Deliveries, IsTelegram(e)'
                 PROVE  Exposure(e)' <= denied'[e] + (IF Admits(e)' THEN 1 ELSE 0)
      BY DEF ExposureAdmitted
    <3>1. CASE e = d
      <4>1. received[d] + orphans'[d] <= denied[d]
        <5>1. /\ Pending(rows[d]) /\ ~rows[d].unknown
              /\ rows[d].conversation \in TelegramConversations
          BY <2>3, <3>1 DEF IsTelegram, Quiet, Pending, Failed
        <5>2. orphans' \in [Deliveries -> Nat] /\ denied[d] \in Nat
          BY DEF Quiet, TypeOK
        <5> QED
          BY <5>1, <5>2 DEF Quiet, Pending
      <4>2. Exposure(d)' = received[d] + orphans'[d] + 1 /\ Admits(d)'
        BY <1>0, <2>3 DEF Exposure, InFlight, Admits
      <4> QED
        BY <1>0, <3>1, <4>1, <4>2 DEF TypeOK, Quiet
    <3>2. CASE e # d
      BY <1>0, <2>3, <3>2 DEF Exposure, InFlight, Admits, Quiet, IsTelegram, TypeOK
    <3> QED
      BY <3>1, <3>2
  <2>7. VkShowsOnce' /\ SentMeansReceived'
    BY <1>0, <2>3 DEF VkShowsOnce, SentMeansReceived, Quiet, IsTelegram, Pending
  <2> QED
    BY <2>2, <2>4, <2>5, <2>6, <2>7 DEF IInv
<1>2. CASE /\ deliveries' = rows /\ current' = 0
           /\ pc' \in {"idle", "alerting", "dead"}
           /\ alerts' \subseteq Deliveries
  <2>1. TypeOK'
    BY <1>0, <1>2, LoopStep DEF TypeOK, Quiet
  <2>2. AttemptIsAwaited' /\ WorkerConsistent' /\ RowsConsistent'
    BY <1>0, <1>2
    DEF AttemptIsAwaited, WorkerConsistent, RowsConsistent, Quiet, IsTelegram, Failed
  <2>3. ExposureAdmitted'
    BY <1>0, <1>2 DEF ExposureAdmitted, Exposure, InFlight, Admits, Quiet, IsTelegram, TypeOK
  <2>4. VkShowsOnce' /\ SentMeansReceived'
    BY <1>0, <1>2 DEF VkShowsOnce, SentMeansReceived, Quiet, IsTelegram
  <2> QED
    BY <2>1, <2>2, <2>3, <2>4 DEF IInv
<1> QED
  BY <1>1, <1>2, LoopStep

\* An attempt's outcome makes the table quiet again when the row admits what
\* is left of the attempt.
LEMMA OutcomeIsQuiet ==
  ASSUME IInv, pc = "sending",
         NEW row \in Row, NEW wire \in [Deliveries -> Nat],
         row.conversation = deliveries[current].conversation,
         row.status # "absent", ~row.claimed,
         row.unknown => Failed(row),
         row.status = "sent" => accepted,
         \A e \in Deliveries : e # current => wire[e] = orphans[e],
         IsTelegram(current) =>
           received[current] + wire[current] <=
             denied[current] + (IF row.unknown \/ row.status = "sent" THEN 1 ELSE 0)
  PROVE  Quiet([deliveries EXCEPT ![current] = row], wire)
<1> DEFINE rows == [deliveries EXCEPT ![current] = row]
<1>1. current \in Deliveries /\ deliveries \in [Deliveries -> Row]
  BY DEF IInv, WorkerConsistent, TypeOK
<1>2. rows \in [Deliveries -> Row]
  BY <1>1
<1>3. ASSUME NEW d \in Deliveries, d # current
      PROVE  /\ ~rows[d].claimed
             /\ rows[d].unknown => Failed(rows[d])
             /\ rows[d].status = "absent" =>
                  /\ received[d] = 0 /\ wire[d] = 0 /\ denied[d] = 0
                  /\ rows[d].conversation \notin TelegramConversations
             /\ rows[d].conversation \in TelegramConversations =>
                  received[d] + wire[d] <=
                    denied[d] + (IF rows[d].unknown \/ rows[d].status = "sent"
                                 THEN 1 ELSE 0)
             /\ rows[d].conversation \notin TelegramConversations => received[d] <= 1
             /\ rows[d].status = "sent" =>
                  received[d] > 0 \/ rows[d].resolution = "confirmed_received"
  <2>1. rows[d] = deliveries[d] /\ wire[d] = orphans[d]
    BY <1>1, <1>3
  <2>2. ~deliveries[d].claimed
    BY <1>3 DEF IInv, AttemptIsAwaited
  <2>3. /\ received[d] \in Nat /\ orphans[d] \in Nat /\ denied[d] \in Nat
        /\ Exposure(d) = received[d] + orphans[d]
    BY <1>3 DEF IInv, TypeOK, Exposure, InFlight
  <2>4. IsTelegram(d) => Exposure(d) <= denied[d] + (IF Admits(d) THEN 1 ELSE 0)
    BY DEF IInv, ExposureAdmitted
  <2> QED
    BY <2>1, <2>2, <2>3, <2>4
    DEF IInv, RowsConsistent, VkShowsOnce, SentMeansReceived, Admits, IsTelegram
<1>4. /\ ~rows[current].claimed
      /\ rows[current].unknown => Failed(rows[current])
      /\ rows[current].status # "absent"
      /\ rows[current].conversation \in TelegramConversations =>
           received[current] + wire[current] <=
             denied[current] + (IF rows[current].unknown \/ rows[current].status = "sent"
                                THEN 1 ELSE 0)
      /\ rows[current].conversation \notin TelegramConversations => received[current] <= 1
      /\ rows[current].status = "sent" => received[current] > 0
  BY <1>1 DEF IInv, IsTelegram, VkShowsOnce, WorkerConsistent
<1> HIDE DEF rows
<1> QED
  BY <1>1, <1>2, <1>3, <1>4 DEF Quiet, rows

\* Before an attempt starts the table is quiet.
LEMMA IdleIsQuiet ==
  ASSUME IInv, pc = "idle"
  PROVE  Quiet(deliveries, orphans)
<1>1. \A d \in Deliveries :
        /\ ~deliveries[d].claimed
        /\ received[d] \in Nat /\ orphans[d] \in Nat /\ denied[d] \in Nat
        /\ Exposure(d) = received[d] + orphans[d]
  BY DEF IInv, AttemptIsAwaited, TypeOK, Exposure, InFlight
<1> QED
  BY <1>1 DEF Quiet, IInv, TypeOK, RowsConsistent, ExposureAdmitted, VkShowsOnce,
              SentMeansReceived, Admits, IsTelegram

-----------------------------------------------------------------------------
(* Steps outside the worker's loop.                                        *)

\* Changing one row that is not being sent, without losing what it admits.
RowChange(d, row) ==
  /\ deliveries' = [deliveries EXCEPT ![d] = row]
  /\ \/ row.conversation = deliveries[d].conversation
     \/ deliveries[d].status = "absent"
  /\ row.status # "absent"
  /\ row.claimed <=> deliveries[d].claimed
  /\ row.claimed => Pending(row)
  /\ row.unknown => Failed(row)
  /\ row.status = "sent" =>
       \/ row.resolution = "confirmed_received"
       \/ deliveries[d].status = "sent" /\ row.resolution = deliveries[d].resolution
  /\ \A e \in Deliveries : e # d => denied'[e] = denied[e]
  /\ denied[d] + (IF Admits(d) THEN 1 ELSE 0)
       <= denied'[d] + (IF Admits(d)' THEN 1 ELSE 0)
  /\ \/ UNCHANGED <<pc, current>>
     \/ pc \notin {"sending", "dead"} /\ pc' # "sending"
  /\ UNCHANGED <<accepted, orphans, received>>

\* Changing one row as the worker does keeps the invariant.
LEMMA RowChangeKeepsInvariant ==
  ASSUME IInv, TypeOK', NEW d \in Deliveries, NEW row \in Row, RowChange(d, row)
  PROVE  IInv'
<1> USE DEF RowChange
<1>1. /\ deliveries'[d] = row
      /\ \A e \in Deliveries : e # d => deliveries'[e] = deliveries[e]
  BY DEF IInv, TypeOK
<1>2. AttemptIsAwaited' /\ WorkerConsistent'
  BY <1>1 DEF IInv, AttemptIsAwaited, WorkerConsistent
<1>3. RowsConsistent'
  BY <1>1 DEF IInv, RowsConsistent, IsTelegram
<1>4. \A e \in Deliveries : Exposure(e)' = Exposure(e)
  BY DEF Exposure, InFlight, IInv, WorkerConsistent
<1>5. ExposureAdmitted'
  <2> SUFFICES ASSUME NEW e \in Deliveries, IsTelegram(e)'
               PROVE  Exposure(e)' <= denied'[e] + (IF Admits(e)' THEN 1 ELSE 0)
    BY DEF ExposureAdmitted
  <2>1. /\ received[e] \in Nat /\ orphans[e] \in Nat
        /\ denied[e] \in Nat /\ denied'[e] \in Nat /\ Exposure(e) \in Nat
    BY DEF IInv, TypeOK, Exposure
  <2>2. CASE e # d
    BY <1>1, <1>4, <2>1, <2>2 DEF IInv, ExposureAdmitted, Admits, IsTelegram
  <2>3. CASE e = d /\ IsTelegram(d)
    BY <1>4, <2>1, <2>3 DEF IInv, ExposureAdmitted
  <2>4. CASE e = d /\ ~IsTelegram(d)
    <3>1. deliveries[d].status = "absent"
      BY <1>1, <2>4 DEF IsTelegram
    <3>2. Exposure(d) = 0
      BY <3>1 DEF IInv, RowsConsistent, WorkerConsistent, Exposure, InFlight, Pending
    <3> QED
      BY <1>4, <2>1, <2>4, <3>2
  <2> QED
    BY <2>2, <2>3, <2>4
<1>6. VkShowsOnce'
  BY <1>1 DEF IInv, VkShowsOnce, RowsConsistent, IsTelegram
<1>7. SentMeansReceived'
  BY <1>1 DEF IInv, SentMeansReceived
<1> QED
  BY <1>2, <1>3, <1>5, <1>6, <1>7 DEF IInv

-----------------------------------------------------------------------------
(* The invariant is inductive.                                             *)

\* The empty queue satisfies the invariant.
LEMMA InitInvariant == Init => IInv
<1> SUFFICES ASSUME Init PROVE IInv
  OBVIOUS
<1>1. \A d \in Deliveries : /\ deliveries[d] = NoRow
                            /\ received[d] = 0 /\ orphans[d] = 0 /\ denied[d] = 0
  BY DEF Init
<1>2. "none" \notin TelegramConversations
  BY ConversationsAssumption DEF Conversations
<1>3. NoRow \in Row
  BY DEF NoRow, Row
<1>4. TypeOK
  BY <1>3 DEF Init, TypeOK, Channels
<1>5. AttemptIsAwaited /\ RowsConsistent /\ WorkerConsistent /\ SentMeansReceived
  BY <1>1, <1>2
  DEF Init, AttemptIsAwaited, RowsConsistent, WorkerConsistent, SentMeansReceived,
      NoRow, IsTelegram
<1>6. ExposureAdmitted /\ VkShowsOnce
  BY <1>1, <1>2 DEF Init, ExposureAdmitted, VkShowsOnce, NoRow, IsTelegram
<1> QED
  BY <1>4, <1>5, <1>6 DEF IInv

\* Inserting a delivery at the end keeps the invariant.
LEMMA EnqueueKeepsInvariant ==
  ASSUME IInv, NEW c \in Conversations, EnqueueDelivery(c)
  PROVE  IInv'
<1> DEFINE row == [NoRow EXCEPT !.status = "pending", !.conversation = c]
<1>1. PICK d \in Deliveries :
        /\ deliveries[d].status = "absent"
        /\ deliveries' = [deliveries EXCEPT ![d] = row]
  BY DEF EnqueueDelivery, IsFirst
<1>2. row \in Row /\ row.status = "pending" /\ ~row.claimed /\ ~row.unknown
  BY DEF NoRow, Row
<1>3. /\ ~deliveries[d].claimed /\ ~deliveries[d].unknown
      /\ denied' = denied /\ denied[d] \in Nat
  BY <1>1 DEF IInv, RowsConsistent, Pending, Failed, EnqueueDelivery, history, TypeOK
<1>4. TypeOK'
  BY <1>1, <1>2 DEF IInv, TypeOK, EnqueueDelivery, worker, world, history
<1>5. UNCHANGED <<pc, current, accepted, orphans, received>>
  BY DEF EnqueueDelivery, worker, world
<1>6. denied[d] + (IF Admits(d) THEN 1 ELSE 0)
        <= denied'[d] + (IF Admits(d)' THEN 1 ELSE 0)
  BY <1>1, <1>3 DEF Admits
<1> HIDE DEF row
<1> QED
  <2>1. RowChange(d, row)
    BY <1>1, <1>2, <1>3, <1>5, <1>6 DEF RowChange
  <2> QED
    BY <1>2, <1>4, <2>1, RowChangeKeepsInvariant

\* The clock: retry times and report times come.
LEMMA ClockKeepsInvariant ==
  ASSUME IInv, NEW d \in Deliveries, RetryTimeComes(d) \/ AlertTimeComes(d)
  PROVE  IInv'
<1>1. PICK row : /\ row \in {[deliveries[d] EXCEPT !.due = TRUE],
                             [deliveries[d] EXCEPT !.alertDue = TRUE]}
                 /\ deliveries' = [deliveries EXCEPT ![d] = row]
                 /\ Pending(deliveries[d]) \/ Failed(deliveries[d])
  BY DEF RetryTimeComes, AlertTimeComes
<1>2. deliveries[d] \in Row
  BY DEF IInv, TypeOK
<1>3. /\ row \in Row /\ row.status = deliveries[d].status
      /\ row.conversation = deliveries[d].conversation
      /\ row.claimed <=> deliveries[d].claimed
      /\ row.unknown = deliveries[d].unknown
      /\ row.resolution = deliveries[d].resolution
  BY <1>1, <1>2 DEF Row
<1>4. UNCHANGED <<paused, registered, worker, accepted, world, history, alerted>>
  BY DEF RetryTimeComes, AlertTimeComes
<1>5. TypeOK'
  BY <1>1, <1>3, <1>4 DEF IInv, TypeOK, worker, world, history
<1>6. deliveries'[d] = row
  BY <1>1 DEF IInv, TypeOK
<1>7. /\ row.claimed => Pending(row)
      /\ row.unknown => Failed(row)
      /\ row.status # "absent"
      /\ Admits(d)' = Admits(d)
  BY <1>1, <1>3, <1>6 DEF IInv, RowsConsistent, Pending, Failed, Admits
<1>8. UNCHANGED <<pc, current, accepted, orphans, received, denied>> /\ denied[d] \in Nat
  BY <1>4 DEF worker, world, history, IInv, TypeOK
<1> QED
  <2>1. RowChange(d, row)
    BY <1>1, <1>3, <1>7, <1>8 DEF RowChange, Pending, Failed
  <2> QED
    BY <1>3, <1>5, <2>1, RowChangeKeepsInvariant

\* The operator's remedies keep the balance: a requeued ordinary failure had
\* nothing to admit, and "not received" waives what an unknown one admitted.
LEMMA OperatorKeepsInvariant ==
  ASSUME IInv, NEW d \in Deliveries, Operator(d)
  PROVE  IInv'
<1>0. deliveries[d] \in Row /\ denied[d] \in Nat /\ requeues[d] \in Nat
  BY DEF IInv, TypeOK
<1>1. Requeued(deliveries[d]) \in Row
  BY <1>0, RowsStayTyped
<1>2. Failed(deliveries[d]) /\ ~deliveries[d].claimed
  BY DEF Operator, RetryFailedDelivery, ConfirmUnknownDeliveryNotReceived,
         ConfirmUnknownDeliveryReceived, IInv, RowsConsistent, Pending, Failed
<1>3. CASE RetryFailedDelivery(d)
  <2> DEFINE row == Requeued(deliveries[d])
  <2>1. /\ deliveries' = [deliveries EXCEPT ![d] = row] /\ denied' = denied
        /\ UNCHANGED <<pc, current, accepted, orphans, received>>
        /\ ~deliveries[d].unknown
    BY <1>3 DEF RetryFailedDelivery, worker, world
  <2>2. /\ row.status = "pending" /\ ~row.claimed /\ ~row.unknown
        /\ row.conversation = deliveries[d].conversation
    BY <1>0, <2>1 DEF Row, Requeued
  <2>3. TypeOK'
    BY <1>0, <1>1, <1>3 DEF IInv, TypeOK, RetryFailedDelivery, worker, world
  <2>4. ~Admits(d)
    BY <1>2, <2>1 DEF Admits, Failed
  <2>5. denied[d] + (IF Admits(d) THEN 1 ELSE 0)
          <= denied'[d] + (IF Admits(d)' THEN 1 ELSE 0)
    BY <1>0, <2>1, <2>4
  <2> HIDE DEF row
  <2> QED
    <3>1. row \in Row
      BY <1>1 DEF row
    <3>2. RowChange(d, row)
      BY <1>2, <2>1, <2>2, <2>5 DEF RowChange, Pending
    <3> QED
      BY <2>3, <3>1, <3>2, RowChangeKeepsInvariant
<1>4. CASE ConfirmUnknownDeliveryNotReceived(d)
  <2> DEFINE row == [Requeued(deliveries[d]) EXCEPT
                       !.unknown = FALSE, !.resolution = "confirmed_not_received"]
  <2>1. /\ deliveries' = [deliveries EXCEPT ![d] = row]
        /\ denied' = [denied EXCEPT ![d] = @ + 1]
        /\ UNCHANGED <<pc, current, accepted, orphans, received>>
    BY <1>4 DEF ConfirmUnknownDeliveryNotReceived, worker, world
  <2>2. /\ row \in Row /\ row.status = "pending" /\ ~row.claimed /\ ~row.unknown
        /\ row.conversation = deliveries[d].conversation
    BY <1>0 DEF Row, Requeued
  <2>3. TypeOK'
    BY <1>0, <1>4, <2>1, <2>2
    DEF IInv, TypeOK, ConfirmUnknownDeliveryNotReceived, worker, world
  <2>4. /\ denied'[d] = denied[d] + 1
        /\ \A e \in Deliveries : e # d => denied'[e] = denied[e]
    BY <2>1 DEF IInv, TypeOK
  <2>5. denied[d] + (IF Admits(d) THEN 1 ELSE 0)
          <= denied'[d] + (IF Admits(d)' THEN 1 ELSE 0)
    BY <1>0, <2>4
  <2> HIDE DEF row
  <2> QED
    <3>1. RowChange(d, row)
      BY <1>2, <2>1, <2>2, <2>4, <2>5 DEF RowChange, Pending
    <3> QED
      BY <2>2, <2>3, <3>1, RowChangeKeepsInvariant
<1>5. CASE ConfirmUnknownDeliveryReceived(d)
  <2> DEFINE row == [deliveries[d] EXCEPT !.status = "sent", !.unknown = FALSE,
                       !.claimed = FALSE, !.resolution = "confirmed_received"]
  <2>1. /\ deliveries' = [deliveries EXCEPT ![d] = row] /\ denied' = denied
        /\ UNCHANGED <<pc, current, accepted, orphans, received>>
    BY <1>5 DEF ConfirmUnknownDeliveryReceived, worker, world, history
  <2>2. /\ row \in Row /\ row.status = "sent" /\ ~row.claimed /\ ~row.unknown
        /\ row.resolution = "confirmed_received"
        /\ row.conversation = deliveries[d].conversation
    BY <1>0 DEF Row
  <2>3. TypeOK'
    BY <1>5, <2>1, <2>2
    DEF IInv, TypeOK, ConfirmUnknownDeliveryReceived, worker, world, history
  <2>4. deliveries'[d].status = "sent"
    BY <2>1, <2>2 DEF IInv, TypeOK
  <2>5. denied[d] + (IF Admits(d) THEN 1 ELSE 0)
          <= denied'[d] + (IF Admits(d)' THEN 1 ELSE 0)
    BY <1>0, <2>1, <2>4 DEF Admits
  <2> HIDE DEF row
  <2> QED
    <3>1. RowChange(d, row)
      BY <1>2, <2>1, <2>2, <2>5 DEF RowChange
    <3> QED
      BY <2>2, <2>3, <3>1, RowChangeKeepsInvariant
<1> QED
  BY <1>3, <1>4, <1>5 DEF Operator

\* The failure policy's row: never claimed, admitting an unknown outcome.
LEMMA FailureRow ==
  ASSUME IInv, pc = "sending", NEW unknown \in BOOLEAN
  PROVE  LET row == RecordFailure(current, unknown) IN
         /\ row \in Row /\ ~row.claimed
         /\ row.conversation = deliveries[current].conversation
         /\ row.status \in {"pending", "failed"}
         /\ row.unknown => Failed(row)
         /\ unknown => row.unknown
<1> DEFINE r == deliveries[current]
<1>1. r \in Row /\ Pending(r) /\ ~r.unknown
  BY DEF IInv, TypeOK, WorkerConsistent, RowsConsistent, Pending, Failed
<1>2. \/ unknown /\ RecordFailure(current, unknown) = MarkDeliveryOutcomeUnknown(r)
      \/ ~unknown /\ RecordFailure(current, unknown) = MarkDeliveryFailed(r)
      \/ ~unknown /\ RecordFailure(current, unknown) = MarkDeliveryRetry(r)
  BY DEF RecordFailure
<1> HIDE DEF r
<1>3. RecordFailure(current, unknown) \in Row
  BY <1>1, <1>2, RowsStayTyped
<1>4. CASE unknown /\ RecordFailure(current, unknown) = MarkDeliveryOutcomeUnknown(r)
  BY <1>1, <1>3, <1>4 DEF MarkDeliveryOutcomeUnknown, Row, Failed, r
<1>5. CASE ~unknown /\ RecordFailure(current, unknown) = MarkDeliveryFailed(r)
  BY <1>1, <1>3, <1>5 DEF MarkDeliveryFailed, Row, Failed, r
<1>6. CASE ~unknown /\ RecordFailure(current, unknown) = MarkDeliveryRetry(r)
  BY <1>1, <1>3, <1>6 DEF MarkDeliveryRetry, Row, Failed, Pending, r
<1> QED
  BY <1>2, <1>4, <1>5, <1>6

\* A worker that stops at the await leaves its claimed row, which admits all.
LEMMA DeathKeepsInvariant ==
  ASSUME IInv, pc = "sending",
         pc' = "dead", batch' = {}, current' = 0, alerts' = {},
         accepted' = FALSE, orphans' \in [Deliveries -> Nat],
         \A e \in Deliveries : e # current => orphans'[e] = orphans[e],
         orphans'[current] <= orphans[current] + (IF accepted THEN 0 ELSE 1),
         UNCHANGED <<deliveries, paused, registered, listed, received, history, alerted>>
  PROVE  IInv'
<1>1. TypeOK'
  BY DEF IInv, TypeOK, history
<1>2. /\ AttemptIsAwaited' /\ RowsConsistent' /\ WorkerConsistent' /\ VkShowsOnce'
      /\ SentMeansReceived'
  BY DEF IInv, AttemptIsAwaited, RowsConsistent, WorkerConsistent, VkShowsOnce,
         SentMeansReceived, IsTelegram, history, Pending
<1>3. ExposureAdmitted'
  <2> SUFFICES ASSUME NEW e \in Deliveries, IsTelegram(e)
               PROVE  Exposure(e)' <= denied[e] + (IF Admits(e) THEN 1 ELSE 0)
    BY DEF ExposureAdmitted, IsTelegram, history, Admits
  <2>1. /\ received[e] \in Nat /\ orphans[e] \in Nat /\ denied[e] \in Nat
        /\ orphans'[e] \in Nat /\ Exposure(e)' = received[e] + orphans'[e]
    BY DEF IInv, TypeOK, Exposure, InFlight
  <2>2. Exposure(e)' <= Exposure(e)
    BY <2>1 DEF Exposure, InFlight, IInv, TypeOK
  <2> QED
    BY <2>1, <2>2 DEF IInv, ExposureAdmitted, Exposure, InFlight
<1> QED
  BY <1>1, <1>2, <1>3 DEF IInv

\* Recording the API's answer keeps the invariant.
LEMMA AnswerKeepsInvariant ==
  ASSUME IInv, Answer
  PROVE  IInv'
<1>0. /\ pc = "sending" /\ current \in Deliveries /\ TypeOK /\ batch \in SUBSET Deliveries
      /\ Pending(deliveries[current]) /\ deliveries[current] \in Row
      /\ deliveries[current].claimed /\ ~deliveries[current].unknown
  BY DEF Answer, SendSucceeds, SendRejected, SendUnanswered, CompletionFails,
         IInv, WorkerConsistent, RowsConsistent, TypeOK, Pending, Failed
<1>1. /\ received[current] \in Nat /\ orphans[current] \in Nat /\ denied[current] \in Nat
      /\ IsTelegram(current) =>
           received[current] + orphans[current] + (IF accepted THEN 0 ELSE 1)
             <= denied[current] + 1
  BY <1>0 DEF IInv, TypeOK, ExposureAdmitted, Exposure, InFlight, Admits
<1>2. CASE SendSucceeds
  <2> DEFINE row == CompleteDelivery(deliveries[current])
  <2>1. /\ row \in Row /\ row.status = "sent" /\ ~row.claimed /\ ~row.unknown
        /\ row.conversation = deliveries[current].conversation
    <3>1. row \in Row
      BY <1>0, RowsStayTyped
    <3>2. /\ row.status = "sent" /\ row.conversation = deliveries[current].conversation
          /\ row.claimed = FALSE /\ row.unknown = deliveries[current].unknown
      BY <1>0 DEF CompleteDelivery, Row
    <3> QED
      BY <1>0, <3>1, <3>2
  <2>2. /\ Continue([deliveries EXCEPT ![current] = row], batch)
        /\ accepted /\ accepted' = FALSE /\ orphans' = orphans
        /\ UNCHANGED <<paused, registered, listed, received, history, alerted>>
    BY <1>2 DEF SendSucceeds, world
  <2> HIDE DEF row
  <2>3. Quiet([deliveries EXCEPT ![current] = row], orphans)
    <3> orphans \in [Deliveries -> Nat]
      BY <1>0 DEF TypeOK
    <3> QED
      BY <1>0, <1>1, <2>1, <2>2, OutcomeIsQuiet
  <2>4. listed' \in [Deliveries -> Nat]
    BY <1>0, <2>2 DEF TypeOK
  <2> QED
    BY <1>0, <2>2, <2>3, <2>4, LoopKeepsInvariant
<1>3. ASSUME NEW unknown \in BOOLEAN, Settle(RecordFailure(current, unknown)),
             orphans' \in [Deliveries -> Nat],
             \A e \in Deliveries : e # current => orphans'[e] = orphans[e],
             orphans'[current] <= orphans[current] + (IF accepted THEN 0 ELSE 1),
             IsTelegram(current) /\ ~unknown => ~accepted /\ orphans' = orphans
      PROVE  IInv'
  <2> DEFINE row == RecordFailure(current, unknown)
  <2>1. /\ row \in Row /\ ~row.claimed
        /\ row.conversation = deliveries[current].conversation
        /\ row.status \in {"pending", "failed"}
        /\ row.unknown => Failed(row)
        /\ unknown => row.unknown
    BY <1>0, FailureRow
  <2>2. /\ accepted' = FALSE
        /\ UNCHANGED <<paused, registered, listed, received, history, alerted>>
    BY <1>3 DEF Settle
  <2>3. CASE Continue([deliveries EXCEPT ![current] = row], batch)
    <3> HIDE DEF row
    <3>1. IsTelegram(current) =>
            received[current] + orphans'[current] <=
              denied[current] + (IF row.unknown \/ row.status = "sent" THEN 1 ELSE 0)
      <4> orphans'[current] \in Nat
        BY <1>0, <1>3
      <4> QED
        BY <1>1, <1>3, <2>1
    <3>2. Quiet([deliveries EXCEPT ![current] = row], orphans')
      BY <1>0, <1>3, <2>1, <3>1, OutcomeIsQuiet
    <3>3. listed' \in [Deliveries -> Nat]
      BY <1>0, <2>2 DEF TypeOK
    <3> QED
      BY <1>0, <2>2, <2>3, <3>2, <3>3, LoopKeepsInvariant
  <2>4. CASE StopUnexpectedly(deliveries)
    <3>1. /\ pc' = "dead" /\ batch' = {} /\ current' = 0 /\ alerts' = {}
          /\ deliveries' = deliveries
      BY <2>4 DEF StopUnexpectedly
    <3> QED
      BY <1>0, <1>3, <2>2, <3>1, DeathKeepsInvariant
  <2> QED
    BY <1>3, <2>3, <2>4 DEF Settle
<1>4. CASE SendRejected
  <2>1. /\ Settle(RecordFailure(current, FALSE)) /\ orphans' = orphans /\ ~accepted
        /\ orphans' \in [Deliveries -> Nat]
    BY <1>0, <1>4 DEF SendRejected, TypeOK
  <2>2. orphans'[current] <= orphans[current] + (IF accepted THEN 0 ELSE 1)
    BY <1>1, <2>1
  <2> QED
    BY <1>3, <2>1, <2>2
<1>5. CASE SendUnanswered
  <2>1. /\ Settle(RecordFailure(current, IsTelegram(current)))
        /\ orphans' = IF accepted THEN orphans
                      ELSE [orphans EXCEPT ![current] =
                              IF IsTelegram(current) THEN @ + 1 ELSE 1]
    BY <1>5 DEF SendUnanswered, Abandon
  <2>2. /\ orphans' \in [Deliveries -> Nat]
        /\ \A e \in Deliveries : e # current => orphans'[e] = orphans[e]
        /\ orphans'[current] <= orphans[current] + (IF accepted THEN 0 ELSE 1)
    BY <1>0, <1>1, <2>1 DEF TypeOK
  <2>3. IsTelegram(current) \in BOOLEAN
    BY DEF IsTelegram
  <2> QED
    BY <1>3, <2>1, <2>2, <2>3
<1>6. CASE CompletionFails
  <2>1. /\ Settle(RecordFailure(current, IsTelegram(current))) /\ orphans' = orphans
        /\ orphans' \in [Deliveries -> Nat]
    BY <1>0, <1>6 DEF CompletionFails, TypeOK
  <2>2. IsTelegram(current) \in BOOLEAN
    BY DEF IsTelegram
  <2> QED
    BY <1>1, <1>3, <2>1, <2>2
<1> QED
  BY <1>2, <1>4, <1>5, <1>6 DEF Answer

\* A request accepted while it is awaited moves from the wire to the client.
LEMMA AcceptanceKeepsInvariant ==
  ASSUME IInv, ChannelAccepts
  PROVE  IInv'
<1>1. /\ pc = "sending" /\ current \in Deliveries /\ ~accepted /\ accepted'
      /\ Show(current)
      /\ UNCHANGED <<deliveries, pc, current, orphans, denied>>
  BY DEF ChannelAccepts, worker, history, IInv, WorkerConsistent
<1>2. /\ received' \in [Deliveries -> Nat]
      /\ received'[current] = (IF IsTelegram(current) THEN received[current] + 1 ELSE 1)
      /\ \A e \in Deliveries : e # current => received'[e] = received[e]
      /\ \A e \in Deliveries : received[e] \in Nat /\ orphans[e] \in Nat
  BY <1>1 DEF Show, IInv, TypeOK
<1>3. TypeOK'
  BY <1>2 DEF IInv, TypeOK, ChannelAccepts, worker, history
<1>4. AttemptIsAwaited' /\ WorkerConsistent' /\ VkShowsOnce' /\ SentMeansReceived'
  BY <1>1, <1>2
  DEF IInv, AttemptIsAwaited, WorkerConsistent, VkShowsOnce, SentMeansReceived, IsTelegram
<1>5. RowsConsistent'
  BY <1>1, <1>2 DEF IInv, RowsConsistent, WorkerConsistent, IsTelegram, Pending
<1>6. \A e \in Deliveries : IsTelegram(e) => Exposure(e)' = Exposure(e)
  BY <1>1, <1>2 DEF Exposure, InFlight
<1>7. ExposureAdmitted'
  BY <1>1, <1>6 DEF IInv, ExposureAdmitted, IsTelegram, Admits
<1> QED
  BY <1>3, <1>4, <1>5, <1>7 DEF IInv

\* A request accepted after its caller gave up keeps the invariant.
LEMMA LateAcceptanceKeepsInvariant ==
  ASSUME IInv, NEW d \in Deliveries, LateAcceptance(d)
  PROVE  IInv'
<1>1. /\ orphans[d] > 0 /\ orphans' = [orphans EXCEPT ![d] = @ - 1] /\ Show(d)
      /\ UNCHANGED <<deliveries, pc, current, accepted, denied>>
  BY DEF LateAcceptance, worker, history
<1>2. /\ received' \in [Deliveries -> Nat] /\ orphans' \in [Deliveries -> Nat]
      /\ received'[d] = (IF IsTelegram(d) THEN received[d] + 1 ELSE 1)
      /\ orphans'[d] = orphans[d] - 1
      /\ \A e \in Deliveries : e # d => received'[e] = received[e] /\ orphans'[e] = orphans[e]
      /\ \A e \in Deliveries : received[e] \in Nat /\ orphans[e] \in Nat
  BY <1>1 DEF Show, IInv, TypeOK
<1>3. TypeOK'
  BY <1>2 DEF IInv, TypeOK, LateAcceptance, worker, history
<1>4. AttemptIsAwaited' /\ WorkerConsistent' /\ VkShowsOnce' /\ SentMeansReceived'
  BY <1>1, <1>2
  DEF IInv, AttemptIsAwaited, WorkerConsistent, VkShowsOnce, SentMeansReceived, IsTelegram
<1>5. RowsConsistent'
  BY <1>1, <1>2 DEF IInv, RowsConsistent, IsTelegram, Pending, Failed
<1>6. \A e \in Deliveries : IsTelegram(e) => Exposure(e)' = Exposure(e)
  BY <1>1, <1>2 DEF Exposure, InFlight
<1>7. ExposureAdmitted'
  BY <1>1, <1>6 DEF IInv, ExposureAdmitted, IsTelegram, Admits
<1> QED
  BY <1>3, <1>4, <1>5, <1>7 DEF IInv

\* Reporting a failure touches only the report's columns.
LEMMA AlertKeepsInvariant ==
  ASSUME IInv, AlertSucceeds \/ AlertFails
  PROVE  IInv'
<1>1. PICK a \in Deliveries :
        /\ pc = "alerting" /\ a \in alerts
        /\ \/ /\ deliveries' = [deliveries EXCEPT ![a] = MarkDeliveryFailureNotified(@)]
              /\ NextAlert(a)
           \/ /\ deliveries' = [deliveries EXCEPT
                                  ![a] = MarkDeliveryFailureNotificationRetry(@)]
              /\ NextAlert(a)
           \/ StopUnexpectedly(deliveries)
        /\ \/ alerted' = [alerted EXCEPT ![a] = Failed(deliveries[a])]
           \/ alerted' = alerted
  BY DEF AlertSucceeds, AlertFails, IsFirst
<1>2. UNCHANGED <<paused, registered, listed, accepted, world, history>>
  BY DEF AlertSucceeds, AlertFails
<1>3. deliveries[a] \in Row /\ ~accepted /\ Failed(deliveries[a]) \in BOOLEAN
  BY <1>1 DEF IInv, TypeOK, WorkerConsistent, Failed
<1>4. /\ pc' \in {"idle", "alerting", "dead"} /\ batch' \subseteq Deliveries
      /\ current' \in Deliveries \cup {0} /\ alerts' \subseteq Deliveries
  BY <1>1 DEF NextAlert, StopUnexpectedly, IInv, TypeOK
<1>5. PICK row \in Row :
        /\ deliveries' = [deliveries EXCEPT ![a] = row]
        /\ row.status = deliveries[a].status /\ row.unknown = deliveries[a].unknown
        /\ row.claimed = deliveries[a].claimed /\ row.resolution = deliveries[a].resolution
        /\ row.conversation = deliveries[a].conversation
  <2>1. CASE deliveries' = [deliveries EXCEPT ![a] = MarkDeliveryFailureNotified(@)]
    <3> DEFINE row == MarkDeliveryFailureNotified(deliveries[a])
    <3>1. row \in Row
      BY <1>3, RowsStayTyped
    <3>2. /\ row.status = deliveries[a].status /\ row.unknown = deliveries[a].unknown
          /\ row.claimed = deliveries[a].claimed /\ row.resolution = deliveries[a].resolution
          /\ row.conversation = deliveries[a].conversation
      BY <1>3 DEF MarkDeliveryFailureNotified, Row
    <3> QED
      BY <2>1, <3>1, <3>2
  <2>2. CASE deliveries' =
               [deliveries EXCEPT ![a] = MarkDeliveryFailureNotificationRetry(@)]
    <3> DEFINE row == MarkDeliveryFailureNotificationRetry(deliveries[a])
    <3>1. row \in Row
      BY <1>3, RowsStayTyped
    <3>2. /\ row.status = deliveries[a].status /\ row.unknown = deliveries[a].unknown
          /\ row.claimed = deliveries[a].claimed /\ row.resolution = deliveries[a].resolution
          /\ row.conversation = deliveries[a].conversation
      BY <1>3 DEF MarkDeliveryFailureNotificationRetry, Row
    <3> QED
      BY <2>2, <3>1, <3>2
  <2>3. CASE StopUnexpectedly(deliveries)
    <3>1. deliveries' = [deliveries EXCEPT ![a] = deliveries[a]]
      BY <2>3 DEF StopUnexpectedly, IInv, TypeOK
    <3> QED
      BY <1>3, <3>1
  <2> QED
    BY <1>1, <2>1, <2>2, <2>3
<1>6. TypeOK'
  BY <1>1, <1>2, <1>3, <1>4, <1>5 DEF IInv, TypeOK, world, history
<1>7. /\ deliveries'[a] = row
      /\ \A e \in Deliveries : e # a => deliveries'[e] = deliveries[e]
      /\ UNCHANGED <<accepted, orphans, received, denied>>
  BY <1>2, <1>5 DEF IInv, TypeOK, world, history
<1>8. AttemptIsAwaited' /\ WorkerConsistent' /\ RowsConsistent'
  BY <1>1, <1>3, <1>4, <1>5, <1>7
  DEF IInv, AttemptIsAwaited, WorkerConsistent, RowsConsistent, Pending, Failed, IsTelegram
<1>9. VkShowsOnce' /\ SentMeansReceived'
  BY <1>5, <1>7 DEF IInv, VkShowsOnce, SentMeansReceived, IsTelegram
<1>10. ExposureAdmitted'
  <2>1. \A e \in Deliveries : Exposure(e)' = Exposure(e)
    BY <1>1, <1>4, <1>7 DEF Exposure, InFlight
  <2> QED
    BY <1>5, <1>7, <2>1 DEF IInv, ExposureAdmitted, IsTelegram, Admits
<1> QED
  BY <1>6, <1>8, <1>9, <1>10 DEF IInv

\* A crash loses the awaited answer; recovery lets the row admit it.
LEMMA CrashKeepsInvariant ==
  ASSUME IInv, CrashAndRestart
  PROVE  IInv'
<1>1. /\ \A d \in Deliveries : deliveries'[d] = RecoverInterrupted(deliveries[d])
      /\ deliveries' \in [Deliveries -> Row]
  BY RowsStayTyped DEF CrashAndRestart, IInv, TypeOK
<1>2. /\ pc' = "idle" /\ ~accepted'
      /\ UNCHANGED <<received, denied, requeues, alerted, paused>>
  BY DEF CrashAndRestart, history
<1>3. /\ orphans' \in [Deliveries -> Nat]
      /\ \A e \in Deliveries :
           /\ orphans'[e] \in Nat /\ received[e] \in Nat /\ orphans[e] \in Nat
           /\ orphans'[e] <= orphans[e] + (IF InFlight(e) THEN 1 ELSE 0)
  BY DEF CrashAndRestart, Abandon, InFlight, IInv, TypeOK, WorkerConsistent
<1>4. \A d \in Deliveries :
        /\ deliveries'[d].conversation = deliveries[d].conversation
        /\ ~deliveries'[d].claimed
        /\ deliveries'[d].unknown => Failed(deliveries'[d])
        /\ deliveries'[d].status = "absent" <=> deliveries[d].status = "absent"
        /\ deliveries'[d].status = "sent" <=> deliveries[d].status = "sent"
        /\ deliveries'[d].resolution = deliveries[d].resolution
        /\ deliveries[d].claimed \/ deliveries[d].unknown => deliveries'[d].unknown
  <2> SUFFICES ASSUME NEW d \in Deliveries
        PROVE
        /\ deliveries'[d].conversation = deliveries[d].conversation
        /\ ~deliveries'[d].claimed
        /\ deliveries'[d].unknown => Failed(deliveries'[d])
        /\ deliveries'[d].status = "absent" <=> deliveries[d].status = "absent"
        /\ deliveries'[d].status = "sent" <=> deliveries[d].status = "sent"
        /\ deliveries'[d].resolution = deliveries[d].resolution
        /\ deliveries[d].claimed \/ deliveries[d].unknown => deliveries'[d].unknown
    OBVIOUS
  <2>1. /\ deliveries[d] \in Row
        /\ deliveries[d].claimed => Pending(deliveries[d])
        /\ deliveries[d].unknown => Failed(deliveries[d])
    BY DEF IInv, TypeOK, RowsConsistent
  <2> QED
    BY <1>1, <2>1 DEF RecoverInterrupted, Row, Pending, Failed
<1>5. TypeOK'
  BY <1>1, <1>2, <1>3 DEF IInv, TypeOK, CrashAndRestart
<1>6. AttemptIsAwaited' /\ WorkerConsistent' /\ VkShowsOnce' /\ SentMeansReceived'
  BY <1>2, <1>4
  DEF IInv, AttemptIsAwaited, WorkerConsistent, VkShowsOnce, SentMeansReceived, IsTelegram
<1>7. \A e \in Deliveries : Exposure(e)' <= Exposure(e)
  BY <1>2, <1>3 DEF Exposure, InFlight
<1>8. RowsConsistent'
  BY <1>2, <1>3, <1>4
  DEF IInv, RowsConsistent, IsTelegram, InFlight, WorkerConsistent, Pending
<1>9. ExposureAdmitted'
  <2> SUFFICES ASSUME NEW e \in Deliveries, IsTelegram(e)'
               PROVE  Exposure(e)' <= denied[e] + (IF Admits(e)' THEN 1 ELSE 0)
    BY <1>2 DEF ExposureAdmitted
  <2>1. /\ IsTelegram(e) /\ (Admits(e) => Admits(e)')
        /\ Exposure(e) \in Nat /\ Exposure(e)' \in Nat /\ denied[e] \in Nat
    BY <1>2, <1>3, <1>4 DEF IsTelegram, Admits, Exposure, InFlight, IInv, TypeOK
  <2> QED
    BY <1>7, <2>1 DEF IInv, ExposureAdmitted
<1> QED
  BY <1>5, <1>6, <1>8, <1>9 DEF IInv

\* Every step keeps the invariant.
LEMMA NextKeepsInvariant == IInv /\ [Next]_vars => IInv'
<1> SUFFICES ASSUME IInv, [Next]_vars
             PROVE  IInv'
  OBVIOUS
<1>1. CASE \E c \in Conversations : EnqueueDelivery(c)
  BY <1>1, EnqueueKeepsInvariant
<1>2. CASE \E d \in Deliveries : RetryTimeComes(d) \/ AlertTimeComes(d)
  BY <1>2, ClockKeepsInvariant
<1>3. CASE \E d \in Deliveries : Operator(d)
  BY <1>3, OperatorKeepsInvariant
<1>4. CASE \E d \in Deliveries : LateAcceptance(d)
  BY <1>4, LateAcceptanceKeepsInvariant
<1>5. CASE \/ \E k \in Channels : RegisterChannel(k) \/ UnregisterChannel(k)
           \/ SetPaused
           \/ UNCHANGED vars
  <2>1. /\ UNCHANGED <<deliveries, worker, accepted, world, history, alerted>>
        /\ registered' \subseteq Channels /\ paused' \in BOOLEAN
    BY <1>5 DEF RegisterChannel, UnregisterChannel, SetPaused, vars, IInv, TypeOK
  <2> QED
    BY <2>1
    DEF IInv, TypeOK, AttemptIsAwaited, RowsConsistent, WorkerConsistent, VkShowsOnce,
        ExposureAdmitted, SentMeansReceived, Exposure, InFlight, Admits, IsTelegram,
        worker, world, history
<1>6. CASE StartCycle
  <2>1. PICK list \in SUBSET Deliveries : Continue(deliveries, list)
    BY <1>6 DEF StartCycle, FindPendingDeliveries, FirstOf
  <2>2. /\ listed' \in [Deliveries -> Nat] /\ accepted' = FALSE /\ orphans' = orphans
        /\ UNCHANGED <<paused, registered, received, history, alerted>>
    BY <1>6 DEF StartCycle, world, IInv, TypeOK, Row
  <2>3. Quiet(deliveries, orphans)
    BY <1>6, IdleIsQuiet DEF StartCycle
  <2>4. TypeOK
    BY DEF IInv
  <2> QED
    BY <2>1, <2>2, <2>3, <2>4, LoopKeepsInvariant
<1>7. CASE ChannelAccepts
  BY <1>7, AcceptanceKeepsInvariant
<1>8. CASE Answer
  BY <1>8, AnswerKeepsInvariant
<1>9. CASE AlertSucceeds \/ AlertFails
  BY <1>9, AlertKeepsInvariant
<1>10. CASE CrashAndRestart
  BY <1>10, CrashKeepsInvariant
<1> QED
  BY <1>1, <1>2, <1>3, <1>4, <1>5, <1>6, <1>7, <1>8, <1>9, <1>10 DEF Next

\* The invariant holds in every reachable state.
LEMMA Invariance == Spec => []IInv
BY InitInvariant, NextKeepsInvariant, PTL DEF Spec

-----------------------------------------------------------------------------
(* The queue's order.  What IInv says of the table is not enough to see    *)
(* who goes first, how often and whether it was reported: the list that    *)
(* the worker read at the start of its cycle must still describe the rows. *)

\* The rows of this cycle's list that are not settled yet.
Tried == batch \cup (IF pc = "sending" THEN {current} ELSE {})

ListHolds ==
  /\ \A d \in Tried : Pending(deliveries[d]) /\ listed[d] = deliveries[d].attempts
  /\ IF pc = "sending" THEN \A d \in batch : current < d ELSE batch = {}

OneClaim ==
  \A d, e \in Deliveries : deliveries[d].claimed /\ deliveries[e].claimed => d = e

QueuedIsUnreported ==
  \A d \in Deliveries : Pending(deliveries[d]) => ~deliveries[d].notified

InsertedInOrder ==
  \A d, e \in Deliveries :
    e < d /\ deliveries[e].status = "absent" => deliveries[d].status = "absent"

\* A request for the reply was made, is being made, or is about to be.
Begun(d) == received[d] > 0 \/ orphans[d] > 0 \/ d \in Tried

InTurn ==
  \A d, e \in Deliveries :
    Earlier(e, d) /\ Begun(d) /\ Pending(deliveries[e]) => requeues[e] > 0

QueueInv ==
  /\ IInv
  /\ ListHolds
  /\ OneClaim
  /\ RetriesAreBounded
  /\ QueuedIsUnreported
  /\ NotifiedMeansReported
  /\ InsertedInOrder
  /\ InTurn

-----------------------------------------------------------------------------
(* Every step is of one of these kinds: it moves at most one reply.        *)

Kept(d) ==
  /\ deliveries'[d].status = deliveries[d].status
  /\ deliveries'[d].conversation = deliveries[d].conversation
  /\ deliveries'[d].attempts = deliveries[d].attempts
  /\ deliveries'[d].unknown = deliveries[d].unknown
  /\ deliveries'[d].notified = deliveries[d].notified

KeptBut(d) == \A e \in Deliveries \ {d} : Kept(e) /\ alerted'[e] = alerted[e]

AllKept == (\A e \in Deliveries : Kept(e)) /\ UNCHANGED <<requeues, denied, alerted>>

\* The worker's list as the step leaves it.
ListUnchanged == UNCHANGED <<pc, batch, current, listed>>

ListShrinks ==
  /\ pc = "sending" /\ Tried' \subseteq batch /\ listed' = listed
  /\ IF pc' = "sending" THEN \A e \in batch' : current' < e ELSE batch' = {}

ListDropped == pc' # "sending" /\ batch' = {}

ListRead ==
  /\ pc = "idle" /\ Tried' \subseteq FindPendingDeliveries
  /\ \A d \in Tried' : listed'[d] = deliveries[d].attempts
  /\ IF pc' = "sending" THEN \A e \in batch' : current' < e ELSE batch' = {}

Queued(d) ==
  /\ deliveries[d].status = "absent" /\ Pending(deliveries'[d])
  /\ \A e \in Deliveries : deliveries[e].status = "absent" => d <= e
  /\ deliveries'[d].attempts = 0 /\ ~deliveries'[d].notified
  /\ ListUnchanged /\ UNCHANGED <<received, requeues, denied>>

Attempted(d) ==
  /\ d = current /\ ListShrinks /\ Pending(deliveries[d])
  /\ deliveries'[d].conversation = deliveries[d].conversation
  /\ deliveries'[d].attempts = deliveries[d].attempts + 1
  /\ \/ /\ Pending(deliveries'[d]) /\ listed[d] + 1 < MaxAttempts
        /\ deliveries'[d].notified = deliveries[d].notified
     \/ Failed(deliveries'[d]) /\ ~deliveries'[d].notified
     \/ deliveries'[d].status = "sent" /\ received[d] > 0
  /\ UNCHANGED <<received, requeues, denied>>

Interrupted(d) ==
  /\ Pending(deliveries[d]) /\ Failed(deliveries'[d])
  /\ deliveries'[d].conversation = deliveries[d].conversation
  /\ deliveries'[d].attempts = deliveries[d].attempts + 1
  /\ deliveries'[d].notified = deliveries[d].notified
  /\ ListDropped /\ UNCHANGED <<received, requeues, denied>>

PutBack(d) ==
  /\ Failed(deliveries[d]) /\ Pending(deliveries'[d])
  /\ deliveries'[d].conversation = deliveries[d].conversation
  /\ deliveries'[d].attempts = 0 /\ ~deliveries'[d].notified
  /\ requeues' = [requeues EXCEPT ![d] = @ + 1]
  /\ denied' = IF deliveries[d].unknown THEN [denied EXCEPT ![d] = @ + 1] ELSE denied
  /\ ListUnchanged /\ UNCHANGED received

VouchedFor(d) ==
  /\ Failed(deliveries[d]) /\ deliveries[d].unknown /\ deliveries'[d].status = "sent"
  /\ deliveries'[d].conversation = deliveries[d].conversation
  /\ deliveries'[d].attempts = deliveries[d].attempts
  /\ ListUnchanged /\ UNCHANGED <<received, requeues, denied>>

Reported(d) ==
  /\ deliveries'[d].status = deliveries[d].status
  /\ deliveries'[d].conversation = deliveries[d].conversation
  /\ deliveries'[d].attempts = deliveries[d].attempts
  /\ deliveries'[d].unknown = deliveries[d].unknown
  /\ \/ /\ alerted'[d] = Failed(deliveries[d])
        /\ Pending(deliveries[d]) => deliveries'[d].notified = deliveries[d].notified
     \/ alerted' = alerted /\ deliveries'[d].notified = deliveries[d].notified
  /\ ListDropped /\ UNCHANGED <<received, requeues, denied>>

Moved(d) ==
  /\ KeptBut(d)
  /\ \/ Queued(d) \/ Attempted(d) \/ Interrupted(d)
     \/ PutBack(d) \/ VouchedFor(d) \/ Reported(d)

Accepted(d) ==
  /\ AllKept /\ ListUnchanged
  /\ \/ pc = "sending" /\ d = current /\ ~accepted
     \/ orphans[d] > 0
  /\ received' = [received EXCEPT ![d] = IF IsTelegram(d) THEN @ + 1 ELSE 1]

Rested ==
  /\ AllKept /\ UNCHANGED received
  /\ ListUnchanged \/ ListDropped \/ ListRead

\* One pass of the loop keeps the list's order and what the rows say.
LEMMA LoopKeepsList ==
  ASSUME NEW rows \in [Deliveries -> Row], NEW rest \in SUBSET Deliveries,
         Continue(rows, rest)
  PROVE  /\ Tried' \subseteq rest
         /\ IF pc' = "sending" THEN \A e \in batch' : current' < e ELSE batch' = {}
         /\ deliveries' \in [Deliveries -> Row]
         /\ \A e \in Deliveries :
              /\ deliveries'[e].status = rows[e].status
              /\ deliveries'[e].conversation = rows[e].conversation
              /\ deliveries'[e].attempts = rows[e].attempts
              /\ deliveries'[e].unknown = rows[e].unknown
              /\ deliveries'[e].notified = rows[e].notified
<1>1. CASE ClaimNext(rows, rest)
  <2>1. PICK d \in rest :
          /\ deliveries' = [rows EXCEPT ![d].claimed = TRUE]
          /\ pc' = "sending" /\ current' = d /\ batch' = {e \in rest : e > d}
    BY <1>1 DEF ClaimNext, Sendable
  <2>2. \A e \in batch' : current' < e
    BY <2>1 DEF Deliveries
  <2>3. deliveries' \in [Deliveries -> Row]
    BY <2>1, RowsStayTyped
  <2>4. \A e \in Deliveries : /\ rows[e] \in Row
                              /\ deliveries'[e] = IF e = d THEN [rows[e] EXCEPT !.claimed = TRUE]
                                                  ELSE rows[e]
    BY <2>1
  <2> QED
    BY <2>1, <2>2, <2>3, <2>4 DEF Tried, Row
<1>2. CASE FinishBatch(rows, rest)
  BY <1>2 DEF FinishBatch, Tried
<1>3. CASE StopUnexpectedly(rows)
  BY <1>3 DEF StopUnexpectedly, Tried
<1> QED
  BY <1>1, <1>2, <1>3 DEF Continue

\* What an attempt's outcome writes, from the loop's point of view.
LEMMA OutcomeIsAttempted ==
  ASSUME QueueInv, pc = "sending", NEW row \in Row,
         row.conversation = deliveries[current].conversation,
         row.attempts = deliveries[current].attempts + 1,
         \/ /\ Pending(row) /\ listed[current] + 1 < MaxAttempts
            /\ row.notified = deliveries[current].notified
         \/ Failed(row) /\ ~row.notified
         \/ row.status = "sent" /\ received[current] > 0,
         Continue([deliveries EXCEPT ![current] = row], batch),
         UNCHANGED <<listed, received, history, alerted>>
  PROVE  current \in Deliveries /\ Moved(current)
<1> DEFINE rows == [deliveries EXCEPT ![current] = row]
<1>1. /\ current \in Deliveries /\ deliveries \in [Deliveries -> Row]
      /\ batch \in SUBSET Deliveries /\ Pending(deliveries[current])
  BY DEF QueueInv, IInv, TypeOK, WorkerConsistent, RowsConsistent
<1>2. /\ rows \in [Deliveries -> Row] /\ rows[current] = row
      /\ \A e \in Deliveries \ {current} : rows[e] = deliveries[e]
  BY <1>1
<1> HIDE DEF rows
<1>3. /\ Tried' \subseteq batch
      /\ IF pc' = "sending" THEN \A e \in batch' : current' < e ELSE batch' = {}
      /\ \A e \in Deliveries :
              /\ deliveries'[e].status = rows[e].status
              /\ deliveries'[e].conversation = rows[e].conversation
              /\ deliveries'[e].attempts = rows[e].attempts
              /\ deliveries'[e].unknown = rows[e].unknown
              /\ deliveries'[e].notified = rows[e].notified
  BY <1>1, <1>2, LoopKeepsList DEF rows
<1>4. KeptBut(current)
  BY <1>2, <1>3 DEF KeptBut, Kept
<1>5. Attempted(current)
  BY <1>1, <1>2, <1>3 DEF Attempted, ListShrinks, Pending, Failed, history
<1> QED
  BY <1>1, <1>4, <1>5 DEF Moved

\* A worker that dies leaves the table alone.
LEMMA DeathRests ==
  ASSUME StopUnexpectedly(deliveries), UNCHANGED <<received, history, alerted>>
  PROVE  Rested
BY DEF StopUnexpectedly, Rested, AllKept, Kept, ListDropped, history

\* Recording an answer moves the row of one delivery or none.
LEMMA AnswerMoves ==
  ASSUME QueueInv, Answer
  PROVE  Rested \/ \E d \in Deliveries : Moved(d)
<1>0. /\ pc = "sending" /\ current \in Deliveries /\ deliveries[current] \in Row
      /\ Pending(deliveries[current])
  BY DEF Answer, SendSucceeds, SendRejected, SendUnanswered, CompletionFails,
         QueueInv, IInv, WorkerConsistent, RowsConsistent, TypeOK
<1>1. CASE SendSucceeds
  <2> DEFINE row == CompleteDelivery(deliveries[current])
  <2>1. row \in Row
    BY <1>0, RowsStayTyped
  <2>2. /\ row.status = "sent" /\ row.attempts = deliveries[current].attempts + 1
        /\ row.conversation = deliveries[current].conversation
    BY <1>0 DEF CompleteDelivery, Row
  <2>3. received[current] > 0
    BY <1>1 DEF SendSucceeds, QueueInv, IInv, WorkerConsistent
  <2>4. /\ Continue([deliveries EXCEPT ![current] = row], batch)
        /\ UNCHANGED <<listed, received, history, alerted>>
    BY <1>1 DEF SendSucceeds, world
  <2> HIDE DEF row
  <2> QED
    BY <1>0, <2>1, <2>2, <2>3, <2>4, OutcomeIsAttempted
<1>2. ASSUME NEW unknown \in BOOLEAN, Settle(RecordFailure(current, unknown))
      PROVE  Rested \/ \E d \in Deliveries : Moved(d)
  <2> DEFINE r == deliveries[current]
             row == RecordFailure(current, unknown)
  <2>1. UNCHANGED <<listed, received, history, alerted>>
    BY <1>2 DEF Settle
  <2>2. CASE StopUnexpectedly(deliveries)
    BY <2>1, <2>2, DeathRests
  <2>3. CASE Continue([deliveries EXCEPT ![current] = row], batch)
    <3>1. row \in Row
      BY <1>0, FailureRow DEF QueueInv
    <3>2. \/ unknown /\ row = MarkDeliveryOutcomeUnknown(r)
          \/ row = MarkDeliveryFailed(r)
          \/ listed[current] + 1 < MaxAttempts /\ row = MarkDeliveryRetry(r)
      <4>1. listed[current] \in Nat /\ MaxAttempts \in Nat
        BY <1>0, BoundsAssumption DEF QueueInv, IInv, TypeOK
      <4> QED
        BY <4>1 DEF RecordFailure
    <3>3. /\ row.conversation = r.conversation
          /\ row.attempts = r.attempts + 1
          /\ \/ /\ Pending(row) /\ listed[current] + 1 < MaxAttempts
                /\ row.notified = r.notified
             \/ Failed(row) /\ ~row.notified
      <4> HIDE DEF row
      <4> QED
        BY <1>0, <3>1, <3>2 DEF MarkDeliveryOutcomeUnknown, MarkDeliveryFailed,
                                MarkDeliveryRetry, Row, Pending, Failed
    <3> HIDE DEF row
    <3> QED
      BY <1>0, <2>1, <2>3, <3>1, <3>3, OutcomeIsAttempted
  <2> QED
    BY <1>2, <2>2, <2>3 DEF Settle
<1>3. CASE SendRejected
  BY <1>2, <1>3 DEF SendRejected
<1>4. CASE SendUnanswered \/ CompletionFails
  <2>1. IsTelegram(current) \in BOOLEAN
    BY DEF IsTelegram
  <2> QED
    BY <1>2, <1>4, <2>1 DEF SendUnanswered, CompletionFails
<1> QED
  BY <1>1, <1>3, <1>4 DEF Answer

\* The operator's remedies.
LEMMA OperatorMoves ==
  ASSUME QueueInv, NEW d \in Deliveries, Operator(d)
  PROVE  Moved(d)
<1>1. /\ deliveries \in [Deliveries -> Row] /\ alerted \in [Deliveries -> BOOLEAN]
      /\ deliveries[d] \in Row
  BY DEF QueueInv, IInv, TypeOK
<1>2. PICK row :
        /\ Failed(deliveries[d]) /\ deliveries' = [deliveries EXCEPT ![d] = row]
        /\ alerted' = [alerted EXCEPT ![d] = FALSE]
        /\ UNCHANGED <<worker, received>>
        /\ \/ /\ ~deliveries[d].unknown /\ row = Requeued(deliveries[d])
              /\ requeues' = [requeues EXCEPT ![d] = @ + 1] /\ denied' = denied
           \/ /\ deliveries[d].unknown
              /\ row = [Requeued(deliveries[d]) EXCEPT !.unknown = FALSE,
                                             !.resolution = "confirmed_not_received"]
              /\ requeues' = [requeues EXCEPT ![d] = @ + 1]
              /\ denied' = [denied EXCEPT ![d] = @ + 1]
           \/ /\ deliveries[d].unknown
              /\ row = [deliveries[d] EXCEPT !.status = "sent", !.unknown = FALSE,
                          !.claimed = FALSE, !.resolution = "confirmed_received"]
              /\ UNCHANGED <<requeues, denied>>
  BY DEF Operator, RetryFailedDelivery, ConfirmUnknownDeliveryNotReceived,
         ConfirmUnknownDeliveryReceived, world, history
<1>3. /\ deliveries'[d] = row
      /\ \A e \in Deliveries \ {d} : deliveries'[e] = deliveries[e] /\ alerted'[e] = alerted[e]
  BY <1>1, <1>2
<1>4. KeptBut(d)
  BY <1>3 DEF KeptBut, Kept
<1>5. \/ /\ row.status = "pending" /\ row.attempts = 0 /\ ~row.notified
         /\ row.conversation = deliveries[d].conversation
         /\ requeues' = [requeues EXCEPT ![d] = @ + 1]
         /\ denied' = IF deliveries[d].unknown THEN [denied EXCEPT ![d] = @ + 1] ELSE denied
      \/ /\ row.status = "sent" /\ row.attempts = deliveries[d].attempts
         /\ row.conversation = deliveries[d].conversation /\ deliveries[d].unknown
         /\ UNCHANGED <<requeues, denied>>
  <2> DEFINE put == Requeued(deliveries[d])
  <2>1. /\ put.status = "pending" /\ put.attempts = 0 /\ ~put.notified
        /\ put.conversation = deliveries[d].conversation
    BY <1>1 DEF Requeued, Row
  <2>2. put \in Row
    BY <1>1, RowsStayTyped
  <2> HIDE DEF put
  <2>3. CASE /\ ~deliveries[d].unknown /\ row = put
             /\ requeues' = [requeues EXCEPT ![d] = @ + 1] /\ denied' = denied
    BY <2>1, <2>3
  <2>4. CASE /\ deliveries[d].unknown
             /\ row = [put EXCEPT !.unknown = FALSE, !.resolution = "confirmed_not_received"]
             /\ requeues' = [requeues EXCEPT ![d] = @ + 1]
             /\ denied' = [denied EXCEPT ![d] = @ + 1]
    <3>1. /\ row.status = put.status /\ row.attempts = put.attempts
          /\ row.notified = put.notified /\ row.conversation = put.conversation
      BY <2>2, <2>4 DEF Row
    <3> QED
      BY <2>1, <2>4, <3>1
  <2>5. CASE /\ deliveries[d].unknown
             /\ row = [deliveries[d] EXCEPT !.status = "sent", !.unknown = FALSE,
                          !.claimed = FALSE, !.resolution = "confirmed_received"]
             /\ UNCHANGED <<requeues, denied>>
    BY <1>1, <2>5 DEF Row
  <2> QED
    BY <1>2, <2>3, <2>4, <2>5 DEF put
<1>6. PutBack(d) \/ VouchedFor(d)
  BY <1>2, <1>3, <1>5 DEF PutBack, VouchedFor, ListUnchanged, worker, Pending, Failed
<1> QED
  BY <1>4, <1>6 DEF Moved

\* Reporting a failure.
LEMMA AlertMoves ==
  ASSUME QueueInv, AlertSucceeds \/ AlertFails
  PROVE  Rested \/ \E d \in Deliveries : Moved(d)
<1>1. PICK a \in Deliveries :
        /\ pc = "alerting"
        /\ \/ /\ deliveries' = [deliveries EXCEPT ![a] = MarkDeliveryFailureNotified(@)]
              /\ alerted' = [alerted EXCEPT ![a] = Failed(deliveries[a])]
              /\ NextAlert(a)
           \/ /\ deliveries' = [deliveries EXCEPT
                                  ![a] = MarkDeliveryFailureNotificationRetry(@)]
              /\ NextAlert(a)
              /\ \/ alerted' = [alerted EXCEPT ![a] = Failed(deliveries[a])]
                 \/ alerted' = alerted
           \/ /\ StopUnexpectedly(deliveries)
              /\ \/ alerted' = [alerted EXCEPT ![a] = Failed(deliveries[a])]
                 \/ alerted' = alerted
  BY DEF AlertSucceeds, AlertFails
<1>2. /\ deliveries \in [Deliveries -> Row] /\ alerted \in [Deliveries -> BOOLEAN]
      /\ deliveries[a] \in Row /\ Failed(deliveries[a]) \in BOOLEAN /\ batch = {}
  BY <1>1 DEF QueueInv, IInv, TypeOK, ListHolds, Failed
<1>3. PICK row : /\ deliveries' = [deliveries EXCEPT ![a] = row]
                 /\ \/ row = deliveries[a]
                    \/ row = MarkDeliveryFailureNotificationRetry(deliveries[a])
                    \/ /\ row = MarkDeliveryFailureNotified(deliveries[a])
                       /\ alerted' = [alerted EXCEPT ![a] = Failed(deliveries[a])]
  <2>1. CASE StopUnexpectedly(deliveries)
    <3>1. deliveries' = [deliveries EXCEPT ![a] = deliveries[a]]
      BY <1>2, <2>1 DEF StopUnexpectedly
    <3> QED
      BY <3>1
  <2> QED
    BY <1>1, <2>1
<1>4. /\ row.status = deliveries[a].status
      /\ row.conversation = deliveries[a].conversation
      /\ row.attempts = deliveries[a].attempts
      /\ row.unknown = deliveries[a].unknown
      /\ Pending(deliveries[a]) => row.notified = deliveries[a].notified
      /\ \/ row.notified = deliveries[a].notified
         \/ alerted' = [alerted EXCEPT ![a] = Failed(deliveries[a])]
  BY <1>2, <1>3 DEF MarkDeliveryFailureNotificationRetry, MarkDeliveryFailureNotified,
                    Row, Pending, Failed
<1>5. /\ pc' # "sending" /\ batch' = {}
      /\ UNCHANGED <<received, requeues, denied>>
  BY <1>1, <1>2 DEF NextAlert, StopUnexpectedly, AlertSucceeds, AlertFails, world, history
<1>6. /\ deliveries'[a] = row
      /\ \A e \in Deliveries \ {a} : deliveries'[e] = deliveries[e]
  BY <1>2, <1>3
<1>7. /\ \A e \in Deliveries \ {a} : alerted'[e] = alerted[e]
      /\ alerted' = alerted \/ alerted'[a] = Failed(deliveries[a])
  BY <1>1, <1>2
<1>8. KeptBut(a)
  BY <1>6, <1>7 DEF KeptBut, Kept
<1>9. Reported(a)
  <2>1. \/ /\ alerted'[a] = Failed(deliveries[a])
           /\ Pending(deliveries[a]) => row.notified = deliveries[a].notified
        \/ alerted' = alerted /\ row.notified = deliveries[a].notified
    BY <1>1, <1>2, <1>4, <1>7
  <2> QED
    BY <1>4, <1>5, <1>6, <2>1 DEF Reported, ListDropped
<1> QED
  BY <1>8, <1>9 DEF Moved

\* Recovery at the start fails the one attempt the crash interrupted.
LEMMA CrashMoves ==
  ASSUME QueueInv, CrashAndRestart
  PROVE  Rested \/ \E d \in Deliveries : Moved(d)
<1>1. /\ deliveries \in [Deliveries -> Row]
      /\ \A d \in Deliveries : deliveries'[d] = RecoverInterrupted(deliveries[d])
  BY DEF CrashAndRestart, QueueInv, IInv, TypeOK
<1>2. ListDropped /\ UNCHANGED <<received, requeues, denied, alerted>>
  BY DEF CrashAndRestart, ListDropped, history
<1>3. \A d \in Deliveries : deliveries[d].claimed \/ Kept(d)
  BY <1>1 DEF RecoverInterrupted, Kept
<1>4. ASSUME NEW d \in Deliveries, deliveries[d].claimed
      PROVE  Moved(d)
  <2>1. KeptBut(d)
    BY <1>2, <1>3, <1>4 DEF QueueInv, OneClaim, KeptBut
  <2>2. deliveries[d] \in Row /\ Pending(deliveries[d])
    BY <1>1, <1>4 DEF QueueInv, IInv, RowsConsistent
  <2>3. Interrupted(d)
    BY <1>1, <1>2, <1>4, <2>2
    DEF Interrupted, RecoverInterrupted, Pending, Failed, Row
  <2> QED
    BY <2>1, <2>3 DEF Moved
<1>5. CASE \A d \in Deliveries : ~deliveries[d].claimed
  BY <1>2, <1>3, <1>5 DEF Rested, AllKept
<1> QED
  BY <1>4, <1>5

\* A step moves one delivery, has one accepted by the API, or moves none.
LEMMA EveryStepMovesOne ==
  ASSUME QueueInv, [Next]_vars
  PROVE  \/ Rested
         \/ \E d \in Deliveries : Moved(d) \/ Accepted(d)
<1>0. deliveries \in [Deliveries -> Row] /\ alerted \in [Deliveries -> BOOLEAN]
  BY DEF QueueInv, IInv, TypeOK
<1>1. ASSUME NEW c \in Conversations, EnqueueDelivery(c)
      PROVE  \E d \in Deliveries : Moved(d)
  <2>1. PICK d \in Deliveries :
          /\ deliveries[d].status = "absent"
          /\ \A e \in Deliveries : deliveries[e].status = "absent" => d <= e
          /\ deliveries' = [deliveries EXCEPT
                             ![d] = [NoRow EXCEPT !.status = "pending", !.conversation = c]]
    BY <1>1 DEF EnqueueDelivery, IsFirst
  <2>2. UNCHANGED <<worker, received, requeues, denied, alerted>>
    BY <1>1 DEF EnqueueDelivery, world, history
  <2>3. KeptBut(d)
    BY <1>0, <2>1, <2>2 DEF KeptBut, Kept
  <2>4. /\ Pending(deliveries'[d]) /\ deliveries'[d].attempts = 0
        /\ ~deliveries'[d].notified
    BY <1>0, <2>1 DEF NoRow, Pending
  <2>5. Queued(d)
    BY <2>1, <2>2, <2>4 DEF Queued, ListUnchanged, worker
  <2> QED
    BY <2>3, <2>5 DEF Moved
<1>2. ASSUME NEW d \in Deliveries, RetryTimeComes(d) \/ AlertTimeComes(d)
      PROVE  Rested
  <2>1. deliveries[d] \in Row
    BY <1>0
  <2>2. \/ deliveries' = [deliveries EXCEPT ![d] = [deliveries[d] EXCEPT !.due = TRUE]]
        \/ deliveries' = [deliveries EXCEPT ![d] = [deliveries[d] EXCEPT !.alertDue = TRUE]]
    BY <1>2 DEF RetryTimeComes, AlertTimeComes
  <2>3. \A e \in Deliveries : Kept(e)
    BY <1>0, <2>1, <2>2 DEF Kept, Row
  <2>4. UNCHANGED <<worker, received, requeues, denied, alerted>>
    BY <1>2 DEF RetryTimeComes, AlertTimeComes, world, history
  <2> QED
    BY <2>3, <2>4 DEF Rested, AllKept, ListUnchanged, worker
<1>3. CASE \E d \in Deliveries : Operator(d)
  BY <1>3, OperatorMoves
<1>4. ASSUME NEW d \in Deliveries, LateAcceptance(d)
      PROVE  Accepted(d)
  BY <1>4 DEF LateAcceptance, Show, Accepted, AllKept, Kept, ListUnchanged, worker, history
<1>5. CASE \/ \E k \in Channels : RegisterChannel(k) \/ UnregisterChannel(k)
           \/ SetPaused
           \/ UNCHANGED vars
  BY <1>5 DEF RegisterChannel, UnregisterChannel, SetPaused, vars, Rested, AllKept, Kept,
              ListUnchanged, worker, world, history
<1>6. CASE StartCycle
  <2>1. PICK list \in SUBSET Deliveries :
          /\ list \subseteq FindPendingDeliveries
          /\ listed' = [d \in Deliveries |->
                          IF d \in list THEN deliveries[d].attempts ELSE 0]
          /\ Continue(deliveries, list)
    BY <1>6 DEF StartCycle, FindPendingDeliveries, FirstOf
  <2>2. pc = "idle" /\ UNCHANGED <<received, requeues, denied, alerted>>
    BY <1>6 DEF StartCycle, world, history
  <2>3. /\ Tried' \subseteq list
        /\ IF pc' = "sending" THEN \A e \in batch' : current' < e ELSE batch' = {}
        /\ \A e \in Deliveries : Kept(e)
    BY <1>0, <2>1, LoopKeepsList DEF Kept
  <2> QED
    BY <2>1, <2>2, <2>3 DEF Rested, AllKept, ListRead
<1>7. CASE ChannelAccepts
  <2>1. current \in Deliveries
    BY <1>7 DEF ChannelAccepts, QueueInv, IInv, WorkerConsistent
  <2>2. Accepted(current)
    BY <1>7 DEF ChannelAccepts, Show, Accepted, AllKept, Kept, ListUnchanged, worker, history
  <2> QED
    BY <2>1, <2>2
<1>8. CASE Answer
  BY <1>8, AnswerMoves
<1>9. CASE AlertSucceeds \/ AlertFails
  BY <1>9, AlertMoves
<1>10. CASE CrashAndRestart
  BY <1>10, CrashMoves
<1> QED
  BY <1>1, <1>2, <1>3, <1>4, <1>5, <1>6, <1>7, <1>8, <1>9, <1>10 DEF Next

-----------------------------------------------------------------------------
(* Each part of the invariant is kept by steps of these kinds.             *)

\* The list as any step leaves it.
LEMMA ListSteps ==
  ASSUME QueueInv, [Next]_vars
  PROVE  ListUnchanged \/ ListShrinks \/ ListDropped \/ ListRead
BY EveryStepMovesOne
DEF Rested, Moved, Accepted, Queued, Attempted, Interrupted, PutBack, VouchedFor, Reported

\* Only the request being awaited can be abandoned on the wire.
LEMMA WireSteps ==
  ASSUME QueueInv, [Next]_vars, NEW d \in Deliveries, orphans'[d] > 0
  PROVE  orphans[d] > 0 \/ (pc = "sending" /\ d = current)
<1>1. orphans \in [Deliveries -> Nat]
  BY DEF QueueInv, IInv, TypeOK
<1>2. CASE orphans' = orphans
  BY <1>2
<1>3. CASE pc = "sending" /\ Abandon
  BY <1>1, <1>3 DEF Abandon
<1>4. CASE \E e \in Deliveries : LateAcceptance(e)
  <2>1. PICK e \in Deliveries : orphans[e] > 0 /\ orphans' = [orphans EXCEPT ![e] = @ - 1]
    BY <1>4 DEF LateAcceptance
  <2> QED
    BY <1>1, <2>1
<1> QED
  BY <1>2, <1>3, <1>4
  DEF Next, vars, EnqueueDelivery, RetryTimeComes, AlertTimeComes, Operator,
      RetryFailedDelivery, ConfirmUnknownDeliveryNotReceived, ConfirmUnknownDeliveryReceived,
      RegisterChannel, UnregisterChannel, SetPaused, StartCycle, ChannelAccepts, Answer,
      SendSucceeds, SendRejected, SendUnanswered, CompletionFails, AlertSucceeds,
      AlertFails, CrashAndRestart, world

\* A reply begins only when a cycle reads it as the first of its conversation.
LEMMA OnlyFirstBegins ==
  ASSUME QueueInv, [Next]_vars, NEW d \in Deliveries, Begun(d)'
  PROVE  Begun(d) \/ (ListRead /\ d \in FindPendingDeliveries)
<1>1. CASE received'[d] > 0
  <2>1. received \in [Deliveries -> Nat]
    BY DEF QueueInv, IInv, TypeOK
  <2>2. received' = received \/ \E e \in Deliveries : Accepted(e)
    BY EveryStepMovesOne
    DEF Rested, Moved, Queued, Attempted, Interrupted, PutBack, VouchedFor, Reported
  <2>3. received'[d] = received[d] \/ Accepted(d)
    BY <2>1, <2>2 DEF Accepted
  <2> QED
    BY <1>1, <2>3 DEF Accepted, Begun, Tried
<1>2. CASE orphans'[d] > 0
  BY <1>2, WireSteps DEF Begun, Tried
<1>3. CASE d \in Tried'
  <2>1. CASE ListUnchanged
    BY <1>3, <2>1 DEF ListUnchanged, Tried, Begun
  <2>2. CASE ListShrinks
    BY <1>3, <2>2 DEF ListShrinks, Tried, Begun
  <2>3. CASE ListDropped
    BY <1>3, <2>3 DEF ListDropped, Tried
  <2>4. CASE ListRead
    BY <1>3, <2>4 DEF ListRead
  <2> QED
    BY <2>1, <2>2, <2>3, <2>4, ListSteps
<1> QED
  BY <1>1, <1>2, <1>3 DEF Begun

\* A worker that stops claims nothing in that step.
LEMMA DeadClaimsNothing ==
  ASSUME QueueInv, [Next]_vars, pc' = "dead", NEW d \in Deliveries, deliveries'[d].claimed
  PROVE  deliveries[d].claimed
<1>0. deliveries \in [Deliveries -> Row]
  BY DEF QueueInv, IInv, TypeOK
<1>1. CASE ~deliveries'[d].claimed \/ deliveries'[d].claimed = deliveries[d].claimed
  BY <1>1
<1>2. ASSUME NEW rows, NEW rest, Continue(rows, rest)
      PROVE  deliveries' = rows
  BY <1>2 DEF Continue, ClaimNext, FinishBatch, StopUnexpectedly
<1>3. CASE StartCycle
  BY <1>2, <1>3 DEF StartCycle
<1>4. CASE Answer
  <2>1. /\ pc = "sending" /\ current \in Deliveries /\ deliveries[current].claimed
    BY <1>4 DEF Answer, SendSucceeds, SendRejected, SendUnanswered, CompletionFails,
                QueueInv, IInv, WorkerConsistent
  <2>2. \/ deliveries' = deliveries
        \/ \E row : deliveries' = [deliveries EXCEPT ![current] = row]
    BY <1>2, <1>4 DEF Answer, SendSucceeds, SendRejected, SendUnanswered, CompletionFails,
                      Settle, StopUnexpectedly
  <2> QED
    BY <1>0, <2>1, <2>2
<1>5. CASE AlertSucceeds \/ AlertFails
  BY <1>5 DEF AlertSucceeds, AlertFails, NextAlert, StopUnexpectedly
<1>6. CASE \E e \in Deliveries : RetryTimeComes(e) \/ AlertTimeComes(e)
  <2>1. PICK e \in Deliveries :
          \/ deliveries' = [deliveries EXCEPT ![e] = [deliveries[e] EXCEPT !.due = TRUE]]
          \/ deliveries' = [deliveries EXCEPT ![e] = [deliveries[e] EXCEPT !.alertDue = TRUE]]
    BY <1>6 DEF RetryTimeComes, AlertTimeComes
  <2>2. deliveries[e] \in Row /\ deliveries[d] \in Row
    BY <1>0
  <2> QED
    BY <1>0, <2>1, <2>2 DEF Row
<1>7. CASE \E e \in Deliveries : Operator(e)
  <2>0. PICK e \in Deliveries : \E row :
          /\ deliveries' = [deliveries EXCEPT ![e] = row]
          /\ \/ row = Requeued(deliveries[e])
             \/ row = [Requeued(deliveries[e]) EXCEPT !.unknown = FALSE,
                                             !.resolution = "confirmed_not_received"]
             \/ row = [deliveries[e] EXCEPT !.status = "sent", !.unknown = FALSE,
                          !.claimed = FALSE, !.resolution = "confirmed_received"]
    BY <1>7 DEF Operator, RetryFailedDelivery, ConfirmUnknownDeliveryNotReceived,
                ConfirmUnknownDeliveryReceived
  <2>1. PICK row :
          /\ deliveries' = [deliveries EXCEPT ![e] = row]
          /\ \/ row = Requeued(deliveries[e])
             \/ row = [Requeued(deliveries[e]) EXCEPT !.unknown = FALSE,
                                             !.resolution = "confirmed_not_received"]
             \/ row = [deliveries[e] EXCEPT !.status = "sent", !.unknown = FALSE,
                          !.claimed = FALSE, !.resolution = "confirmed_received"]
    BY <2>0
  <2>2. deliveries[e] \in Row
    BY <1>0
  <2>3. Requeued(deliveries[e]) \in Row /\ ~Requeued(deliveries[e]).claimed
    <3>1. ~Requeued(deliveries[e]).claimed
      BY <2>2 DEF Requeued, Row
    <3> QED
      BY <2>2, <3>1, RowsStayTyped
  <2>4. ~row.claimed
    <3>1. CASE row = Requeued(deliveries[e])
      BY <2>3, <3>1
    <3>2. CASE row = [Requeued(deliveries[e]) EXCEPT !.unknown = FALSE,
                                             !.resolution = "confirmed_not_received"]
      <4> DEFINE put == Requeued(deliveries[e])
      <4>1. put \in Row /\ ~put.claimed
            /\ row = [put EXCEPT !.unknown = FALSE, !.resolution = "confirmed_not_received"]
        BY <2>3, <3>2
      <4> HIDE DEF put
      <4> QED
        BY <4>1 DEF Row
    <3>3. CASE row = [deliveries[e] EXCEPT !.status = "sent", !.unknown = FALSE,
                          !.claimed = FALSE, !.resolution = "confirmed_received"]
      BY <2>2, <3>3 DEF Row
    <3> QED
      BY <2>1, <3>1, <3>2, <3>3
  <2> QED
    BY <1>0, <2>1, <2>4
<1>8. CASE \E c \in Conversations : EnqueueDelivery(c)
  <2>1. PICK e \in Deliveries, c \in Conversations :
          deliveries' = [deliveries EXCEPT
                          ![e] = [NoRow EXCEPT !.status = "pending", !.conversation = c]]
    BY <1>8 DEF EnqueueDelivery
  <2> QED
    BY <1>0, <2>1 DEF NoRow
<1>9. CASE deliveries' = deliveries
  BY <1>9
<1>10. CASE CrashAndRestart
  BY <1>10 DEF CrashAndRestart
<1> QED
  BY <1>3, <1>4, <1>5, <1>6, <1>7, <1>8, <1>9, <1>10
  DEF Next, vars, LateAcceptance, RegisterChannel, UnregisterChannel, SetPaused, ChannelAccepts

\* The empty queue satisfies the second invariant as well.
LEMMA InitQueueInvariant == Init => QueueInv
<1> SUFFICES ASSUME Init PROVE QueueInv
  OBVIOUS
<1>1. IInv
  BY InitInvariant
<1>2. /\ \A d \in Deliveries : deliveries[d] = NoRow /\ received[d] = 0 /\ orphans[d] = 0
      /\ pc = "idle" /\ batch = {}
  BY DEF Init
<1>3. MaxAttempts \in Nat \ {0}
  BY BoundsAssumption
<1> QED
  BY <1>1, <1>2, <1>3
  DEF QueueInv, ListHolds, OneClaim, RetriesAreBounded, QueuedIsUnreported,
      NotifiedMeansReported, InsertedInOrder, InTurn, Tried, NoRow, Pending, Failed

\* What each reply may have gone through in one step.
LEMMA MovedOrKept ==
  ASSUME QueueInv, [Next]_vars, NEW d \in Deliveries
  PROVE  \/ Kept(d) /\ alerted'[d] = alerted[d]
         \/ Moved(d)
BY EveryStepMovesOne DEF Rested, Moved, Accepted, AllKept, KeptBut

\* A pass's list holds queued replies, each later than the one being sent.
LEMMA ListIsKept ==
  ASSUME QueueInv, [Next]_vars
  PROVE  ListHolds'
<1>1. /\ \A d \in Tried : Pending(deliveries[d]) /\ listed[d] = deliveries[d].attempts
      /\ IF pc = "sending" THEN \A d \in batch : current < d ELSE batch = {}
      /\ Tried \subseteq Deliveries /\ batch \subseteq Deliveries
  BY DEF QueueInv, ListHolds, IInv, TypeOK, Tried, WorkerConsistent
<1>2. IF pc' = "sending" THEN \A e \in batch' : current' < e ELSE batch' = {}
  BY <1>1, ListSteps DEF ListUnchanged, ListShrinks, ListDropped, ListRead
<1>3. ASSUME NEW d \in Tried'
      PROVE  Pending(deliveries'[d]) /\ listed'[d] = deliveries'[d].attempts
  <2>1. CASE ListUnchanged
    <3>1. d \in Tried /\ d \in Deliveries /\ listed'[d] = listed[d]
      BY <1>1, <1>3, <2>1 DEF ListUnchanged, Tried
    <3>2. Kept(d) \/ Reported(d) \/ ListDropped \/ ListShrinks
      BY <1>1, <3>1, MovedOrKept
      DEF Moved, Queued, Attempted, Interrupted, PutBack, VouchedFor, Pending, Failed
    <3>3. CASE ListDropped
      BY <1>3, <3>3 DEF ListDropped, Tried
    <3>4. CASE ListShrinks
      <4>1. pc = "sending" /\ d \in batch /\ d # current
        BY <1>1, <1>3, <3>4 DEF ListShrinks, Deliveries
      <4>2. Kept(d) \/ Reported(d) \/ ListDropped
        BY <1>1, <3>1, <4>1, MovedOrKept
        DEF Moved, Queued, Attempted, Interrupted, PutBack, VouchedFor, Pending, Failed
      <4> QED
        BY <1>1, <3>1, <3>3, <4>2 DEF Kept, Reported, Pending
    <3> QED
      BY <1>1, <3>1, <3>2, <3>3, <3>4 DEF Kept, Reported, Pending
  <2>2. CASE ListShrinks
    <3>1. d \in batch /\ d \in Tried /\ d \in Deliveries /\ d # current /\ listed' = listed
      BY <1>1, <1>3, <2>2 DEF ListShrinks, Tried, Deliveries
    <3>2. Kept(d) \/ Reported(d) \/ ListDropped
      BY <1>1, <3>1, MovedOrKept
      DEF Moved, Queued, Attempted, Interrupted, PutBack, VouchedFor, Pending, Failed
    <3>3. CASE ListDropped
      BY <1>3, <3>3 DEF ListDropped, Tried
    <3> QED
      BY <1>1, <3>1, <3>2, <3>3 DEF Kept, Reported, Pending
  <2>3. CASE ListDropped
    BY <1>3, <2>3 DEF ListDropped, Tried
  <2>4. CASE ListRead
    <3>1. /\ d \in Deliveries /\ Pending(deliveries[d]) /\ pc = "idle"
          /\ listed'[d] = deliveries[d].attempts
      BY <1>3, <2>4 DEF ListRead, FindPendingDeliveries, FirstOf
    <3>2. Kept(d) \/ Reported(d) \/ ListDropped
      BY <3>1, MovedOrKept
      DEF Moved, Queued, Attempted, ListShrinks, Interrupted, PutBack, VouchedFor,
          Pending, Failed
    <3>3. CASE ListDropped
      BY <1>3, <3>3 DEF ListDropped, Tried
    <3> QED
      BY <3>1, <3>2, <3>3 DEF Kept, Reported, Pending
  <2> QED
    BY <2>1, <2>2, <2>3, <2>4, ListSteps
<1> QED
  BY <1>2, <1>3 DEF ListHolds

\* At most one delivery is claimed after the step.
LEMMA OneClaimIsKept ==
  ASSUME QueueInv, [Next]_vars, IInv'
  PROVE  OneClaim'
<1>1. CASE pc' = "dead"
  BY <1>1, DeadClaimsNothing DEF QueueInv, OneClaim
<1>2. CASE pc' # "dead"
  BY <1>2 DEF IInv, AttemptIsAwaited, OneClaim
<1> QED
  BY <1>1, <1>2

\* No step takes the attempts of a delivery beyond their limit.
LEMMA RetriesStayBounded ==
  ASSUME QueueInv, [Next]_vars
  PROVE  RetriesAreBounded'
<1> SUFFICES ASSUME NEW d \in Deliveries
             PROVE  /\ deliveries'[d].attempts <= MaxAttempts
                    /\ Pending(deliveries'[d]) => deliveries'[d].attempts < MaxAttempts
  BY DEF RetriesAreBounded
<1>1. /\ deliveries[d].attempts <= MaxAttempts /\ deliveries[d].attempts \in Nat
      /\ Pending(deliveries[d]) => deliveries[d].attempts < MaxAttempts
      /\ MaxAttempts \in Nat \ {0}
  <2>1. deliveries[d] \in Row
    BY DEF QueueInv, IInv, TypeOK
  <2>2. deliveries[d].attempts \in Nat
    BY <2>1 DEF Row
  <2> QED
    BY <2>2, BoundsAssumption DEF QueueInv, RetriesAreBounded
<1>2. CASE Kept(d)
  BY <1>1, <1>2 DEF Kept, Pending
<1>3. CASE Queued(d) \/ PutBack(d)
  BY <1>1, <1>3 DEF Queued, PutBack
<1>4. CASE Attempted(d)
  <2>1. listed[d] = deliveries[d].attempts
    BY <1>4 DEF QueueInv, ListHolds, Tried, Attempted, ListShrinks
  <2> QED
    BY <1>1, <1>4, <2>1 DEF Attempted, Pending, Failed
<1>5. CASE Interrupted(d) \/ VouchedFor(d) \/ Reported(d)
  BY <1>1, <1>5 DEF Interrupted, VouchedFor, Reported, Pending, Failed
<1> QED
  BY <1>2, <1>3, <1>4, <1>5, MovedOrKept DEF Moved

\* A queued reply is unreported, and a failure that needs no report had one.
LEMMA ReportsStayHonest ==
  ASSUME QueueInv, [Next]_vars
  PROVE  QueuedIsUnreported' /\ NotifiedMeansReported'
<1> SUFFICES ASSUME NEW d \in Deliveries
             PROVE  /\ Pending(deliveries'[d]) => ~deliveries'[d].notified
                    /\ Failed(deliveries'[d]) /\ deliveries'[d].notified => alerted'[d]
  BY DEF QueuedIsUnreported, NotifiedMeansReported
<1>1. /\ Pending(deliveries[d]) => ~deliveries[d].notified
      /\ Failed(deliveries[d]) /\ deliveries[d].notified => alerted[d]
  BY DEF QueueInv, QueuedIsUnreported, NotifiedMeansReported
<1>2. CASE Kept(d) /\ alerted'[d] = alerted[d]
  BY <1>1, <1>2 DEF Kept, Pending, Failed
<1>3. CASE Queued(d) \/ PutBack(d) \/ VouchedFor(d)
  BY <1>3 DEF Queued, PutBack, VouchedFor, Pending, Failed
<1>4. CASE Attempted(d) \/ Interrupted(d)
  BY <1>1, <1>4 DEF Attempted, Interrupted, Pending, Failed
<1>5. CASE Reported(d)
  BY <1>1, <1>5 DEF Reported, Pending, Failed
<1> QED
  BY <1>2, <1>3, <1>4, <1>5, MovedOrKept DEF Moved

\* Deliveries are numbered in the order they were inserted.
LEMMA InsertionStaysInOrder ==
  ASSUME QueueInv, [Next]_vars
  PROVE  InsertedInOrder'
<1> SUFFICES ASSUME NEW d \in Deliveries, NEW e \in Deliveries, e < d,
                    deliveries'[e].status = "absent"
             PROVE  deliveries'[d].status = "absent"
  BY DEF InsertedInOrder
<1>1. deliveries[e].status = "absent"
  BY MovedOrKept DEF Kept, Moved, Queued, Attempted, Interrupted, PutBack, VouchedFor,
                     Reported, Pending, Failed
<1>2. deliveries[d].status = "absent"
  BY <1>1 DEF QueueInv, InsertedInOrder
<1>3. ~Queued(d)
  BY <1>1 DEF Queued, Deliveries
<1> QED
  BY <1>2, <1>3, MovedOrKept
  DEF Kept, Moved, Attempted, Interrupted, PutBack, VouchedFor, Reported, Pending, Failed

\* No request for a reply begins while an earlier one waits, unless that was put back.
LEMMA TurnsAreKept ==
  ASSUME QueueInv, [Next]_vars
  PROVE  InTurn'
<1> SUFFICES ASSUME NEW d \in Deliveries, NEW e \in Deliveries,
                    Earlier(e, d)', Begun(d)', Pending(deliveries'[e])
             PROVE  requeues'[e] > 0
  BY DEF InTurn
<1>0. /\ requeues \in [Deliveries -> Nat] /\ e < d
      /\ requeues' = requeues \/ \E f \in Deliveries : requeues' = [requeues EXCEPT ![f] = @ + 1]
  BY EveryStepMovesOne
  DEF QueueInv, IInv, TypeOK, Earlier, Rested, Accepted, AllKept, Moved, Queued, Attempted,
      Interrupted, PutBack, VouchedFor, Reported
<1>1. requeues[e] > 0 => requeues'[e] > 0
  BY <1>0
<1>2. deliveries[d].status # "absent"
  <2> SUFFICES ASSUME deliveries[d].status = "absent" PROVE FALSE
    OBVIOUS
  <2>1. ~(received[d] > 0) /\ ~(orphans[d] > 0)
    BY DEF QueueInv, IInv, RowsConsistent
  <2>2. d \notin Tried /\ d \notin FindPendingDeliveries
    BY DEF QueueInv, ListHolds, FindPendingDeliveries, FirstOf, Pending
  <2> QED
    BY <2>1, <2>2, OnlyFirstBegins DEF Begun
<1>3. deliveries[e].status # "absent"
  BY <1>0, <1>2 DEF QueueInv, InsertedInOrder
<1>4. Earlier(e, d)
  <2>1. \A f \in {d, e} : deliveries'[f].conversation = deliveries[f].conversation
    BY <1>2, <1>3, MovedOrKept
    DEF Kept, Moved, Queued, Attempted, Interrupted, PutBack, VouchedFor, Reported
  <2> QED
    BY <2>1 DEF Earlier
<1>5. CASE PutBack(e)
  BY <1>0, <1>5 DEF PutBack
<1>6. CASE ~PutBack(e)
  <2>1. Pending(deliveries[e])
    BY <1>3, <1>6, MovedOrKept
    DEF Kept, Moved, Queued, Attempted, Interrupted, VouchedFor, Reported, Pending, Failed
  <2>2. CASE Begun(d)
    BY <1>1, <1>4, <2>1, <2>2 DEF QueueInv, InTurn
  <2>3. CASE d \in FindPendingDeliveries
    BY <1>4, <2>1, <2>3 DEF FindPendingDeliveries, FirstOf
  <2> QED
    BY <2>2, <2>3, OnlyFirstBegins
<1> QED
  BY <1>5, <1>6

\* Every step keeps the second invariant.
LEMMA NextKeepsQueueInvariant == QueueInv /\ [Next]_vars => QueueInv'
<1> SUFFICES ASSUME QueueInv, [Next]_vars PROVE QueueInv'
  OBVIOUS
<1>1. IInv'
  BY NextKeepsInvariant DEF QueueInv
<1> QED
  BY <1>1, ListIsKept, OneClaimIsKept, RetriesStayBounded, ReportsStayHonest,
     InsertionStaysInOrder, TurnsAreKept
  DEF QueueInv

\* The second invariant holds in every reachable state.
LEMMA QueueInvariance == Spec => []QueueInv
BY InitQueueInvariant, NextKeepsQueueInvariant, PTL DEF Spec

-----------------------------------------------------------------------------
(* The queue implements its contract.                                      *)

\* The empty queue is an initial state of the contract.
LEMMA InitMeetsContract == Init => Contract!Init
<1>1. Phase(NoRow) = "unborn"
  BY DEF Phase, NoRow
<1> QED
  BY <1>1 DEF Init, Contract!Init

\* A row that only its bookkeeping columns changed stands where it stood.
LEMMA KeptPhase ==
  ASSUME NEW d \in Deliveries, Kept(d) \/ Reported(d)
  PROVE  Phase(deliveries'[d]) = Phase(deliveries[d])
BY DEF Kept, Reported, Phase

\* Moving one delivery changes the phase of that delivery only.
LEMMA MovedPhases ==
  ASSUME NEW d \in Deliveries, Moved(d)
  PROVE  [e \in Deliveries |-> Phase(deliveries'[e])]
           = [[e \in Deliveries |-> Phase(deliveries[e])]
                EXCEPT ![d] = Phase(deliveries'[d])]
<1>1. \A e \in Deliveries \ {d} : Phase(deliveries'[e]) = Phase(deliveries[e])
  BY KeptPhase DEF Moved, KeptBut
<1> QED
  BY <1>1

\* A copy can reach the client only while the contract still owes one.
LEMMA AcceptedIsOwed ==
  ASSUME QueueInv, NEW d \in Deliveries, Accepted(d), received' # received
  PROVE  /\ deliveries[d].status # "absent"
         /\ received[d] <= denied[d]
         /\ received' = [received EXCEPT ![d] = @ + 1]
<1>1. /\ received \in [Deliveries -> Nat] /\ received[d] \in Nat
      /\ orphans[d] \in Nat /\ denied[d] \in Nat
  BY DEF QueueInv, IInv, TypeOK
<1>2. InFlight(d) \/ orphans[d] > 0
  BY DEF Accepted, InFlight
<1>3. deliveries[d].status # "absent"
  BY <1>2 DEF InFlight, QueueInv, IInv, RowsConsistent, WorkerConsistent, Pending
<1>4. CASE IsTelegram(d)
  <2>1. Exposure(d) <= denied[d] + 1
    BY <1>1, <1>4 DEF QueueInv, IInv, ExposureAdmitted, Exposure
  <2>2. Exposure(d) >= received[d] + 1
    BY <1>1, <1>2 DEF Exposure
  <2>3. received[d] <= denied[d]
    BY <1>1, <2>1, <2>2 DEF Exposure
  <2> QED
    BY <1>3, <1>4, <2>3 DEF Accepted
<1>5. CASE ~IsTelegram(d)
  <2>1. received[d] <= 1 /\ received' = [received EXCEPT ![d] = 1]
    BY <1>5 DEF QueueInv, IInv, VkShowsOnce, Accepted
  <2>2. received[d] # 1
    BY <1>1, <2>1
  <2>3. received[d] = 0
    BY <1>1, <2>1, <2>2
  <2> QED
    BY <1>1, <1>3, <2>1, <2>3
<1> QED
  BY <1>4, <1>5

\* Every step of the queue is a step of the contract or a stutter.
LEMMA StepMeetsContract ==
  ASSUME QueueInv, [Next]_vars
  PROVE  [Contract!Next]_(Contract!vars)
<1> DEFINE phases == [d \in Deliveries |-> Phase(deliveries[d])]
<1>0. denied \in [Deliveries -> Nat]
  BY DEF QueueInv, IInv, TypeOK
<1>1. CASE Rested
  <2>1. UNCHANGED <<received, denied>> /\ \A d \in Deliveries : Kept(d)
    BY <1>1 DEF Rested, AllKept
  <2>2. phases' = phases
    BY <2>1, KeptPhase
  <2> QED
    BY <2>1, <2>2 DEF Contract!vars
<1>2. ASSUME NEW d \in Deliveries, Accepted(d)
      PROVE  [Contract!Next]_(Contract!vars)
  <2>1. UNCHANGED denied /\ \A e \in Deliveries : Kept(e)
    BY <1>2 DEF Accepted, AllKept
  <2>2. phases' = phases
    BY <2>1, KeptPhase
  <2>3. CASE received' = received
    BY <2>1, <2>2, <2>3 DEF Contract!vars
  <2>4. CASE received' # received
    <3>1. /\ deliveries[d].status # "absent" /\ received[d] <= denied[d]
          /\ received' = [received EXCEPT ![d] = @ + 1]
      BY <1>2, <2>4, AcceptedIsOwed
    <3>2. phases[d] # "unborn"
      <4>1. deliveries[d].status \in {"pending", "sent", "failed"}
        BY <3>1 DEF QueueInv, IInv, TypeOK, Row
      <4> QED
        BY <4>1 DEF Phase
    <3>3. Contract!Reach(d)
      BY <2>1, <2>2, <3>1, <3>2 DEF Contract!Reach
    <3> QED
      BY <3>3 DEF Contract!Next
  <2> QED
    BY <2>3, <2>4
<1>3. ASSUME NEW d \in Deliveries, Moved(d)
      PROVE  [Contract!Next]_(Contract!vars)
  <2> DEFINE from == Phase(deliveries[d])
             to == Phase(deliveries'[d])
  <2>1. phases' = [phases EXCEPT ![d] = to] /\ phases[d] = from
    BY <1>3, MovedPhases
  <2>2. received' = received
    BY <1>3 DEF Moved, Queued, Attempted, Interrupted, PutBack, VouchedFor, Reported
  <2>3. CASE Queued(d)
    <3>1. from = "unborn" /\ to = "queued" /\ denied' = denied
      BY <2>3 DEF Queued, Phase, Pending
    <3>2. Contract!Submit(d)
      BY <2>1, <2>2, <3>1 DEF Contract!Submit, Contract!Move
    <3> QED
      BY <3>2 DEF Contract!Next
  <2>4. CASE Attempted(d) \/ Interrupted(d)
    <3>1. from = "queued" /\ denied' = denied
      BY <2>4 DEF Attempted, Interrupted, Phase, Pending
    <3>2. \/ to = "queued"
          \/ to \in {"failed", "unsure"}
          \/ to = "delivered" /\ received[d] > 0
      BY <2>4 DEF Attempted, Interrupted, Phase, Pending, Failed
    <3>3. CASE to = "queued"
      BY <2>1, <2>2, <3>1, <3>3 DEF Contract!vars
    <3>4. CASE to \in {"failed", "unsure"}
      <4>1. Contract!GiveUp(d)
        BY <2>1, <2>2, <3>1, <3>4 DEF Contract!GiveUp, Contract!Move
      <4> QED
        BY <4>1 DEF Contract!Next
    <3>5. CASE to = "delivered" /\ received[d] > 0
      <4>1. Contract!Deliver(d)
        BY <2>1, <2>2, <3>1, <3>5 DEF Contract!Deliver, Contract!Move
      <4> QED
        BY <4>1 DEF Contract!Next
    <3> QED
      BY <3>2, <3>3, <3>4, <3>5
  <2>5. CASE PutBack(d)
    <3>1. to = "queued"
      BY <2>5 DEF PutBack, Phase, Pending
    <3>2. CASE deliveries[d].unknown
      <4>1. from = "unsure" /\ denied' = [denied EXCEPT ![d] = @ + 1]
        BY <2>5, <3>2 DEF PutBack, Phase, Failed
      <4>2. Contract!VouchNotReceived(d)
        BY <2>1, <2>2, <3>1, <4>1 DEF Contract!VouchNotReceived, Contract!Move
      <4> QED
        BY <4>2 DEF Contract!Next
    <3>3. CASE ~deliveries[d].unknown
      <4>1. from = "failed" /\ denied' = denied
        BY <2>5, <3>3 DEF PutBack, Phase, Failed
      <4>2. Contract!Retry(d)
        BY <2>1, <2>2, <3>1, <4>1 DEF Contract!Retry, Contract!Move
      <4> QED
        BY <4>2 DEF Contract!Next
    <3> QED
      BY <3>2, <3>3
  <2>6. CASE VouchedFor(d)
    <3>1. from = "unsure" /\ to = "delivered" /\ denied' = denied
      BY <2>6 DEF VouchedFor, Phase, Failed
    <3>2. Contract!VouchReceived(d)
      BY <2>1, <2>2, <3>1 DEF Contract!VouchReceived, Contract!Move
    <3> QED
      BY <3>2 DEF Contract!Next
  <2>7. CASE Reported(d)
    <3>1. to = from /\ denied' = denied
      BY <2>7, KeptPhase DEF Reported
    <3> QED
      BY <2>1, <2>2, <3>1 DEF Contract!vars
  <2> QED
    BY <1>3, <2>3, <2>4, <2>5, <2>6, <2>7 DEF Moved
<1> QED
  BY <1>1, <1>2, <1>3, EveryStepMovesOne

-----------------------------------------------------------------------------
(* Theorems.                                                               *)

\* Every variable keeps its type in every reachable state.
THEOREM TypeCorrectness == Spec => []TypeOK
<1>1. IInv => TypeOK
  BY DEF IInv
<1> QED
  BY <1>1, Invariance, PTL

\* Whatever is retried, lost, delayed, restarted or interrupted, a client sees a
\* reply at most once more than operators declared it "not received".
THEOREM AtMostOnceAlways == Spec => []AtMostOnce
<1>1. IInv => AtMostOnce
  <2> SUFFICES ASSUME IInv, NEW d \in Deliveries
               PROVE  received[d] <= 1 + denied[d]
    BY DEF AtMostOnce
  <2>1. /\ received[d] \in Nat /\ orphans[d] \in Nat /\ denied[d] \in Nat
    BY DEF IInv, TypeOK
  <2>2. CASE IsTelegram(d)
    BY <2>1, <2>2 DEF IInv, ExposureAdmitted, Exposure
  <2>3. CASE ~IsTelegram(d)
    BY <2>1, <2>3 DEF IInv, VkShowsOnce
  <2> QED
    BY <2>2, <2>3
<1> QED
  BY <1>1, Invariance, PTL

\* A Telegram reply that is queued, or that may be retried with one click, has
\* not reached the client beyond what operators vouched for.
THEOREM SafeToRetryAlways == Spec => []SafeToRetry
<1>1. IInv => SafeToRetry
  <2> SUFFICES ASSUME IInv, NEW d \in Deliveries, IsTelegram(d),
                      \/ Pending(deliveries[d]) /\ ~deliveries[d].claimed
                      \/ Failed(deliveries[d]) /\ ~deliveries[d].unknown
               PROVE  received[d] <= denied[d]
    BY DEF SafeToRetry
  <2>1. /\ received[d] \in Nat /\ orphans[d] \in Nat /\ denied[d] \in Nat
    BY DEF IInv, TypeOK
  <2>2. ~Admits(d)
    BY DEF IInv, RowsConsistent, Admits, Pending, Failed
  <2> QED
    BY <2>1, <2>2 DEF IInv, ExposureAdmitted, Exposure
<1> QED
  BY <1>1, Invariance, PTL

\* A reply marked sent is with the client, or an operator said that it is.
THEOREM SentMeansReceivedAlways == Spec => []SentMeansReceived
<1>1. IInv => SentMeansReceived
  BY DEF IInv
<1> QED
  BY <1>1, Invariance, PTL

\* No attempt is left half-way but the one the worker awaits, or the one of a
\* worker that has stopped.
THEOREM AttemptIsAwaitedAlways == Spec => []AttemptIsAwaited
<1>1. IInv => AttemptIsAwaited
  BY DEF IInv
<1> QED
  BY <1>1, Invariance, PTL

\* Although the policy counts from the row as it was listed, a reply is never
\* tried more often than the limit, and one that waits has attempts left.
THEOREM RetriesAreBoundedAlways == Spec => []RetriesAreBounded
<1>1. QueueInv => RetriesAreBounded
  BY DEF QueueInv
<1> QED
  BY <1>1, QueueInvariance, PTL

\* A failed reply that will not be reported again has been reported since it
\* last failed, whatever operators did while the report was awaited.
THEOREM NotifiedMeansReportedAlways == Spec => []NotifiedMeansReported
<1>1. QueueInv => NotifiedMeansReported
  BY DEF QueueInv
<1> QED
  BY <1>1, QueueInvariance, PTL

\* A client sees no reply while an earlier one of the conversation waits, unless
\* an operator put that one back into the queue.
THEOREM NoOvertakingAlways == Spec => []NoOvertaking
<1>1. QueueInv => NoOvertaking
  BY DEF QueueInv, InTurn, Begun, NoOvertaking
<1> QED
  BY <1>1, QueueInvariance, PTL

\* Every behaviour of the worker, the channels, the operators and the crashes is
\* one the contract allows, when each row stands for its phase.
THEOREM ContractIsImplemented == Spec => ImplementsContract
<1>1. Init => Contract!Init
  BY InitMeetsContract
<1>2. QueueInv /\ [Next]_vars => [Contract!Next]_(Contract!vars)
  BY StepMeetsContract
<1> QED
  BY <1>1, <1>2, QueueInvariance, PTL DEF Spec, ImplementsContract, Contract!Spec
=============================================================================
