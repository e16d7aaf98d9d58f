------------------------------- MODULE Handoff -------------------------------
(***************************************************************************)
(* The handoff of client messages to the operators: HandoffService with    *)
(* the SwitchableOperatorInbox, the TelegramTopicsInbox, the emergency web *)
(* inbox and the resolution of uncertain relays.                           *)
(*                                                                         *)
(* The Telegram poller and the VK poller each route one update at a time   *)
(* and run concurrently; web operators and the owner act over HTTP.  The   *)
(* code interleaves only where it awaits Telegram, so everything between   *)
(* two such awaits is one step.  It works on `db`, the SQLite tables.      *)
(*                                                                         *)
(* A request's own web topic `web:<request>` is WebTopic; Telegram topics  *)
(* are numbered as Telegram creates them.  A request's number gives its    *)
(* creation order.  Definitions marked "slip" are wrong variants of the    *)
(* definition that follows them; no specification uses them.               *)
(***************************************************************************)
EXTENDS Integers, FiniteSets, Sequences

CONSTANTS
  TelegramClients,  \* conversations of Telegram clients
  VkClients,        \* conversations of VK clients
  MaxMessages,      \* client messages are 1..MaxMessages
  MaxChunks,        \* Telegram messages the relay of a message takes at most
  MaxRequests,      \* bound: support requests ever created
  MaxTopics,        \* bound: forum topics ever created
  MaxCommands,      \* bound: operator updates and client resets
  Scenarios         \* environments to consider, see Scenario

Clients == TelegramClients \cup VkClients
Handlers == {"telegram", "vk"}
HandlerOf(c) == IF c \in TelegramClients THEN "telegram" ELSE "vk"

Messages == 1..MaxMessages
Requests == 1..MaxRequests
Topics == 1..MaxTopics
WebTopic == 0

\* operator_actions: <<r, m, 0>> opens request r for message m,
\* <<r, m, k>> relays chunk k of m to the topic of r.
ActionIds == Requests \X Messages \X (0..MaxChunks)

Kinds == {"reply", "/close", "/reopen", "topicClosed", "topicReopened",
          "newQuestion"}

Disturbances == {"disconnect", "crash"}

\* An environment: who writes each message and how many Telegram messages its
\* relay takes, how many messages and commands may come, and what may happen
\* besides client messages: operators' updates, resets, disconnections, crashes.
Scenario == [sender: [Messages -> Clients], chunks: [Messages -> 1..MaxChunks],
             messages: 0..MaxMessages, commands: 0..MaxCommands,
             inputs: SUBSET (Kinds \cup Disturbances)]

ASSUME HandoffAssumption ==
  /\ TelegramClients \cap VkClients = {}
  /\ MaxMessages \in Nat /\ MaxRequests \in Nat /\ MaxTopics \in Nat
  /\ MaxCommands \in Nat /\ MaxChunks \in Nat
  /\ Scenarios \subseteq Scenario

VARIABLES
  db,         \* the tables: requests, actions, messages, and what was queued
  stream,     \* updates that arrived for each poller, with their event status
  taken,      \* updates the running poller is past
  confirmed,  \* updates that will not be delivered again
  task,       \* what each poller awaits
  telegram,   \* the Telegram runtime: its inbox is registered while "connected",
              \* its poller ends the fetched batch while "stopping"
  topics,     \* forum topics created so far
  copies,     \* requests for each action that Telegram did not refuse
  scenario    \* the environment, the same from beginning to end

vars == <<db, stream, taken, confirmed, task, telegram, topics, copies, scenario>>

Sender == scenario.sender
Chunks == scenario.chunks
Inputs == scenario.inputs

-----------------------------------------------------------------------------
(* The tables.                                                             *)

\* A request is absent, active or closed; an action, the relay of one chunk of a
\* message, is absent, pending, sending, sent, confirmed (sent as an operator
\* says, without Telegram's number of it), failed, outcome_unknown or abandoned,
\* and initial if the message is the one that opened the request.
NoRequest == [status |-> "absent", client |-> "none", topic |-> WebTopic]
NoAction == [status |-> "absent", topic |-> WebTopic, initial |-> FALSE]

Exists(d, r) == d.requests[r].status # "absent"
Active(d, r) == d.requests[r].status = "active"
TopicOf(d, r) == d.requests[r].topic

\* The newest request of a set, 0 for none.
Newest(S) == IF S = {} THEN 0 ELSE CHOOSE r \in S : \A q \in S : q <= r

\* slip: the active request of any client.
FindActiveOfAnyone(d, c) == Newest({r \in Requests : Active(d, r)})

FindActiveRequest(d, c) ==
  Newest({r \in Requests : Active(d, r) /\ d.requests[r].client = c})

FindLatestRequest(d, c) ==
  Newest({r \in Requests : Exists(d, r) /\ d.requests[r].client = c})

\* An active request first, then the newest.
FindRequestByTopicId(d, t) ==
  LET on == {r \in Requests : Exists(d, r) /\ TopicOf(d, r) = t}
      active == {r \in on : Active(d, r)}
  IN  Newest(IF active # {} THEN active ELSE on)

CanReopenRequest(d, r) ==
  LET c == d.requests[r].client IN
  /\ FindLatestRequest(d, c) = r
  /\ FindActiveRequest(d, c) \in {0, r}

CloseRequest(d, r) == [d EXCEPT !.requests[r].status = "closed"]
ReopenRequest(d, r) == [d EXCEPT !.requests[r].status = "active"]

\* slip: nothing keeps a second request of the client from becoming active.
NoOtherRequestActive(d, r) == TRUE

\* The unique index one_active_request_per_conversation.
NoOtherActive(d, r) ==
  FindActiveRequest(d, d.requests[r].client) \in {0, r}

\* slip: the switch overwrites whatever happened since the topic was read.
CanSwitchAnyway(d, r, from) == TRUE

\* switchOperatorTopic's compare-and-set.
CanSwitch(d, r, from) == Active(d, r) /\ TopicOf(d, r) = from

\* The triggers operator_topic_conversation_insert and _update.
TopicIsFree(d, r, t) ==
  \A q \in Requests :
    Exists(d, q) /\ TopicOf(d, q) = t => d.requests[q].client = d.requests[r].client

SwitchOperatorTopic(d, r, to) == [d EXCEPT !.requests[r].topic = to]

RecordConversationMessage(d, r, m) ==
  [d EXCEPT !.messages = @ \cup {<<r, m>>}]
RecordWebTakeover(d, r) == [d EXCEPT !.takeovers = @ \cup {r}]
EnqueueHandoffAcknowledgement(d, r) == [d EXCEPT !.acked = @ \cup {r}]
EnqueueReply(d, t, r) == [d EXCEPT !.replies = @ \cup {<<t, r>>}]

SetAction(d, a, status) == [d EXCEPT !.actions[a].status = status]

\* Every chunk gets a row; chunks prepared before keep theirs, and the first
\* chunk's row decides whether the relay counts as the initial one.
PrepareRelay(d, r, m, t, initial) ==
  LET first == d.actions[<<r, m, 1>>]
      isInitial == IF first.status = "absent" THEN initial ELSE first.initial
  IN  [d EXCEPT !.actions =
         [a \in ActionIds |->
            IF /\ a[1] = r /\ a[2] = m /\ a[3] \in 1..Chunks[m]
               /\ @[a].status = "absent"
            THEN [status |-> "pending", topic |-> t, initial |-> isInitial]
            ELSE @[a]]]

-----------------------------------------------------------------------------
(* Pollers.  An update is redelivered until its poller has confirmed it;   *)
(* processed_events remembers what was claimed and completed.  An update   *)
(* has a kind, what it is of, the second it is from and the status of its  *)
(* event: none, processing or completed.                                   *)

NoTask == [pc |-> "idle", request |-> 0, message |-> 1, chunk |-> 0,
           topic |-> WebTopic, lost |-> FALSE]

Current(h) == stream[h][taken[h] + 1]

Arrived(kind, x) ==
  \E h \in Handlers : \E i \in 1..Len(stream[h]) :
    stream[h][i].kind = kind /\ stream[h][i].of = x

Commands == {x \in Handlers \X (1..MaxMessages + MaxCommands) :
               /\ x[2] <= Len(stream[x[1]])
               /\ stream[x[1]][x[2]].kind # "message"}

CompleteEvent(h) == [stream EXCEPT ![h][taken[h] + 1].status = "completed"]

\* handleEvent's two ends: the claim is completed, or released for a retry.
Finish(h, d) ==
  /\ db' = d
  /\ stream' = CompleteEvent(h)
  /\ taken' = [taken EXCEPT ![h] = @ + 1]
  /\ task' = [task EXCEPT ![h] = NoTask]

Fail(h, d) ==
  /\ db' = d
  /\ stream' = [stream EXCEPT ![h][taken[h] + 1].status = "none"]
  /\ task' = [task EXCEPT ![h] = NoTask]
  /\ UNCHANGED taken

Await(h, d, t) ==
  /\ db' = d
  /\ stream' = [stream EXCEPT ![h][taken[h] + 1].status = "processing"]
  /\ task' = [task EXCEPT ![h] = t]
  /\ UNCHANGED taken

-----------------------------------------------------------------------------
(* Relaying one message.                                                   *)

\* The emergency inbox took the message: the request moves to its web topic.
RelayToWeb(h, d, r, from) ==
  IF from = WebTopic THEN Finish(h, EnqueueHandoffAcknowledgement(d, r))
  ELSE IF CanSwitch(d, r, from)
       THEN Finish(h, EnqueueHandoffAcknowledgement(
                        RecordWebTakeover(
                          SwitchOperatorTopic(d, r, WebTopic), r), r))
  ELSE IF TopicOf(d, r) = WebTopic
       THEN Finish(h, EnqueueHandoffAcknowledgement(RecordWebTakeover(d, r), r))
  ELSE Fail(h, d)      \* the operator surface changed concurrently

\* slip: an uncertain chunk is offered to Telegram again.
MayBeSentBlindly(d, a) ==
  d.actions[a].status \in {"pending", "failed", "outcome_unknown"}

\* claimOperatorAction's condition.
MayBeSent(d, a) == d.actions[a].status \in {"pending", "failed"}

\* Resolved by an operator, a chunk has no message number to answer with and
\* cannot be claimed: for executeAction an error, like Telegram's refusal.
IsResolved(d, a) == d.actions[a].status \in {"confirmed", "abandoned"}

\* executeAction for chunk k and those after it: what was sent and what is
\* uncertain is passed over up to the first chunk that is to be sent or fails.
RelayChunks(h, d, r, m, t, k, lost) ==
  LET ends == {j \in k..Chunks[m] :
                 MayBeSent(d, <<r, m, j>>) \/ IsResolved(d, <<r, m, j>>)}
      next == CHOOSE j \in ends : \A i \in ends : j <= i
      passed == {j \in k..Chunks[m] : \A i \in ends : j < i}
      nowLost == lost \/ \E j \in passed :
                   d.actions[<<r, m, j>>].status \in {"outcome_unknown", "sending"}
  IN  IF ends # {} /\ MayBeSent(d, <<r, m, next>>)
      THEN Await(h, SetAction(d, <<r, m, next>>, "sending"),
                 [pc |-> "relaying", request |-> r, message |-> m,
                  chunk |-> next, topic |-> t, lost |-> nowLost])
      ELSE IF nowLost THEN Finish(h, d)
      ELSE IF ends # {} THEN RelayToWeb(h, d, r, t)
      ELSE Finish(h, EnqueueHandoffAcknowledgement(d, r))

RelayClientMessage(h, d, r, m, t, initial) ==
  LET e == RecordConversationMessage(d, r, m) IN
  IF t = WebTopic \/ telegram # "connected" THEN RelayToWeb(h, e, r, t)
  ELSE RelayChunks(h, PrepareRelay(e, r, m, t, initial), r, m, t, 1, FALSE)

RelayAccepted(h) ==
  /\ task[h].pc = "relaying"
  /\ LET r == task[h].request  m == task[h].message  k == task[h].chunk IN
       /\ RelayChunks(h, SetAction(db, <<r, m, k>>, "sent"), r, m,
                      task[h].topic, k + 1, task[h].lost)
       /\ copies' = [copies EXCEPT ![<<r, m, k>>] = @ + 1]
  /\ UNCHANGED <<confirmed, telegram, topics>>

\* No answer, or the answer could not be stored.
RelayUnanswered(h) ==
  /\ task[h].pc = "relaying"
  /\ LET r == task[h].request  m == task[h].message  k == task[h].chunk IN
       /\ RelayChunks(h, SetAction(db, <<r, m, k>>, "outcome_unknown"), r, m,
                      task[h].topic, k + 1, TRUE)
       /\ copies' = [copies EXCEPT ![<<r, m, k>>] = @ + 1]
  /\ UNCHANGED <<confirmed, telegram, topics>>

\* Telegram refused: an earlier uncertain chunk prevails, else the web inbox
\* takes the message over.
RelayRejected(h) ==
  /\ task[h].pc = "relaying"
  /\ LET r == task[h].request  m == task[h].message  k == task[h].chunk
         d == SetAction(db, <<r, m, k>>, "failed") IN
       IF task[h].lost THEN Finish(h, d) ELSE RelayToWeb(h, d, r, task[h].topic)
  /\ UNCHANGED <<confirmed, telegram, topics, copies>>

-----------------------------------------------------------------------------
(* Opening a request.                                                      *)

OpenClientRequest(h, d, m) ==
  LET c == Sender[m]
      latest == FindLatestRequest(d, c)
      reusable == IF latest = 0 THEN WebTopic ELSE TopicOf(d, latest)
      r == Newest({q \in Requests : Exists(d, q)}) + 1
      created == RecordConversationMessage(
                   [d EXCEPT !.requests[r] = [status |-> "active", client |-> c,
                                              topic |-> WebTopic]], r, m)
      opening == [created EXCEPT !.actions[<<r, m, 0>>] =
                    [status |-> "sending", topic |-> WebTopic, initial |-> TRUE]]
  IN  /\ r \in Requests
      /\ IF telegram = "connected"
         THEN Await(h, opening, [pc |-> "opening", request |-> r, message |-> m,
                                 chunk |-> 0, topic |-> reusable, lost |-> FALSE])
         ELSE RelayClientMessage(h, RecordWebTakeover(created, r), r, m,
                                 WebTopic, TRUE)

\* The previous topic was reopened, or was missing and a new one created.  The
\* request takes it over unless it changed while Telegram was awaited.
OpenAccepted(h) ==
  /\ task[h].pc = "opening"
  /\ LET r == task[h].request  m == task[h].message  a == <<r, m, 0>> IN
     /\ \E t \in ({task[h].topic} \ {WebTopic}) \cup ({topics + 1} \cap Topics) :
          /\ topics' = IF t > topics THEN t ELSE topics
          /\ IF CanSwitch(db, r, WebTopic) /\ TopicIsFree(db, r, t)
             THEN RelayClientMessage(
                    h, SetAction(SwitchOperatorTopic(db, r, t), a, "sent"),
                    r, m, t, TRUE)
             ELSE Finish(h, EnqueueHandoffAcknowledgement(
                              RecordWebTakeover(
                                SetAction(db, a, "outcome_unknown"), r), r))
     /\ copies' = [copies EXCEPT ![a] = @ + 1]
  /\ UNCHANGED <<confirmed, telegram>>

\* A topic created without an answer stays unknown to the program.
OpenUnanswered(h) ==
  /\ task[h].pc = "opening"
  /\ LET r == task[h].request  a == <<r, task[h].message, 0>> IN
       /\ Finish(h, EnqueueHandoffAcknowledgement(
                      RecordWebTakeover(
                        SetAction(db, a, "outcome_unknown"), r), r))
       /\ copies' = [copies EXCEPT ![a] = @ + 1]
  /\ UNCHANGED <<confirmed, telegram, topics>>

OpenRejected(h) ==
  /\ task[h].pc = "opening"
  /\ LET r == task[h].request  m == task[h].message IN
       RelayClientMessage(
         h, RecordWebTakeover(SetAction(db, <<r, m, 0>>, "failed"), r),
         r, m, WebTopic, TRUE)
  /\ UNCHANGED <<confirmed, telegram, topics, copies>>

-----------------------------------------------------------------------------
(* Routing one update.                                                     *)

ProcessClientMessage(h, m) ==
  LET r == FindActiveRequest(db, Sender[m]) IN
  IF r = 0 THEN OpenClientRequest(h, db, m)
  ELSE LET t == TopicOf(db, r)
           d == IF t = WebTopic THEN RecordWebTakeover(db, r) ELSE db
       IN  RelayClientMessage(h, d, r, m, t, FALSE)

\* closeForumTopic is awaited; whatever it answers, the event completes.
AwaitTopicClosed(h, d, r) ==
  Await(h, d, [NoTask EXCEPT !.pc = "closing", !.request = r])

HandleOperatorUpdate(h, e) ==
  LET r == FindRequestByTopicId(db, e.of) IN
  CASE r = 0 -> Finish(h, db)
    [] r # 0 /\ e.kind = "reply" ->
         Finish(h, IF Active(db, r) THEN EnqueueReply(db, e.of, r) ELSE db)
    [] r # 0 /\ e.kind = "/close" -> AwaitTopicClosed(h, CloseRequest(db, r), r)
    [] r # 0 /\ e.kind = "/reopen" ->
         IF CanReopenRequest(db, r)
         THEN Await(h, db, [NoTask EXCEPT !.pc = "reopening", !.request = r])
         ELSE AwaitTopicClosed(h, db, r)
    [] r # 0 /\ e.kind = "topicClosed" ->
         Finish(h, IF r <= e.at THEN CloseRequest(db, r) ELSE db)
    [] r # 0 /\ e.kind = "topicReopened" ->
         IF CanReopenRequest(db, r) THEN Finish(h, ReopenRequest(db, r))
         ELSE AwaitTopicClosed(h, db, r)

\* The client's "new question" button, in Telegram only: the request is closed,
\* its topic first, then the menu's answer to the client is awaited.
AwaitMenuAnswer(h, d) == Await(h, d, [NoTask EXCEPT !.pc = "answering"])

ResetConversation(h, c) ==
  LET r == FindActiveRequest(db, c) IN
  IF r = 0 THEN AwaitMenuAnswer(h, db)
  ELSE IF TopicOf(db, r) = WebTopic THEN AwaitMenuAnswer(h, CloseRequest(db, r))
  ELSE Await(h, db, [NoTask EXCEPT !.pc = "resetting", !.request = r])

\* slip: an update that was handled already is handled again.
RouteAnyUpdate(h) ==
  LET e == Current(h) IN
  CASE e.kind = "message" -> ProcessClientMessage(h, e.of)
    [] e.kind = "newQuestion" -> ResetConversation(h, e.of)
    [] e.kind \notin {"message", "newQuestion"} -> HandleOperatorUpdate(h, e)

\* handleEvent first claims the event: one that was claimed before is skipped.
RouteUpdate(h) ==
  LET e == Current(h) IN
  CASE e.status # "none" ->
         taken' = [taken EXCEPT ![h] = @ + 1] /\ UNCHANGED <<db, stream, task>>
    [] e.status = "none" /\ e.kind = "message" ->
         ProcessClientMessage(h, e.of)
    [] e.status = "none" /\ e.kind = "newQuestion" ->
         ResetConversation(h, e.of)
    [] e.status = "none" /\ e.kind \notin {"message", "newQuestion"} ->
         HandleOperatorUpdate(h, e)

\* VK's stored event is deleted before the next one is read.
TakeUpdate(h) ==
  /\ task[h].pc = "idle" /\ taken[h] < Len(stream[h])
  /\ h = "telegram" => telegram # "disconnected"
  /\ RouteUpdate(h)
  /\ confirmed' = IF h = "vk" THEN [confirmed EXCEPT ![h] = taken[h]] ELSE confirmed
  /\ UNCHANGED <<telegram, topics, copies>>

\* The next getUpdates tells Telegram what has been handled.
ConfirmUpdates(h) ==
  /\ task[h].pc = "idle" /\ confirmed[h] < taken[h]
  /\ h = "telegram" => telegram = "connected"
  /\ confirmed' = [confirmed EXCEPT ![h] = taken[h]]
  /\ UNCHANGED <<db, stream, taken, task, telegram, topics, copies>>

TopicCloseAnswered(h) ==
  /\ task[h].pc = "closing"
  /\ Finish(h, db)
  /\ UNCHANGED <<confirmed, telegram, topics, copies>>

\* Whether or not Telegram reopened the topic (the fallback always succeeds).
ReopenAnswered(h) ==
  /\ task[h].pc = "reopening"
  /\ LET r == task[h].request IN
       IF NoOtherActive(db, r) THEN Finish(h, ReopenRequest(db, r)) ELSE Fail(h, db)
  /\ UNCHANGED <<confirmed, telegram, topics, copies>>

\* The topic was closed or is gone, or Telegram's answer is an error.
ResetAnswered(h) ==
  /\ task[h].pc = "resetting"
  /\ \/ AwaitMenuAnswer(h, CloseRequest(db, task[h].request))
     \/ Fail(h, db)
  /\ UNCHANGED <<confirmed, telegram, topics, copies>>

MenuAnswered(h) ==
  /\ task[h].pc = "answering"
  /\ Finish(h, db) \/ Fail(h, db)
  /\ UNCHANGED <<confirmed, telegram, topics, copies>>

-----------------------------------------------------------------------------
(* The owner and the web operators, over HTTP, at any await.               *)

InWeb(r) == Active(db, r) /\ TopicOf(db, r) = WebTopic

OnlyTables(d) ==
  /\ db' = d
  /\ UNCHANGED <<stream, taken, confirmed, task, telegram, topics, copies>>

WebReply(r) ==
  "reply" \in Inputs /\ InWeb(r) /\ OnlyTables(EnqueueReply(db, WebTopic, r))

WebClose(r) ==
  "/close" \in Inputs /\ InWeb(r) /\ OnlyTables(CloseRequest(db, r))

Unknown(d, r, m) ==
  \E k \in 0..Chunks[m] : d.actions[<<r, m, k>>].status = "outcome_unknown"

Uncertain(a) == db.actions[a].status = "outcome_unknown"

\* confirmOperatorActionReceived's condition: a relay none of whose siblings
\* is still to be sent.
CanConfirm(d, a) ==
  /\ a[3] > 0
  /\ \A b \in ActionIds :
       b[1] = a[1] /\ b[2] = a[2] /\ b # a =>
         d.actions[b].status \notin {"pending", "sending", "failed"}

\* slip: one confirmed chunk is taken for the whole message.
ConfirmOneChunk(a) ==
  /\ Uncertain(a) /\ CanConfirm(db, a)
  /\ LET d == SetAction(db, a, "confirmed") IN
       OnlyTables(IF d.actions[a].initial
                  THEN EnqueueHandoffAcknowledgement(d, a[1]) ELSE d)

ConfirmReceived(a) ==
  /\ Uncertain(a) /\ CanConfirm(db, a)
  /\ LET d == SetAction(db, a, "confirmed") IN
       OnlyTables(IF d.actions[a].initial /\ ~Unknown(d, a[1], a[2])
                  THEN EnqueueHandoffAcknowledgement(d, a[1]) ELSE d)

\* resolveOperatorActionAsWeb: nothing of the message is uncertain any more.
ResolveAsWeb(d, a) ==
  [d EXCEPT !.actions =
     [b \in ActionIds |->
        IF b[1] = a[1] /\ b[2] = a[2] /\ Uncertain(b)
        THEN [@[b] EXCEPT !.status = "abandoned"] ELSE @[b]]]

\* moveOperatorActionRequestToWeb's condition.
CanMoveToWeb(d, a) ==
  /\ Active(d, a[1])
  /\ TopicOf(d, a[1]) \in {WebTopic, d.actions[a].topic}

MoveToWeb(a) ==
  /\ Uncertain(a) /\ CanMoveToWeb(db, a)
  /\ LET moved == SwitchOperatorTopic(db, a[1], WebTopic)
         told == IF db.actions[a].initial
                 THEN EnqueueHandoffAcknowledgement(moved, a[1]) ELSE moved
     IN  OnlyTables(RecordWebTakeover(ResolveAsWeb(told, a), a[1]))

-----------------------------------------------------------------------------
(* The environment.                                                        *)

Arrive(h, kind, x, at) ==
  /\ stream' = [stream EXCEPT ![h] =
                  Append(@, [kind |-> kind, of |-> x, at |-> at, status |-> "none"])]
  /\ UNCHANGED <<db, taken, confirmed, task, telegram, topics, copies>>

\* Messages of one client arrive in the order of their numbers.
ClientWrites(m) ==
  /\ ~Arrived("message", m) /\ m <= scenario.messages
  /\ \A n \in Messages :
       n < m /\ Sender[n] = Sender[m] => Arrived("message", n)
  /\ Arrive(HandlerOf(Sender[m]), "message", m, 0)

OperatorWrites(kind, t) ==
  /\ kind \in Inputs /\ t <= topics
  /\ Cardinality(Commands) < scenario.commands
  /\ Arrive("telegram", kind, t, 0)

\* A topic's closing carries its second: the requests created by then, and the
\* one that may be created within the same second.
OperatorClosesTopic(t) ==
  /\ "topicClosed" \in Inputs /\ t <= topics
  /\ Cardinality(Commands) < scenario.commands
  /\ LET created == Newest({r \in Requests : Exists(db, r)}) IN
       \E at \in {created, created + 1} : Arrive("telegram", "topicClosed", t, at)

ClientResets(c) ==
  /\ "newQuestion" \in Inputs
  /\ Cardinality(Commands) < scenario.commands
  /\ Arrive("telegram", "newQuestion", c, 0)

SetTelegram(state) ==
  /\ telegram' = state
  /\ UNCHANGED <<db, stream, confirmed, task, topics, copies>>

Connect ==
  /\ telegram = "disconnected"
  /\ SetTelegram("connected") /\ UNCHANGED taken

Disconnect ==
  /\ "disconnect" \in Inputs /\ telegram = "connected"
  /\ SetTelegram("stopping") /\ UNCHANGED taken

\* The poller has ended; the next one is given what was not confirmed.
Stopped ==
  /\ telegram = "stopping" /\ task["telegram"].pc = "idle"
  /\ SetTelegram("disconnected")
  /\ taken' = [taken EXCEPT !["telegram"] = confirmed["telegram"]]

-----------------------------------------------------------------------------
\* markInterruptedOperatorActionsUnknown.
RecoverActions(d) ==
  [d EXCEPT !.actions =
     [a \in ActionIds |-> IF @[a].status = "sending"
                          THEN [@[a] EXCEPT !.status = "outcome_unknown"]
                          ELSE @[a]]]

\* slip: a claim outlives the process that made it.
ReleaseNoEvents(events) == events

\* releaseInterruptedEvents.
ReleaseEvents(events) ==
  [i \in 1..Len(events) |->
     IF events[i].status = "processing" THEN [events[i] EXCEPT !.status = "none"]
     ELSE events[i]]

\* A request that was awaited may have been accepted all the same.
CrashAndRestart ==
  /\ "crash" \in Inputs
  /\ db' = RecoverActions(db)
  /\ copies' = [a \in ActionIds |->
                  copies[a] + IF db.actions[a].status = "sending" THEN 1 ELSE 0]
  /\ stream' = [h \in Handlers |-> ReleaseEvents(stream[h])]
  /\ taken' = confirmed
  /\ task' = [h \in Handlers |-> NoTask]
  /\ telegram' \in {"connected", "disconnected"}
  /\ UNCHANGED <<confirmed, topics>>

Init ==
  /\ db = [requests |-> [r \in Requests |-> NoRequest],
           actions |-> [a \in ActionIds |-> NoAction],
           messages |-> {}, takeovers |-> {}, acked |-> {}, replies |-> {}]
  /\ stream = [h \in Handlers |-> <<>>]
  /\ taken = [h \in Handlers |-> 0]
  /\ confirmed = [h \in Handlers |-> 0]
  /\ task = [h \in Handlers |-> NoTask]
  /\ telegram = "connected"
  /\ topics = 0
  /\ copies = [a \in ActionIds |-> 0]
  /\ scenario \in Scenarios

Answer(h) ==
  \/ RelayAccepted(h) \/ RelayUnanswered(h) \/ RelayRejected(h)
  \/ OpenAccepted(h) \/ OpenUnanswered(h) \/ OpenRejected(h)
  \/ TopicCloseAnswered(h) \/ ReopenAnswered(h) \/ ResetAnswered(h)
  \/ MenuAnswered(h)

Act ==
  \/ \E h \in Handlers : TakeUpdate(h) \/ ConfirmUpdates(h) \/ Answer(h)
  \/ \E m \in Messages : ClientWrites(m)
  \/ \E t \in Topics :
       \/ \E kind \in Kinds \ {"topicClosed", "newQuestion"} : OperatorWrites(kind, t)
       \/ OperatorClosesTopic(t)
  \/ \E c \in TelegramClients : ClientResets(c)
  \/ \E r \in Requests : WebReply(r) \/ WebClose(r)
  \/ \E a \in ActionIds : ConfirmReceived(a) \/ MoveToWeb(a)
  \/ Connect \/ Disconnect \/ Stopped
  \/ CrashAndRestart

Next == Act /\ UNCHANGED scenario

Spec == Init /\ [][Next]_vars

\* Telegram answers or the request fails, and the process stays up long enough
\* to get on with each update every now and then.
Fairness ==
  /\ \A h \in Handlers :
       /\ \A i \in 1..MaxMessages + MaxCommands :
            SF_vars(TakeUpdate(h) /\ taken[h] + 1 = i /\ UNCHANGED scenario)
       /\ SF_vars(Answer(h) /\ UNCHANGED scenario)
  /\ WF_vars((Connect \/ Stopped) /\ UNCHANGED scenario)

FairSpec == Spec /\ Fairness

-----------------------------------------------------------------------------
\* "An active conversation is handled either in Telegram or in the web inbox,
\* never in both at once": at most one place accepts a reply for a client.
Surfaces(c) ==
  {t \in Topics : LET r == FindRequestByTopicId(db, t) IN
                    r # 0 /\ Active(db, r) /\ db.requests[r].client = c}
  \cup {0 - r : r \in {q \in Requests : InWeb(q) /\ db.requests[q].client = c}}

HandledInOnePlace == \A c \in Clients : Cardinality(Surfaces(c)) <= 1

\* A reply typed in a Telegram topic goes to the client whose messages stand
\* there: topics are reused, switched and given up, never shared.
TopicIsPrivate ==
  \A reply \in db.replies : \A a \in ActionIds :
    /\ reply[1] # WebTopic
    /\ db.actions[a].topic = reply[1] /\ copies[a] > 0
    => Sender[a[2]] = db.requests[reply[2]].client

\* Telegram gets no part of a message again after a request it may have
\* accepted: not after a crash, a redelivered update or a lost answer.
RelayedOnce == \A a \in ActionIds : copies[a] <= 1

Sent(d, r, m) ==
  \A k \in 1..Chunks[m] : d.actions[<<r, m, k>>].status \in {"sent", "confirmed"}

Completes(h, i) ==
  /\ stream'[h][i].kind = "message" /\ stream'[h][i].status = "completed"
  /\ stream[h][i].status # "completed"

\* A message whose update is completed is with the operators: it stands in the
\* topic, in the web inbox or among the uncertain relays, or was in the web
\* inbox until they closed the request there.
NothingLost ==
  [][\A h \in Handlers : \A i \in 1..Len(stream[h]) :
       Completes(h, i) =>
         LET m == stream[h][i].of IN
         \E r \in Requests :
           /\ <<r, m>> \in db'.messages
           /\ \/ Active(db', r) /\ TopicOf(db', r) = WebTopic
              \/ Unknown(db', r, m)
              \/ Sent(db', r, m)
              \/ <<r, m>> \in db.messages /\ TopicOf(db, r) = WebTopic]_vars

\* A client is told "your question was sent" only if operators have one of the
\* messages, in the topic or in the web inbox; and a client whose message is done
\* with has been told so, or an uncertain relay of the request is to be resolved.
\* (Not for a request reopened beside a newer one, see OlderStaysClosed.)
AcknowledgementIsHonest ==
  /\ \A r \in db.acked :
       \/ r \in db.takeovers
       \/ \E m \in Messages : Sent(db, r, m)
  /\ \A h \in Handlers : \A i \in 1..Len(stream[h]) :
       LET e == stream[h][i] IN
       e.kind = "message" /\ e.status = "completed" =>
         \E r \in Requests :
           /\ <<r, e.of>> \in db.messages
           /\ \/ r \in db.acked
              \/ \E m \in Messages : Unknown(db, r, m)
              \/ FindLatestRequest(db, Sender[e.of]) # r

\* Nothing more happens in the name of a message once its update is done with:
\* a redelivered update opens no request and sends nothing.
CompletedIsFinal ==
  [][\A h \in Handlers : \A i \in 1..Len(stream[h]) :
       stream[h][i].kind = "message" /\ stream[h][i].status = "completed" =>
         LET m == stream[h][i].of IN
         /\ \A r \in Requests : <<r, m>> \in db'.messages => <<r, m>> \in db.messages
         /\ \A a \in ActionIds : a[2] = m => copies'[a] = copies[a]]_vars

\* "Manual resolution for uncertain Telegram outcomes": each uncertain action
\* can be confirmed or moved to the web inbox.
IncidentsCanBeResolved ==
  \A a \in ActionIds : Uncertain(a) => CanConfirm(db, a) \/ CanMoveToWeb(db, a)

\* "Keeps an older duplicate topic closed": a request is not active while the
\* client has a newer one.
OlderStaysClosed ==
  \A r \in Requests :
    Active(db, r) => FindLatestRequest(db, db.requests[r].client) = r

\* A message that arrived is eventually done with, whatever crashes meanwhile.
EventuallyHandled ==
  \A m \in Messages :
    Arrived("message", m) ~>
      \E h \in Handlers : \E i \in 1..Len(stream[h]) :
        stream[h][i].kind = "message" /\ stream[h][i].of = m
        /\ stream[h][i].status = "completed"
=============================================================================
