---------------------------- MODULE HandoffProofs ----------------------------
(***************************************************************************)
(* Proofs about Handoff, for any clients, messages, requests and topics    *)
(* and any environment.                                                    *)
(*                                                                         *)
(* The properties speak of the tables, but what keeps them true are the    *)
(* pollers: a row that is being sent is awaited by exactly the poller that *)
(* claimed the message's update, so no answer is counted twice; and each   *)
(* forum topic has one client for ever, whatever became of his requests.   *)
(* Who that is the tables do not always tell (a request may have moved to  *)
(* the web inbox since), so the invariant says that there is an assignment *)
(* of owners to topics that everything stored agrees with.                 *)
(*                                                                         *)
(* HandoffFits is that invariant for given owners and HandoffInv hides     *)
(* them.  The lemmas go from the statements on the tables (...Keep) over   *)
(* the relay to one lemma per action (...Fits).                            *)
(***************************************************************************)
EXTENDS Handoff, FiniteSetTheorems, SequenceTheorems, WellFoundedInduction, TLAPS

-----------------------------------------------------------------------------
(* The state the invariants speak of.                                      *)

Places == Topics \cup {WebTopic}

RequestRow == [status: {"absent", "active", "closed"},
               client: Clients \cup {"none"}, topic: Places]

Statuses == {"absent", "pending", "sending", "sent", "confirmed", "failed",
             "outcome_unknown", "abandoned"}

ActionRow == [status: Statuses, topic: Places, initial: BOOLEAN]

Tables == [requests: [Requests -> RequestRow], actions: [ActionIds -> ActionRow],
           messages: SUBSET (Requests \X Messages),
           takeovers: SUBSET Requests, acked: SUBSET Requests,
           replies: SUBSET (Places \X Requests)]

Event == [kind: Kinds \cup {"message"}, of: Messages \cup Topics \cup Clients, at: Nat,
          status: {"none", "processing", "completed"}]

TaskRow == [pc: {"idle", "relaying", "opening", "closing", "reopening", "resetting",
                 "answering"},
            request: Requests \cup {0}, message: Nat, chunk: Nat, topic: Places,
            lost: BOOLEAN]

HandoffTyped ==
  /\ db \in Tables
  /\ stream \in [Handlers -> Seq(Event)]
  /\ taken \in [Handlers -> Nat] /\ confirmed \in [Handlers -> Nat]
  /\ \A h \in Handlers : confirmed[h] <= taken[h] /\ taken[h] <= Len(stream[h])
  /\ task \in [Handlers -> TaskRow]
  /\ telegram \in {"connected", "stopping", "disconnected"}
  /\ topics \in 0..MaxTopics
  /\ copies \in [ActionIds -> Nat]
  /\ scenario \in Scenario

\* Updates: a message comes to the poller of its client, and once.
UpdatesFit ==
  \A h \in Handlers : \A i \in 1..Len(stream[h]) :
    LET e == stream[h][i] IN
    /\ e.kind = "message" =>
         /\ e.of \in Messages /\ HandlerOf(Sender[e.of]) = h
         /\ \A j \in 1..Len(stream[h]) :
              stream[h][j].kind = "message" /\ stream[h][j].of = e.of => j = i
    /\ e.kind = "newQuestion" => e.of \in Clients
    /\ e.kind \notin {"message", "newQuestion"} => e.of \in Topics

\* Telegram may have a chunk only when its row says so.
CopiesFit(d, c) ==
  \A a \in ActionIds :
    /\ c[a] <= 1
    /\ d.actions[a].status \in {"absent", "pending", "failed", "sending"} => c[a] = 0

\* Rows of actions and messages are about a request of the message's sender.
RowsFit(d) ==
  /\ \A a \in ActionIds :
       d.actions[a].status # "absent" =>
         /\ Exists(d, a[1]) /\ Sender[a[2]] = d.requests[a[1]].client
         /\ a[3] <= Chunks[a[2]]
  /\ \A x \in d.messages : Exists(d, x[1]) /\ Sender[x[2]] = d.requests[x[1]].client
  /\ \A x \in d.replies : Exists(d, x[2])
  /\ \A r \in Requests : Exists(d, r) => d.requests[r].client \in Clients

OneActive(d) ==
  \A q, r \in Requests :
    Active(d, q) /\ Active(d, r) /\ d.requests[q].client = d.requests[r].client => q = r

\* Each of the n topics belongs to one client, whatever became of his requests.
Owners == [Topics -> Clients \cup {"none"}]
MayUse(t, c, owner, n) == t # WebTopic => t <= n /\ owner[t] = c

TopicsFit(d, owner, n) ==
  /\ \A r \in Requests :
       Exists(d, r) => MayUse(TopicOf(d, r), d.requests[r].client, owner, n)
  /\ \A a \in ActionIds :
       d.actions[a].status # "absent" =>
         MayUse(d.actions[a].topic, Sender[a[2]], owner, n)
  /\ \A x \in d.replies : MayUse(x[1], d.requests[x[2]].client, owner, n)

TablesFit(d, c, owner, n) ==
  /\ d \in Tables /\ CopiesFit(d, c) /\ RowsFit(d) /\ OneActive(d) /\ TopicsFit(d, owner, n)

\* What a poller awaits is about the update it has claimed.
Working(h) == task[h].pc \in {"relaying", "opening"}
Awaited(h) == <<task[h].request, task[h].message, task[h].chunk>>
Sending(d) == {a \in ActionIds : d.actions[a].status = "sending"}

TaskFits(h, owner) ==
  /\ task[h].pc # "idle" =>
       taken[h] < Len(stream[h]) /\ Current(h).status = "processing"
  /\ task[h].pc # "idle" /\ ~Working(h) =>
       /\ Current(h).kind # "message"
       /\ task[h].pc # "answering" => Exists(db, task[h].request) /\ task[h].request \in Requests
  /\ Working(h) =>
       LET r == task[h].request  m == task[h].message IN
       /\ Current(h).kind = "message" /\ Current(h).of = m
       /\ Awaited(h) \in Sending(db)
       /\ IF task[h].pc = "opening" THEN task[h].chunk = 0 ELSE task[h].chunk \in 1..Chunks[m]
       /\ Exists(db, r) /\ db.requests[r].client = Sender[m]
       /\ <<r, m>> \in db.messages
       /\ MayUse(task[h].topic, Sender[m], owner, topics)

SendingIsAwaited ==
  \A a \in Sending(db) : \E h \in Handlers : Working(h) /\ Awaited(h) = a

HandoffFits(owner) ==
  /\ HandoffTyped /\ UpdatesFit /\ SendingIsAwaited
  /\ TablesFit(db, copies, owner, topics)
  /\ \A h \in Handlers : TaskFits(h, owner)

HandoffInv == \E owner \in Owners : HandoffFits(owner)

-----------------------------------------------------------------------------
(* Lemmas about the operators of the tables.                               *)

\* What every environment provides.
LEMMA ScenarioFacts ==
  ASSUME scenario \in Scenario
  PROVE  /\ Sender \in [Messages -> Clients]
         /\ Chunks \in [Messages -> 1..MaxChunks]
         /\ MaxChunks \in Nat /\ MaxMessages \in Nat /\ MaxRequests \in Nat /\ MaxTopics \in Nat
         /\ scenario.messages \in Nat
BY HandoffAssumption DEF Scenario, Sender, Chunks

\* A set of naturals has a least element,
LEMMA HasMinimum ==
  ASSUME NEW T \in SUBSET Nat, T # {}
  PROVE  \E x \in T : \A y \in T : x <= y
<1> DEFINE R == OpToRel(<, Nat)
<1>1. IsWellFoundedOn(R, Nat)
  BY NatLessThanWellFounded
<1>2. \A x, y \in Nat : <<y, x>> \in R <=> y < x
  BY DEF OpToRel
<1> HIDE DEF R
<1>3. PICK x \in T : \A y \in T : ~(<<y, x>> \in R)
  BY <1>1, WFMin
<1>4. ASSUME NEW y \in T
      PROVE  x <= y
  <2>1. x \in Nat /\ y \in Nat
    OBVIOUS
  <2>2. ~(y < x)
    BY <1>2, <1>3, <2>1
  <2> QED
    BY <2>1, <2>2
<1> QED
  BY <1>4

\* and, if it is bounded, a greatest one.
LEMMA HasMaximum ==
  ASSUME NEW N \in Nat, NEW T \in SUBSET (0..N), T # {}
  PROVE  \E x \in T : \A y \in T : y <= x
<1> DEFINE U == {N - x : x \in T}
<1>1. U \in SUBSET Nat /\ U # {}
  <2>1. ASSUME NEW x \in T
        PROVE  N - x \in Nat
    <3>1. x \in 0..N
      OBVIOUS
    <3> QED
      BY <3>1
  <2>2. U \in SUBSET Nat
    BY <2>1
  <2>3. PICK x : x \in T
    OBVIOUS
  <2>4. N - x \in U
    BY <2>3
  <2> QED
    BY <2>2, <2>4
<1>2. PICK u \in U : \A v \in U : u <= v
  BY <1>1, HasMinimum
<1>3. PICK x \in T : u = N - x
  BY <1>2
<1>4. \A y \in T : N - y \in U
  OBVIOUS
<1> HIDE DEF U
<1>5. ASSUME NEW y \in T
      PROVE  y <= x
  <2>1. N - x <= N - y
    BY <1>2, <1>3, <1>4
  <2>2. x \in Int /\ y \in Int
    OBVIOUS
  <2> QED
    BY <2>1, <2>2
<1> QED
  BY <1>5

\* Newest is the greatest request of a set, and 0 of the empty set.
LEMMA NewestIs ==
  ASSUME NEW S \in SUBSET Requests
  PROVE  /\ S = {} => Newest(S) = 0
         /\ S # {} => Newest(S) \in S /\ \A q \in S : q <= Newest(S)
         /\ Newest(S) \in 0..MaxRequests
<1>1. MaxRequests \in Nat /\ Requests = 1..MaxRequests
  BY HandoffAssumption DEF Requests
<1>2. CASE S = {}
  BY <1>1, <1>2 DEF Newest
<1>3. CASE S # {}
  <2>1. \E x \in S : \A y \in S : y <= x
    <3>1. S \in SUBSET (0..MaxRequests)
      BY <1>1
    <3> QED
      BY <1>1, <1>3, <3>1, HasMaximum
  <2>2. Newest(S) \in S /\ \A q \in S : q <= Newest(S)
    BY <1>3, <2>1 DEF Newest
  <2>3. Newest(S) \in 1..MaxRequests
    BY <1>1, <2>2
  <2> QED
    BY <1>1, <1>3, <2>2, <2>3
<1> QED
  BY <1>2, <1>3

\* Requests found are requests asked for; 0 is none.
LEMMA FoundActive ==
  ASSUME NEW d, NEW c
  PROVE  LET r == FindActiveRequest(d, c) IN
         /\ r \in Requests \cup {0}
         /\ r # 0 => Active(d, r) /\ d.requests[r].client = c
         /\ r = 0 => \A q \in Requests : Active(d, q) => d.requests[q].client # c
<1> DEFINE S == {r \in Requests : Active(d, r) /\ d.requests[r].client = c}
<1>1. 0 \notin Requests
  BY DEF Requests
<1>2. FindActiveRequest(d, c) = Newest(S)
  BY DEF FindActiveRequest
<1>3. /\ S = {} => Newest(S) = 0
      /\ S # {} => Newest(S) \in S
  BY NewestIs
<1> QED
  BY <1>1, <1>2, <1>3

\* No request of the client is newer than the latest one.
LEMMA FoundLatest ==
  ASSUME NEW d, NEW c
  PROVE  LET r == FindLatestRequest(d, c) IN
         /\ r \in Requests \cup {0}
         /\ r # 0 => Exists(d, r) /\ d.requests[r].client = c
         /\ \A q \in Requests : Exists(d, q) /\ d.requests[q].client = c => q <= r
<1> DEFINE S == {r \in Requests : Exists(d, r) /\ d.requests[r].client = c}
<1>1. FindLatestRequest(d, c) = Newest(S)
  BY DEF FindLatestRequest
<1>2. /\ S = {} => Newest(S) = 0
      /\ S # {} => Newest(S) \in S /\ \A q \in S : q <= Newest(S)
  BY NewestIs
<1>3. \A q \in Requests : q \in S <=> Exists(d, q) /\ d.requests[q].client = c
  OBVIOUS
<1>4. 0 \notin Requests
  BY DEF Requests
<1> HIDE DEF S
<1>5. S \in SUBSET Requests
  BY DEF S
<1>6. CASE S = {}
  BY <1>1, <1>2, <1>3, <1>6
<1>7. CASE S # {}
  <2>1. Newest(S) \in S /\ Newest(S) \in Requests /\ \A q \in S : q <= Newest(S)
    BY <1>2, <1>5, <1>7
  <2> QED
    BY <1>1, <1>3, <1>4, <2>1
<1> QED
  BY <1>6, <1>7

\* The request found by a topic stands in that topic.
LEMMA FoundByTopic ==
  ASSUME NEW d, NEW t
  PROVE  LET r == FindRequestByTopicId(d, t) IN
         /\ r \in Requests \cup {0}
         /\ r # 0 => Exists(d, r) /\ TopicOf(d, r) = t
<1> DEFINE on == {r \in Requests : Exists(d, r) /\ TopicOf(d, r) = t}
           active == {r \in on : Active(d, r)}
<1>1. /\ FindRequestByTopicId(d, t) = Newest(IF active # {} THEN active ELSE on)
      /\ active \in SUBSET Requests /\ on \in SUBSET Requests
  BY DEF FindRequestByTopicId
<1>2. /\ active = {} => Newest(active) = 0
      /\ active # {} => Newest(active) \in active
      /\ on = {} => Newest(on) = 0
      /\ on # {} => Newest(on) \in on
  BY <1>1, NewestIs
<1> QED
  BY <1>1, <1>2 DEF Requests

\* The number of a new request is not in use.
LEMMA Fresh ==
  ASSUME NEW d
  PROVE  LET r == Newest({q \in Requests : Exists(d, q)}) + 1 IN r \in Requests => ~Exists(d, r)
<1> DEFINE S == {q \in Requests : Exists(d, q)}
<1>1. /\ S = {} => Newest(S) = 0
      /\ S # {} => Newest(S) \in S /\ \A q \in S : q <= Newest(S)
      /\ Newest(S) \in 0..MaxRequests
  BY NewestIs
<1>2. \A q \in Requests : Exists(d, q) => q \in S
  OBVIOUS
<1> HIDE DEF S
<1>3. Newest(S) \in Int
  BY <1>1
<1>4. Newest(S) + 1 \in Requests => ~Exists(d, Newest(S) + 1)
  BY <1>1, <1>2, <1>3 DEF Requests
<1> QED
  BY <1>4 DEF S

\* The columns each statement changes.
LEMMA SetActionIs ==
  ASSUME NEW d \in Tables, NEW a \in ActionIds, NEW s \in Statuses
  PROVE  LET e == SetAction(d, a, s) IN
         /\ e \in Tables /\ e.requests = d.requests /\ e.messages = d.messages
         /\ e.takeovers = d.takeovers /\ e.acked = d.acked /\ e.replies = d.replies
         /\ e.actions[a].status = s /\ e.actions[a].topic = d.actions[a].topic
         /\ e.actions[a].initial = d.actions[a].initial
         /\ \A b \in ActionIds \ {a} : e.actions[b] = d.actions[b]
<1> DEFINE row == [d.actions[a] EXCEPT !.status = s]
           e == SetAction(d, a, s)
<1>1. e = [d EXCEPT !.actions = [d.actions EXCEPT ![a] = row]]
  BY DEF SetAction
<1>2. d.actions[a] \in ActionRow /\ d.actions \in [ActionIds -> ActionRow]
  BY DEF Tables
<1>3. row \in ActionRow /\ row.status = s /\ row.topic = d.actions[a].topic
      /\ row.initial = d.actions[a].initial
  BY <1>2 DEF ActionRow
<1> HIDE DEF row
<1>4. [d.actions EXCEPT ![a] = row] \in [ActionIds -> ActionRow]
  BY <1>2, <1>3
<1>5. e \in Tables
  BY <1>1, <1>4 DEF Tables
<1>6. /\ e.requests = d.requests /\ e.messages = d.messages
      /\ e.takeovers = d.takeovers /\ e.acked = d.acked /\ e.replies = d.replies
      /\ e.actions = [d.actions EXCEPT ![a] = row]
  BY <1>1 DEF Tables
<1> QED
  BY <1>2, <1>3, <1>5, <1>6

\* Writing the row of a request changes nothing else.
LEMMA RequestsSet ==
  ASSUME NEW d \in Tables, NEW r \in Requests, NEW row \in RequestRow
  PROVE  LET e == [d EXCEPT !.requests[r] = row] IN
         /\ e \in Tables /\ e.actions = d.actions /\ e.messages = d.messages
         /\ e.takeovers = d.takeovers /\ e.acked = d.acked /\ e.replies = d.replies
         /\ e.requests[r] = row
         /\ \A q \in Requests \ {r} : e.requests[q] = d.requests[q]
<1> DEFINE rows == [d.requests EXCEPT ![r] = row]
           e == [d EXCEPT !.requests[r] = row]
<1>1. d.requests \in [Requests -> RequestRow]
  BY DEF Tables
<1>2. rows \in [Requests -> RequestRow] /\ rows[r] = row
      /\ \A q \in Requests \ {r} : rows[q] = d.requests[q]
  BY <1>1
<1>3. e = [d EXCEPT !.requests = rows]
  OBVIOUS
<1> HIDE DEF rows
<1>4. e \in Tables
  BY <1>2, <1>3 DEF Tables
<1>5. /\ e.actions = d.actions /\ e.messages = d.messages
      /\ e.takeovers = d.takeovers /\ e.acked = d.acked /\ e.replies = d.replies
      /\ e.requests = rows
  BY <1>3 DEF Tables
<1> QED
  BY <1>2, <1>4, <1>5

-----------------------------------------------------------------------------
(* The poller's bookkeeping.                                               *)

Marked(h, s) == stream' = [stream EXCEPT ![h][taken[h] + 1].status = s]

Ended(h) ==
  /\ task' = [task EXCEPT ![h] = NoTask]
  /\ \/ Marked(h, "completed") /\ taken' = [taken EXCEPT ![h] = @ + 1]
     \/ Marked(h, "none") /\ UNCHANGED taken

Awaiting(h, t) ==
  task' = [task EXCEPT ![h] = t] /\ Marked(h, "processing") /\ UNCHANGED taken

\* Marking an update changes its status only.
LEMMA MarkedUpdate ==
  ASSUME HandoffTyped, NEW h \in Handlers, taken[h] < Len(stream[h]),
         NEW s \in {"none", "processing", "completed"}, Marked(h, s)
  PROVE  /\ stream' \in [Handlers -> Seq(Event)]
         /\ \A g \in Handlers : Len(stream'[g]) = Len(stream[g])
         /\ \A g \in Handlers : \A i \in 1..Len(stream[g]) :
              /\ stream'[g][i].kind = stream[g][i].kind
              /\ stream'[g][i].of = stream[g][i].of
              /\ ~(g = h /\ i = taken[h] + 1) => stream'[g][i] = stream[g][i]
         /\ stream'[h][taken[h] + 1].status = s
<1> DEFINE n == taken[h] + 1
           e == [stream[h][n] EXCEPT !.status = s]
           seq == [stream[h] EXCEPT ![n] = e]
<1>1. /\ stream \in [Handlers -> Seq(Event)] /\ stream[h] \in Seq(Event)
      /\ taken[h] \in Nat /\ Len(stream[h]) \in Nat
  BY DEF HandoffTyped
<1>2. n \in 1..Len(stream[h])
  BY <1>1
<1>3. stream[h][n] \in Event
  BY <1>1, <1>2, ElementOfSeq
<1>4. e \in Event /\ e.kind = stream[h][n].kind /\ e.of = stream[h][n].of /\ e.status = s
  BY <1>3 DEF Event
<1>5. stream' = [stream EXCEPT ![h] = seq]
  BY DEF Marked
<1> HIDE DEF e, n
<1>6. /\ seq \in Seq(Event) /\ Len(seq) = Len(stream[h])
      /\ \A j \in 1..Len(stream[h]) : seq[j] = IF j = n THEN e ELSE stream[h][j]
  BY <1>1, <1>2, <1>4, ExceptSeq
<1> HIDE DEF seq
<1>7. /\ stream'[h] = seq /\ \A g \in Handlers \ {h} : stream'[g] = stream[g]
      /\ stream' \in [Handlers -> Seq(Event)]
  BY <1>1, <1>5, <1>6
<1>8. ASSUME NEW g \in Handlers, NEW i \in 1..Len(stream[g])
      PROVE  /\ stream'[g][i].kind = stream[g][i].kind
             /\ stream'[g][i].of = stream[g][i].of
             /\ ~(g = h /\ i = n) => stream'[g][i] = stream[g][i]
  <2>1. CASE g = h
    BY <1>4, <1>6, <1>7, <2>1
  <2>2. CASE g # h
    BY <1>7, <2>2
  <2> QED
    BY <2>1, <2>2
<1>9. stream'[h][n].status = s
  BY <1>2, <1>4, <1>6, <1>7
<1>10. \A g \in Handlers : Len(stream'[g]) = Len(stream[g])
  BY <1>6, <1>7
<1> QED
  BY <1>7, <1>8, <1>9, <1>10 DEF n

\* A handler's step on its update.
Progress(h) ==
  /\ taken[h] < Len(stream[h])
  /\ \/ Ended(h)
     \/ \E t \in TaskRow : t.pc # "idle" /\ Awaiting(h, t)

\* A poller's step marks its own update and moves its own position and task.
LEMMA ProgressFacts ==
  ASSUME HandoffTyped, NEW h \in Handlers, Progress(h)
  PROVE  /\ stream' \in [Handlers -> Seq(Event)]
         /\ taken' \in [Handlers -> Nat] /\ task' \in [Handlers -> TaskRow]
         /\ \A g \in Handlers : Len(stream'[g]) = Len(stream[g]) /\ taken'[g] <= Len(stream'[g])
         /\ \A g \in Handlers : taken[g] <= taken'[g]
         /\ \A g \in Handlers : \A i \in 1..Len(stream[g]) :
              /\ stream'[g][i].kind = stream[g][i].kind
              /\ stream'[g][i].of = stream[g][i].of
         /\ \A g \in Handlers \ {h} :
              task'[g] = task[g] /\ taken'[g] = taken[g] /\ stream'[g] = stream[g]
         /\ \/ Ended(h) /\ task'[h] = NoTask
            \/ \E t \in TaskRow :
                 /\ t.pc # "idle" /\ Awaiting(h, t) /\ task'[h] = t /\ taken'[h] = taken[h]
                 /\ stream'[h][taken[h] + 1].status = "processing"
<1>0. /\ taken \in [Handlers -> Nat] /\ task \in [Handlers -> TaskRow]
      /\ stream \in [Handlers -> Seq(Event)]
      /\ \A g \in Handlers : taken[g] \in Nat /\ taken[g] <= Len(stream[g]) /\ Len(stream[g]) \in Nat
      /\ taken[h] < Len(stream[h])
  BY DEF HandoffTyped, Progress
<1>1. PICK s \in {"none", "processing", "completed"} : Marked(h, s)
  BY DEF Progress, Ended, Awaiting
<1>2. /\ stream' \in [Handlers -> Seq(Event)]
      /\ \A g \in Handlers : Len(stream'[g]) = Len(stream[g])
      /\ \A g \in Handlers : \A i \in 1..Len(stream[g]) :
              /\ stream'[g][i].kind = stream[g][i].kind
              /\ stream'[g][i].of = stream[g][i].of
              /\ ~(g = h /\ i = taken[h] + 1) => stream'[g][i] = stream[g][i]
  BY <1>0, <1>1, MarkedUpdate
<1>3. \A g \in Handlers \ {h} : stream'[g] = stream[g]
  BY <1>0, <1>1 DEF Marked
<1>4. NoTask \in TaskRow
  BY DEF NoTask, TaskRow, Places
<1>5. CASE Ended(h)
  <2>1. /\ taken' \in [Handlers -> Nat] /\ task' \in [Handlers -> TaskRow] /\ task'[h] = NoTask
        /\ \A g \in Handlers \ {h} : task'[g] = task[g] /\ taken'[g] = taken[g]
        /\ taken'[h] \in {taken[h], taken[h] + 1}
    <3>1. /\ task' \in [Handlers -> TaskRow] /\ task'[h] = NoTask
          /\ \A g \in Handlers \ {h} : task'[g] = task[g]
      BY <1>0, <1>4, <1>5 DEF Ended
    <3>2. taken' = [taken EXCEPT ![h] = taken[h] + 1] \/ taken' = taken
      BY <1>5 DEF Ended
    <3>3. taken[h] + 1 \in Nat
      BY <1>0
    <3>4. /\ taken' \in [Handlers -> Nat] /\ taken'[h] \in {taken[h], taken[h] + 1}
          /\ \A g \in Handlers \ {h} : taken'[g] = taken[g]
      BY <1>0, <3>2, <3>3
    <3> QED
      BY <3>1, <3>4
  <2>2. ASSUME NEW g \in Handlers
        PROVE  taken[g] <= taken'[g] /\ taken'[g] <= Len(stream'[g])
    <3>1. /\ taken[g] \in Nat /\ Len(stream[g]) \in Nat /\ taken[g] <= Len(stream[g])
          /\ taken[h] < Len(stream[h])
      BY <1>0
    <3>2. Len(stream'[g]) = Len(stream[g])
      BY <1>2
    <3>3. CASE g = h
      BY <2>1, <3>1, <3>2, <3>3
    <3>4. CASE g # h
      BY <2>1, <3>1, <3>2, <3>4
    <3> QED
      BY <3>3, <3>4
  <2> QED
    BY <1>2, <1>3, <1>5, <2>1, <2>2
<1>6. CASE \E t \in TaskRow : t.pc # "idle" /\ Awaiting(h, t)
  <2>1. PICK t \in TaskRow : t.pc # "idle" /\ Awaiting(h, t)
    BY <1>6
  <2>2. /\ task' \in [Handlers -> TaskRow] /\ task'[h] = t /\ taken' = taken
        /\ \A g \in Handlers \ {h} : task'[g] = task[g]
    BY <1>0, <2>1 DEF Awaiting
  <2>3. stream'[h][taken[h] + 1].status = "processing"
    BY <1>0, <2>1, MarkedUpdate DEF Awaiting
  <2>4. /\ taken' \in [Handlers -> Nat]
        /\ \A g \in Handlers : taken'[g] = taken[g]
        /\ \A g \in Handlers : taken[g] <= taken'[g] /\ taken'[g] <= Len(stream'[g])
    <3>1. taken' \in [Handlers -> Nat] /\ \A g \in Handlers : taken'[g] = taken[g]
      BY <1>0, <2>2
    <3>2. ASSUME NEW g \in Handlers
          PROVE  taken[g] <= taken'[g] /\ taken'[g] <= Len(stream'[g])
      <4>1. taken[g] \in Nat /\ taken[g] <= Len(stream[g]) /\ taken'[g] = taken[g]
        BY <1>0, <2>2
      <4>2. Len(stream'[g]) = Len(stream[g])
        BY <1>2
      <4> QED
        BY <4>1, <4>2
    <3> QED
      BY <3>1, <3>2
  <2>5. \A g \in Handlers \ {h} :
           task'[g] = task[g] /\ taken'[g] = taken[g] /\ stream'[g] = stream[g]
    BY <1>3, <2>2, <2>4
  <2>6. \A g \in Handlers : Len(stream'[g]) = Len(stream[g]) /\ taken'[g] <= Len(stream'[g])
    BY <1>2, <2>4
  <2>7. \A g \in Handlers : \A i \in 1..Len(stream[g]) :
           /\ stream'[g][i].kind = stream[g][i].kind
           /\ stream'[g][i].of = stream[g][i].of
    BY <1>2
  <2>8. \E u \in TaskRow :
           /\ u.pc # "idle" /\ Awaiting(h, u) /\ task'[h] = u /\ taken'[h] = taken[h]
           /\ stream'[h][taken[h] + 1].status = "processing"
    BY <2>1, <2>2, <2>3
  <2> QED
    BY <1>2, <2>2, <2>4, <2>5, <2>6, <2>7, <2>8
<1> QED
  BY <1>5, <1>6 DEF Progress

\* What UpdatesFit says does not depend on statuses.
LEMMA UpdatesKept ==
  ASSUME HandoffTyped, UpdatesFit, NEW h \in Handlers, Progress(h), scenario' = scenario
  PROVE  UpdatesFit'
<1>1. \A g \in Handlers : /\ Len(stream'[g]) = Len(stream[g])
                          /\ \A i \in 1..Len(stream[g]) :
                               /\ stream'[g][i].kind = stream[g][i].kind
                               /\ stream'[g][i].of = stream[g][i].of
  BY ProgressFacts
<1>2. Sender' = Sender
  BY DEF Sender
<1> QED
  BY <1>1, <1>2 DEF UpdatesFit, HandlerOf

-----------------------------------------------------------------------------
(* What a change of the tables has to respect.                             *)

\* Requests stay, and stay their client's; messages stay recorded.
Follows(d, e) ==
  /\ \A r \in Requests :
       Exists(d, r) => Exists(e, r) /\ e.requests[r].client = d.requests[r].client
  /\ d.messages \subseteq e.messages

\* What follows a follower follows.
LEMMA FollowsTransitive ==
  ASSUME NEW d, NEW e, NEW f, Follows(d, e), Follows(e, f)
  PROVE  Follows(d, f)
BY DEF Follows

\* Notes about who was told or moved to the web inbox do not matter here.
LEMMA ToldKeeps ==
  ASSUME NEW d, NEW c, NEW owner, NEW n, NEW e \in Tables, TablesFit(d, c, owner, n),
         e.requests = d.requests, e.actions = d.actions, e.messages = d.messages,
         e.replies = d.replies
  PROVE  TablesFit(e, c, owner, n) /\ Follows(d, e) /\ Sending(e) = Sending(d)
<1>1. CopiesFit(e, c)
  BY DEF TablesFit, CopiesFit
<1>2. RowsFit(e)
  BY DEF TablesFit, RowsFit, Exists
<1>3. OneActive(e)
  BY DEF TablesFit, OneActive, Active
<1>4. TopicsFit(e, owner, n)
  BY DEF TablesFit, TopicsFit, Exists, TopicOf
<1> QED
  BY <1>1, <1>2, <1>3, <1>4 DEF TablesFit, Follows, Exists, Sending

\* A message is recorded for a request of its sender.
LEMMA MessageKeeps ==
  ASSUME NEW d, NEW c, NEW owner, NEW n, NEW r \in Requests, NEW m \in Messages,
         TablesFit(d, c, owner, n), Exists(d, r), d.requests[r].client = Sender[m]
  PROVE  LET e == RecordConversationMessage(d, r, m) IN
         /\ TablesFit(e, c, owner, n) /\ Follows(d, e) /\ Sending(e) = Sending(d)
         /\ e.requests = d.requests /\ e.actions = d.actions
         /\ e.messages = d.messages \cup {<<r, m>>}
<1> DEFINE e == RecordConversationMessage(d, r, m)
<1>1. d \in Tables
  BY DEF TablesFit
<1>2. /\ e \in Tables /\ e.requests = d.requests /\ e.actions = d.actions
      /\ e.replies = d.replies /\ e.messages = d.messages \cup {<<r, m>>}
  BY <1>1 DEF RecordConversationMessage, Tables
<1> HIDE DEF e
<1>3. CopiesFit(e, c)
  BY <1>2 DEF TablesFit, CopiesFit
<1>4. RowsFit(e)
  BY <1>2 DEF TablesFit, RowsFit, Exists
<1>5. OneActive(e)
  BY <1>2 DEF TablesFit, OneActive, Active
<1>6. TopicsFit(e, owner, n)
  BY <1>2 DEF TablesFit, TopicsFit, Exists, TopicOf
<1>7. TablesFit(e, c, owner, n) /\ Follows(d, e) /\ Sending(e) = Sending(d)
  BY <1>2, <1>3, <1>4, <1>5, <1>6 DEF TablesFit, Follows, Exists, Sending
<1> QED
  BY <1>2, <1>7 DEF e

\* A request's row is added or changed: it keeps its client, takes a topic of
\* that client, and becomes active beside no other request of the client.
LEMMA RequestKeeps ==
  ASSUME NEW d, NEW c, NEW owner, NEW n, NEW r \in Requests, NEW row \in RequestRow,
         TablesFit(d, c, owner, n),
         row.status # "absent", row.client \in Clients,
         Exists(d, r) => row.client = d.requests[r].client,
         MayUse(row.topic, row.client, owner, n),
         row.status = "active" =>
           \A q \in Requests \ {r} : Active(d, q) => d.requests[q].client # row.client
  PROVE  LET e == [d EXCEPT !.requests[r] = row] IN
         /\ TablesFit(e, c, owner, n) /\ Follows(d, e) /\ Sending(e) = Sending(d)
         /\ e.requests[r] = row /\ e.actions = d.actions /\ e.messages = d.messages
         /\ \A q \in Requests \ {r} : e.requests[q] = d.requests[q]
<1> DEFINE e == [d EXCEPT !.requests[r] = row]
<1>1. /\ e \in Tables /\ e.actions = d.actions /\ e.messages = d.messages
      /\ e.replies = d.replies /\ e.requests[r] = row
      /\ \A q \in Requests \ {r} : e.requests[q] = d.requests[q]
  BY RequestsSet DEF TablesFit
<1> HIDE DEF e
<1>2. CopiesFit(e, c)
  BY <1>1 DEF TablesFit, CopiesFit
<1>3. \A q \in Requests : Exists(d, q) =>
        Exists(e, q) /\ e.requests[q].client = d.requests[q].client
  BY <1>1 DEF Exists
<1>4. RowsFit(e)
  <2>1. ASSUME NEW a \in ActionIds, e.actions[a].status # "absent"
        PROVE  /\ Exists(e, a[1]) /\ Sender[a[2]] = e.requests[a[1]].client
               /\ a[3] <= Chunks[a[2]]
    BY <1>1, <1>3, <2>1 DEF TablesFit, RowsFit, ActionIds
  <2>2. ASSUME NEW x \in e.messages
        PROVE  Exists(e, x[1]) /\ Sender[x[2]] = e.requests[x[1]].client
    BY <1>1, <1>3, <2>2 DEF TablesFit, RowsFit, Tables
  <2>3. ASSUME NEW x \in e.replies
        PROVE  Exists(e, x[2])
    BY <1>1, <1>3, <2>3 DEF TablesFit, RowsFit, Tables
  <2>4. ASSUME NEW q \in Requests, Exists(e, q)
        PROVE  e.requests[q].client \in Clients
    BY <1>1, <2>4 DEF TablesFit, RowsFit, Exists
  <2> QED
    BY <2>1, <2>2, <2>3, <2>4 DEF RowsFit
<1>5. OneActive(e)
  <2> SUFFICES ASSUME NEW q \in Requests, NEW p \in Requests, Active(e, q), Active(e, p),
                      e.requests[q].client = e.requests[p].client
               PROVE  q = p
    BY DEF OneActive
  <2>1. CASE q = r \/ p = r
    BY <1>1, <2>1 DEF Active
  <2>2. CASE q # r /\ p # r
    BY <1>1, <2>2 DEF TablesFit, OneActive, Active
  <2> QED
    BY <2>1, <2>2
<1>6. TopicsFit(e, owner, n)
  <2>1. ASSUME NEW q \in Requests, Exists(e, q)
        PROVE  MayUse(TopicOf(e, q), e.requests[q].client, owner, n)
    BY <1>1, <2>1 DEF TablesFit, TopicsFit, Exists, TopicOf
  <2>2. ASSUME NEW x \in e.replies
        PROVE  MayUse(x[1], e.requests[x[2]].client, owner, n)
    BY <1>1, <1>3, <2>2 DEF TablesFit, TopicsFit, RowsFit, Tables
  <2>3. \A a \in ActionIds : e.actions[a].status # "absent" =>
          MayUse(e.actions[a].topic, Sender[a[2]], owner, n)
    BY <1>1 DEF TablesFit, TopicsFit
  <2> QED
    BY <2>1, <2>2, <2>3 DEF TopicsFit
<1>7. TablesFit(e, c, owner, n) /\ Follows(d, e) /\ Sending(e) = Sending(d)
  BY <1>1, <1>2, <1>3, <1>4, <1>5, <1>6 DEF TablesFit, Follows, Sending
<1> QED
  BY <1>1, <1>7 DEF e

\* Rows of actions are added or changed, and requests to Telegram counted.
LEMMA ActionsKeep ==
  ASSUME NEW d, NEW c, NEW owner, NEW n, NEW e \in Tables, NEW c2,
         TablesFit(d, c, owner, n),
         e.requests = d.requests, e.messages = d.messages, e.replies = d.replies,
         \A a \in ActionIds :
           \/ e.actions[a] = d.actions[a] /\ c2[a] = c[a]
           \/ /\ e.actions[a].status # "absent" /\ Exists(d, a[1])
              /\ Sender[a[2]] = d.requests[a[1]].client /\ a[3] <= Chunks[a[2]]
              /\ MayUse(e.actions[a].topic, Sender[a[2]], owner, n)
              /\ c2[a] <= 1
              /\ e.actions[a].status \in {"pending", "failed", "sending"} => c2[a] = 0
  PROVE  TablesFit(e, c2, owner, n) /\ Follows(d, e)
<1>1. CopiesFit(e, c2)
  BY DEF TablesFit, CopiesFit
<1>2. RowsFit(e)
  BY DEF TablesFit, RowsFit, Exists
<1>3. OneActive(e)
  BY DEF TablesFit, OneActive, Active
<1>4. TopicsFit(e, owner, n)
  BY DEF TablesFit, TopicsFit, Exists, TopicOf
<1> QED
  BY <1>1, <1>2, <1>3, <1>4 DEF TablesFit, Follows, Exists

\* A reply is recorded at the request's topic or in the web inbox.
LEMMA ReplyKeeps ==
  ASSUME NEW d, NEW c, NEW owner, NEW n, NEW r \in Requests, NEW t \in Places,
         TablesFit(d, c, owner, n), Exists(d, r), t \in {TopicOf(d, r), WebTopic}
  PROVE  LET e == EnqueueReply(d, t, r) IN
         TablesFit(e, c, owner, n) /\ Follows(d, e) /\ Sending(e) = Sending(d)
<1> DEFINE e == EnqueueReply(d, t, r)
<1>1. d \in Tables
  BY DEF TablesFit
<1>2. /\ e \in Tables /\ e.requests = d.requests /\ e.actions = d.actions
      /\ e.messages = d.messages /\ e.replies = d.replies \cup {<<t, r>>}
  BY <1>1 DEF EnqueueReply, Tables
<1> HIDE DEF e
<1>3. CopiesFit(e, c)
  BY <1>2 DEF TablesFit, CopiesFit
<1>4. RowsFit(e)
  BY <1>2 DEF TablesFit, RowsFit, Exists
<1>5. OneActive(e)
  BY <1>2 DEF TablesFit, OneActive, Active
<1>6. TopicsFit(e, owner, n)
  <2>1. ASSUME NEW x \in e.replies
        PROVE  MayUse(x[1], e.requests[x[2]].client, owner, n)
    <3>1. CASE x \in d.replies
      BY <1>2, <3>1 DEF TablesFit, TopicsFit
    <3>2. CASE x = <<t, r>>
      BY <1>2, <3>2 DEF TablesFit, TopicsFit, MayUse
    <3> QED
      BY <1>2, <3>1, <3>2
  <2> QED
    BY <1>2, <2>1 DEF TablesFit, TopicsFit, Exists, TopicOf
<1>7. TablesFit(e, c, owner, n) /\ Follows(d, e) /\ Sending(e) = Sending(d)
  BY <1>2, <1>3, <1>4, <1>5, <1>6 DEF TablesFit, Follows, Exists, Sending
<1> QED
  BY <1>7 DEF e

\* A new topic is its client's.
LEMMA TopicAdded ==
  ASSUME NEW d, NEW c, NEW owner \in Owners, NEW n \in Nat, NEW client \in Clients,
         TablesFit(d, c, owner, n), n + 1 \in Topics
  PROVE  LET more == [owner EXCEPT ![n + 1] = client] IN
         /\ more \in Owners /\ TablesFit(d, c, more, n + 1)
         /\ \A t \in Places : \A x : MayUse(t, x, owner, n) => MayUse(t, x, more, n + 1)
         /\ MayUse(n + 1, client, more, n + 1)
<1> DEFINE more == [owner EXCEPT ![n + 1] = client]
<1>1. /\ more \in Owners /\ more[n + 1] = client
      /\ \A t \in Topics : t # n + 1 => more[t] = owner[t]
  BY DEF Owners
<1>2. \A t \in Places : t # WebTopic => t \in Topics /\ t \in Int
  BY DEF Places, Topics
<1> HIDE DEF more
<1>3. \A t \in Places : \A x : MayUse(t, x, owner, n) => MayUse(t, x, more, n + 1)
  <2> TAKE t \in Places
  <2> TAKE x
  <2>1. CASE t = WebTopic
    BY <2>1 DEF MayUse
  <2>2. CASE t # WebTopic
    <3>1. t \in Topics /\ t \in Int
      BY <1>2, <2>2
    <3>2. t <= n => t # n + 1 /\ t <= n + 1
      BY <3>1
    <3> QED
      BY <1>1, <3>1, <3>2 DEF MayUse
  <2> QED
    BY <2>1, <2>2
<1>4. MayUse(n + 1, client, more, n + 1)
  BY <1>1 DEF MayUse
<1>5. TopicsFit(d, more, n + 1)
  <2>1. /\ \A r \in Requests : TopicOf(d, r) \in Places
        /\ \A a \in ActionIds : d.actions[a].topic \in Places
        /\ \A x \in d.replies : x[1] \in Places
    BY DEF TablesFit, Tables, RequestRow, ActionRow, TopicOf
  <2> QED
    BY <1>3, <2>1 DEF TablesFit, TopicsFit
<1>6. TablesFit(d, c, more, n + 1)
  BY <1>5 DEF TablesFit
<1> QED
  BY <1>1, <1>3, <1>4, <1>6 DEF more

-----------------------------------------------------------------------------
(* The statements a relay is made of.                                      *)

\* A topic given to the request, or its web topic.
LEMMA SwitchKeeps ==
  ASSUME NEW d, NEW c, NEW owner, NEW n, NEW r \in Requests, NEW t \in Places,
         TablesFit(d, c, owner, n), Exists(d, r),
         MayUse(t, d.requests[r].client, owner, n)
  PROVE  LET e == SwitchOperatorTopic(d, r, t) IN
         /\ TablesFit(e, c, owner, n) /\ Follows(d, e) /\ Sending(e) = Sending(d)
         /\ e.requests[r].status = d.requests[r].status /\ e.requests[r].topic = t
         /\ e.requests[r].client = d.requests[r].client
         /\ e.actions = d.actions /\ e.messages = d.messages
         /\ \A q \in Requests \ {r} : e.requests[q] = d.requests[q]
<1> DEFINE row == [d.requests[r] EXCEPT !.topic = t]
           e == [d EXCEPT !.requests[r] = row]
<1>1. d.requests[r] \in RequestRow
  BY DEF TablesFit, Tables
<1>2. /\ row \in RequestRow /\ row.status = d.requests[r].status /\ row.topic = t
      /\ row.client = d.requests[r].client
  BY <1>1 DEF RequestRow
<1>3. SwitchOperatorTopic(d, r, t) = e
  BY DEF SwitchOperatorTopic
<1>4. row.status # "absent" /\ row.client \in Clients
  BY <1>2 DEF TablesFit, RowsFit, Exists
<1>5. row.status = "active" =>
        \A q \in Requests \ {r} : Active(d, q) => d.requests[q].client # row.client
  BY <1>2 DEF TablesFit, OneActive, Active
<1> HIDE DEF row
<1>6. /\ TablesFit(e, c, owner, n) /\ Follows(d, e) /\ Sending(e) = Sending(d)
      /\ e.requests[r] = row /\ e.actions = d.actions /\ e.messages = d.messages
      /\ \A q \in Requests \ {r} : e.requests[q] = d.requests[q]
  BY <1>2, <1>4, <1>5, RequestKeeps
<1> QED
  BY <1>2, <1>3, <1>6

\* A request is closed: nothing else changes.
LEMMA CloseKeeps ==
  ASSUME NEW d, NEW c, NEW owner, NEW n, NEW r \in Requests,
         TablesFit(d, c, owner, n), Exists(d, r)
  PROVE  LET e == CloseRequest(d, r) IN
         /\ TablesFit(e, c, owner, n) /\ Follows(d, e) /\ Sending(e) = Sending(d)
         /\ e.actions = d.actions /\ e.messages = d.messages
<1> DEFINE row == [d.requests[r] EXCEPT !.status = "closed"]
           e == [d EXCEPT !.requests[r] = row]
<1>1. d.requests[r] \in RequestRow
  BY DEF TablesFit, Tables
<1>2. /\ row \in RequestRow /\ row.status = "closed" /\ row.topic = d.requests[r].topic
      /\ row.client = d.requests[r].client
  BY <1>1 DEF RequestRow
<1>3. CloseRequest(d, r) = e
  BY DEF CloseRequest
<1>4. row.client \in Clients /\ MayUse(row.topic, row.client, owner, n)
  BY <1>2 DEF TablesFit, RowsFit, TopicsFit, TopicOf
<1> HIDE DEF row
<1>5. /\ TablesFit(e, c, owner, n) /\ Follows(d, e) /\ Sending(e) = Sending(d)
      /\ e.actions = d.actions /\ e.messages = d.messages
  BY <1>2, <1>4, RequestKeeps
<1> QED
  BY <1>3, <1>5

\* A request is reopened while no other of the client is active.
LEMMA ReopenKeeps ==
  ASSUME NEW d, NEW c, NEW owner, NEW n, NEW r \in Requests,
         TablesFit(d, c, owner, n), Exists(d, r), NoOtherActive(d, r)
  PROVE  LET e == ReopenRequest(d, r) IN
         /\ TablesFit(e, c, owner, n) /\ Follows(d, e) /\ Sending(e) = Sending(d)
         /\ e.actions = d.actions /\ e.messages = d.messages
<1> DEFINE row == [d.requests[r] EXCEPT !.status = "active"]
           e == [d EXCEPT !.requests[r] = row]
           client == d.requests[r].client
<1>1. d.requests[r] \in RequestRow
  BY DEF TablesFit, Tables
<1>2. /\ row \in RequestRow /\ row.status = "active" /\ row.topic = d.requests[r].topic
      /\ row.client = client
  BY <1>1 DEF RequestRow
<1>3. ReopenRequest(d, r) = e
  BY DEF ReopenRequest
<1>4. client \in Clients /\ MayUse(row.topic, client, owner, n)
  BY <1>2 DEF TablesFit, RowsFit, TopicsFit, TopicOf
<1>5. \A q \in Requests \ {r} : Active(d, q) => d.requests[q].client # client
  <2> DEFINE f == FindActiveRequest(d, client)
  <2>1. f \in {0, r}
    BY DEF NoOtherActive
  <2>2. /\ f # 0 => Active(d, f) /\ d.requests[f].client = client
        /\ f = 0 => \A q \in Requests : Active(d, q) => d.requests[q].client # client
    BY FoundActive
  <2> HIDE DEF f
  <2>3. CASE f = 0
    BY <2>2, <2>3
  <2>4. CASE f # 0
    BY <2>1, <2>2, <2>4 DEF TablesFit, OneActive
  <2> QED
    BY <2>3, <2>4
<1> HIDE DEF row
<1>6. /\ TablesFit(e, c, owner, n) /\ Follows(d, e) /\ Sending(e) = Sending(d)
      /\ e.actions = d.actions /\ e.messages = d.messages
  BY <1>2, <1>4, <1>5, RequestKeeps
<1> QED
  BY <1>3, <1>6

\* An action's row gets a status, counted if Telegram may have accepted it.
LEMMA SetActionKeeps ==
  ASSUME NEW d, NEW c, NEW owner, NEW n, NEW a \in ActionIds, NEW s \in Statuses, NEW c2,
         TablesFit(d, c, owner, n), d.actions[a].status # "absent", s # "absent",
         \A b \in ActionIds \ {a} : c2[b] = c[b],
         c2[a] <= 1, s \in {"pending", "failed", "sending"} => c2[a] = 0
  PROVE  LET e == SetAction(d, a, s) IN
         TablesFit(e, c2, owner, n) /\ Follows(d, e)
<1> DEFINE e == SetAction(d, a, s)
<1>1. /\ e \in Tables /\ e.requests = d.requests /\ e.messages = d.messages
      /\ e.replies = d.replies /\ e.actions[a].status = s
      /\ e.actions[a].topic = d.actions[a].topic
      /\ \A b \in ActionIds \ {a} : e.actions[b] = d.actions[b]
  BY SetActionIs DEF TablesFit
<1> HIDE DEF e
<1>2. \A b \in ActionIds :
           \/ e.actions[b] = d.actions[b] /\ c2[b] = c[b]
           \/ /\ e.actions[b].status # "absent" /\ Exists(d, b[1])
              /\ Sender[b[2]] = d.requests[b[1]].client /\ b[3] <= Chunks[b[2]]
              /\ MayUse(e.actions[b].topic, Sender[b[2]], owner, n)
              /\ c2[b] <= 1
              /\ e.actions[b].status \in {"pending", "failed", "sending"} => c2[b] = 0
  <2> TAKE b \in ActionIds
  <2>1. CASE b = a
    BY <1>1, <2>1 DEF TablesFit, RowsFit, TopicsFit
  <2>2. CASE b # a
    BY <1>1, <2>2
  <2> QED
    BY <2>1, <2>2
<1>3. TablesFit(e, c2, owner, n) /\ Follows(d, e)
  BY <1>1, <1>2, ActionsKeep
<1> QED
  BY <1>3 DEF e

\* Only the action whose status is set starts or stops being sent.
LEMMA SendingAfter ==
  ASSUME NEW d \in Tables, NEW a \in ActionIds, NEW s \in Statuses
  PROVE  /\ s = "sending" => Sending(SetAction(d, a, s)) = Sending(d) \cup {a}
         /\ s # "sending" => Sending(SetAction(d, a, s)) = Sending(d) \ {a}
<1> DEFINE e == SetAction(d, a, s)
<1>1. e.actions[a].status = s /\ \A b \in ActionIds \ {a} : e.actions[b] = d.actions[b]
  BY SetActionIs
<1> HIDE DEF e
<1>2. /\ s = "sending" => Sending(e) = Sending(d) \cup {a}
      /\ s # "sending" => Sending(e) = Sending(d) \ {a}
  BY <1>1 DEF Sending
<1> QED
  BY <1>2 DEF e

\* Nothing is counted when a chunk is claimed or was refused.
LEMMA ClaimKeeps ==
  ASSUME NEW d, NEW c, NEW owner, NEW n, NEW a \in ActionIds,
         TablesFit(d, c, owner, n), d.actions[a].status # "absent", c[a] = 0
  PROVE  LET e == SetAction(d, a, "sending") IN
         TablesFit(e, c, owner, n) /\ Follows(d, e) /\ Sending(e) = Sending(d) \cup {a}
<1>1. /\ "sending" \in Statuses /\ "sending" # "absent" /\ c[a] <= 1
      /\ "sending" \in {"pending", "failed", "sending"} => c[a] = 0
      /\ \A b \in ActionIds \ {a} : c[b] = c[b]
  BY DEF Statuses
<1>2. d \in Tables
  BY DEF TablesFit
<1> DEFINE e == SetAction(d, a, "sending")
<1>3. Sending(e) = Sending(d) \cup {a}
  BY <1>1, <1>2, SendingAfter
<1>4. TablesFit(e, c, owner, n) /\ Follows(d, e)
  BY <1>1, SetActionKeeps
<1> QED
  BY <1>3, <1>4

\* Telegram refused: it has no copy, and the action failed.
LEMMA RefusalKeeps ==
  ASSUME NEW d, NEW c, NEW owner, NEW n, NEW a \in ActionIds,
         TablesFit(d, c, owner, n), d.actions[a].status # "absent", c[a] = 0
  PROVE  LET e == SetAction(d, a, "failed") IN
         TablesFit(e, c, owner, n) /\ Follows(d, e) /\ Sending(e) = Sending(d) \ {a}
<1>1. /\ "failed" \in Statuses /\ "failed" # "absent" /\ c[a] <= 1
      /\ "failed" \in {"pending", "failed", "sending"} => c[a] = 0
      /\ \A b \in ActionIds \ {a} : c[b] = c[b]
  BY DEF Statuses
<1>2. d \in Tables
  BY DEF TablesFit
<1> DEFINE e == SetAction(d, a, "failed")
<1>3. Sending(e) = Sending(d) \ {a}
  BY <1>1, <1>2, SendingAfter
<1>4. TablesFit(e, c, owner, n) /\ Follows(d, e)
  BY <1>1, SetActionKeeps
<1> QED
  BY <1>3, <1>4

\* Telegram may have accepted what is marked as sent or as uncertain.
LEMMA CountKeeps ==
  ASSUME NEW d, NEW c, NEW owner, NEW n, NEW a \in ActionIds, NEW s \in {"sent", "confirmed", "outcome_unknown"}, NEW c2,
         TablesFit(d, c, owner, n), d.actions[a].status # "absent", 
         \A b \in ActionIds \ {a} : c2[b] = c[b], c2[a] <= 1
  PROVE  LET e == SetAction(d, a, s) IN
         TablesFit(e, c2, owner, n) /\ Follows(d, e) /\ Sending(e) = Sending(d) \ {a}
<1>1. /\ s \in Statuses /\ s # "absent" /\ c2[a] <= 1
      /\ s \in {"pending", "failed", "sending"} => c2[a] = 0
      /\ \A b \in ActionIds \ {a} : c2[b] = c[b]
  BY DEF Statuses
<1>2. d \in Tables
  BY DEF TablesFit
<1> DEFINE e == SetAction(d, a, s)
<1>3. Sending(e) = Sending(d) \ {a}
  BY <1>1, <1>2, SendingAfter
<1>4. TablesFit(e, c2, owner, n) /\ Follows(d, e)
  BY <1>1, SetActionKeeps
<1> QED
  BY <1>3, <1>4

\* Every chunk of the message has a row then.
LEMMA PrepareKeeps ==
  ASSUME NEW d, NEW c, NEW owner, NEW n, NEW r \in Requests, NEW m \in Messages,
         NEW t \in Places, NEW initial \in BOOLEAN, scenario \in Scenario,
         TablesFit(d, c, owner, n), Exists(d, r), d.requests[r].client = Sender[m],
         MayUse(t, Sender[m], owner, n)
  PROVE  LET e == PrepareRelay(d, r, m, t, initial) IN
         /\ TablesFit(e, c, owner, n) /\ Follows(d, e) /\ Sending(e) = Sending(d)
         /\ e.requests = d.requests /\ e.messages = d.messages
         /\ \A k \in 1..Chunks[m] : /\ <<r, m, k>> \in ActionIds
                                    /\ e.actions[<<r, m, k>>].status # "absent"
<1> DEFINE first == d.actions[<<r, m, 1>>]
           isInitial == IF first.status = "absent" THEN initial ELSE first.initial
           row == [status |-> "pending", topic |-> t, initial |-> isInitial]
           new(a) == a[1] = r /\ a[2] = m /\ a[3] \in 1..Chunks[m]
                     /\ d.actions[a].status = "absent"
           e == PrepareRelay(d, r, m, t, initial)
<1>1. d \in Tables /\ d.actions \in [ActionIds -> ActionRow]
  BY DEF TablesFit, Tables
<1>2. Chunks[m] \in 1..MaxChunks /\ MaxChunks \in Nat
  BY ScenarioFacts
<1>3. \A k \in 1..Chunks[m] : <<r, m, k>> \in ActionIds
  BY <1>2 DEF ActionIds
<1>4. 1 \in 1..Chunks[m]
  BY <1>2
<1>5. first \in ActionRow
  BY <1>1, <1>3, <1>4
<1>6. isInitial \in BOOLEAN
  BY <1>5 DEF ActionRow
<1> HIDE DEF isInitial
<1>7. row \in ActionRow
  BY <1>6 DEF ActionRow, Statuses
<1>8. e = [d EXCEPT !.actions = [a \in ActionIds |-> IF new(a) THEN row ELSE d.actions[a]]]
  BY DEF PrepareRelay, isInitial
<1>9. /\ e \in Tables /\ e.requests = d.requests /\ e.messages = d.messages
      /\ e.replies = d.replies
      /\ \A a \in ActionIds : e.actions[a] = IF new(a) THEN row ELSE d.actions[a]
  <2> DEFINE rows == [a \in ActionIds |-> IF new(a) THEN row ELSE d.actions[a]]
  <2>1. rows \in [ActionIds -> ActionRow]
    BY <1>1, <1>7
  <2>2. \A a \in ActionIds : rows[a] = IF new(a) THEN row ELSE d.actions[a]
    OBVIOUS
  <2>3. e = [d EXCEPT !.actions = rows]
    BY <1>8
  <2> HIDE DEF rows
  <2>4. e.actions = rows /\ e \in Tables /\ e.requests = d.requests
        /\ e.messages = d.messages /\ e.replies = d.replies
    BY <1>1, <2>1, <2>3 DEF Tables
  <2> QED
    BY <2>2, <2>4
<1> HIDE DEF e
<1>10. \A a \in ActionIds :
           \/ e.actions[a] = d.actions[a] /\ c[a] = c[a]
           \/ /\ e.actions[a].status # "absent" /\ Exists(d, a[1])
              /\ Sender[a[2]] = d.requests[a[1]].client /\ a[3] <= Chunks[a[2]]
              /\ MayUse(e.actions[a].topic, Sender[a[2]], owner, n)
              /\ c[a] <= 1
              /\ e.actions[a].status \in {"pending", "failed", "sending"} => c[a] = 0
  <2> TAKE a \in ActionIds
  <2>1. CASE new(a)
    <3>1. c[a] <= 1 /\ c[a] = 0
      BY <2>1 DEF TablesFit, CopiesFit
    <3>2. e.actions[a] = row /\ a[1] = r /\ a[2] = m /\ a[3] <= Chunks[m]
      BY <1>2, <1>9, <2>1
    <3> QED
      BY <3>1, <3>2
  <2>2. CASE ~new(a)
    BY <1>9, <2>2
  <2> QED
    BY <2>1, <2>2
<1>11. TablesFit(e, c, owner, n) /\ Follows(d, e)
  BY <1>9, <1>10, ActionsKeep
<1>12. Sending(e) = Sending(d)
  BY <1>9 DEF Sending
<1>13. \A k \in 1..Chunks[m] : e.actions[<<r, m, k>>].status # "absent"
  BY <1>3, <1>9
<1> QED
  BY <1>3, <1>9, <1>11, <1>12, <1>13 DEF e

-----------------------------------------------------------------------------
(* How a step of a relay ends.                                             *)

\* The handler is done with its update, or it awaits Telegram for a chunk.
RelayTask(r, m, k, t, l) ==
  [pc |-> "relaying", request |-> r, message |-> m, chunk |-> k, topic |-> t, lost |-> l]

RelayEnds(h, d, c, owner, n) ==
  /\ Ended(h)
  /\ TablesFit(db', c, owner, n) /\ Follows(d, db') /\ Sending(db') = Sending(d)

RelayGoesOn(h, d, c, owner, n, r, m, t) ==
  \E k \in 1..Chunks[m], l \in BOOLEAN :
    /\ Awaiting(h, RelayTask(r, m, k, t, l))
    /\ TablesFit(db', c, owner, n) /\ Follows(d, db')
    /\ Sending(db') = Sending(d) \cup {<<r, m, k>>}

\* The notes a relay ends with change no other column.
LEMMA NotesKeep ==
  ASSUME NEW e \in Tables, NEW r \in Requests
  PROVE  /\ LET f == EnqueueHandoffAcknowledgement(e, r) IN
            f \in Tables /\ f.requests = e.requests /\ f.actions = e.actions
            /\ f.messages = e.messages /\ f.replies = e.replies
         /\ LET f == RecordWebTakeover(e, r) IN
            f \in Tables /\ f.requests = e.requests /\ f.actions = e.actions
            /\ f.messages = e.messages /\ f.replies = e.replies
         /\ LET f == EnqueueHandoffAcknowledgement(RecordWebTakeover(e, r), r) IN
            f \in Tables /\ f.requests = e.requests /\ f.actions = e.actions
            /\ f.messages = e.messages /\ f.replies = e.replies
<1>1. ASSUME NEW f \in Tables
      PROVE  /\ LET g == EnqueueHandoffAcknowledgement(f, r) IN
               g \in Tables /\ g.requests = f.requests /\ g.actions = f.actions
               /\ g.messages = f.messages /\ g.replies = f.replies
             /\ LET g == RecordWebTakeover(f, r) IN
               g \in Tables /\ g.requests = f.requests /\ g.actions = f.actions
               /\ g.messages = f.messages /\ g.replies = f.replies
  BY DEF EnqueueHandoffAcknowledgement, RecordWebTakeover, Tables
<1> DEFINE w == RecordWebTakeover(e, r)
<1>2. /\ w \in Tables /\ w.requests = e.requests /\ w.actions = e.actions
      /\ w.messages = e.messages /\ w.replies = e.replies
  BY <1>1
<1> HIDE DEF w
<1>3. LET g == EnqueueHandoffAcknowledgement(w, r) IN
               g \in Tables /\ g.requests = e.requests /\ g.actions = e.actions
               /\ g.messages = e.messages /\ g.replies = e.replies
  BY <1>1, <1>2
<1> QED
  BY <1>1, <1>3 DEF w

\* The emergency inbox ends the relay, or the update is left for a retry.
LEMMA WebRelayed ==
  ASSUME NEW h \in Handlers, NEW d, NEW c, NEW owner, NEW n, NEW r \in Requests, NEW from,
         TablesFit(d, c, owner, n), Exists(d, r), RelayToWeb(h, d, r, from)
  PROVE  RelayEnds(h, d, c, owner, n)
<1>1. d \in Tables
  BY DEF TablesFit
<1>2. Ended(h)
  BY DEF RelayToWeb, Finish, Fail, Ended, Marked, CompleteEvent
<1>3. \/ db' = d
      \/ db' = EnqueueHandoffAcknowledgement(d, r)
      \/ db' = EnqueueHandoffAcknowledgement(RecordWebTakeover(d, r), r)
      \/ db' = EnqueueHandoffAcknowledgement(
                 RecordWebTakeover(SwitchOperatorTopic(d, r, WebTopic), r), r)
  BY DEF RelayToWeb, Finish, Fail
<1>4. ASSUME NEW e, TablesFit(e, c, owner, n), Follows(d, e), Sending(e) = Sending(d),
             \/ db' = e
             \/ db' = EnqueueHandoffAcknowledgement(e, r)
             \/ db' = EnqueueHandoffAcknowledgement(RecordWebTakeover(e, r), r)
      PROVE  RelayEnds(h, d, c, owner, n)
  <2>1. e \in Tables
    BY <1>4 DEF TablesFit
  <2>2. /\ db' \in Tables /\ db'.requests = e.requests /\ db'.actions = e.actions
        /\ db'.messages = e.messages /\ db'.replies = e.replies
    BY <1>4, <2>1, NotesKeep
  <2>3. TablesFit(db', c, owner, n) /\ Follows(e, db') /\ Sending(db') = Sending(e)
    BY <1>4, <2>2, ToldKeeps
  <2> QED
    BY <1>2, <1>4, <2>3, FollowsTransitive DEF RelayEnds
<1>5. Follows(d, d)
  BY DEF Follows
<1> DEFINE s == SwitchOperatorTopic(d, r, WebTopic)
<1>6. TablesFit(s, c, owner, n) /\ Follows(d, s) /\ Sending(s) = Sending(d)
  <2>1. WebTopic \in Places /\ MayUse(WebTopic, d.requests[r].client, owner, n)
    BY DEF Places, MayUse
  <2> QED
    BY <2>1, SwitchKeeps
<1> HIDE DEF s
<1>7. \/ db' = d
      \/ db' = EnqueueHandoffAcknowledgement(d, r)
      \/ db' = EnqueueHandoffAcknowledgement(RecordWebTakeover(d, r), r)
      \/ db' = EnqueueHandoffAcknowledgement(RecordWebTakeover(s, r), r)
  BY <1>3 DEF s
<1> QED
  BY <1>4, <1>5, <1>6, <1>7

\* The relay goes on with a chunk that may be sent, or it ends, here or on the web.
LEMMA ChunksRelayed ==
  ASSUME NEW h \in Handlers, NEW d, NEW c, NEW owner, NEW n, NEW r \in Requests,
         NEW m \in Messages, NEW t \in Places, NEW k \in Nat \ {0}, NEW lost \in BOOLEAN,
         scenario \in Scenario, TablesFit(d, c, owner, n), Exists(d, r),
         RelayChunks(h, d, r, m, t, k, lost)
  PROVE  \/ RelayEnds(h, d, c, owner, n)
         \/ RelayGoesOn(h, d, c, owner, n, r, m, t)
<1> DEFINE ends == {j \in k..Chunks[m] :
                      MayBeSent(d, <<r, m, j>>) \/ IsResolved(d, <<r, m, j>>)}
           next == CHOOSE j \in ends : \A i \in ends : j <= i
           passed == {j \in k..Chunks[m] : \A i \in ends : j < i}
           nowLost == lost \/ \E j \in passed :
                        d.actions[<<r, m, j>>].status \in {"outcome_unknown", "sending"}
           goesOn == ends # {} /\ MayBeSent(d, <<r, m, next>>)
<1>1. d \in Tables /\ Chunks[m] \in 1..MaxChunks /\ MaxChunks \in Nat
  BY ScenarioFacts DEF TablesFit
<1>2. nowLost \in BOOLEAN
  OBVIOUS
<1>3. /\ goesOn => Await(h, SetAction(d, <<r, m, next>>, "sending"),
                         RelayTask(r, m, next, t, nowLost))
      /\ ~goesOn => \/ Finish(h, d) \/ Finish(h, EnqueueHandoffAcknowledgement(d, r))
                    \/ RelayToWeb(h, d, r, t)
  BY DEF RelayChunks, RelayTask
<1> HIDE DEF nowLost
<1>4. CASE ~goesOn
  <2> HIDE DEF goesOn
  <2>1. CASE Finish(h, d) \/ Finish(h, EnqueueHandoffAcknowledgement(d, r))
    <3>1. Ended(h)
      BY <2>1 DEF Finish, Ended, Marked, CompleteEvent
    <3>2. db' = d \/ db' = EnqueueHandoffAcknowledgement(d, r)
      BY <2>1 DEF Finish
    <3>3. /\ db' \in Tables /\ db'.requests = d.requests /\ db'.actions = d.actions
          /\ db'.messages = d.messages /\ db'.replies = d.replies
      BY <1>1, <3>2 DEF EnqueueHandoffAcknowledgement, Tables
    <3> QED
      BY <3>1, <3>3, ToldKeeps DEF RelayEnds
  <2>2. CASE RelayToWeb(h, d, r, t)
    BY <2>2, WebRelayed
  <2> QED
    BY <1>3, <1>4, <2>1, <2>2
<1>5. CASE goesOn
  <2>1. ends \in SUBSET Nat /\ ends \in SUBSET (1..Chunks[m]) /\ ends # {}
    BY <1>1, <1>5
  <2>2. next \in ends
    <3>1. \E j \in ends : \A i \in ends : j <= i
      BY <2>1, HasMinimum
    <3> QED
      BY <3>1
  <2> DEFINE a == <<r, m, next>>
  <2>3. next \in 1..Chunks[m] /\ MayBeSent(d, a)
    BY <1>5, <2>1, <2>2
  <2>4. Await(h, SetAction(d, a, "sending"), RelayTask(r, m, next, t, nowLost))
    BY <1>3, <1>5
  <2> HIDE DEF next, ends
  <2>5. a \in ActionIds
    BY <1>1, <2>3 DEF ActionIds
  <2>6. d.actions[a].status \in {"pending", "failed"}
    BY <2>3 DEF MayBeSent
  <2>7. /\ Awaiting(h, RelayTask(r, m, next, t, nowLost))
        /\ db' = SetAction(d, a, "sending")
    BY <2>4 DEF Await, Awaiting, Marked
  <2> HIDE DEF a
  <2>8. c[a] = 0
    BY <2>5, <2>6 DEF TablesFit, CopiesFit
  <2>9. d.actions[a].status # "absent"
    BY <2>6
  <2>10. /\ TablesFit(db', c, owner, n) /\ Follows(d, db')
         /\ Sending(db') = Sending(d) \cup {a}
    BY <2>5, <2>7, <2>8, <2>9, ClaimKeeps
  <2> QED
    BY <1>2, <2>3, <2>7, <2>10 DEF RelayGoesOn, a
<1> QED
  BY <1>4, <1>5

\* RelayClientMessage records the message and relays it, to either place.
LEMMA MessageRelayed ==
  ASSUME NEW h \in Handlers, NEW d, NEW c, NEW owner, NEW n, NEW r \in Requests,
         NEW m \in Messages, NEW t \in Places, NEW initial \in BOOLEAN,
         scenario \in Scenario, TablesFit(d, c, owner, n),
         Exists(d, r), d.requests[r].client = Sender[m], MayUse(t, Sender[m], owner, n),
         RelayClientMessage(h, d, r, m, t, initial)
  PROVE  \/ RelayEnds(h, d, c, owner, n)
         \/ /\ RelayGoesOn(h, d, c, owner, n, r, m, t)
            /\ <<r, m>> \in db'.messages
<1> DEFINE e == RecordConversationMessage(d, r, m)
           f == PrepareRelay(e, r, m, t, initial)
<1>1. /\ TablesFit(e, c, owner, n) /\ Follows(d, e) /\ Sending(e) = Sending(d)
      /\ e.requests = d.requests /\ <<r, m>> \in e.messages
  BY MessageKeeps
<1>2. IF t = WebTopic \/ telegram # "connected" THEN RelayToWeb(h, e, r, t)
      ELSE RelayChunks(h, f, r, m, t, 1, FALSE)
  BY DEF RelayClientMessage
<1> HIDE DEF e
<1>3. Exists(e, r) /\ e.requests[r].client = Sender[m]
  BY <1>1 DEF Exists
<1>4. CASE t = WebTopic \/ telegram # "connected"
  <2>1. RelayEnds(h, e, c, owner, n)
    BY <1>1, <1>2, <1>3, <1>4, WebRelayed
  <2> QED
    BY <1>1, <2>1, FollowsTransitive DEF RelayEnds
<1>5. CASE ~(t = WebTopic \/ telegram # "connected")
  <2>1. /\ TablesFit(f, c, owner, n) /\ Follows(e, f) /\ Sending(f) = Sending(e)
        /\ f.messages = e.messages
    BY <1>1, <1>3, PrepareKeeps
  <2>2. RelayChunks(h, f, r, m, t, 1, FALSE)
    BY <1>2, <1>5
  <2> HIDE DEF f
  <2>9. 1 \in Nat \ {0} /\ FALSE \in BOOLEAN
    OBVIOUS
  <2>10. Exists(f, r)
    BY <1>3, <2>1 DEF Exists, Follows
  <2>3. \/ RelayEnds(h, f, c, owner, n)
        \/ RelayGoesOn(h, f, c, owner, n, r, m, t)
    BY <2>1, <2>2, <2>9, <2>10, ChunksRelayed
  <2>4. Follows(d, f)
    BY <1>1, <2>1, FollowsTransitive
  <2>5. CASE RelayEnds(h, f, c, owner, n)
    BY <1>1, <2>1, <2>4, <2>5, FollowsTransitive DEF RelayEnds
  <2>6. CASE RelayGoesOn(h, f, c, owner, n, r, m, t)
    <3>1. Follows(f, db')
      BY <2>6 DEF RelayGoesOn
    <3>2. Follows(d, db')
      BY <2>4, <3>1, FollowsTransitive
    <3>3. <<r, m>> \in db'.messages
      BY <1>1, <2>1, <3>1 DEF Follows
    <3>4. RelayGoesOn(h, d, c, owner, n, r, m, t)
      BY <1>1, <2>1, <2>6, <3>2 DEF RelayGoesOn
    <3> QED
      BY <3>3, <3>4
  <2> QED
    BY <2>3, <2>5, <2>6
<1> QED
  BY <1>4, <1>5

-----------------------------------------------------------------------------
(* What one step of a poller leaves to the next.                           *)

\* What the other poller awaits.
Others(h) == Sending(db) \ (IF Working(h) THEN {Awaited(h)} ELSE {})

\* Everything but the poller's own update and task.
Around(h, owner, more) ==
  /\ scenario' = scenario /\ telegram' = telegram
  /\ topics' \in 0..MaxTopics /\ copies' \in [ActionIds -> Nat]
  /\ confirmed' = confirmed \/ confirmed' = [confirmed EXCEPT ![h] = taken[h]]
  /\ \A t \in Places : \A x : MayUse(t, x, owner, topics) => MayUse(t, x, more, topics')

\* The tables' part of the invariant after a step that keeps the scenario.
LEMMA FitsPrimed ==
  ASSUME scenario' = scenario, NEW owner, TablesFit(db', copies', owner, topics')
  PROVE  TablesFit(db, copies, owner, topics)'
<1>1. Sender' = Sender /\ Chunks' = Chunks
  BY DEF Sender, Chunks
<1>2. CopiesFit(db, copies)'
  BY DEF TablesFit, CopiesFit
<1>3. RowsFit(db)'
  BY <1>1 DEF TablesFit, RowsFit, Exists
<1>4. OneActive(db)'
  BY DEF TablesFit, OneActive, Active
<1>5. TopicsFit(db, owner, topics)'
  BY <1>1 DEF TablesFit, TopicsFit, MayUse, Exists, TopicOf
<1>6. (db \in Tables)'
  BY DEF TablesFit
<1> QED
  BY <1>2, <1>3, <1>4, <1>5, <1>6 DEF TablesFit

\* A message is one poller's only.
LEMMA OwnMessage ==
  ASSUME UpdatesFit, HandoffTyped, NEW h \in Handlers, taken[h] < Len(stream[h]),
         Current(h).kind = "message"
  PROVE  Current(h).of \in Messages /\ HandlerOf(Sender[Current(h).of]) = h
<1>1. taken[h] + 1 \in 1..Len(stream[h])
  BY DEF HandoffTyped
<1> QED
  BY <1>1 DEF UpdatesFit, Current

\* The other poller's task is as it was.
LEMMA OtherTaskFits ==
  ASSUME NEW owner \in Owners, NEW more \in Owners, HandoffFits(owner),
         NEW h \in Handlers, NEW g \in Handlers, g # h, Progress(h),
         Around(h, owner, more), Follows(db, db'),
         Others(h) \subseteq Sending(db')
  PROVE  TaskFits(g, more)'
<1>1. /\ task'[g] = task[g] /\ taken'[g] = taken[g] /\ stream'[g] = stream[g]
  BY ProgressFacts DEF HandoffFits
<1>2. TaskFits(g, owner)
  BY DEF HandoffFits
<1>3. (Working(g))' = Working(g) /\ (Awaited(g))' = Awaited(g) /\ (Current(g))' = Current(g)
  BY <1>1 DEF Working, Awaited, Current
<1>4. task[g] \in TaskRow
  BY DEF HandoffFits, HandoffTyped
<1>5. task'[g].pc # "idle" =>
       taken'[g] < Len(stream'[g]) /\ (Current(g))'.status = "processing"
  BY <1>1, <1>2, <1>3 DEF TaskFits
<1>6. task'[g].pc # "idle" /\ ~(Working(g))' =>
       /\ (Current(g))'.kind # "message"
       /\ task'[g].pc # "answering" => Exists(db', task'[g].request) /\ task'[g].request \in Requests
  BY <1>1, <1>2, <1>3 DEF TaskFits, Follows
<1>7. ASSUME Working(g)
      PROVE  LET r == task[g].request  m == task[g].message IN
             /\ Current(g).kind = "message" /\ Current(g).of = m
             /\ Awaited(g) \in Sending(db')
             /\ IF task[g].pc = "opening" THEN task[g].chunk = 0 ELSE task[g].chunk \in 1..Chunks[m]
             /\ Exists(db', r) /\ db'.requests[r].client = Sender[m]
             /\ <<r, m>> \in db'.messages
             /\ MayUse(task[g].topic, Sender[m], more, topics')
  <2> DEFINE r == task[g].request
             m == task[g].message
  <2>1. /\ Current(g).kind = "message" /\ Current(g).of = m
        /\ Awaited(g) \in Sending(db)
        /\ IF task[g].pc = "opening" THEN task[g].chunk = 0 ELSE task[g].chunk \in 1..Chunks[m]
        /\ Exists(db, r) /\ db.requests[r].client = Sender[m]
        /\ <<r, m>> \in db.messages
        /\ MayUse(task[g].topic, Sender[m], owner, topics)
    BY <1>2, <1>7 DEF TaskFits
  <2>2. taken[g] < Len(stream[g]) /\ task[g].pc # "idle"
    BY <1>2, <1>7 DEF TaskFits, Working
  <2>3. HandlerOf(Sender[m]) = g
    BY <2>1, <2>2, OwnMessage DEF HandoffFits
  <2>4. Working(h) => Awaited(h) # Awaited(g)
    <3>1. ASSUME Working(h), task[h].message = m
          PROVE  FALSE
      <4>1. taken[h] < Len(stream[h]) /\ Current(h).kind = "message" /\ Current(h).of = m
        BY <3>1 DEF TaskFits, HandoffFits, Working
      <4>2. HandlerOf(Sender[m]) = h
        BY <4>1, OwnMessage DEF HandoffFits
      <4> QED
        BY <2>3, <4>2
    <3> QED
      BY <3>1 DEF Awaited
  <2>5. Awaited(g) \in Sending(db')
    BY <2>1, <2>4 DEF Others
  <2>6. r \in Requests
    BY <2>1 DEF Sending, Awaited, ActionIds
  <2>7. MayUse(task[g].topic, Sender[m], more, topics')
    BY <1>4, <2>1 DEF Around, TaskRow
  <2> QED
    BY <2>1, <2>5, <2>6, <2>7 DEF Follows
<1>8. Sender' = Sender /\ Chunks' = Chunks
  BY DEF Around, Sender, Chunks
<1>9. \A a : a \in Sending(db') => a \in (Sending(db))'
  BY DEF Sending
<1>10. ASSUME (Working(g))'
       PROVE  LET r == task'[g].request  m == task'[g].message IN
             /\ (Current(g))'.kind = "message" /\ (Current(g))'.of = m
             /\ (Awaited(g))' \in (Sending(db))'
             /\ IF task'[g].pc = "opening" THEN task'[g].chunk = 0 ELSE task'[g].chunk \in 1..Chunks'[m]
             /\ Exists(db', r) /\ db'.requests[r].client = Sender'[m]
             /\ <<r, m>> \in db'.messages
             /\ MayUse(task'[g].topic, Sender'[m], more, topics')
  BY <1>1, <1>3, <1>7, <1>8, <1>9, <1>10
<1> QED
  BY <1>5, <1>6, <1>10 DEF TaskFits, Exists, MayUse

\* So the invariant is kept when the tables and the poller's own task fit.
LEMMA StepFits ==
  ASSUME NEW owner \in Owners, NEW more \in Owners, HandoffFits(owner),
         NEW h \in Handlers, Progress(h), Around(h, owner, more),
         TablesFit(db', copies', more, topics'), Follows(db, db'),
         Sending(db') = Others(h) \cup (IF (Working(h))' THEN {(Awaited(h))'} ELSE {}),
         TaskFits(h, more)'
  PROVE  HandoffInv'
<1>1. /\ stream' \in [Handlers -> Seq(Event)]
      /\ taken' \in [Handlers -> Nat] /\ task' \in [Handlers -> TaskRow]
      /\ \A g \in Handlers : taken[g] <= taken'[g] /\ taken'[g] <= Len(stream'[g])
      /\ \A g \in Handlers \ {h} : task'[g] = task[g]
  BY ProgressFacts DEF HandoffFits
<1>2. HandoffTyped'
  <2>1. /\ taken \in [Handlers -> Nat] /\ confirmed \in [Handlers -> Nat]
        /\ \A g \in Handlers : confirmed[g] <= taken[g]
        /\ telegram \in {"connected", "stopping", "disconnected"} /\ scenario \in Scenario
    BY DEF HandoffFits, HandoffTyped
  <2>2. /\ confirmed' \in [Handlers -> Nat]
        /\ \A g \in Handlers : confirmed'[g] <= taken[g]
    BY <2>1 DEF Around
  <2>3. \A g \in Handlers : confirmed'[g] <= taken'[g]
    BY <1>1, <2>1, <2>2
  <2>4. db' \in Tables
    BY DEF TablesFit
  <2> QED
    BY <1>1, <2>1, <2>2, <2>3, <2>4 DEF HandoffTyped, Around
<1>3. UpdatesFit'
  BY UpdatesKept DEF HandoffFits, Around
<1>4. SendingIsAwaited'
  <2> SUFFICES ASSUME NEW a \in (Sending(db))'
               PROVE  \E g \in Handlers : (Working(g))' /\ (Awaited(g))' = a
    BY DEF SendingIsAwaited
  <2>1. a \in Sending(db')
    BY DEF Sending
  <2>2. CASE (Working(h))' /\ a = (Awaited(h))'
    BY <2>2
  <2>3. CASE ~((Working(h))' /\ a = (Awaited(h))')
    <3>1. a \in Others(h)
      BY <2>1, <2>3
    <3>2. PICK g \in Handlers : Working(g) /\ Awaited(g) = a
      BY <3>1 DEF Others, HandoffFits, SendingIsAwaited
    <3>3. g # h
      BY <3>1, <3>2 DEF Others
    <3> QED
      BY <1>1, <3>2, <3>3 DEF Working, Awaited
  <2> QED
    BY <2>2, <2>3
<1>5. TablesFit(db, copies, more, topics)'
  BY FitsPrimed DEF Around
<1>6. Others(h) \subseteq Sending(db')
  OBVIOUS
<1>7. \A g \in Handlers : TaskFits(g, more)'
  <2> TAKE g \in Handlers
  <2>1. CASE g = h
    BY <2>1
  <2>2. CASE g # h
    BY <1>6, <2>2, OtherTaskFits
  <2> QED
    BY <2>1, <2>2
<1>8. HandoffFits(more)'
  BY <1>2, <1>3, <1>4, <1>5, <1>7 DEF HandoffFits
<1> QED
  BY <1>8 DEF HandoffInv

-----------------------------------------------------------------------------
(* The three ways a step of a poller ends.                                 *)

\* It is done with the update, or gives it back.
LEMMA EndFits ==
  ASSUME NEW owner \in Owners, NEW more \in Owners, HandoffFits(owner),
         NEW h \in Handlers, taken[h] < Len(stream[h]), Ended(h), Around(h, owner, more),
         TablesFit(db', copies', more, topics'), Follows(db, db'),
         Sending(db') = Others(h)
  PROVE  HandoffInv'
<1>1. Progress(h)
  BY DEF Progress
<1>2. task'[h] = NoTask
  BY DEF HandoffFits, HandoffTyped, Ended
<1>3. ~(Working(h))'
  BY <1>2 DEF Working, NoTask
<1>4. TaskFits(h, more)'
  BY <1>2, <1>3 DEF TaskFits, NoTask
<1> QED
  BY <1>1, <1>3, <1>4, StepFits

\* It awaits Telegram about something else than a message.
LEMMA AwaitFits ==
  ASSUME NEW owner \in Owners, NEW more \in Owners, HandoffFits(owner),
         NEW h \in Handlers, taken[h] < Len(stream[h]), Around(h, owner, more),
         Current(h).kind # "message", NEW t \in TaskRow, Awaiting(h, t),
         t.pc \in {"closing", "reopening", "resetting", "answering"},
         t.pc # "answering" => t.request \in Requests /\ Exists(db', t.request),
         TablesFit(db', copies', more, topics'), Follows(db, db'),
         Sending(db') = Others(h)
  PROVE  HandoffInv'
<1>3. Progress(h)
  BY DEF Progress
<1>4. /\ task'[h] = t /\ taken' = taken
      /\ stream'[h][taken[h] + 1].status = "processing"
      /\ Len(stream'[h]) = Len(stream[h])
      /\ stream'[h][taken[h] + 1].kind = stream[h][taken[h] + 1].kind
  <2>1. HandoffTyped /\ Marked(h, "processing") /\ task' = [task EXCEPT ![h] = t] /\ taken' = taken
    BY DEF HandoffFits, Awaiting
  <2>2. taken[h] + 1 \in 1..Len(stream[h])
    BY <2>1 DEF HandoffTyped
  <2> QED
    BY <2>1, <2>2, MarkedUpdate DEF HandoffTyped
<1>5. ~(Working(h))'
  BY <1>4 DEF Working
<1>6. TaskFits(h, more)'
  BY <1>4, <1>5 DEF TaskFits, Current, Exists
<1> QED
  BY <1>3, <1>5, <1>6, StepFits

\* It awaits Telegram for the message.
LEMMA WorkFits ==
  ASSUME NEW owner \in Owners, NEW more \in Owners, HandoffFits(owner),
         NEW h \in Handlers, taken[h] < Len(stream[h]), Around(h, owner, more),
         NEW t \in TaskRow, t.pc \in {"relaying", "opening"}, Awaiting(h, t),
         Current(h).kind = "message", Current(h).of = t.message,
         IF t.pc = "opening" THEN t.chunk = 0 ELSE t.chunk \in 1..Chunks[t.message],
         Exists(db', t.request), db'.requests[t.request].client = Sender[t.message],
         <<t.request, t.message>> \in db'.messages,
         MayUse(t.topic, Sender[t.message], more, topics'),
         TablesFit(db', copies', more, topics'), Follows(db, db'),
         Sending(db') = Others(h) \cup {<<t.request, t.message, t.chunk>>}
  PROVE  HandoffInv'
<1>1. Progress(h)
  BY DEF Progress
<1>2. /\ task'[h] = t /\ taken' = taken
      /\ stream'[h][taken[h] + 1].status = "processing"
      /\ Len(stream'[h]) = Len(stream[h])
      /\ stream'[h][taken[h] + 1].kind = stream[h][taken[h] + 1].kind
      /\ stream'[h][taken[h] + 1].of = stream[h][taken[h] + 1].of
  <2>1. HandoffTyped /\ Marked(h, "processing") /\ task' = [task EXCEPT ![h] = t] /\ taken' = taken
    BY DEF HandoffFits, Awaiting
  <2>2. taken[h] + 1 \in 1..Len(stream[h])
    BY <2>1 DEF HandoffTyped
  <2> QED
    BY <2>1, <2>2, MarkedUpdate DEF HandoffTyped
<1>3. (Working(h))' /\ (Awaited(h))' = <<t.request, t.message, t.chunk>>
  BY <1>2 DEF Working, Awaited
<1>4. Sender' = Sender /\ Chunks' = Chunks
  BY DEF Around, Sender, Chunks
<1>5. (Awaited(h))' \in (Sending(db))'
  BY <1>3 DEF Sending
<1>6. TaskFits(h, more)'
  BY <1>2, <1>3, <1>4, <1>5 DEF TaskFits, Current, Exists, MayUse
<1> QED
  BY <1>1, <1>3, <1>6, StepFits

\* A relay's step, from the tables d it found or prepared.
LEMMA RelayFits ==
  ASSUME NEW owner \in Owners, NEW more \in Owners, HandoffFits(owner),
         NEW h \in Handlers, taken[h] < Len(stream[h]), Around(h, owner, more),
         Current(h).kind = "message",
         NEW d, NEW r \in Requests, NEW m \in Messages, NEW t \in Places, Current(h).of = m,
         Follows(db, d), Sending(d) = Others(h),
         Exists(d, r), d.requests[r].client = Sender[m],
         MayUse(t, Sender[m], more, topics'),
         \/ RelayEnds(h, d, copies', more, topics')
         \/ /\ RelayGoesOn(h, d, copies', more, topics', r, m, t)
            /\ <<r, m>> \in db'.messages
  PROVE  HandoffInv'
<1>1. CASE RelayEnds(h, d, copies', more, topics')
  <2>1. /\ Ended(h) /\ TablesFit(db', copies', more, topics') /\ Follows(d, db')
        /\ Sending(db') = Sending(d)
    BY <1>1 DEF RelayEnds
  <2>2. Follows(db, db')
    BY <2>1, FollowsTransitive
  <2> QED
    BY <2>1, <2>2, EndFits
<1>2. CASE /\ RelayGoesOn(h, d, copies', more, topics', r, m, t)
           /\ <<r, m>> \in db'.messages
  <2>1. PICK k \in 1..Chunks[m], l \in BOOLEAN :
          /\ Awaiting(h, RelayTask(r, m, k, t, l))
          /\ TablesFit(db', copies', more, topics') /\ Follows(d, db')
          /\ Sending(db') = Sending(d) \cup {<<r, m, k>>}
    BY <1>2 DEF RelayGoesOn
  <2>2. Follows(db, db')
    BY <2>1, FollowsTransitive
  <2> DEFINE x == RelayTask(r, m, k, t, l)
  <2>3. /\ x.pc = "relaying" /\ x.request = r /\ x.message = m /\ x.chunk = k /\ x.topic = t
    BY DEF RelayTask
  <2>4. m \in Nat /\ k \in Nat
    <3>1. Chunks[m] \in 1..MaxChunks /\ MaxChunks \in Nat
      BY ScenarioFacts DEF HandoffFits, HandoffTyped
    <3> QED
      BY <3>1 DEF Messages
  <2>5. x \in TaskRow
    BY <2>4 DEF RelayTask, TaskRow
  <2> HIDE DEF x
  <2>6. Awaiting(h, x)
    BY <2>1 DEF x
  <2>7. Exists(db', r) /\ db'.requests[r].client = Sender[m]
    BY <2>1 DEF Follows
  <2>8. /\ IF x.pc = "opening" THEN x.chunk = 0 ELSE x.chunk \in 1..Chunks[x.message]
        /\ Sending(db') = Others(h) \cup {<<x.request, x.message, x.chunk>>}
        /\ x.pc \in {"relaying", "opening"}
    BY <2>1, <2>3
  <2>9. /\ Exists(db', x.request) /\ db'.requests[x.request].client = Sender[x.message]
        /\ <<x.request, x.message>> \in db'.messages
        /\ MayUse(x.topic, Sender[x.message], more, topics')
        /\ Current(h).of = x.message
    BY <1>2, <2>3, <2>7
  <2> QED
    BY <2>1, <2>2, <2>5, <2>6, <2>8, <2>9, WorkFits
<1> QED
  BY <1>1, <1>2

-----------------------------------------------------------------------------
(* The answers to a relay.                                                 *)

\* What is known of a poller at work.
LEMMA AtWork ==
  ASSUME NEW owner \in Owners, HandoffFits(owner), NEW h \in Handlers, Working(h)
  PROVE  LET r == task[h].request  m == task[h].message  k == task[h].chunk IN
         /\ r \in Requests /\ m \in Messages /\ k \in Nat /\ Awaited(h) = <<r, m, k>>
         /\ Awaited(h) \in ActionIds /\ db.actions[Awaited(h)].status = "sending"
         /\ copies[Awaited(h)] = 0
         /\ task[h].topic \in Places /\ task[h].lost \in BOOLEAN
         /\ taken[h] < Len(stream[h]) /\ Current(h).kind = "message" /\ Current(h).of = m
         /\ IF task[h].pc = "opening" THEN k = 0 ELSE k \in 1..Chunks[m]
         /\ Exists(db, r) /\ db.requests[r].client = Sender[m] /\ Sender[m] \in Clients
         /\ <<r, m>> \in db.messages
         /\ MayUse(task[h].topic, Sender[m], owner, topics)
         /\ Others(h) = Sending(db) \ {Awaited(h)}
<1>1. task[h] \in TaskRow /\ TaskFits(h, owner) /\ task[h].pc # "idle"
  BY DEF HandoffFits, HandoffTyped, Working
<1>2. Awaited(h) \in Sending(db)
  BY <1>1 DEF TaskFits
<1>3. Awaited(h) \in ActionIds /\ db.actions[Awaited(h)].status = "sending"
  BY <1>2 DEF Sending
<1>4. task[h].request \in Requests /\ task[h].message \in Messages
  BY <1>3 DEF Awaited, ActionIds
<1>5. copies[Awaited(h)] = 0
  BY <1>3 DEF HandoffFits, TablesFit, CopiesFit
<1>6. Sender[task[h].message] \in Clients
  BY <1>4, ScenarioFacts DEF HandoffFits, HandoffTyped
<1> QED
  BY <1>1, <1>2, <1>3, <1>4, <1>5, <1>6 DEF TaskFits, TaskRow, Others, Awaited

\* An answer leaves the rest of the state alone.
LEMMA AroundRelay ==
  ASSUME NEW owner \in Owners, HandoffFits(owner), NEW h \in Handlers,
         scenario' = scenario, UNCHANGED <<confirmed, telegram, topics>>,
         copies' = copies \/ \E a \in ActionIds : copies' = [copies EXCEPT ![a] = @ + 1]
  PROVE  Around(h, owner, owner)
<1>1. copies \in [ActionIds -> Nat] /\ topics \in 0..MaxTopics
  BY DEF HandoffFits, HandoffTyped
<1>2. copies' \in [ActionIds -> Nat]
  BY <1>1
<1> QED
  BY <1>1, <1>2 DEF Around

\* The row of a request that may have been accepted is no longer being sent;
LEMMA CountedRow ==
  ASSUME NEW owner, NEW a \in ActionIds, NEW s \in {"sent", "outcome_unknown"},
         TablesFit(db, copies, owner, topics), db.actions[a].status # "absent",
         \A b \in ActionIds \ {a} : copies'[b] = copies[b], copies'[a] <= 1
  PROVE  LET e == SetAction(db, a, s) IN
         /\ TablesFit(e, copies', owner, topics) /\ Follows(db, e)
         /\ Sending(e) = Sending(db) \ {a}
<1> DEFINE e == SetAction(db, a, s)
<1>1. /\ s \in Statuses /\ s # "absent" /\ copies'[a] <= 1
      /\ s \in {"pending", "failed", "sending"} => copies'[a] = 0
      /\ \A b \in ActionIds \ {a} : copies'[b] = copies[b]
  BY DEF Statuses
<1>2. db \in Tables
  BY DEF TablesFit
<1>3. Sending(e) = Sending(db) \ {a}
  BY <1>1, <1>2, SendingAfter
<1>4. TablesFit(e, copies', owner, topics) /\ Follows(db, e)
  BY <1>1, SetActionKeeps
<1> QED
  BY <1>3, <1>4

\* nor is that of a request that was refused.
LEMMA RefusedRow ==
  ASSUME NEW owner, NEW a \in ActionIds,
         TablesFit(db, copies, owner, topics), db.actions[a].status # "absent", copies[a] = 0
  PROVE  LET e == SetAction(db, a, "failed") IN
         /\ TablesFit(e, copies, owner, topics) /\ Follows(db, e)
         /\ Sending(e) = Sending(db) \ {a}
BY RefusalKeeps

\* Telegram may have accepted what was awaited: its row and its count change.
LEMMA AnswerStored ==
  ASSUME NEW owner \in Owners, HandoffFits(owner), NEW h \in Handlers, Working(h),
         NEW s \in {"sent", "outcome_unknown"},
         copies' = [copies EXCEPT ![Awaited(h)] = @ + 1]
  PROVE  LET d == SetAction(db, Awaited(h), s) IN
         /\ TablesFit(d, copies', owner, topics) /\ Follows(db, d) /\ Sending(d) = Others(h)
         /\ d.requests = db.requests /\ d.messages = db.messages
<1> DEFINE a == Awaited(h)
           d == SetAction(db, a, s)
<1>1. /\ a \in ActionIds /\ db.actions[a].status = "sending" /\ copies[a] = 0
      /\ Others(h) = Sending(db) \ {a}
  BY AtWork
<1>2. copies \in [ActionIds -> Nat]
  BY DEF HandoffFits, HandoffTyped
<1> HIDE DEF a
<1>3. (\A b \in ActionIds \ {a} : copies'[b] = copies[b]) /\ copies'[a] <= 1
  BY <1>1, <1>2 DEF a
<1>4. TablesFit(db, copies, owner, topics) /\ db.actions[a].status # "absent"
  BY <1>1 DEF HandoffFits
<1>5. /\ TablesFit(d, copies', owner, topics) /\ Follows(db, d)
      /\ Sending(d) = Sending(db) \ {a}
  BY <1>1, <1>3, <1>4, CountedRow
<1>6. d.requests = db.requests /\ d.messages = db.messages
  <2>1. db \in Tables /\ a \in ActionIds /\ s \in Statuses
    BY <1>1, <1>4 DEF TablesFit, Statuses, a
  <2> QED
    BY <2>1, SetActionIs
<1> QED
  BY <1>1, <1>5, <1>6 DEF a

\* Telegram accepted a chunk, or its answer was lost.
LEMMA RelayAcceptedFits ==
  ASSUME NEW owner \in Owners, HandoffFits(owner), NEW h \in Handlers, scenario' = scenario,
         RelayAccepted(h) \/ RelayUnanswered(h)
  PROVE  HandoffInv'
<1> DEFINE r == task[h].request
           m == task[h].message
           k == task[h].chunk
           t == task[h].topic
<1>1. task[h].pc = "relaying" /\ Working(h)
  BY DEF RelayAccepted, RelayUnanswered, Working
<1>2. PICK s \in {"sent", "outcome_unknown"}, lost \in BOOLEAN :
        RelayChunks(h, SetAction(db, <<r, m, k>>, s), r, m, t, k + 1, lost)
  <2>1. task[h].lost \in BOOLEAN
    BY <1>1, AtWork
  <2> QED
    BY <2>1 DEF RelayAccepted, RelayUnanswered
<1>3. /\ copies' = [copies EXCEPT ![<<r, m, k>>] = @ + 1]
      /\ UNCHANGED <<confirmed, telegram, topics>>
  BY DEF RelayAccepted, RelayUnanswered
<1> DEFINE d == SetAction(db, <<r, m, k>>, s)
<1>4. /\ r \in Requests /\ m \in Messages /\ k \in Nat \ {0} /\ Awaited(h) = <<r, m, k>>
      /\ Awaited(h) \in ActionIds /\ t \in Places
      /\ taken[h] < Len(stream[h]) /\ Current(h).kind = "message" /\ Current(h).of = m
      /\ Exists(db, r) /\ db.requests[r].client = Sender[m]
      /\ <<r, m>> \in db.messages /\ MayUse(t, Sender[m], owner, topics)
  BY <1>1, AtWork
<1>5. /\ TablesFit(d, copies', owner, topics') /\ Follows(db, d) /\ Sending(d) = Others(h)
      /\ d.requests = db.requests /\ d.messages = db.messages
  BY <1>1, <1>3, <1>4, AnswerStored
<1>6. Around(h, owner, owner)
  BY <1>3, <1>4, AroundRelay
<1>7. RelayChunks(h, d, r, m, t, k + 1, lost)
  BY <1>2
<1>8. Exists(d, r) /\ d.requests[r].client = Sender[m] /\ MayUse(t, Sender[m], owner, topics')
  BY <1>3, <1>4, <1>5 DEF Exists
<1> HIDE DEF d
<1>9. \/ RelayEnds(h, d, copies', owner, topics')
      \/ RelayGoesOn(h, d, copies', owner, topics', r, m, t)
  <2>1. k + 1 \in Nat \ {0} /\ scenario \in Scenario
    BY <1>4 DEF HandoffFits, HandoffTyped
  <2> QED
    BY <1>4, <1>5, <1>7, <1>8, <2>1, ChunksRelayed
<1>10. RelayGoesOn(h, d, copies', owner, topics', r, m, t) => <<r, m>> \in db'.messages
  BY <1>4, <1>5 DEF RelayGoesOn, Follows
<1> QED
  BY <1>4, <1>5, <1>6, <1>8, <1>9, <1>10, RelayFits

\* Telegram refused a chunk.
LEMMA RelayRejectedFits ==
  ASSUME NEW owner \in Owners, HandoffFits(owner), NEW h \in Handlers, scenario' = scenario,
         RelayRejected(h)
  PROVE  HandoffInv'
<1> DEFINE r == task[h].request
           m == task[h].message
           k == task[h].chunk
           t == task[h].topic
           d == SetAction(db, <<r, m, k>>, "failed")
<1>1. Working(h) /\ UNCHANGED <<confirmed, telegram, topics, copies>>
  BY DEF RelayRejected, Working
<1>2. /\ r \in Requests /\ m \in Messages /\ Awaited(h) = <<r, m, k>>
      /\ <<r, m, k>> \in ActionIds /\ t \in Places
      /\ db.actions[<<r, m, k>>].status = "sending" /\ copies[<<r, m, k>>] = 0
      /\ taken[h] < Len(stream[h]) /\ Current(h).kind = "message" /\ Current(h).of = m
      /\ Exists(db, r) /\ db.requests[r].client = Sender[m]
      /\ MayUse(t, Sender[m], owner, topics) /\ Others(h) = Sending(db) \ {<<r, m, k>>}
  BY <1>1, AtWork
<1>3. IF task[h].lost THEN Finish(h, d) ELSE RelayToWeb(h, d, r, t)
  BY DEF RelayRejected
<1>4. /\ TablesFit(d, copies', owner, topics') /\ Follows(db, d) /\ Sending(d) = Others(h)
      /\ d.requests = db.requests
  <2> DEFINE a == <<r, m, k>>
  <2>1. TablesFit(db, copies, owner, topics) /\ a \in ActionIds
        /\ db.actions[a].status # "absent" /\ copies[a] = 0
    BY <1>2 DEF HandoffFits
  <2>2. d = SetAction(db, a, "failed")
    OBVIOUS
  <2> HIDE DEF a
  <2>3. LET e == SetAction(db, a, "failed") IN
        /\ TablesFit(e, copies, owner, topics) /\ Follows(db, e)
        /\ Sending(e) = Sending(db) \ {a}
    BY <2>1, RefusedRow
  <2>4. d.requests = db.requests
    BY <2>1, <2>2, SetActionIs DEF TablesFit, Statuses
  <2> QED
    BY <1>1, <1>2, <2>2, <2>3, <2>4 DEF a
<1>5. Around(h, owner, owner)
  BY <1>1, AroundRelay
<1> HIDE DEF d
<1>6. Exists(d, r) /\ d.requests[r].client = Sender[m]
  BY <1>2, <1>4 DEF Exists
<1>7. RelayEnds(h, d, copies', owner, topics')
  <2>1. CASE task[h].lost
    BY <1>3, <1>4, <2>1 DEF RelayEnds, Finish, Ended, Marked, CompleteEvent, Follows
  <2>2. CASE ~task[h].lost
    BY <1>2, <1>3, <1>4, <1>6, <2>2, WebRelayed
  <2> QED
    BY <2>1, <2>2
<1>8. MayUse(t, Sender[m], owner, topics')
  BY <1>1, <1>2
<1> QED
  BY <1>2, <1>4, <1>5, <1>6, <1>7, <1>8, RelayFits

-----------------------------------------------------------------------------
(* A message is routed, or its request opened.                             *)

\* The request found for a client is his; the topic of his latest one is his too.
LEMMA ReusableTopic ==
  ASSUME NEW d, NEW c, NEW owner, NEW n, TablesFit(d, c, owner, n), NEW client
  PROVE  LET latest == FindLatestRequest(d, client)
             t == IF latest = 0 THEN WebTopic ELSE TopicOf(d, latest)
         IN  t \in Places /\ MayUse(t, client, owner, n)
<1> DEFINE latest == FindLatestRequest(d, client)
<1>1. latest \in Requests \cup {0} /\ (latest # 0 => Exists(d, latest) /\ d.requests[latest].client = client)
  BY FoundLatest
<1> HIDE DEF latest
<1>2. CASE latest = 0
  BY <1>2 DEF Places, MayUse, latest
<1>3. CASE latest # 0
  <2>1. d.requests[latest] \in RequestRow
    BY <1>1, <1>3 DEF TablesFit, Tables
  <2>2. TopicOf(d, latest) \in Places
    BY <2>1 DEF RequestRow, TopicOf
  <2>3. MayUse(TopicOf(d, latest), client, owner, n)
    BY <1>1, <1>3 DEF TablesFit, TopicsFit
  <2> QED
    BY <1>3, <2>2, <2>3 DEF latest
<1> QED
  BY <1>2, <1>3

\* The first message of a request creates it.
LEMMA CreationKeeps ==
  ASSUME NEW d, NEW c, NEW owner, NEW n, NEW r \in Requests, NEW m \in Messages,
         scenario \in Scenario, TablesFit(d, c, owner, n), ~Exists(d, r),
         FindActiveRequest(d, Sender[m]) = 0
  PROVE  LET row == [status |-> "active", client |-> Sender[m], topic |-> WebTopic]
             e == RecordConversationMessage([d EXCEPT !.requests[r] = row], r, m)
         IN  /\ TablesFit(e, c, owner, n) /\ Follows(d, e) /\ Sending(e) = Sending(d)
             /\ e.requests[r] = row /\ <<r, m>> \in e.messages /\ e.actions = d.actions
<1> DEFINE row == [status |-> "active", client |-> Sender[m], topic |-> WebTopic]
           b == [d EXCEPT !.requests[r] = row]
           e == RecordConversationMessage(b, r, m)
<1>1. Sender[m] \in Clients
  BY ScenarioFacts
<1>2. /\ row \in RequestRow /\ row.status = "active" /\ row.client = Sender[m]
      /\ row.topic = WebTopic
  BY <1>1 DEF RequestRow, Places
<1>3. \A q \in Requests : Active(d, q) => d.requests[q].client # Sender[m]
  BY FoundActive
<1> HIDE DEF row
<1>4. MayUse(row.topic, row.client, owner, n)
  BY <1>2 DEF MayUse
<1>5. /\ TablesFit(b, c, owner, n) /\ Follows(d, b) /\ Sending(b) = Sending(d)
      /\ b.requests[r] = row /\ b.actions = d.actions
  BY <1>1, <1>2, <1>3, <1>4, RequestKeeps
<1> HIDE DEF b
<1>6. Exists(b, r) /\ b.requests[r].client = Sender[m]
  BY <1>2, <1>5 DEF Exists
<1>7. /\ TablesFit(e, c, owner, n) /\ Follows(b, e) /\ Sending(e) = Sending(b)
      /\ e.requests = b.requests /\ e.actions = b.actions
      /\ e.messages = b.messages \cup {<<r, m>>}
  BY <1>5, <1>6, MessageKeeps
<1> HIDE DEF e
<1>8. /\ TablesFit(e, c, owner, n) /\ Follows(d, e) /\ Sending(e) = Sending(d)
      /\ e.requests[r] = row /\ <<r, m>> \in e.messages /\ e.actions = d.actions
  BY <1>5, <1>7, FollowsTransitive
<1> QED
  BY <1>8 DEF e, b, row

\* The request's opening is claimed.
Opening(d, r, m) ==
  [d EXCEPT !.actions[<<r, m, 0>>] =
     [status |-> "sending", topic |-> WebTopic, initial |-> TRUE]]

\* A new request's opening is being sent.
LEMMA OpeningKeeps ==
  ASSUME NEW d, NEW c, NEW owner, NEW n, NEW r \in Requests, NEW m \in Messages,
         scenario \in Scenario, TablesFit(d, c, owner, n), Exists(d, r),
         d.requests[r].client = Sender[m], c[<<r, m, 0>>] = 0
  PROVE  /\ TablesFit(Opening(d, r, m), c, owner, n) /\ Follows(d, Opening(d, r, m))
         /\ Sending(Opening(d, r, m)) = Sending(d) \cup {<<r, m, 0>>}
<1> DEFINE a == <<r, m, 0>>
           row == [status |-> "sending", topic |-> WebTopic, initial |-> TRUE]
           rows == [d.actions EXCEPT ![a] = row]
           e == [d EXCEPT !.actions[a] = row]
<1>1. Chunks[m] \in 1..MaxChunks /\ MaxChunks \in Nat
  BY ScenarioFacts
<1>2. a \in ActionIds /\ a[1] = r /\ a[2] = m /\ a[3] = 0
  BY <1>1 DEF ActionIds
<1>3. row \in ActionRow /\ row.status = "sending" /\ row.topic = WebTopic
  BY DEF ActionRow, Statuses, Places
<1> HIDE DEF row
<1>4. d \in Tables /\ d.actions \in [ActionIds -> ActionRow]
  BY DEF TablesFit, Tables
<1>5. c[a] = 0
  OBVIOUS
<1> HIDE DEF a
<1>6. /\ rows \in [ActionIds -> ActionRow] /\ rows[a] = row
      /\ \A b \in ActionIds \ {a} : rows[b] = d.actions[b]
  BY <1>2, <1>3, <1>4
<1>7. e = [d EXCEPT !.actions = rows]
  OBVIOUS
<1> HIDE DEF rows
<1>8. /\ e \in Tables /\ e.requests = d.requests /\ e.messages = d.messages
      /\ e.replies = d.replies /\ e.actions = rows
  BY <1>4, <1>6, <1>7 DEF Tables
<1> HIDE DEF e
<1>9. \A b \in ActionIds :
           \/ e.actions[b] = d.actions[b] /\ c[b] = c[b]
           \/ /\ e.actions[b].status # "absent" /\ Exists(d, b[1])
              /\ Sender[b[2]] = d.requests[b[1]].client /\ b[3] <= Chunks[b[2]]
              /\ MayUse(e.actions[b].topic, Sender[b[2]], owner, n)
              /\ c[b] <= 1
              /\ e.actions[b].status \in {"pending", "failed", "sending"} => c[b] = 0
  <2> TAKE b \in ActionIds
  <2>1. CASE b = a
    <3>1. MayUse(e.actions[b].topic, Sender[b[2]], owner, n)
      BY <1>3, <1>6, <1>8, <2>1 DEF MayUse
    <3> QED
      BY <1>1, <1>2, <1>3, <1>5, <1>6, <1>8, <2>1, <3>1
  <2>2. CASE b # a
    BY <1>6, <1>8, <2>2
  <2> QED
    BY <2>1, <2>2
<1>10. TablesFit(e, c, owner, n) /\ Follows(d, e)
  BY <1>8, <1>9, ActionsKeep
<1>11. Sending(e) = Sending(d) \cup {a}
  BY <1>2, <1>3, <1>6, <1>8 DEF Sending
<1> QED
  BY <1>10, <1>11 DEF e, a, row, Opening

\* A request is opened for a message of a client without one.
LEMMA OpenRequestFits ==
  ASSUME NEW owner \in Owners, HandoffFits(owner), NEW h \in Handlers,
         Around(h, owner, owner), copies' = copies, topics' = topics,
         taken[h] < Len(stream[h]), task[h].pc = "idle",
         NEW m \in Messages, Current(h).kind = "message", Current(h).of = m,
         FindActiveRequest(db, Sender[m]) = 0,
         OpenClientRequest(h, db, m)
  PROVE  HandoffInv'
<1> DEFINE latest == FindLatestRequest(db, Sender[m])
           reusable == IF latest = 0 THEN WebTopic ELSE TopicOf(db, latest)
           r == Newest({q \in Requests : Exists(db, q)}) + 1
           row == [status |-> "active", client |-> Sender[m], topic |-> WebTopic]
           created == RecordConversationMessage([db EXCEPT !.requests[r] = row], r, m)
           opening == Opening(created, r, m)
           x == [pc |-> "opening", request |-> r, message |-> m,
                 chunk |-> 0, topic |-> reusable, lost |-> FALSE]
<1>1. /\ r \in Requests
      /\ IF telegram = "connected" THEN Await(h, opening, x)
         ELSE RelayClientMessage(h, RecordWebTakeover(created, r), r, m, WebTopic, TRUE)
  BY DEF OpenClientRequest, Opening
<1>2. ~Exists(db, r)
  BY <1>1, Fresh
<1>3. /\ TablesFit(db, copies, owner, topics) /\ scenario \in Scenario
  BY DEF HandoffFits, HandoffTyped
<1>4. reusable \in Places /\ MayUse(reusable, Sender[m], owner, topics)
  BY <1>3, ReusableTopic
<1> HIDE DEF r, reusable
<1>5. /\ TablesFit(created, copies, owner, topics) /\ Follows(db, created)
      /\ Sending(created) = Sending(db)
      /\ created.requests[r] = row /\ <<r, m>> \in created.messages
      /\ created.actions = db.actions
  BY <1>1, <1>2, <1>3, CreationKeeps
<1> HIDE DEF created
<1>6. Exists(created, r) /\ created.requests[r].client = Sender[m]
  BY <1>5 DEF Exists
<1>7. Others(h) = Sending(db)
  BY DEF Others, Working
<1>8. MayUse(WebTopic, Sender[m], owner, topics)
  BY DEF MayUse
<1>9. CASE telegram = "connected"
  <2>1. copies[<<r, m, 0>>] = 0
    <3>1. MaxChunks \in Nat
      BY <1>3, ScenarioFacts
    <3>2. <<r, m, 0>> \in ActionIds
      BY <1>1, <3>1 DEF ActionIds
    <3>3. db.actions[<<r, m, 0>>].status = "absent"
      BY <1>2, <1>3, <3>2 DEF TablesFit, RowsFit
    <3> QED
      BY <1>3, <3>2, <3>3 DEF TablesFit, CopiesFit
  <2>2. /\ TablesFit(opening, copies, owner, topics) /\ Follows(created, opening)
        /\ Sending(opening) = Sending(created) \cup {<<r, m, 0>>}
    <3>1. TablesFit(created, copies, owner, topics)
      BY <1>5
    <3>2. r \in Requests /\ scenario \in Scenario
      BY <1>1, <1>3
    <3>3. TablesFit(opening, copies, owner, topics)
      BY <1>6, <2>1, <3>1, <3>2, OpeningKeeps
    <3>4. Follows(created, opening)
      BY <1>6, <2>1, <3>1, <3>2, OpeningKeeps
    <3>5. Sending(opening) = Sending(created) \cup {<<r, m, 0>>}
      BY <1>6, <2>1, <3>1, <3>2, OpeningKeeps
    <3> QED
      BY <3>3, <3>4, <3>5
  <2>3. Await(h, opening, x)
    BY <1>1, <1>9
  <2> HIDE DEF opening
  <2>4. /\ x.pc = "opening" /\ x.request = r /\ x.message = m /\ x.chunk = 0
        /\ x.topic = reusable
    OBVIOUS
  <2>5. x \in TaskRow
    BY <1>1, <1>4 DEF TaskRow, Messages
  <2> HIDE DEF x
  <2>6. db' = opening /\ Awaiting(h, x)
    BY <2>3 DEF Await, Awaiting, Marked
  <2>7. /\ TablesFit(db', copies', owner, topics') /\ Follows(db, db')
        /\ Sending(db') = Others(h) \cup {<<x.request, x.message, x.chunk>>}
    BY <1>5, <1>7, <2>2, <2>4, <2>6, FollowsTransitive
  <2>8. /\ Exists(db', x.request) /\ db'.requests[x.request].client = Sender[x.message]
        /\ <<x.request, x.message>> \in db'.messages
    BY <1>1, <1>5, <1>6, <2>2, <2>4, <2>6 DEF Follows
  <2>9. /\ MayUse(x.topic, Sender[x.message], owner, topics')
        /\ Current(h).of = x.message /\ x.pc \in {"relaying", "opening"}
        /\ IF x.pc = "opening" THEN x.chunk = 0 ELSE x.chunk \in 1..Chunks[x.message]
    BY <1>4, <2>4
  <2> QED
    BY <2>5, <2>6, <2>7, <2>8, <2>9, WorkFits
<1>10. CASE telegram # "connected"
  <2> DEFINE d == RecordWebTakeover(created, r)
  <2>1. /\ d \in Tables /\ d.requests = created.requests /\ d.actions = created.actions
        /\ d.messages = created.messages /\ d.replies = created.replies
    BY <1>1, <1>5, NotesKeep DEF TablesFit
  <2>2. RelayClientMessage(h, d, r, m, WebTopic, TRUE)
    BY <1>1, <1>10
  <2> HIDE DEF d
  <2>3. TablesFit(d, copies, owner, topics) /\ Follows(created, d) /\ Sending(d) = Sending(created)
    BY <1>5, <2>1, ToldKeeps
  <2>4. Exists(d, r) /\ d.requests[r].client = Sender[m]
    BY <1>6, <2>1 DEF Exists
  <2>5. WebTopic \in Places /\ TRUE \in BOOLEAN
    BY DEF Places
  <2>6. \/ RelayEnds(h, d, copies, owner, topics)
        \/ /\ RelayGoesOn(h, d, copies, owner, topics, r, m, WebTopic)
           /\ <<r, m>> \in db'.messages
    BY <1>1, <1>3, <1>8, <2>2, <2>3, <2>4, <2>5, MessageRelayed
  <2>7. Follows(db, d) /\ Sending(d) = Others(h)
    BY <1>5, <1>7, <2>3, FollowsTransitive
  <2>8. \/ RelayEnds(h, d, copies', owner, topics')
        \/ /\ RelayGoesOn(h, d, copies', owner, topics', r, m, WebTopic)
           /\ <<r, m>> \in db'.messages
    BY <2>6
  <2>9. MayUse(WebTopic, Sender[m], owner, topics')
    BY <1>8
  <2> QED
    BY <1>1, <2>4, <2>5, <2>7, <2>8, <2>9, RelayFits
<1> QED
  BY <1>9, <1>10

\* A client message is relayed, to a request it opened if need be.
LEMMA ProcessMessageFits ==
  ASSUME NEW owner \in Owners, HandoffFits(owner), NEW h \in Handlers,
         Around(h, owner, owner), copies' = copies, topics' = topics,
         taken[h] < Len(stream[h]), task[h].pc = "idle",
         NEW m \in Messages, Current(h).kind = "message", Current(h).of = m,
         ProcessClientMessage(h, m)
  PROVE  HandoffInv'
<1> DEFINE r == FindActiveRequest(db, Sender[m])
<1>1. r # 0 => r \in Requests /\ Active(db, r) /\ db.requests[r].client = Sender[m]
  BY FoundActive
<1>2. CASE r = 0
  BY <1>2, OpenRequestFits DEF ProcessClientMessage
<1>3. CASE r # 0
  <2> DEFINE t == TopicOf(db, r)
             d == IF t = WebTopic THEN RecordWebTakeover(db, r) ELSE db
  <2>1. RelayClientMessage(h, d, r, m, t, FALSE)
    BY <1>3 DEF ProcessClientMessage
  <2>2. TablesFit(db, copies, owner, topics) /\ scenario \in Scenario
    BY DEF HandoffFits, HandoffTyped
  <2> HIDE DEF r
  <2>3. r \in Requests /\ Exists(db, r) /\ db.requests[r].client = Sender[m]
    BY <1>1, <1>3 DEF Active, Exists
  <2>4. db.requests[r] \in RequestRow
    BY <2>2, <2>3 DEF TablesFit, Tables
  <2>5. t \in Places /\ MayUse(t, Sender[m], owner, topics)
    BY <2>2, <2>3, <2>4 DEF TablesFit, TopicsFit, TopicOf, RequestRow
  <2>6. /\ d \in Tables /\ d.requests = db.requests /\ d.actions = db.actions
        /\ d.messages = db.messages /\ d.replies = db.replies
    <3>1. db \in Tables
      BY <2>2 DEF TablesFit
    <3>2. LET f == RecordWebTakeover(db, r) IN
            f \in Tables /\ f.requests = db.requests /\ f.actions = db.actions
            /\ f.messages = db.messages /\ f.replies = db.replies
      BY <2>3, <3>1, NotesKeep
    <3> QED
      BY <3>1, <3>2
  <2> HIDE DEF d, t
  <2>7. TablesFit(d, copies, owner, topics) /\ Follows(db, d) /\ Sending(d) = Sending(db)
    BY <2>2, <2>6, ToldKeeps
  <2>8. Exists(d, r) /\ d.requests[r].client = Sender[m]
    BY <2>3, <2>6 DEF Exists
  <2>9. \/ RelayEnds(h, d, copies, owner, topics)
        \/ /\ RelayGoesOn(h, d, copies, owner, topics, r, m, t)
           /\ <<r, m>> \in db'.messages
    BY <2>1, <2>2, <2>3, <2>5, <2>7, <2>8, MessageRelayed
  <2>10. \/ RelayEnds(h, d, copies', owner, topics')
         \/ /\ RelayGoesOn(h, d, copies', owner, topics', r, m, t)
            /\ <<r, m>> \in db'.messages
    BY <2>9
  <2>11. Sending(d) = Others(h) /\ MayUse(t, Sender[m], owner, topics')
    BY <2>5, <2>7 DEF Others, Working
  <2> QED
    BY <2>3, <2>5, <2>7, <2>8, <2>10, <2>11, RelayFits
<1> QED
  BY <1>2, <1>3

-----------------------------------------------------------------------------
(* The answers to an opening.                                              *)

\* No answer to the opening: the web inbox takes the request.
LEMMA OpenUnansweredFits ==
  ASSUME NEW owner \in Owners, HandoffFits(owner), NEW h \in Handlers, scenario' = scenario,
         OpenUnanswered(h)
  PROVE  HandoffInv'
<1> DEFINE r == task[h].request
           a == <<r, task[h].message, 0>>
           d == SetAction(db, a, "outcome_unknown")
<1>1. /\ task[h].pc = "opening" /\ Working(h)
      /\ copies' = [copies EXCEPT ![a] = @ + 1] /\ UNCHANGED <<confirmed, telegram, topics>>
      /\ Finish(h, EnqueueHandoffAcknowledgement(RecordWebTakeover(d, r), r))
  BY DEF OpenUnanswered, Working
<1>2. /\ r \in Requests /\ taken[h] < Len(stream[h]) /\ Awaited(h) = a /\ a \in ActionIds
  BY <1>1, AtWork
<1> HIDE DEF a
<1>3. /\ TablesFit(d, copies', owner, topics) /\ Follows(db, d) /\ Sending(d) = Others(h)
  BY <1>1, <1>2, AnswerStored
<1>4. Around(h, owner, owner)
  BY <1>1, <1>2, AroundRelay
<1> HIDE DEF d
<1>5. d \in Tables
  BY <1>3 DEF TablesFit
<1>6. db' = EnqueueHandoffAcknowledgement(RecordWebTakeover(d, r), r) /\ Ended(h)
  BY <1>1 DEF Finish, Ended, Marked, CompleteEvent
<1>7. /\ db' \in Tables /\ db'.requests = d.requests /\ db'.actions = d.actions
      /\ db'.messages = d.messages /\ db'.replies = d.replies
  BY <1>2, <1>5, <1>6, NotesKeep
<1>8. TablesFit(db', copies', owner, topics) /\ Follows(d, db') /\ Sending(db') = Sending(d)
  BY <1>3, <1>7, ToldKeeps
<1>9. Follows(db, db') /\ Sending(db') = Others(h) /\ TablesFit(db', copies', owner, topics')
  BY <1>1, <1>3, <1>8, FollowsTransitive
<1> QED
  BY <1>2, <1>4, <1>6, <1>9, EndFits

\* The opening was refused: the web inbox takes the request.
LEMMA OpenRejectedFits ==
  ASSUME NEW owner \in Owners, HandoffFits(owner), NEW h \in Handlers, scenario' = scenario,
         OpenRejected(h)
  PROVE  HandoffInv'
<1> DEFINE r == task[h].request
           m == task[h].message
           a == <<r, m, 0>>
           b == SetAction(db, a, "failed")
           d == RecordWebTakeover(b, r)
<1>1. /\ task[h].pc = "opening" /\ Working(h)
      /\ UNCHANGED <<confirmed, telegram, topics, copies>>
      /\ RelayClientMessage(h, d, r, m, WebTopic, TRUE)
  BY DEF OpenRejected, Working
<1>2. /\ r \in Requests /\ m \in Messages /\ taken[h] < Len(stream[h]) /\ Awaited(h) = a
      /\ a \in ActionIds /\ copies[a] = 0 /\ db.actions[a].status = "sending"
      /\ Exists(db, r) /\ db.requests[r].client = Sender[m]
      /\ Others(h) = Sending(db) \ {a}
      /\ Current(h).kind = "message" /\ Current(h).of = m
  BY <1>1, AtWork
<1> HIDE DEF a
<1>3. TablesFit(db, copies, owner, topics) /\ scenario \in Scenario
  BY DEF HandoffFits, HandoffTyped
<1>4. TablesFit(b, copies, owner, topics) /\ Follows(db, b) /\ Sending(b) = Sending(db) \ {a}
  <2>1. db.actions[a].status # "absent"
    BY <1>2
  <2> QED
    BY <1>2, <1>3, <2>1, RefusedRow
<1> HIDE DEF b
<1>5. /\ d \in Tables /\ d.requests = b.requests /\ d.actions = b.actions
      /\ d.messages = b.messages /\ d.replies = b.replies
  BY <1>2, <1>4, NotesKeep DEF TablesFit
<1> HIDE DEF d
<1>6. TablesFit(d, copies, owner, topics) /\ Follows(b, d) /\ Sending(d) = Sending(b)
  BY <1>4, <1>5, ToldKeeps
<1>7. Follows(db, d) /\ Sending(d) = Others(h)
  BY <1>2, <1>4, <1>6, FollowsTransitive
<1>8. Exists(d, r) /\ d.requests[r].client = Sender[m]
  BY <1>2, <1>7 DEF Follows
<1>9. WebTopic \in Places /\ TRUE \in BOOLEAN /\ MayUse(WebTopic, Sender[m], owner, topics)
      /\ MayUse(WebTopic, Sender[m], owner, topics')
  BY DEF Places, MayUse
<1>10. \/ RelayEnds(h, d, copies, owner, topics)
       \/ /\ RelayGoesOn(h, d, copies, owner, topics, r, m, WebTopic)
          /\ <<r, m>> \in db'.messages
  BY <1>1, <1>2, <1>3, <1>6, <1>8, <1>9, MessageRelayed
<1>11. \/ RelayEnds(h, d, copies', owner, topics')
       \/ /\ RelayGoesOn(h, d, copies', owner, topics', r, m, WebTopic)
          /\ <<r, m>> \in db'.messages
  BY <1>1, <1>10
<1>12. Around(h, owner, owner)
  BY <1>1, AroundRelay
<1> QED
  BY <1>2, <1>7, <1>8, <1>9, <1>11, <1>12, RelayFits

\* The topic that was reopened is the client's; one that was created becomes his.
LEMMA TopicGiven ==
  ASSUME NEW owner \in Owners, HandoffFits(owner), NEW h \in Handlers, Working(h),
         NEW t \in ({task[h].topic} \ {WebTopic}) \cup ({topics + 1} \cap Topics),
         topics' = IF t > topics THEN t ELSE topics
  PROVE  \E more \in Owners :
           /\ TablesFit(db, copies, more, topics')
           /\ \A p \in Places : \A x : MayUse(p, x, owner, topics) => MayUse(p, x, more, topics')
           /\ MayUse(t, Sender[task[h].message], more, topics')
           /\ t \in Places /\ topics' \in 0..MaxTopics
<1> DEFINE client == Sender[task[h].message]
<1>1. /\ task[h].topic \in Places /\ MayUse(task[h].topic, client, owner, topics)
      /\ client \in Clients
  BY AtWork
<1>2. TablesFit(db, copies, owner, topics) /\ topics \in 0..MaxTopics /\ MaxTopics \in Nat
  BY HandoffAssumption DEF HandoffFits, HandoffTyped
<1> HIDE DEF client
<1>3. CASE t = topics + 1 /\ t \in Topics
  <2>1. topics' = topics + 1 /\ topics' \in 0..MaxTopics /\ t \in Places
    BY <1>2, <1>3 DEF Topics, Places
  <2>2. topics \in Nat /\ topics + 1 \in Topics
    BY <1>2, <1>3
  <2> DEFINE more == [owner EXCEPT ![topics + 1] = client]
  <2>3. /\ more \in Owners /\ TablesFit(db, copies, more, topics + 1)
        /\ \A p \in Places : \A x : MayUse(p, x, owner, topics) => MayUse(p, x, more, topics + 1)
        /\ MayUse(topics + 1, client, more, topics + 1)
    BY <1>1, <1>2, <2>2, TopicAdded
  <2> HIDE DEF more
  <2> QED
    BY <1>3, <2>1, <2>3 DEF client
<1>4. CASE t = task[h].topic /\ t # WebTopic
  <2>1. t <= topics
    BY <1>1, <1>4 DEF MayUse
  <2>2. t \in Int /\ topics \in Int
    BY <1>1, <1>2, <1>4 DEF Places, Topics
  <2>3. topics' = topics
    BY <2>1, <2>2
  <2> QED
    BY <1>1, <1>2, <1>4, <2>3 DEF client
<1> QED
  BY <1>3, <1>4

\* A topic was reopened or created for the request.
LEMMA OpenAcceptedFits ==
  ASSUME NEW owner \in Owners, HandoffFits(owner), NEW h \in Handlers, scenario' = scenario,
         OpenAccepted(h)
  PROVE  HandoffInv'
<1> DEFINE r == task[h].request
           m == task[h].message
           a == <<r, m, 0>>
<1>1. /\ task[h].pc = "opening" /\ Working(h)
      /\ copies' = [copies EXCEPT ![a] = @ + 1] /\ UNCHANGED <<confirmed, telegram>>
  BY DEF OpenAccepted, Working
<1>2. PICK t \in ({task[h].topic} \ {WebTopic}) \cup ({topics + 1} \cap Topics) :
          /\ topics' = IF t > topics THEN t ELSE topics
          /\ IF CanSwitch(db, r, WebTopic) /\ TopicIsFree(db, r, t)
             THEN RelayClientMessage(
                    h, SetAction(SwitchOperatorTopic(db, r, t), a, "sent"),
                    r, m, t, TRUE)
             ELSE Finish(h, EnqueueHandoffAcknowledgement(
                              RecordWebTakeover(
                                SetAction(db, a, "outcome_unknown"), r), r))
  BY DEF OpenAccepted
<1>3. /\ r \in Requests /\ m \in Messages /\ taken[h] < Len(stream[h]) /\ Awaited(h) = a
      /\ a \in ActionIds /\ copies[a] = 0 /\ db.actions[a].status = "sending"
      /\ Exists(db, r) /\ db.requests[r].client = Sender[m]
      /\ Others(h) = Sending(db) \ {a}
      /\ Current(h).kind = "message" /\ Current(h).of = m
  BY <1>1, AtWork
<1>4. PICK more \in Owners :
        /\ TablesFit(db, copies, more, topics')
        /\ \A p \in Places : \A x : MayUse(p, x, owner, topics) => MayUse(p, x, more, topics')
        /\ MayUse(t, Sender[m], more, topics')
        /\ t \in Places /\ topics' \in 0..MaxTopics
  BY <1>1, <1>2, TopicGiven
<1> HIDE DEF a
<1>5. copies \in [ActionIds -> Nat] /\ scenario \in Scenario
  BY DEF HandoffFits, HandoffTyped
<1>6. /\ copies' \in [ActionIds -> Nat] /\ copies'[a] <= 1
      /\ \A b \in ActionIds \ {a} : copies'[b] = copies[b]
  BY <1>1, <1>3, <1>5
<1>7. Around(h, owner, more)
  BY <1>1, <1>4, <1>6 DEF Around
<1>8. CASE CanSwitch(db, r, WebTopic) /\ TopicIsFree(db, r, t)
  <2> DEFINE s == SwitchOperatorTopic(db, r, t)
             d == SetAction(s, a, "sent")
  <2>1. RelayClientMessage(h, d, r, m, t, TRUE)
    BY <1>2, <1>8
  <2>2. /\ TablesFit(s, copies, more, topics') /\ Follows(db, s) /\ Sending(s) = Sending(db)
        /\ s.actions = db.actions
    BY <1>3, <1>4, SwitchKeeps
  <2> HIDE DEF s
  <2>3. /\ s.actions[a].status # "absent" /\ "sent" \in Statuses /\ "sent" # "absent"
        /\ "sent" \in {"pending", "failed", "sending"} => copies'[a] = 0
    BY <1>3, <2>2 DEF Statuses
  <2>4. TablesFit(d, copies', more, topics')
    BY <1>3, <1>6, <2>2, <2>3, SetActionKeeps
  <2>5. Follows(s, d)
    BY <1>3, <1>6, <2>2, <2>3, SetActionKeeps
  <2>6. Sending(d) = Sending(s) \ {a}
    BY <1>3, <2>2, SendingAfter DEF TablesFit, Statuses
  <2> HIDE DEF d
  <2>7. Follows(db, d) /\ Sending(d) = Others(h)
    BY <1>3, <2>2, <2>5, <2>6, FollowsTransitive
  <2>8. Exists(d, r) /\ d.requests[r].client = Sender[m]
    BY <1>3, <2>7 DEF Follows
  <2>9. \/ RelayEnds(h, d, copies', more, topics')
        \/ /\ RelayGoesOn(h, d, copies', more, topics', r, m, t)
           /\ <<r, m>> \in db'.messages
    BY <1>3, <1>4, <1>5, <2>1, <2>4, <2>8, MessageRelayed
  <2> QED
    BY <1>3, <1>4, <1>7, <2>7, <2>8, <2>9, RelayFits
<1>9. CASE ~(CanSwitch(db, r, WebTopic) /\ TopicIsFree(db, r, t))
  <2> DEFINE d == SetAction(db, a, "outcome_unknown")
  <2>1. Finish(h, EnqueueHandoffAcknowledgement(RecordWebTakeover(d, r), r))
    BY <1>2, <1>9
  <2>2. db.actions[a].status # "absent" /\ "outcome_unknown" \in {"sent", "outcome_unknown"}
    BY <1>3
  <2>3. TablesFit(d, copies', more, topics')
    BY <1>3, <1>4, <1>6, <2>2, CountKeeps
  <2>4. Follows(db, d)
    BY <1>3, <1>4, <1>6, <2>2, CountKeeps
  <2>5. Sending(d) = Others(h)
    BY <1>3, <1>4, SendingAfter DEF TablesFit, Statuses
  <2> HIDE DEF d
  <2>6. d \in Tables
    BY <2>3 DEF TablesFit
  <2>7. db' = EnqueueHandoffAcknowledgement(RecordWebTakeover(d, r), r) /\ Ended(h)
    BY <2>1 DEF Finish, Ended, Marked, CompleteEvent
  <2>8. /\ db' \in Tables /\ db'.requests = d.requests /\ db'.actions = d.actions
        /\ db'.messages = d.messages /\ db'.replies = d.replies
    BY <1>3, <2>6, <2>7, NotesKeep
  <2>9. TablesFit(db', copies', more, topics') /\ Follows(d, db') /\ Sending(db') = Sending(d)
    BY <2>3, <2>8, ToldKeeps
  <2>10. Follows(db, db') /\ Sending(db') = Others(h)
    BY <2>4, <2>5, <2>9, FollowsTransitive
  <2> QED
    BY <1>3, <1>7, <2>7, <2>9, <2>10, EndFits
<1> QED
  BY <1>8, <1>9

-----------------------------------------------------------------------------
(* Updates that are not messages.                                          *)

\* What Finish and Fail do to the poller,
LEMMA EndedWith ==
  ASSUME NEW h \in Handlers, NEW d, Finish(h, d) \/ Fail(h, d)
  PROVE  db' = d /\ Ended(h)
BY DEF Finish, Fail, Ended, Marked, CompleteEvent

\* and what Await does.
LEMMA AwaitedWith ==
  ASSUME NEW h \in Handlers, NEW d, NEW t, Await(h, d, t)
  PROVE  db' = d /\ Awaiting(h, t)
BY DEF Await, Awaiting, Marked

AwaitAbout(h, d, r) ==
  \E pc \in {"closing", "reopening", "resetting"} :
    Await(h, d, [NoTask EXCEPT !.pc = pc, !.request = r])

\* Where a poller that awaited no message ends its update, or awaits something
\* else, with tables that fit.
LEMMA QuietStepFits ==
  ASSUME NEW owner \in Owners, HandoffFits(owner), NEW h \in Handlers, ~Working(h),
         taken[h] < Len(stream[h]), Around(h, owner, owner), copies' = copies, topics' = topics,
         Current(h).kind # "message",
         NEW d, TablesFit(d, copies, owner, topics), Follows(db, d), Sending(d) = Sending(db),
         \/ Finish(h, d) \/ Fail(h, d)
         \/ \E r \in Requests : Exists(d, r) /\ AwaitAbout(h, d, r)
         \/ AwaitMenuAnswer(h, d)
  PROVE  HandoffInv'
<1>1. Others(h) = Sending(db)
  BY DEF Others
<1>2. CASE Finish(h, d) \/ Fail(h, d)
  <2>1. db' = d /\ Ended(h)
    BY <1>2, EndedWith
  <2>2. TablesFit(db', copies', owner, topics') /\ Follows(db, db') /\ Sending(db') = Others(h)
    BY <1>1, <2>1
  <2> QED
    BY <2>1, <2>2, EndFits
<1>3. ASSUME NEW t \in TaskRow, Await(h, d, t),
             t.pc \in {"closing", "reopening", "resetting", "answering"},
             t.pc # "answering" => t.request \in Requests /\ Exists(d, t.request)
      PROVE  HandoffInv'
  <2>1. db' = d /\ Awaiting(h, t)
    BY <1>3, AwaitedWith
  <2>2. TablesFit(db', copies', owner, topics') /\ Follows(db, db') /\ Sending(db') = Others(h)
        /\ (t.pc # "answering" => t.request \in Requests /\ Exists(db', t.request))
    BY <1>1, <1>3, <2>1
  <2> QED
    BY <1>3, <2>1, <2>2, AwaitFits
<1>4. ASSUME NEW r \in Requests, Exists(d, r), AwaitAbout(h, d, r)
      PROVE  HandoffInv'
  <2>1. PICK pc \in {"closing", "reopening", "resetting"} :
          Await(h, d, [NoTask EXCEPT !.pc = pc, !.request = r])
    BY <1>4 DEF AwaitAbout
  <2> DEFINE t == [NoTask EXCEPT !.pc = pc, !.request = r]
  <2>2. t \in TaskRow /\ t.pc = pc /\ t.request = r
    BY DEF NoTask, TaskRow, Places
  <2> HIDE DEF t
  <2>3. Await(h, d, t)
    BY <2>1 DEF t
  <2> QED
    BY <1>3, <1>4, <2>2, <2>3
<1>5. CASE AwaitMenuAnswer(h, d)
  <2> DEFINE t == [NoTask EXCEPT !.pc = "answering"]
  <2>2. t \in TaskRow /\ t.pc = "answering"
    BY DEF NoTask, TaskRow, Places
  <2> HIDE DEF t
  <2>3. Await(h, d, t)
    BY <1>5 DEF t, AwaitMenuAnswer
  <2> QED
    BY <1>3, <2>2, <2>3
<1> QED
  BY <1>2, <1>4, <1>5

\* Tables that did not change follow themselves.
LEMMA SameTables ==
  ASSUME NEW owner, HandoffFits(owner)
  PROVE  /\ TablesFit(db, copies, owner, topics) /\ Follows(db, db)
         /\ scenario \in Scenario /\ db \in Tables
BY DEF HandoffFits, HandoffTyped, Follows, TablesFit

\* The topic of a request is closed: its poller awaits that.
LEMMA Closing ==
  ASSUME NEW h, NEW d, NEW r, AwaitTopicClosed(h, d, r)
  PROVE  AwaitAbout(h, d, r)
BY DEF AwaitTopicClosed, AwaitAbout

\* What the program may reopen has no active rival.
LEMMA MayReopen ==
  ASSUME NEW d, NEW r, CanReopenRequest(d, r)
  PROVE  NoOtherActive(d, r)
BY DEF CanReopenRequest, NoOtherActive

\* An update from the operators' forum is handled.
LEMMA OperatorUpdateFits ==
  ASSUME NEW owner \in Owners, HandoffFits(owner), NEW h \in Handlers, task[h].pc = "idle",
         taken[h] < Len(stream[h]), Around(h, owner, owner), copies' = copies, topics' = topics,
         Current(h).kind \notin {"message", "newQuestion"}, HandleOperatorUpdate(h, Current(h))
  PROVE  HandoffInv'
<1> DEFINE e == Current(h)
           r == FindRequestByTopicId(db, e.of)
<1>1. ~Working(h) /\ e.kind # "message"
  BY DEF Working
<1>2. r # 0 => r \in Requests /\ Exists(db, r) /\ TopicOf(db, r) = e.of
  BY FoundByTopic
<1>3. /\ TablesFit(db, copies, owner, topics) /\ Follows(db, db) /\ db \in Tables
  BY SameTables
<1>4. \/ Finish(h, db)
      \/ r # 0 /\ Active(db, r) /\ Finish(h, EnqueueReply(db, e.of, r))
      \/ r # 0 /\ AwaitTopicClosed(h, CloseRequest(db, r), r)
      \/ r # 0 /\ Await(h, db, [NoTask EXCEPT !.pc = "reopening", !.request = r])
      \/ r # 0 /\ AwaitTopicClosed(h, db, r)
      \/ r # 0 /\ Finish(h, CloseRequest(db, r))
      \/ r # 0 /\ CanReopenRequest(db, r) /\ Finish(h, ReopenRequest(db, r))
  <2>1. taken[h] + 1 \in 1..Len(stream[h]) /\ stream[h] \in Seq(Event)
    BY DEF HandoffFits, HandoffTyped
  <2>2. e \in Event
    BY <2>1, ElementOfSeq DEF Current
  <2>3. e.kind \in {"reply", "/close", "/reopen", "topicClosed", "topicReopened"}
    BY <2>2 DEF Event, Kinds
  <2> HIDE DEF r
  <2>4. (CASE r = 0 -> Finish(h, db)
            [] r # 0 /\ e.kind = "reply" ->
                 Finish(h, IF Active(db, r) THEN EnqueueReply(db, e.of, r) ELSE db)
            [] r # 0 /\ e.kind = "/close" -> AwaitTopicClosed(h, CloseRequest(db, r), r)
            [] r # 0 /\ e.kind = "/reopen" ->
                 IF CanReopenRequest(db, r)
                 THEN Await(h, db, [NoTask EXCEPT !.pc = "reopening", !.request = r])
                 ELSE AwaitTopicClosed(h, db, r)
            [] r # 0 /\ e.kind = "topicClosed" ->
                 Finish(h, IF r <= e.at THEN CloseRequest(db, r) ELSE db)
            [] r # 0 /\ e.kind = "topicReopened" ->
                 IF CanReopenRequest(db, r) THEN Finish(h, ReopenRequest(db, r))
                 ELSE AwaitTopicClosed(h, db, r))
    BY DEF HandleOperatorUpdate, r
  <2> HIDE DEF e
  <2>5. CASE r = 0
    BY <2>4, <2>5
  <2>6. CASE r # 0 /\ e.kind = "reply"
    <3>1. Finish(h, IF Active(db, r) THEN EnqueueReply(db, e.of, r) ELSE db)
      BY <2>4, <2>6
    <3> QED
      BY <2>6, <3>1
  <2>7. CASE r # 0 /\ e.kind = "/close"
    BY <2>4, <2>7
  <2>8. CASE r # 0 /\ e.kind = "/reopen"
    BY <2>4, <2>8
  <2>9. CASE r # 0 /\ e.kind = "topicClosed"
    <3>1. Finish(h, IF r <= e.at THEN CloseRequest(db, r) ELSE db)
      BY <2>4, <2>9
    <3> QED
      BY <2>9, <3>1
  <2>10. CASE r # 0 /\ e.kind = "topicReopened"
    BY <2>4, <2>10
  <2> QED
    BY <2>3, <2>5, <2>6, <2>7, <2>8, <2>9, <2>10
<1> HIDE DEF r
<1>5. CASE Finish(h, db)
  BY <1>1, <1>3, <1>5, QuietStepFits
<1>6. CASE r # 0 /\ Active(db, r) /\ Finish(h, EnqueueReply(db, e.of, r))
  <2> DEFINE d == EnqueueReply(db, e.of, r)
  <2>1. e.of \in Places
    <3>1. db.requests[r] \in RequestRow
      BY <1>2, <1>3, <1>6 DEF Tables
    <3> QED
      BY <1>2, <1>6, <3>1 DEF RequestRow, TopicOf
  <2> HIDE DEF e
  <2>2. TablesFit(d, copies, owner, topics) /\ Follows(db, d) /\ Sending(d) = Sending(db)
    BY <1>2, <1>3, <1>6, <2>1, ReplyKeeps
  <2> HIDE DEF d
  <2>3. Finish(h, d)
    BY <1>6 DEF d
  <2> QED
    BY <1>1, <2>2, <2>3, QuietStepFits DEF e
<1>7. r # 0 => /\ TablesFit(CloseRequest(db, r), copies, owner, topics)
               /\ Follows(db, CloseRequest(db, r)) /\ Sending(CloseRequest(db, r)) = Sending(db)
  BY <1>2, <1>3, CloseKeeps
<1>8. CASE r # 0 /\ AwaitTopicClosed(h, CloseRequest(db, r), r)
  <2>1. Exists(CloseRequest(db, r), r) /\ AwaitAbout(h, CloseRequest(db, r), r)
    BY <1>2, <1>7, <1>8, Closing DEF Follows
  <2> QED
    BY <1>1, <1>2, <1>7, <1>8, <2>1, QuietStepFits
<1>9. CASE r # 0 /\ Await(h, db, [NoTask EXCEPT !.pc = "reopening", !.request = r])
  <2>1. AwaitAbout(h, db, r)
    BY <1>9 DEF AwaitAbout
  <2> QED
    BY <1>1, <1>2, <1>3, <1>9, <2>1, QuietStepFits
<1>10. CASE r # 0 /\ AwaitTopicClosed(h, db, r)
  <2>1. AwaitAbout(h, db, r)
    BY <1>10, Closing
  <2> QED
    BY <1>1, <1>2, <1>3, <1>10, <2>1, QuietStepFits
<1>11. CASE r # 0 /\ Finish(h, CloseRequest(db, r))
  BY <1>1, <1>7, <1>11, QuietStepFits
<1>12. CASE r # 0 /\ CanReopenRequest(db, r) /\ Finish(h, ReopenRequest(db, r))
  <2> DEFINE d == ReopenRequest(db, r)
  <2>1. TablesFit(d, copies, owner, topics) /\ Follows(db, d) /\ Sending(d) = Sending(db)
    BY <1>2, <1>3, <1>12, MayReopen, ReopenKeeps
  <2> HIDE DEF d
  <2>2. Finish(h, d)
    BY <1>12 DEF d
  <2> QED
    BY <1>1, <2>1, <2>2, QuietStepFits
<1> QED
  BY <1>4, <1>5, <1>6, <1>8, <1>9, <1>10, <1>11, <1>12

\* The client asks a new question.
LEMMA ResetFits ==
  ASSUME NEW owner \in Owners, HandoffFits(owner), NEW h \in Handlers, task[h].pc = "idle",
         taken[h] < Len(stream[h]), Around(h, owner, owner), copies' = copies, topics' = topics,
         Current(h).kind # "message", NEW c, ResetConversation(h, c)
  PROVE  HandoffInv'
<1> DEFINE r == FindActiveRequest(db, c)
<1>1. ~Working(h)
  BY DEF Working
<1>2. r # 0 => r \in Requests /\ Active(db, r)
  BY FoundActive
<1>3. /\ TablesFit(db, copies, owner, topics) /\ Follows(db, db)
  BY SameTables
<1>4. \/ AwaitMenuAnswer(h, db)
      \/ r # 0 /\ AwaitMenuAnswer(h, CloseRequest(db, r))
      \/ r # 0 /\ Await(h, db, [NoTask EXCEPT !.pc = "resetting", !.request = r])
  BY DEF ResetConversation
<1> HIDE DEF r
<1>5. r # 0 => Exists(db, r)
  BY <1>2 DEF Active, Exists
<1>6. CASE AwaitMenuAnswer(h, db)
  BY <1>1, <1>3, <1>6, QuietStepFits
<1>7. CASE r # 0 /\ AwaitMenuAnswer(h, CloseRequest(db, r))
  <2>1. /\ TablesFit(CloseRequest(db, r), copies, owner, topics)
        /\ Follows(db, CloseRequest(db, r)) /\ Sending(CloseRequest(db, r)) = Sending(db)
    BY <1>2, <1>3, <1>5, <1>7, CloseKeeps
  <2> QED
    BY <1>1, <1>7, <2>1, QuietStepFits
<1>8. CASE r # 0 /\ Await(h, db, [NoTask EXCEPT !.pc = "resetting", !.request = r])
  <2>1. AwaitAbout(h, db, r)
    BY <1>8 DEF AwaitAbout
  <2> QED
    BY <1>1, <1>2, <1>3, <1>5, <1>8, <2>1, QuietStepFits
<1> QED
  BY <1>4, <1>6, <1>7, <1>8

\* Telegram answers about a topic or about the menu.
LEMMA QuietAnswerFits ==
  ASSUME NEW owner \in Owners, HandoffFits(owner), NEW h \in Handlers, scenario' = scenario,
         \/ TopicCloseAnswered(h) \/ ReopenAnswered(h) \/ ResetAnswered(h) \/ MenuAnswered(h)
  PROVE  HandoffInv'
<1> DEFINE r == task[h].request
<1>1. /\ ~Working(h) /\ task[h].pc # "idle"
      /\ UNCHANGED <<confirmed, telegram, topics, copies>>
  BY DEF TopicCloseAnswered, ReopenAnswered, ResetAnswered, MenuAnswered, Working
<1>2. TaskFits(h, owner)
  BY DEF HandoffFits
<1>3. taken[h] < Len(stream[h]) /\ Current(h).kind # "message"
  BY <1>1, <1>2 DEF TaskFits
<1>4. Around(h, owner, owner) /\ copies' = copies /\ topics' = topics
  BY <1>1, AroundRelay
<1>5. /\ TablesFit(db, copies, owner, topics) /\ Follows(db, db)
  BY SameTables
<1>6. CASE Finish(h, db) \/ Fail(h, db)
  BY <1>1, <1>3, <1>4, <1>5, <1>6, QuietStepFits
<1>7. CASE task[h].pc = "reopening" /\ NoOtherActive(db, r) /\ Finish(h, ReopenRequest(db, r))
  <2>1. Exists(db, r) /\ r \in Requests
    BY <1>1, <1>2, <1>7 DEF TaskFits
  <2> DEFINE d == ReopenRequest(db, r)
  <2>2. TablesFit(d, copies, owner, topics) /\ Follows(db, d) /\ Sending(d) = Sending(db)
    BY <1>5, <1>7, <2>1, ReopenKeeps
  <2> HIDE DEF d
  <2>3. Finish(h, d)
    BY <1>7 DEF d
  <2> QED
    BY <1>1, <1>3, <1>4, <2>2, <2>3, QuietStepFits
<1>8. CASE task[h].pc = "resetting" /\ AwaitMenuAnswer(h, CloseRequest(db, r))
  <2>1. Exists(db, r) /\ r \in Requests
    BY <1>1, <1>2, <1>8 DEF TaskFits
  <2> DEFINE d == CloseRequest(db, r)
  <2>2. TablesFit(d, copies, owner, topics) /\ Follows(db, d) /\ Sending(d) = Sending(db)
    BY <1>5, <2>1, CloseKeeps
  <2> HIDE DEF d
  <2>3. AwaitMenuAnswer(h, d)
    BY <1>8 DEF d
  <2> QED
    BY <1>1, <1>3, <1>4, <2>2, <2>3, QuietStepFits
<1> QED
  BY <1>6, <1>7, <1>8 DEF TopicCloseAnswered, ReopenAnswered, ResetAnswered, MenuAnswered

-----------------------------------------------------------------------------
(* Steps that leave every task alone.                                      *)

\* A step that leaves the updates and tasks alone.
LEMMA StillFits ==
  ASSUME NEW owner \in Owners, HandoffFits(owner), scenario' = scenario,
         task' = task, copies' = copies, topics' = topics,
         telegram' \in {"connected", "stopping", "disconnected"},
         stream' \in [Handlers -> Seq(Event)],
         taken' \in [Handlers -> Nat], confirmed' \in [Handlers -> Nat],
         \A g \in Handlers : confirmed'[g] <= taken'[g] /\ taken'[g] <= Len(stream'[g]),
         UpdatesFit',
         \A g \in Handlers : task[g].pc # "idle" =>
           /\ taken'[g] = taken[g] /\ taken[g] < Len(stream'[g])
           /\ stream'[g][taken[g] + 1] = stream[g][taken[g] + 1],
         TablesFit(db', copies, owner, topics), Follows(db, db'), Sending(db') = Sending(db)
  PROVE  HandoffInv'
<1>1. Sender' = Sender /\ Chunks' = Chunks
  BY DEF Sender, Chunks
<1>2. (Sending(db))' = Sending(db)
  BY DEF Sending
<1>3. \A g \in Handlers : (Working(g))' = Working(g) /\ (Awaited(g))' = Awaited(g)
  BY DEF Working, Awaited
<1>4. HandoffTyped'
  <2>1. db' \in Tables
    BY DEF TablesFit
  <2> QED
    BY <2>1 DEF HandoffFits, HandoffTyped
<1>5. SendingIsAwaited'
  BY <1>2, <1>3 DEF HandoffFits, SendingIsAwaited
<1>6. TablesFit(db, copies, owner, topics)'
  <2>1. TablesFit(db', copies', owner, topics')
    OBVIOUS
  <2> QED
    BY <2>1, FitsPrimed
<1>7. ASSUME NEW g \in Handlers
      PROVE  TaskFits(g, owner)'
  <2>1. TaskFits(g, owner)
    BY DEF HandoffFits
  <2>2. task[g].pc # "idle" => (Current(g))' = Current(g) /\ taken[g] < Len(stream[g])
    BY <2>1 DEF TaskFits, Current
  <2>3. task'[g].pc # "idle" =>
          taken'[g] < Len(stream'[g]) /\ (Current(g))'.status = "processing"
    BY <2>1, <2>2 DEF TaskFits
  <2>4. task'[g].pc # "idle" /\ ~(Working(g))' =>
          /\ (Current(g))'.kind # "message"
          /\ task'[g].pc # "answering" => Exists(db', task'[g].request) /\ task'[g].request \in Requests
    BY <1>3, <2>1, <2>2 DEF TaskFits, Follows
  <2>5. ASSUME (Working(g))'
        PROVE  LET r == task'[g].request  m == task'[g].message IN
               /\ (Current(g))'.kind = "message" /\ (Current(g))'.of = m
               /\ (Awaited(g))' \in (Sending(db))'
               /\ IF task'[g].pc = "opening" THEN task'[g].chunk = 0 ELSE task'[g].chunk \in 1..Chunks'[m]
               /\ Exists(db', r) /\ db'.requests[r].client = Sender'[m]
               /\ <<r, m>> \in db'.messages
               /\ MayUse(task'[g].topic, Sender'[m], owner, topics')
    <3> DEFINE r == task[g].request
               m == task[g].message
    <3>1. Working(g) /\ task[g].pc # "idle"
      BY <1>3, <2>5 DEF Working
    <3>2. /\ Current(g).kind = "message" /\ Current(g).of = m
          /\ Awaited(g) \in Sending(db)
          /\ IF task[g].pc = "opening" THEN task[g].chunk = 0 ELSE task[g].chunk \in 1..Chunks[m]
          /\ Exists(db, r) /\ db.requests[r].client = Sender[m]
          /\ <<r, m>> \in db.messages
          /\ MayUse(task[g].topic, Sender[m], owner, topics)
      BY <2>1, <3>1 DEF TaskFits
    <3>3. r \in Requests
      BY <3>2 DEF Sending, Awaited, ActionIds
    <3>4. Exists(db', r) /\ db'.requests[r].client = Sender[m] /\ <<r, m>> \in db'.messages
      BY <3>2, <3>3 DEF Follows
    <3> QED
      BY <1>1, <1>2, <1>3, <2>2, <3>1, <3>2, <3>4
  <2> QED
    BY <2>3, <2>4, <2>5 DEF TaskFits, Exists, MayUse
<1>8. HandoffFits(owner)'
  BY <1>4, <1>5, <1>6, <1>7 DEF HandoffFits
<1> QED
  BY <1>8 DEF HandoffInv

\* Over HTTP only the tables change.
LEMMA TablesOnlyFit ==
  ASSUME NEW owner \in Owners, HandoffFits(owner), scenario' = scenario,
         NEW d, OnlyTables(d),
         TablesFit(d, copies, owner, topics), Follows(db, d), Sending(d) = Sending(db)
  PROVE  HandoffInv'
<1>1. /\ db' = d /\ UNCHANGED <<stream, taken, confirmed, task, telegram, topics, copies>>
  BY DEF OnlyTables
<1>2. HandoffTyped /\ UpdatesFit /\ \A g \in Handlers : TaskFits(g, owner)
  BY DEF HandoffFits
<1>3. UpdatesFit'
  BY <1>1, <1>2 DEF UpdatesFit, HandlerOf, Sender
<1>4. \A g \in Handlers : task[g].pc # "idle" => taken[g] < Len(stream[g])
  BY <1>2 DEF TaskFits
<1> QED
  BY <1>1, <1>2, <1>3, <1>4, StillFits DEF HandoffTyped

\* A web operator replies or closes.
LEMMA WebFits ==
  ASSUME NEW owner \in Owners, HandoffFits(owner), scenario' = scenario,
         NEW r \in Requests, WebReply(r) \/ WebClose(r)
  PROVE  HandoffInv'
<1>1. TablesFit(db, copies, owner, topics)
  BY SameTables
<1>2. InWeb(r)
  BY DEF WebReply, WebClose
<1>3. Exists(db, r) /\ WebTopic \in Places
  BY <1>2 DEF InWeb, Active, Exists, Places
<1>4. CASE WebReply(r)
  <2> DEFINE d == EnqueueReply(db, WebTopic, r)
  <2>1. TablesFit(d, copies, owner, topics) /\ Follows(db, d) /\ Sending(d) = Sending(db)
    BY <1>1, <1>3, ReplyKeeps
  <2> HIDE DEF d
  <2>2. OnlyTables(d)
    BY <1>4 DEF WebReply, d
  <2> QED
    BY <2>1, <2>2, TablesOnlyFit
<1>5. CASE WebClose(r)
  <2> DEFINE d == CloseRequest(db, r)
  <2>1. TablesFit(d, copies, owner, topics) /\ Follows(db, d) /\ Sending(d) = Sending(db)
    BY <1>1, <1>3, CloseKeeps
  <2> HIDE DEF d
  <2>2. OnlyTables(d)
    BY <1>5 DEF WebClose, d
  <2> QED
    BY <2>1, <2>2, TablesOnlyFit
<1> QED
  BY <1>4, <1>5

\* The owner confirms that an uncertain chunk was received,
LEMMA ConfirmFits ==
  ASSUME NEW owner \in Owners, HandoffFits(owner), scenario' = scenario,
         NEW a \in ActionIds, ConfirmReceived(a)
  PROVE  HandoffInv'
<1> DEFINE d == SetAction(db, a, "confirmed")
           e == EnqueueHandoffAcknowledgement(d, a[1])
<1>1. TablesFit(db, copies, owner, topics) /\ db \in Tables
  BY SameTables
<1>2. /\ db.actions[a].status = "outcome_unknown"
      /\ OnlyTables(d) \/ OnlyTables(e)
  BY DEF ConfirmReceived, Uncertain
<1>3. copies[a] <= 1 /\ db.actions[a].status # "absent"
      /\ "confirmed" \in {"sent", "confirmed", "outcome_unknown"}
      /\ \A b \in ActionIds \ {a} : copies[b] = copies[b]
  BY <1>1, <1>2 DEF TablesFit, CopiesFit
<1>4. TablesFit(d, copies, owner, topics)
  BY <1>1, <1>3, CountKeeps
<1>5. Follows(db, d)
  BY <1>1, <1>3, CountKeeps
<1>6. Sending(d) = Sending(db)
  <2>1. Sending(d) = Sending(db) \ {a}
    BY <1>1, SendingAfter DEF Statuses
  <2> QED
    BY <1>2, <2>1 DEF Sending
<1> HIDE DEF d
<1>7. /\ e \in Tables /\ e.requests = d.requests /\ e.actions = d.actions
      /\ e.messages = d.messages /\ e.replies = d.replies
  <2>1. d \in Tables /\ a[1] \in Requests
    BY <1>4 DEF TablesFit, ActionIds
  <2> QED
    BY <2>1, NotesKeep
<1> HIDE DEF e
<1>8. TablesFit(e, copies, owner, topics) /\ Follows(d, e) /\ Sending(e) = Sending(d)
  BY <1>4, <1>7, ToldKeeps
<1>9. Follows(db, e) /\ Sending(e) = Sending(db)
  BY <1>5, <1>6, <1>8, FollowsTransitive
<1>10. CASE OnlyTables(d)
  BY <1>4, <1>5, <1>6, <1>10, TablesOnlyFit
<1>11. CASE OnlyTables(e)
  BY <1>8, <1>9, <1>11, TablesOnlyFit
<1> QED
  BY <1>2, <1>10, <1>11

\* Nothing uncertain is left of the message; nothing is counted.
LEMMA ResolveKeeps ==
  ASSUME NEW d, NEW c, NEW owner, NEW n, NEW a \in ActionIds,
         TablesFit(d, c, owner, n), d.actions = db.actions
  PROVE  LET e == ResolveAsWeb(d, a) IN
         TablesFit(e, c, owner, n) /\ Follows(d, e) /\ Sending(e) = Sending(d)
<1> DEFINE hit(b) == b[1] = a[1] /\ b[2] = a[2] /\ Uncertain(b)
           rows == [b \in ActionIds |->
                      IF hit(b) THEN [d.actions[b] EXCEPT !.status = "abandoned"]
                      ELSE d.actions[b]]
           e == ResolveAsWeb(d, a)
<1>1. d \in Tables /\ d.actions \in [ActionIds -> ActionRow]
  BY DEF TablesFit, Tables
<1>2. \A b \in ActionIds :
        /\ rows[b] \in ActionRow
        /\ rows[b] = d.actions[b] \/ /\ rows[b].status = "abandoned"
                                     /\ rows[b].topic = d.actions[b].topic
                                     /\ d.actions[b].status = "outcome_unknown"
  <2> TAKE b \in ActionIds
  <2> DEFINE x == [d.actions[b] EXCEPT !.status = "abandoned"]
  <2>1. d.actions[b] \in ActionRow
    BY <1>1
  <2>2. x \in ActionRow /\ x.status = "abandoned" /\ x.topic = d.actions[b].topic
    BY <2>1 DEF ActionRow, Statuses
  <2> HIDE DEF x
  <2>3. rows[b] = IF hit(b) THEN x ELSE d.actions[b]
    BY DEF x
  <2>4. hit(b) => d.actions[b].status = "outcome_unknown"
    BY DEF Uncertain
  <2> HIDE DEF hit, rows
  <2> QED
    BY <2>1, <2>2, <2>3, <2>4
<1>3. e = [d EXCEPT !.actions = rows]
  BY DEF ResolveAsWeb
<1>4. rows \in [ActionIds -> ActionRow]
  BY <1>2
<1> HIDE DEF rows, e
<1>5. /\ e \in Tables /\ e.requests = d.requests /\ e.messages = d.messages
      /\ e.replies = d.replies /\ e.actions = rows
  BY <1>1, <1>3, <1>4 DEF Tables
<1>6. \A b \in ActionIds :
           \/ e.actions[b] = d.actions[b] /\ c[b] = c[b]
           \/ /\ e.actions[b].status # "absent" /\ Exists(d, b[1])
              /\ Sender[b[2]] = d.requests[b[1]].client /\ b[3] <= Chunks[b[2]]
              /\ MayUse(e.actions[b].topic, Sender[b[2]], owner, n)
              /\ c[b] <= 1
              /\ e.actions[b].status \in {"pending", "failed", "sending"} => c[b] = 0
  BY <1>2, <1>5 DEF TablesFit, CopiesFit, RowsFit, TopicsFit
<1>7. TablesFit(e, c, owner, n) /\ Follows(d, e)
  BY <1>5, <1>6, ActionsKeep
<1>8. Sending(e) = Sending(d)
  BY <1>2, <1>5 DEF Sending
<1> QED
  BY <1>7, <1>8 DEF e

\* or moves its request to the web inbox.
LEMMA MoveFits ==
  ASSUME NEW owner \in Owners, HandoffFits(owner), scenario' = scenario,
         NEW a \in ActionIds, MoveToWeb(a)
  PROVE  HandoffInv'
<1> DEFINE r == a[1]
           moved == SwitchOperatorTopic(db, r, WebTopic)
           told == IF db.actions[a].initial
                   THEN EnqueueHandoffAcknowledgement(moved, r) ELSE moved
           resolved == ResolveAsWeb(told, a)
           e == RecordWebTakeover(resolved, r)
<1>1. TablesFit(db, copies, owner, topics) /\ db \in Tables
  BY SameTables
<1>2. r \in Requests
  BY DEF ActionIds
<1>3. OnlyTables(e) /\ Exists(db, r)
  BY DEF MoveToWeb, CanMoveToWeb, Active, Exists
<1>4. WebTopic \in Places /\ MayUse(WebTopic, db.requests[r].client, owner, topics)
  BY DEF Places, MayUse
<1>5. /\ TablesFit(moved, copies, owner, topics) /\ Follows(db, moved)
      /\ Sending(moved) = Sending(db) /\ moved.actions = db.actions
  BY <1>1, <1>2, <1>3, <1>4, SwitchKeeps
<1> HIDE DEF moved, r
<1>6. /\ told \in Tables /\ told.requests = moved.requests /\ told.actions = moved.actions
      /\ told.messages = moved.messages /\ told.replies = moved.replies
  <2>1. moved \in Tables
    BY <1>5 DEF TablesFit
  <2>2. LET f == EnqueueHandoffAcknowledgement(moved, r) IN
            f \in Tables /\ f.requests = moved.requests /\ f.actions = moved.actions
            /\ f.messages = moved.messages /\ f.replies = moved.replies
    BY <1>2, <2>1, NotesKeep
  <2> QED
    BY <2>1, <2>2
<1> HIDE DEF told
<1>7. TablesFit(told, copies, owner, topics) /\ Follows(moved, told) /\ Sending(told) = Sending(moved)
  BY <1>5, <1>6, ToldKeeps
<1>8. /\ TablesFit(resolved, copies, owner, topics) /\ Follows(told, resolved)
      /\ Sending(resolved) = Sending(told)
  BY <1>5, <1>6, <1>7, ResolveKeeps
<1> HIDE DEF resolved
<1>9. /\ e \in Tables /\ e.requests = resolved.requests /\ e.actions = resolved.actions
      /\ e.messages = resolved.messages /\ e.replies = resolved.replies
  BY <1>2, <1>8, NotesKeep DEF TablesFit
<1> HIDE DEF e
<1>10. TablesFit(e, copies, owner, topics) /\ Follows(resolved, e) /\ Sending(e) = Sending(resolved)
  BY <1>8, <1>9, ToldKeeps
<1>11. Follows(db, e)
  BY <1>5, <1>7, <1>8, <1>10, FollowsTransitive
<1>12. Sending(e) = Sending(db)
  BY <1>5, <1>7, <1>8, <1>10
<1> QED
  BY <1>3, <1>10, <1>11, <1>12, TablesOnlyFit

\* An update arrives.
LEMMA ArriveFits ==
  ASSUME NEW owner \in Owners, HandoffFits(owner), scenario' = scenario,
         NEW h \in Handlers, NEW kind \in Kinds \cup {"message"}, NEW x, NEW at \in Nat,
         kind = "message" =>
           x \in Messages /\ HandlerOf(Sender[x]) = h /\ ~Arrived("message", x),
         kind = "newQuestion" => x \in Clients,
         kind \notin {"message", "newQuestion"} => x \in Topics,
         Arrive(h, kind, x, at)
  PROVE  HandoffInv'
<1> DEFINE e == [kind |-> kind, of |-> x, at |-> at, status |-> "none"]
<1>1. /\ stream' = [stream EXCEPT ![h] = Append(@, e)]
      /\ UNCHANGED <<db, taken, confirmed, task, telegram, topics, copies>>
  BY DEF Arrive
<1>2. e \in Event /\ e.kind = kind /\ e.of = x
  BY DEF Event, Kinds
<1> HIDE DEF e
<1>3. HandoffTyped /\ UpdatesFit /\ (\A g \in Handlers : TaskFits(g, owner))
      /\ TablesFit(db, copies, owner, topics) /\ Follows(db, db)
  BY SameTables DEF HandoffFits
<1>4. /\ stream \in [Handlers -> Seq(Event)] /\ stream[h] \in Seq(Event)
      /\ \A g \in Handlers : Len(stream[g]) \in Nat /\ taken[g] \in Nat
  BY <1>3 DEF HandoffTyped
<1>5. /\ Append(stream[h], e) \in Seq(Event)
      /\ Len(Append(stream[h], e)) = Len(stream[h]) + 1
      /\ \A i \in 1..Len(stream[h]) : Append(stream[h], e)[i] = stream[h][i]
      /\ Append(stream[h], e)[Len(stream[h]) + 1] = e
  BY <1>2, <1>4, AppendProperties
<1>6. /\ stream' \in [Handlers -> Seq(Event)]
      /\ stream'[h] = Append(stream[h], e) /\ \A g \in Handlers \ {h} : stream'[g] = stream[g]
  BY <1>1, <1>4, <1>5
<1>7. \A g \in Handlers : /\ Len(stream[g]) <= Len(stream'[g])
                          /\ \A i \in 1..Len(stream[g]) : stream'[g][i] = stream[g][i]
  <2> TAKE g \in Handlers
  <2>1. CASE g = h
    BY <1>4, <1>5, <1>6, <2>1
  <2>2. CASE g # h
    BY <1>4, <1>6, <2>2
  <2> QED
    BY <2>1, <2>2
<1>8. UpdatesFit'
  <2>1. Sender' = Sender
    BY DEF Sender
  <2> SUFFICES ASSUME NEW g \in Handlers, NEW i \in 1..Len(stream'[g])
               PROVE  LET u == stream'[g][i] IN
                      /\ u.kind = "message" =>
                           /\ u.of \in Messages /\ HandlerOf(Sender[u.of]) = g
                           /\ \A j \in 1..Len(stream'[g]) :
                                stream'[g][j].kind = "message" /\ stream'[g][j].of = u.of => j = i
                      /\ u.kind = "newQuestion" => u.of \in Clients
                      /\ u.kind \notin {"message", "newQuestion"} => u.of \in Topics
    BY <2>1 DEF UpdatesFit, HandlerOf
  <2>2. CASE g # h
    BY <1>3, <1>6, <2>2 DEF UpdatesFit
  <2>3. CASE g = h
    <3> DEFINE n == Len(stream[h]) + 1
    <3>1. Len(stream'[h]) = n /\ stream'[h][n] = e /\ n \in Nat /\ n \notin 1..Len(stream[h])
          /\ \A j \in 1..Len(stream'[h]) : j = n \/ (j \in 1..Len(stream[h]) /\ stream'[h][j] = stream[h][j])
      BY <1>4, <1>5, <1>6
    <3>2. kind = "message" =>
            \A j \in 1..Len(stream[h]) : ~(stream[h][j].kind = "message" /\ stream[h][j].of = x)
      BY DEF Arrived
    <3> HIDE DEF n
    <3>3. CASE i = n
      BY <1>2, <2>3, <3>1, <3>2, <3>3
    <3>4. CASE i \in 1..Len(stream[h])
      <4>1. stream'[g][i] = stream[h][i]
        BY <1>7, <2>3, <3>4
      <4>2. stream[h][i].kind = "message" =>
              \A j \in 1..Len(stream'[g]) :
                stream'[g][j].kind = "message" /\ stream'[g][j].of = stream[h][i].of => j = i
        <5> SUFFICES ASSUME stream[h][i].kind = "message", NEW j \in 1..Len(stream'[g]),
                            stream'[g][j].kind = "message", stream'[g][j].of = stream[h][i].of
                     PROVE  j = i
          OBVIOUS
        <5>1. CASE j = n
          BY <1>2, <2>3, <3>1, <3>2, <3>4, <5>1
        <5>2. CASE j \in 1..Len(stream[h])
          BY <1>3, <1>7, <2>3, <3>4, <5>2 DEF UpdatesFit
        <5> QED
          BY <2>3, <3>1, <5>1, <5>2
      <4> QED
        BY <1>3, <2>3, <3>4, <4>1, <4>2 DEF UpdatesFit
    <3> QED
      BY <2>3, <3>1, <3>3, <3>4
  <2> QED
    BY <2>2, <2>3
<1>9. \A g \in Handlers : task[g].pc # "idle" =>
           /\ taken'[g] = taken[g] /\ taken[g] < Len(stream'[g])
           /\ stream'[g][taken[g] + 1] = stream[g][taken[g] + 1]
  <2> SUFFICES ASSUME NEW g \in Handlers, task[g].pc # "idle"
               PROVE  /\ taken'[g] = taken[g] /\ taken[g] < Len(stream'[g])
                      /\ stream'[g][taken[g] + 1] = stream[g][taken[g] + 1]
    OBVIOUS
  <2>1. taken[g] < Len(stream[g])
    BY <1>3 DEF TaskFits
  <2>2. Len(stream'[g]) \in Nat
    BY <1>6
  <2>3. taken[g] + 1 \in 1..Len(stream[g])
    BY <1>4, <2>1
  <2> QED
    BY <1>1, <1>4, <1>7, <2>1, <2>2, <2>3
<1>10. \A g \in Handlers : confirmed'[g] <= taken'[g] /\ taken'[g] <= Len(stream'[g])
  <2> TAKE g \in Handlers
  <2>1. Len(stream'[g]) \in Nat /\ Len(stream[g]) <= Len(stream'[g])
    BY <1>6, <1>7
  <2> QED
    BY <1>1, <1>3, <1>4, <2>1 DEF HandoffTyped
<1>11. TablesFit(db', copies, owner, topics) /\ Follows(db, db') /\ Sending(db') = Sending(db)
  BY <1>1, <1>3
<1>12. /\ taken' \in [Handlers -> Nat] /\ confirmed' \in [Handlers -> Nat]
       /\ telegram' \in {"connected", "stopping", "disconnected"}
       /\ task' = task /\ copies' = copies /\ topics' = topics
  BY <1>1, <1>3 DEF HandoffTyped
<1> QED
  BY <1>6, <1>8, <1>9, <1>10, <1>11, <1>12, StillFits

\* Clients write and reset, operators write and close topics.
LEMMA EnvironmentFits ==
  ASSUME NEW owner \in Owners, HandoffFits(owner), scenario' = scenario,
         \/ \E m \in Messages : ClientWrites(m)
         \/ \E t \in Topics :
              \/ \E kind \in Kinds \ {"topicClosed", "newQuestion"} : OperatorWrites(kind, t)
              \/ OperatorClosesTopic(t)
         \/ \E c \in TelegramClients : ClientResets(c)
  PROVE  HandoffInv'
<1>1. ASSUME NEW m \in Messages, ClientWrites(m)
      PROVE  HandoffInv'
  <2>1. /\ ~Arrived("message", m) /\ Arrive(HandlerOf(Sender[m]), "message", m, 0)
        /\ HandlerOf(Sender[m]) \in Handlers
    BY <1>1 DEF ClientWrites, HandlerOf, Handlers
  <2> QED
    BY <2>1, ArriveFits
<1>2. ASSUME NEW t \in Topics, NEW kind \in Kinds \ {"topicClosed", "newQuestion"},
             OperatorWrites(kind, t)
      PROVE  HandoffInv'
  <2>1. Arrive("telegram", kind, t, 0) /\ "telegram" \in Handlers
    BY <1>2 DEF OperatorWrites, Handlers
  <2>2. kind \in Kinds /\ kind # "message" /\ kind # "newQuestion"
    BY DEF Kinds
  <2> QED
    BY <2>1, <2>2, ArriveFits
<1>3. ASSUME NEW t \in Topics, OperatorClosesTopic(t)
      PROVE  HandoffInv'
  <2> DEFINE created == Newest({r \in Requests : Exists(db, r)})
  <2>1. created \in Nat
    BY NewestIs, HandoffAssumption
  <2>2. PICK at \in {created, created + 1} : Arrive("telegram", "topicClosed", t, at)
    BY <1>3 DEF OperatorClosesTopic
  <2> HIDE DEF created
  <2>3. at \in Nat /\ "topicClosed" \in Kinds /\ "telegram" \in Handlers
    BY <2>1 DEF Kinds, Handlers
  <2> QED
    BY <2>2, <2>3, ArriveFits
<1>4. ASSUME NEW c \in TelegramClients, ClientResets(c)
      PROVE  HandoffInv'
  <2>1. Arrive("telegram", "newQuestion", c, 0) /\ "telegram" \in Handlers
        /\ "newQuestion" \in Kinds /\ c \in Clients
    BY <1>4 DEF ClientResets, Handlers, Kinds, Clients
  <2> QED
    BY <2>1, ArriveFits
<1> QED
  BY <1>1, <1>2, <1>3, <1>4

\* Steps of the runtimes: the tables and the updates stay.
LEMMA RuntimeFits ==
  ASSUME NEW owner \in Owners, HandoffFits(owner), scenario' = scenario,
         UNCHANGED <<db, stream, task, topics, copies>>,
         telegram' \in {"connected", "stopping", "disconnected"},
         taken' \in [Handlers -> Nat], confirmed' \in [Handlers -> Nat],
         \A g \in Handlers : confirmed'[g] <= taken'[g] /\ taken'[g] <= Len(stream[g]),
         \A g \in Handlers : task[g].pc # "idle" => taken'[g] = taken[g]
  PROVE  HandoffInv'
<1>1. HandoffTyped /\ UpdatesFit /\ (\A g \in Handlers : TaskFits(g, owner))
      /\ TablesFit(db, copies, owner, topics) /\ Follows(db, db)
  BY SameTables DEF HandoffFits
<1>2. UpdatesFit'
  BY <1>1 DEF UpdatesFit, HandlerOf, Sender
<1>3. \A g \in Handlers : task[g].pc # "idle" => taken[g] < Len(stream[g])
  BY <1>1 DEF TaskFits
<1>4. stream' \in [Handlers -> Seq(Event)]
  BY <1>1 DEF HandoffTyped
<1> QED
  BY <1>1, <1>2, <1>3, <1>4, StillFits

\* A poller confirms, or the Telegram runtime is connected, stopped or ended.
LEMMA PollersFit ==
  ASSUME NEW owner \in Owners, HandoffFits(owner), scenario' = scenario,
         \/ \E h \in Handlers : ConfirmUpdates(h)
         \/ Connect \/ Disconnect \/ Stopped
  PROVE  HandoffInv'
<1>1. /\ taken \in [Handlers -> Nat] /\ confirmed \in [Handlers -> Nat]
      /\ \A g \in Handlers : confirmed[g] <= taken[g] /\ taken[g] <= Len(stream[g])
      /\ telegram \in {"connected", "stopping", "disconnected"}
      /\ \A g \in Handlers : Len(stream[g]) \in Nat
  BY DEF HandoffFits, HandoffTyped
<1>2. ASSUME NEW h \in Handlers, ConfirmUpdates(h)
      PROVE  HandoffInv'
  <2>1. /\ confirmed' = [confirmed EXCEPT ![h] = taken[h]]
        /\ UNCHANGED <<db, stream, taken, task, telegram, topics, copies>>
    BY <1>2 DEF ConfirmUpdates
  <2> QED
    BY <1>1, <2>1, RuntimeFits
<1>3. CASE Connect \/ Disconnect
  <2>1. /\ telegram' \in {"connected", "stopping"}
        /\ UNCHANGED <<db, stream, taken, confirmed, task, topics, copies>>
    BY <1>3 DEF Connect, Disconnect, SetTelegram
  <2> QED
    BY <1>1, <2>1, RuntimeFits
<1>4. CASE Stopped
  <2>1. /\ telegram' = "disconnected" /\ task["telegram"].pc = "idle"
        /\ UNCHANGED <<db, stream, confirmed, task, topics, copies>>
        /\ taken' = [taken EXCEPT !["telegram"] = confirmed["telegram"]]
    BY <1>4 DEF Stopped, SetTelegram
  <2>2. "telegram" \in Handlers
    BY DEF Handlers
  <2>3. /\ taken' \in [Handlers -> Nat]
        /\ \A g \in Handlers : taken'[g] \in {taken[g], confirmed[g]}
        /\ \A g \in Handlers \ {"telegram"} : taken'[g] = taken[g]
    BY <1>1, <2>1, <2>2
  <2>4. \A g \in Handlers : confirmed'[g] <= taken'[g] /\ taken'[g] <= Len(stream[g])
    BY <1>1, <2>1, <2>3
  <2> QED
    BY <1>1, <2>1, <2>3, <2>4, RuntimeFits
<1> QED
  BY <1>2, <1>3, <1>4

\* A poller takes the next update.
LEMMA TakeFits ==
  ASSUME NEW owner \in Owners, HandoffFits(owner), scenario' = scenario,
         NEW h \in Handlers, TakeUpdate(h)
  PROVE  HandoffInv'
<1> DEFINE e == Current(h)
<1>1. /\ task[h].pc = "idle" /\ taken[h] < Len(stream[h])
      /\ RouteUpdate(h)
      /\ confirmed' = IF h = "vk" THEN [confirmed EXCEPT ![h] = taken[h]] ELSE confirmed
      /\ UNCHANGED <<telegram, topics, copies>>
  BY DEF TakeUpdate
<1>2. HandoffTyped /\ UpdatesFit
  BY DEF HandoffFits
<1>3. taken[h] + 1 \in 1..Len(stream[h]) /\ stream[h] \in Seq(Event) /\ taken[h] \in Nat
      /\ Len(stream[h]) \in Nat
  BY <1>1, <1>2 DEF HandoffTyped
<1>4. e \in Event
  BY <1>3, ElementOfSeq DEF Current
<1>5. Around(h, owner, owner) /\ copies' = copies /\ topics' = topics
  BY <1>1, <1>2 DEF Around, HandoffTyped
<1>6. \/ /\ e.status # "none"
         /\ taken' = [taken EXCEPT ![h] = @ + 1] /\ UNCHANGED <<db, stream, task>>
      \/ e.kind = "message" /\ ProcessClientMessage(h, e.of)
      \/ e.kind = "newQuestion" /\ ResetConversation(h, e.of)
      \/ e.kind \notin {"message", "newQuestion"} /\ HandleOperatorUpdate(h, e)
  <2> HIDE DEF e
  <2>1. (CASE e.status # "none" ->
              taken' = [taken EXCEPT ![h] = @ + 1] /\ UNCHANGED <<db, stream, task>>
          [] e.status = "none" /\ e.kind = "message" ->
              ProcessClientMessage(h, e.of)
          [] e.status = "none" /\ e.kind = "newQuestion" ->
              ResetConversation(h, e.of)
          [] e.status = "none" /\ e.kind \notin {"message", "newQuestion"} ->
              HandleOperatorUpdate(h, e))
    BY <1>1 DEF RouteUpdate, e
  <2> QED
    BY <2>1
<1>7. CASE /\ e.status # "none"
           /\ taken' = [taken EXCEPT ![h] = @ + 1] /\ UNCHANGED <<db, stream, task>>
  <2>1. /\ taken \in [Handlers -> Nat] /\ confirmed \in [Handlers -> Nat]
        /\ \A g \in Handlers : confirmed[g] <= taken[g] /\ taken[g] <= Len(stream[g])
        /\ telegram' \in {"connected", "stopping", "disconnected"}
    BY <1>1, <1>2 DEF HandoffTyped
  <2>2. /\ taken' \in [Handlers -> Nat] /\ taken'[h] = taken[h] + 1
        /\ \A g \in Handlers \ {h} : taken'[g] = taken[g]
    BY <1>7, <2>1
  <2>3. /\ confirmed' \in [Handlers -> Nat]
        /\ \A g \in Handlers : confirmed'[g] <= taken[g]
    BY <1>1, <2>1
  <2>4. \A g \in Handlers : confirmed'[g] <= taken'[g] /\ taken'[g] <= Len(stream[g])
    <3> TAKE g \in Handlers
    <3>1. confirmed'[g] \in Nat /\ taken[g] \in Nat /\ confirmed'[g] <= taken[g]
          /\ taken[g] <= Len(stream[g])
      BY <2>1, <2>3
    <3>2. CASE g = h
      BY <1>1, <1>3, <2>2, <3>1, <3>2
    <3>3. CASE g # h
      BY <2>2, <3>1, <3>3
    <3> QED
      BY <3>2, <3>3
  <2>5. \A g \in Handlers : task[g].pc # "idle" => taken'[g] = taken[g]
    BY <1>1, <2>2
  <2> QED
    BY <1>1, <1>7, <2>1, <2>2, <2>3, <2>4, <2>5, RuntimeFits
<1>8. CASE e.kind = "message" /\ ProcessClientMessage(h, e.of)
  <2>1. e.of \in Messages
    BY <1>1, <1>2, <1>8, OwnMessage
  <2> QED
    BY <1>1, <1>5, <1>8, <2>1, ProcessMessageFits
<1>9. CASE e.kind = "newQuestion" /\ ResetConversation(h, e.of)
  BY <1>1, <1>5, <1>9, ResetFits
<1>10. CASE e.kind \notin {"message", "newQuestion"} /\ HandleOperatorUpdate(h, e)
  BY <1>1, <1>5, <1>10, OperatorUpdateFits
<1> QED
  BY <1>6, <1>7, <1>8, <1>9, <1>10

\* After a crash nobody awaits anything: what was being sent is uncertain.
LEMMA CrashFits ==
  ASSUME NEW owner \in Owners, HandoffFits(owner), scenario' = scenario, CrashAndRestart
  PROVE  HandoffInv'
<1> DEFINE sending(a) == db.actions[a].status = "sending"
           rows == [a \in ActionIds |->
                      IF sending(a) THEN [db.actions[a] EXCEPT !.status = "outcome_unknown"]
                      ELSE db.actions[a]]
<1>1. /\ TablesFit(db, copies, owner, topics) /\ db \in Tables /\ HandoffTyped /\ UpdatesFit
      /\ db.actions \in [ActionIds -> ActionRow] /\ copies \in [ActionIds -> Nat]
  BY SameTables DEF HandoffFits, HandoffTyped, Tables
<1>2. \A a \in ActionIds :
        /\ rows[a] \in ActionRow
        /\ ~sending(a) => rows[a] = db.actions[a]
        /\ sending(a) => rows[a].status = "outcome_unknown" /\ rows[a].topic = db.actions[a].topic
  <2> TAKE a \in ActionIds
  <2> DEFINE x == [db.actions[a] EXCEPT !.status = "outcome_unknown"]
  <2>1. db.actions[a] \in ActionRow
    BY <1>1
  <2>2. x \in ActionRow /\ x.status = "outcome_unknown" /\ x.topic = db.actions[a].topic
    BY <2>1 DEF ActionRow, Statuses
  <2> HIDE DEF x
  <2>3. rows[a] = IF sending(a) THEN x ELSE db.actions[a]
    BY DEF x
  <2> HIDE DEF sending, rows
  <2> QED
    BY <2>1, <2>2, <2>3
<1>3. rows \in [ActionIds -> ActionRow]
  BY <1>2
<1>4. db' = [db EXCEPT !.actions = rows]
  BY DEF CrashAndRestart, RecoverActions
<1> HIDE DEF rows
<1>5. /\ db' \in Tables /\ db'.requests = db.requests /\ db'.messages = db.messages
      /\ db'.replies = db.replies /\ db'.actions = rows
  BY <1>1, <1>3, <1>4 DEF Tables
<1>6. \A a \in ActionIds : copies'[a] = copies[a] + IF sending(a) THEN 1 ELSE 0
  BY DEF CrashAndRestart
<1>7. copies' \in [ActionIds -> Nat]
  <2>1. copies' = [a \in ActionIds |-> copies[a] + IF sending(a) THEN 1 ELSE 0]
    BY DEF CrashAndRestart
  <2> HIDE DEF sending
  <2>2. \A a \in ActionIds : copies[a] + (IF sending(a) THEN 1 ELSE 0) \in Nat
    BY <1>1
  <2> QED
    BY <2>1, <2>2
<1>8. \A a \in ActionIds :
           \/ db'.actions[a] = db.actions[a] /\ copies'[a] = copies[a]
           \/ /\ db'.actions[a].status # "absent" /\ Exists(db, a[1])
              /\ Sender[a[2]] = db.requests[a[1]].client /\ a[3] <= Chunks[a[2]]
              /\ MayUse(db'.actions[a].topic, Sender[a[2]], owner, topics)
              /\ copies'[a] <= 1
              /\ db'.actions[a].status \in {"pending", "failed", "sending"} => copies'[a] = 0
  <2> TAKE a \in ActionIds
  <2>1. CASE sending(a)
    <3>1. copies[a] = 0 /\ copies'[a] = 1
      BY <1>1, <1>6, <2>1 DEF TablesFit, CopiesFit
    <3>2. /\ db.actions[a].status # "absent" /\ db'.actions[a].status = "outcome_unknown"
          /\ db'.actions[a].topic = db.actions[a].topic
      BY <1>2, <1>5, <2>1
    <3>3. /\ Exists(db, a[1]) /\ Sender[a[2]] = db.requests[a[1]].client
          /\ a[3] <= Chunks[a[2]]
          /\ MayUse(db'.actions[a].topic, Sender[a[2]], owner, topics)
      BY <1>1, <3>2 DEF TablesFit, RowsFit, TopicsFit
    <3> QED
      BY <3>1, <3>2, <3>3
  <2>2. CASE ~sending(a)
    BY <1>1, <1>2, <1>5, <1>6, <2>2
  <2> QED
    BY <2>1, <2>2
<1>9. TablesFit(db', copies', owner, topics)
  <2>1. /\ db' \in Tables /\ db'.requests = db.requests /\ db'.messages = db.messages
        /\ db'.replies = db.replies
    BY <1>5
  <2>2. TablesFit(db, copies, owner, topics)
    BY <1>1
  <2> QED
    BY <1>8, <2>1, <2>2, ActionsKeep
<1>10. \A a \in ActionIds : db'.actions[a].status # "sending"
  BY <1>2, <1>5
<1>11. SendingIsAwaited'
  BY <1>10 DEF SendingIsAwaited, Sending
<1>12. /\ task' = [h \in Handlers |-> NoTask] /\ taken' = confirmed
       /\ telegram' \in {"connected", "disconnected"}
       /\ stream' = [h \in Handlers |-> ReleaseEvents(stream[h])]
       /\ UNCHANGED <<confirmed, topics>>
  BY DEF CrashAndRestart
<1>13. NoTask \in TaskRow /\ NoTask.pc = "idle"
  BY DEF NoTask, TaskRow, Places
<1>14. ASSUME NEW h \in Handlers
       PROVE  /\ ReleaseEvents(stream[h]) \in Seq(Event)
              /\ Len(ReleaseEvents(stream[h])) = Len(stream[h])
              /\ \A i \in 1..Len(stream[h]) :
                   /\ ReleaseEvents(stream[h])[i].kind = stream[h][i].kind
                   /\ ReleaseEvents(stream[h])[i].of = stream[h][i].of
  <2> DEFINE s == stream[h]
  <2>1. s \in Seq(Event) /\ Len(s) \in Nat
    BY <1>1 DEF HandoffTyped
  <2>2. \A i \in 1..Len(s) :
          LET x == IF s[i].status = "processing" THEN [s[i] EXCEPT !.status = "none"] ELSE s[i]
          IN  x \in Event /\ x.kind = s[i].kind /\ x.of = s[i].of
    <3> TAKE i \in 1..Len(s)
    <3>1. s[i] \in Event
      BY <2>1, ElementOfSeq
    <3>2. /\ [s[i] EXCEPT !.status = "none"] \in Event
          /\ [s[i] EXCEPT !.status = "none"].kind = s[i].kind
          /\ [s[i] EXCEPT !.status = "none"].of = s[i].of
      BY <3>1 DEF Event
    <3> QED
      BY <3>1, <3>2
  <2> HIDE DEF s
  <2> DEFINE x(i) == IF s[i].status = "processing" THEN [s[i] EXCEPT !.status = "none"] ELSE s[i]
             f == [i \in 1..Len(s) |-> x(i)]
  <2>3. \A i \in 1..Len(s) : x(i) \in Event /\ x(i).kind = s[i].kind /\ x(i).of = s[i].of
    BY <2>2
  <2> HIDE DEF x
  <2>4. f \in Seq(Event) /\ Len(f) = Len(s) /\ \A i \in 1..Len(s) : f[i] = x(i)
    BY <2>1, <2>3, IsASeq
  <2>5. ReleaseEvents(s) = f
    BY DEF ReleaseEvents, x
  <2> HIDE DEF f
  <2>6. /\ ReleaseEvents(s) \in Seq(Event) /\ Len(ReleaseEvents(s)) = Len(s)
        /\ \A i \in 1..Len(s) : /\ ReleaseEvents(s)[i].kind = s[i].kind
                                /\ ReleaseEvents(s)[i].of = s[i].of
    BY <2>3, <2>4, <2>5
  <2> QED
    BY <2>6 DEF s
<1> HIDE DEF sending
<1>15. HandoffTyped'
  <2>1. stream' \in [Handlers -> Seq(Event)] /\ \A h \in Handlers : Len(stream'[h]) = Len(stream[h])
    BY <1>12, <1>14
  <2>2. task' \in [Handlers -> TaskRow]
    BY <1>12, <1>13
  <2>3. \A h \in Handlers : /\ confirmed[h] \in Nat /\ taken[h] \in Nat /\ Len(stream[h]) \in Nat
                            /\ confirmed[h] <= taken[h] /\ taken[h] <= Len(stream[h])
    BY <1>1 DEF HandoffTyped
  <2>4. \A h \in Handlers : confirmed'[h] <= taken'[h] /\ taken'[h] <= Len(stream'[h])
    BY <1>12, <2>1, <2>3
  <2> QED
    BY <1>1, <1>5, <1>7, <1>12, <2>1, <2>2, <2>4 DEF HandoffTyped
<1>16. UpdatesFit'
  <2>1. \A h \in Handlers : /\ Len(stream'[h]) = Len(stream[h])
                            /\ \A i \in 1..Len(stream[h]) :
                                 /\ stream'[h][i].kind = stream[h][i].kind
                                 /\ stream'[h][i].of = stream[h][i].of
    BY <1>12, <1>14
  <2>2. Sender' = Sender
    BY DEF Sender
  <2> QED
    BY <1>1, <2>1, <2>2 DEF UpdatesFit, HandlerOf
<1>17. TablesFit(db, copies, owner, topics)'
  <2>1. TablesFit(db', copies', owner, topics')
    BY <1>9, <1>12
  <2> QED
    BY <2>1, FitsPrimed
<1>18. \A h \in Handlers : TaskFits(h, owner)'
  <2> TAKE h \in Handlers
  <2>1. task'[h].pc = "idle"
    BY <1>12, <1>13
  <2> QED
    BY <2>1 DEF TaskFits, Working
<1>19. HandoffFits(owner)'
  BY <1>11, <1>15, <1>16, <1>17, <1>18 DEF HandoffFits
<1> QED
  BY <1>19 DEF HandoffInv

\* The invariant holds of empty tables,
LEMMA InitFits == Init => HandoffInv
<1> SUFFICES ASSUME Init
             PROVE  HandoffInv
  OBVIOUS
<1> USE DEF Init
<1>1. NoTask \in TaskRow /\ NoTask.pc = "idle"
  BY DEF NoTask, TaskRow, Places
<1>2. NoRequest \in RequestRow /\ NoAction \in ActionRow
      /\ NoRequest.status = "absent" /\ NoAction.status = "absent"
  BY DEF NoRequest, NoAction, RequestRow, ActionRow, Statuses, Places
<1>3. /\ db \in Tables
      /\ \A r \in Requests : db.requests[r].status = "absent"
      /\ \A a \in ActionIds : db.actions[a].status = "absent"
      /\ db.messages = {} /\ db.replies = {}
  BY <1>2 DEF Tables
<1>4. <<>> \in Seq(Event) /\ Len(<<>>) = 0
  OBVIOUS
<1>5. /\ \A h \in Handlers : stream[h] = <<>> /\ taken[h] = 0 /\ confirmed[h] = 0 /\ task[h] = NoTask
      /\ \A a \in ActionIds : copies[a] = 0
  OBVIOUS
<1>6. HandoffTyped
  <2>1. stream \in [Handlers -> Seq(Event)] /\ task \in [Handlers -> TaskRow]
        /\ taken \in [Handlers -> Nat] /\ confirmed \in [Handlers -> Nat]
        /\ copies \in [ActionIds -> Nat]
    BY <1>1, <1>4
  <2>2. topics \in 0..MaxTopics /\ scenario \in Scenario
    BY HandoffAssumption
  <2> QED
    BY <1>3, <1>4, <1>5, <2>1, <2>2 DEF HandoffTyped
<1>7. UpdatesFit
  BY <1>4, <1>5 DEF UpdatesFit
<1>8. SendingIsAwaited
  BY <1>3 DEF SendingIsAwaited, Sending
<1> DEFINE owner == [t \in Topics |-> "none"]
<1>9. owner \in Owners
  BY DEF Owners
<1> HIDE DEF owner
<1>10. TablesFit(db, copies, owner, topics)
  <2>1. CopiesFit(db, copies)
    BY <1>5 DEF CopiesFit
  <2>2. RowsFit(db) /\ OneActive(db) /\ TopicsFit(db, owner, topics)
    BY <1>3 DEF RowsFit, OneActive, TopicsFit, Exists, Active
  <2> QED
    BY <1>3, <2>1, <2>2 DEF TablesFit
<1>11. \A h \in Handlers : TaskFits(h, owner)
  BY <1>1, <1>5 DEF TaskFits, Working
<1>12. HandoffFits(owner)
  BY <1>6, <1>7, <1>8, <1>10, <1>11 DEF HandoffFits
<1> QED
  BY <1>9, <1>12 DEF HandoffInv

\* and of a state in which nothing changed.
LEMMA StutterFits == HandoffInv /\ UNCHANGED vars => HandoffInv'
<1> SUFFICES ASSUME HandoffInv, UNCHANGED vars
             PROVE  HandoffInv'
  OBVIOUS
<1>1. PICK owner \in Owners : HandoffFits(owner)
  BY DEF HandoffInv
<1>2. /\ db' = db /\ stream' = stream /\ taken' = taken /\ confirmed' = confirmed
      /\ task' = task /\ telegram' = telegram /\ topics' = topics /\ copies' = copies
      /\ scenario' = scenario
  BY DEF vars
<1>3. HandoffTyped
  BY <1>1 DEF HandoffFits
<1> QED
  BY <1>1, <1>2, <1>3, RuntimeFits DEF HandoffTyped

\* The program's invariant: who awaits what, whose a topic is, what was counted.
THEOREM HandoffInvariant == Spec => []HandoffInv
<1>1. HandoffInv /\ [Next]_vars => HandoffInv'
  <2> SUFFICES ASSUME HandoffInv, [Next]_vars
               PROVE  HandoffInv'
    OBVIOUS
  <2>1. CASE UNCHANGED vars
    BY <2>1, StutterFits
  <2>2. CASE Next
    <3>1. PICK owner \in Owners : HandoffFits(owner)
      BY DEF HandoffInv
    <3>2. scenario' = scenario /\ Act
      BY <2>2 DEF Next
    <3>3. ASSUME NEW h \in Handlers, TakeUpdate(h) \/ ConfirmUpdates(h) \/ Answer(h)
          PROVE  HandoffInv'
      <4>1. CASE TakeUpdate(h)
        BY <3>1, <3>2, <4>1, TakeFits
      <4>2. CASE ConfirmUpdates(h)
        BY <3>1, <3>2, <4>2, PollersFit
      <4>3. CASE RelayAccepted(h) \/ RelayUnanswered(h)
        BY <3>1, <3>2, <4>3, RelayAcceptedFits
      <4>4. CASE RelayRejected(h)
        BY <3>1, <3>2, <4>4, RelayRejectedFits
      <4>5. CASE OpenAccepted(h)
        BY <3>1, <3>2, <4>5, OpenAcceptedFits
      <4>6. CASE OpenUnanswered(h)
        BY <3>1, <3>2, <4>6, OpenUnansweredFits
      <4>7. CASE OpenRejected(h)
        BY <3>1, <3>2, <4>7, OpenRejectedFits
      <4>8. CASE \/ TopicCloseAnswered(h) \/ ReopenAnswered(h) \/ ResetAnswered(h)
                 \/ MenuAnswered(h)
        BY <3>1, <3>2, <4>8, QuietAnswerFits
      <4> QED
        BY <3>3, <4>1, <4>2, <4>3, <4>4, <4>5, <4>6, <4>7, <4>8 DEF Answer
    <3>4. CASE \/ \E m \in Messages : ClientWrites(m)
               \/ \E t \in Topics :
                    \/ \E kind \in Kinds \ {"topicClosed", "newQuestion"} : OperatorWrites(kind, t)
                    \/ OperatorClosesTopic(t)
               \/ \E c \in TelegramClients : ClientResets(c)
      BY <3>1, <3>2, <3>4, EnvironmentFits
    <3>5. ASSUME NEW r \in Requests, WebReply(r) \/ WebClose(r)
          PROVE  HandoffInv'
      BY <3>1, <3>2, <3>5, WebFits
    <3>6. ASSUME NEW a \in ActionIds, ConfirmReceived(a) \/ MoveToWeb(a)
          PROVE  HandoffInv'
      BY <3>1, <3>2, <3>6, ConfirmFits, MoveFits
    <3>7. CASE Connect \/ Disconnect \/ Stopped
      BY <3>1, <3>2, <3>7, PollersFit
    <3>8. CASE CrashAndRestart
      BY <3>1, <3>2, <3>8, CrashFits
    <3> QED
      BY <3>2, <3>3, <3>4, <3>5, <3>6, <3>7, <3>8 DEF Act
  <2> QED
    BY <2>1, <2>2
<1> QED
  BY <1>1, InitFits, PTL DEF Spec

-----------------------------------------------------------------------------
(* What the invariant implies.                                             *)

\* A request that may have been accepted is never made again: each action has
\* been requested at most once, because only a row whose copy Telegram cannot
\* have is claimed.
THEOREM RelayedOnceAlways == Spec => []RelayedOnce
<1>1. HandoffInv => RelayedOnce
  BY DEF HandoffInv, HandoffFits, TablesFit, CopiesFit, RelayedOnce
<1> QED
  BY <1>1, HandoffInvariant, PTL

\* Two places that accept a reply for one client would belong to the same request,
\* and a request has one topic.
LEMMA OneSurface ==
  ASSUME OneActive(db), NEW c, NEW x \in Surfaces(c), NEW y \in Surfaces(c)
  PROVE  x = y
<1>1. \A z \in Surfaces(c) : \E r \in Requests :
        /\ Active(db, r) /\ db.requests[r].client = c
        /\ \/ z \in Topics /\ TopicOf(db, r) = z
           \/ TopicOf(db, r) = WebTopic /\ z = 0 - r
  <2> TAKE z \in Surfaces(c)
  <2>1. CASE z \in Topics /\ FindRequestByTopicId(db, z) # 0
                /\ Active(db, FindRequestByTopicId(db, z))
                /\ db.requests[FindRequestByTopicId(db, z)].client = c
    BY <2>1, FoundByTopic
  <2>2. CASE \E r \in Requests : InWeb(r) /\ db.requests[r].client = c /\ z = 0 - r
    BY <2>2 DEF InWeb
  <2> QED
    BY <2>1, <2>2 DEF Surfaces
<1>2. PICK q \in Requests :
        /\ Active(db, q) /\ db.requests[q].client = c
        /\ \/ x \in Topics /\ TopicOf(db, q) = x
           \/ TopicOf(db, q) = WebTopic /\ x = 0 - q
  BY <1>1
<1>3. PICK r \in Requests :
        /\ Active(db, r) /\ db.requests[r].client = c
        /\ \/ y \in Topics /\ TopicOf(db, r) = y
           \/ TopicOf(db, r) = WebTopic /\ y = 0 - r
  BY <1>1
<1>4. q = r
  BY <1>2, <1>3 DEF OneActive
<1>5. WebTopic \notin Topics
  BY DEF WebTopic, Topics
<1> QED
  BY <1>2, <1>3, <1>4, <1>5

\* A client is handled either in one Telegram topic or in the web inbox.
THEOREM HandledInOnePlaceAlways == Spec => []HandledInOnePlace
<1>1. ASSUME HandoffInv, NEW c \in Clients
      PROVE  Cardinality(Surfaces(c)) <= 1
  <2>1. OneActive(db)
    BY <1>1 DEF HandoffInv, HandoffFits, TablesFit
  <2>2. CASE Surfaces(c) = {}
    <3>1. Cardinality(Surfaces(c)) = 0
      BY <2>2, FS_EmptySet
    <3> QED
      BY <3>1
  <2>3. CASE Surfaces(c) # {}
    <3>1. PICK x : x \in Surfaces(c)
      BY <2>3
    <3>2. Surfaces(c) = {x}
      BY <2>1, <3>1, OneSurface
    <3>3. Cardinality({x}) = 1
      BY FS_Singleton
    <3> QED
      BY <3>2, <3>3
  <2> QED
    BY <2>2, <2>3
<1>2. HandoffInv => HandledInOnePlace
  BY <1>1 DEF HandledInOnePlace
<1> QED
  BY <1>2, HandoffInvariant, PTL

\* A topic has one owner for ever: the replies typed in it and the messages that
\* stand in it are of the same client.
THEOREM TopicIsPrivateAlways == Spec => []TopicIsPrivate
<1>1. ASSUME HandoffInv, NEW reply \in db.replies, NEW a \in ActionIds,
             reply[1] # WebTopic, db.actions[a].topic = reply[1], copies[a] > 0
      PROVE  Sender[a[2]] = db.requests[reply[2]].client
  <2>1. PICK owner \in Owners : HandoffFits(owner)
    BY <1>1 DEF HandoffInv
  <2>2. CopiesFit(db, copies) /\ TopicsFit(db, owner, topics)
    BY <2>1 DEF HandoffFits, TablesFit
  <2>3. ~(copies[a] > 0 /\ copies[a] = 0)
    BY <2>1 DEF HandoffFits, HandoffTyped
  <2>4. db.actions[a].status # "absent"
    BY <1>1, <2>2, <2>3 DEF CopiesFit
  <2>5. MayUse(reply[1], Sender[a[2]], owner, topics)
    BY <1>1, <2>2, <2>4 DEF TopicsFit
  <2>6. MayUse(reply[1], db.requests[reply[2]].client, owner, topics)
    BY <2>2 DEF TopicsFit
  <2> QED
    BY <1>1, <2>5, <2>6 DEF MayUse
<1>2. HandoffInv => TopicIsPrivate
  BY <1>1 DEF TopicIsPrivate
<1> QED
  BY <1>2, HandoffInvariant, PTL

-----------------------------------------------------------------------------
(* What is recorded, and what is requested of Telegram, in a step.         *)

Columns == {"requests", "actions", "messages", "takeovers", "acked", "replies"}
HasColumns(d) == d = [x \in Columns |-> d[x]]

\* e has the messages of d.
SameMessages(d, e) == HasColumns(e) /\ e.messages = d.messages

\* No statement but recordConversationMessage records a message.
LEMMA StatementsRecordNothing ==
  ASSUME NEW d, HasColumns(d), NEW r, NEW t, NEW a, NEW s, NEW m, NEW initial
  PROVE  /\ SameMessages(d, SwitchOperatorTopic(d, r, t))
         /\ SameMessages(d, CloseRequest(d, r)) /\ SameMessages(d, ReopenRequest(d, r))
         /\ SameMessages(d, RecordWebTakeover(d, r))
         /\ SameMessages(d, EnqueueHandoffAcknowledgement(d, r))
         /\ SameMessages(d, EnqueueReply(d, t, r))
         /\ SameMessages(d, SetAction(d, a, s))
         /\ SameMessages(d, PrepareRelay(d, r, m, t, initial))
         /\ SameMessages(d, ResolveAsWeb(d, a))
         /\ SameMessages(d, RecoverActions(d))
<1>1. ASSUME NEW v, NEW x \in Columns, x # "messages"
      PROVE  SameMessages(d, [d EXCEPT ![x] = v])
  BY <1>1 DEF SameMessages, HasColumns, Columns
<1>2. ASSUME NEW v
      PROVE  /\ SameMessages(d, [d EXCEPT !.requests = v])
             /\ SameMessages(d, [d EXCEPT !.actions = v])
             /\ SameMessages(d, [d EXCEPT !.takeovers = v])
             /\ SameMessages(d, [d EXCEPT !.acked = v])
             /\ SameMessages(d, [d EXCEPT !.replies = v])
  BY <1>1 DEF Columns
<1>3. SameMessages(d, SwitchOperatorTopic(d, r, t))
  BY <1>2 DEF SwitchOperatorTopic
<1>4. SameMessages(d, CloseRequest(d, r)) /\ SameMessages(d, ReopenRequest(d, r))
  BY <1>2 DEF CloseRequest, ReopenRequest
<1>5. SameMessages(d, RecordWebTakeover(d, r)) /\ SameMessages(d, EnqueueReply(d, t, r))
      /\ SameMessages(d, EnqueueHandoffAcknowledgement(d, r))
  BY <1>2 DEF RecordWebTakeover, EnqueueReply, EnqueueHandoffAcknowledgement
<1>6. SameMessages(d, SetAction(d, a, s))
  BY <1>2 DEF SetAction
<1>7. SameMessages(d, PrepareRelay(d, r, m, t, initial))
  BY <1>2 DEF PrepareRelay
<1>8. SameMessages(d, ResolveAsWeb(d, a)) /\ SameMessages(d, RecoverActions(d))
  BY <1>2 DEF ResolveAsWeb, RecoverActions
<1> QED
  BY <1>3, <1>4, <1>5, <1>6, <1>7, <1>8

\* The tables have their columns.
LEMMA TablesHaveColumns ==
  ASSUME NEW d \in Tables
  PROVE  HasColumns(d)
BY DEF Tables, HasColumns, Columns

\* Recording nothing twice records nothing.
LEMMA SameTransitive ==
  ASSUME NEW d, NEW e, NEW f, SameMessages(d, e), SameMessages(e, f)
  PROVE  SameMessages(d, f)
BY DEF SameMessages

\* The emergency inbox records no message,
LEMMA WebRecordsNothing ==
  ASSUME NEW h, NEW d, NEW r, NEW from, HasColumns(d), RelayToWeb(h, d, r, from)
  PROVE  SameMessages(d, db')
<1>1. SameMessages(d, d)
  BY DEF SameMessages
<1>2. \A x : SameMessages(d, x) => HasColumns(x)
  BY DEF SameMessages
<1>3. ASSUME NEW e, SameMessages(d, e)
      PROVE  /\ SameMessages(d, EnqueueHandoffAcknowledgement(e, r))
             /\ SameMessages(d, RecordWebTakeover(e, r))
             /\ SameMessages(d, SwitchOperatorTopic(e, r, WebTopic))
  BY <1>2, <1>3, StatementsRecordNothing, SameTransitive
<1>4. db' \in {d, EnqueueHandoffAcknowledgement(d, r),
               EnqueueHandoffAcknowledgement(
                 RecordWebTakeover(SwitchOperatorTopic(d, r, WebTopic), r), r),
               EnqueueHandoffAcknowledgement(RecordWebTakeover(d, r), r)}
  BY DEF RelayToWeb, Finish, Fail
<1>5. SameMessages(d, EnqueueHandoffAcknowledgement(
                 RecordWebTakeover(SwitchOperatorTopic(d, r, WebTopic), r), r))
  BY <1>1, <1>3
<1>6. SameMessages(d, EnqueueHandoffAcknowledgement(RecordWebTakeover(d, r), r))
  BY <1>1, <1>3
<1> QED
  BY <1>1, <1>3, <1>4, <1>5, <1>6

\* and neither does the relay of chunks.
LEMMA ChunksRecordNothing ==
  ASSUME NEW h, NEW d, NEW r, NEW m, NEW t, NEW k, NEW lost, HasColumns(d),
         RelayChunks(h, d, r, m, t, k, lost)
  PROVE  SameMessages(d, db')
<1>1. \/ \E a : db' = SetAction(d, a, "sending")
      \/ db' = d \/ db' = EnqueueHandoffAcknowledgement(d, r)
      \/ RelayToWeb(h, d, r, t)
  BY DEF RelayChunks, Finish, Await
<1>2. SameMessages(d, d)
  BY DEF SameMessages
<1> QED
  BY <1>1, <1>2, StatementsRecordNothing, WebRecordsNothing

\* Nothing is recorded but message m.
Only(d, e, m) == HasColumns(e) /\ \A x \in e.messages : x \in d.messages \/ x[2] = m

\* recordConversationMessage records the message it is given.
LEMMA RecordsOne ==
  ASSUME NEW d, HasColumns(d), NEW r, NEW m
  PROVE  Only(d, RecordConversationMessage(d, r, m), m)
<1> DEFINE e == [d EXCEPT !.messages = d.messages \cup {<<r, m>>}]
<1>1. e = RecordConversationMessage(d, r, m)
  BY DEF RecordConversationMessage
<1>2. HasColumns(e) /\ e.messages = d.messages \cup {<<r, m>>}
  BY DEF HasColumns, Columns
<1> HIDE DEF e
<1>3. \A x \in e.messages : x \in d.messages \/ x[2] = m
  BY <1>2
<1>4. Only(d, e, m)
  BY <1>2, <1>3 DEF Only
<1> QED
  BY <1>1, <1>4

\* Steps that record at most message m, one after the other.
LEMMA OnlyAndSame ==
  ASSUME NEW d, NEW e, NEW f, NEW m
  PROVE  /\ Only(d, e, m) /\ SameMessages(e, f) => Only(d, f, m)
         /\ SameMessages(d, e) /\ Only(e, f, m) => Only(d, f, m)
         /\ Only(d, e, m) /\ Only(e, f, m) => Only(d, f, m)
         /\ SameMessages(d, e) => Only(d, e, m) /\ HasColumns(e)
         /\ Only(d, e, m) => HasColumns(e)
BY DEF Only, SameMessages

\* Relaying a message records that message,
LEMMA RelayRecordsOne ==
  ASSUME NEW h, NEW d, NEW r, NEW m, NEW t, NEW initial, HasColumns(d),
         RelayClientMessage(h, d, r, m, t, initial)
  PROVE  Only(d, db', m)
<1> DEFINE e == RecordConversationMessage(d, r, m)
           f == PrepareRelay(e, r, m, t, initial)
<1>1. Only(d, e, m) /\ HasColumns(e)
  BY RecordsOne, OnlyAndSame
<1>2. RelayToWeb(h, e, r, t) \/ RelayChunks(h, f, r, m, t, 1, FALSE)
  BY DEF RelayClientMessage
<1> HIDE DEF e
<1>3. SameMessages(e, f) /\ HasColumns(f)
  BY <1>1, StatementsRecordNothing, OnlyAndSame
<1> HIDE DEF f
<1>4. CASE RelayToWeb(h, e, r, t)
  <2>1. SameMessages(e, db')
    BY <1>1, <1>4, WebRecordsNothing
  <2> QED
    BY <1>1, <2>1, OnlyAndSame
<1>5. CASE RelayChunks(h, f, r, m, t, 1, FALSE)
  <2>1. SameMessages(f, db')
    BY <1>3, <1>5, ChunksRecordNothing
  <2> QED
    BY <1>1, <1>3, <2>1, OnlyAndSame, SameTransitive
<1> QED
  BY <1>2, <1>4, <1>5

\* and so does opening a request for it.
LEMMA OpeningRecordsOne ==
  ASSUME NEW h, NEW d, NEW m, HasColumns(d), OpenClientRequest(h, d, m)
  PROVE  Only(d, db', m)
<1> DEFINE c == Sender[m]
           r == Newest({q \in Requests : Exists(d, q)}) + 1
           inserted == [d EXCEPT !.requests[r] = [status |-> "active", client |-> c,
                                              topic |-> WebTopic]]
           created == RecordConversationMessage(inserted, r, m)
           opening == [created EXCEPT !.actions[<<r, m, 0>>] =
                    [status |-> "sending", topic |-> WebTopic, initial |-> TRUE]]
<1>1. \/ db' = opening
      \/ RelayClientMessage(h, RecordWebTakeover(created, r), r, m, WebTopic, TRUE)
  BY DEF OpenClientRequest, Await
<1>2. SameMessages(d, inserted)
  <2>1. ASSUME NEW v
        PROVE  SameMessages(d, [d EXCEPT !.requests = v])
    BY DEF SameMessages, HasColumns, Columns
  <2> QED
    BY <2>1
<1>3. Only(d, created, m)
  <2>1. Only(inserted, created, m)
    BY <1>2, RecordsOne, OnlyAndSame
  <2> QED
    BY <1>2, <2>1, OnlyAndSame
<1> HIDE DEF created
<1>4. SameMessages(created, opening)
  <2>1. HasColumns(created)
    BY <1>3 DEF Only
  <2>2. ASSUME NEW v
        PROVE  SameMessages(created, [created EXCEPT !.actions = v])
    BY <2>1 DEF SameMessages, HasColumns, Columns
  <2> QED
    BY <2>2
<1>5. Only(d, opening, m)
  BY <1>3, <1>4, OnlyAndSame
<1>6. Only(d, RecordWebTakeover(created, r), m)
  BY <1>3, OnlyAndSame, StatementsRecordNothing
<1> HIDE DEF opening, r
<1>7. CASE RelayClientMessage(h, RecordWebTakeover(created, r), r, m, WebTopic, TRUE)
  <2>1. Only(RecordWebTakeover(created, r), db', m)
    BY <1>6, <1>7, RelayRecordsOne, OnlyAndSame
  <2> QED
    BY <1>6, <2>1, OnlyAndSame
<1> QED
  BY <1>1, <1>5, <1>7

\* The update of message m has been taken and is not completed.
Underway(m) ==
  \E g \in Handlers : /\ taken[g] < Len(stream[g])
                      /\ Current(g).kind = "message" /\ Current(g).of = m
                      /\ Current(g).status # "completed"

\* What is recorded or requested in a step is about a message underway.
AboutUnderway ==
  /\ \A x \in db'.messages : x \in db.messages \/ Underway(x[2])
  /\ \A a \in ActionIds : copies'[a] # copies[a] => Underway(a[2])

\* A step about a message underway.
LEMMA OneUnderway ==
  ASSUME NEW m, Underway(m), NEW d, HasColumns(d), SameMessages(db, d), Only(d, db', m),
         copies' = copies \/ \E a \in ActionIds : a[2] = m /\ copies' = [copies EXCEPT ![a] = @ + 1],
         copies \in [ActionIds -> Nat]
  PROVE  AboutUnderway
<1>1. \A x \in db'.messages : x \in db.messages \/ Underway(x[2])
  BY DEF SameMessages, Only
<1>2. \A a \in ActionIds : copies'[a] # copies[a] => Underway(a[2])
  OBVIOUS
<1> QED
  BY <1>1, <1>2 DEF AboutUnderway

\* A step that records and requests nothing.
LEMMA NothingRecorded ==
  ASSUME SameMessages(db, db'), copies' = copies
  PROVE  AboutUnderway
BY DEF SameMessages, AboutUnderway

\* A client message is processed: it alone is recorded.
LEMMA ProcessingRecordsOne ==
  ASSUME NEW h, NEW m, HasColumns(db), ProcessClientMessage(h, m)
  PROVE  Only(db, db', m)
<1> DEFINE r == FindActiveRequest(db, Sender[m])
           t == TopicOf(db, r)
           d == IF t = WebTopic THEN RecordWebTakeover(db, r) ELSE db
<1>1. OpenClientRequest(h, db, m) \/ RelayClientMessage(h, d, r, m, t, FALSE)
  BY DEF ProcessClientMessage
<1>2. SameMessages(db, d)
  BY StatementsRecordNothing DEF SameMessages
<1> HIDE DEF d
<1>3. CASE OpenClientRequest(h, db, m)
  BY <1>3, OpeningRecordsOne
<1>4. CASE RelayClientMessage(h, d, r, m, t, FALSE)
  <2>1. HasColumns(d)
    BY <1>2, OnlyAndSame
  <2>2. Only(d, db', m)
    BY <1>4, <2>1, RelayRecordsOne
  <2> QED
    BY <1>2, <2>2, OnlyAndSame
<1> QED
  BY <1>1, <1>3, <1>4

\* An update is routed: what is recorded is the message it carries.
LEMMA RoutingRecordsOne ==
  ASSUME NEW owner \in Owners, HandoffFits(owner), NEW h \in Handlers, TakeUpdate(h)
  PROVE  AboutUnderway
<1>1. HasColumns(db) /\ copies \in [ActionIds -> Nat] /\ copies' = copies
  BY TablesHaveColumns DEF HandoffFits, HandoffTyped, TakeUpdate
<1>2. SameMessages(db, db)
  BY <1>1 DEF SameMessages
<1>3. taken[h] < Len(stream[h]) /\ RouteUpdate(h)
  BY DEF TakeUpdate
<1>4. CASE Current(h).status = "none" /\ Current(h).kind = "message"
                /\ ProcessClientMessage(h, Current(h).of)
  <2>1. Only(db, db', Current(h).of)
    BY <1>1, <1>4, ProcessingRecordsOne
  <2>2. Underway(Current(h).of)
    BY <1>3, <1>4 DEF Underway
  <2> QED
    BY <1>1, <1>2, <2>1, <2>2, OneUnderway
<1>5. CASE ResetConversation(h, Current(h).of)
  <2>1. db' = db \/ \E r : db' = CloseRequest(db, r)
    BY <1>5 DEF ResetConversation, AwaitMenuAnswer, Await
  <2> QED
    BY <1>1, <1>2, <2>1, StatementsRecordNothing, NothingRecorded
<1>6. CASE Current(h).kind \notin {"message", "newQuestion"} /\ HandleOperatorUpdate(h, Current(h))
  <2>0. Current(h).kind \in {"reply", "/close", "/reopen", "topicClosed", "topicReopened"}
    <3>1. stream[h] \in Seq(Event) /\ taken[h] \in Nat
      BY DEF HandoffFits, HandoffTyped
    <3>2. Current(h) \in Event
      BY <1>3, <3>1 DEF Current
    <3> QED
      BY <1>6, <3>2 DEF Event, Kinds
  <2>1. \/ db' = db \/ \E r : db' = CloseRequest(db, r)
        \/ \E r : db' = ReopenRequest(db, r)
        \/ \E r, t : db' = EnqueueReply(db, t, r)
    BY <1>6, <2>0 DEF HandleOperatorUpdate, AwaitTopicClosed, Finish, Await
  <2> QED
    BY <1>1, <1>2, <2>1, StatementsRecordNothing, NothingRecorded
<1>7. CASE db' = db
  BY <1>1, <1>2, <1>7, NothingRecorded
<1>8. \/ db' = db
      \/ Current(h).status = "none" /\ Current(h).kind = "message"
                /\ ProcessClientMessage(h, Current(h).of)
      \/ ResetConversation(h, Current(h).of)
      \/ Current(h).kind \notin {"message", "newQuestion"} /\ HandleOperatorUpdate(h, Current(h))
  BY <1>3 DEF RouteUpdate
<1> QED
  BY <1>4, <1>5, <1>6, <1>7, <1>8

\* Telegram's answer is about the message whose relay was awaited.
LEMMA AnswersRecordOne ==
  ASSUME NEW owner \in Owners, HandoffFits(owner), NEW h \in Handlers, Working(h),
         \/ RelayAccepted(h) \/ RelayUnanswered(h) \/ RelayRejected(h)
         \/ OpenAccepted(h) \/ OpenUnanswered(h) \/ OpenRejected(h)
  PROVE  AboutUnderway
<1> DEFINE r == task[h].request
           m == task[h].message
           k == task[h].chunk
           t == task[h].topic
<1>1. HasColumns(db) /\ copies \in [ActionIds -> Nat]
  BY TablesHaveColumns DEF HandoffFits, HandoffTyped
<1>2. SameMessages(db, db)
  BY <1>1 DEF SameMessages
<1>3. /\ Awaited(h) \in ActionIds /\ Awaited(h) = <<r, m, k>>
      /\ taken[h] < Len(stream[h]) /\ Current(h).kind = "message" /\ Current(h).of = m
      /\ task[h].pc = "opening" => k = 0
  BY AtWork
<1>4. Current(h).status = "processing"
  BY DEF HandoffFits, TaskFits, Working
<1>5. Underway(m)
  BY <1>3, <1>4 DEF Underway
<1>6. \A s : SameMessages(db, SetAction(db, Awaited(h), s))
  BY <1>1, StatementsRecordNothing
<1>7. ASSUME NEW d, SameMessages(db, d), Only(d, db', m),
             copies' = copies \/ copies' = [copies EXCEPT ![Awaited(h)] = @ + 1]
      PROVE  AboutUnderway
  <2>1. HasColumns(d)
    BY <1>7 DEF SameMessages
  <2>2. Awaited(h)[2] = m
    BY <1>3
  <2> QED
    BY <1>1, <1>3, <1>5, <1>7, <2>1, <2>2, OneUnderway
<1>8. ASSUME NEW d, SameMessages(db, d), SameMessages(d, db'),
             copies' = copies \/ copies' = [copies EXCEPT ![Awaited(h)] = @ + 1]
      PROVE  AboutUnderway
  BY <1>7, <1>8, OnlyAndSame
<1>9. CASE RelayAccepted(h) \/ RelayUnanswered(h)
  <2>1. PICK s : \E lost : RelayChunks(h, SetAction(db, <<r, m, k>>, s), r, m, t, k + 1, lost)
    BY <1>9 DEF RelayAccepted, RelayUnanswered
  <2>2. copies' = [copies EXCEPT ![<<r, m, k>>] = @ + 1]
    BY <1>9 DEF RelayAccepted, RelayUnanswered
  <2>3. SameMessages(db, SetAction(db, <<r, m, k>>, s)) /\ HasColumns(SetAction(db, <<r, m, k>>, s))
    BY <1>3, <1>6, OnlyAndSame
  <2>4. SameMessages(SetAction(db, <<r, m, k>>, s), db')
    BY <2>1, <2>3, ChunksRecordNothing
  <2> QED
    BY <1>3, <1>8, <2>2, <2>3, <2>4
<1>10. CASE RelayRejected(h)
  <2> DEFINE d == SetAction(db, <<r, m, k>>, "failed")
  <2>1. Finish(h, d) \/ RelayToWeb(h, d, r, t)
    BY <1>10 DEF RelayRejected
  <2>2. SameMessages(db, d) /\ HasColumns(d)
    BY <1>3, <1>6, OnlyAndSame
  <2> HIDE DEF d
  <2>3. SameMessages(d, db')
    BY <2>1, <2>2, WebRecordsNothing DEF Finish, SameMessages
  <2>4. copies' = copies
    BY <1>10 DEF RelayRejected
  <2> QED
    BY <1>8, <2>2, <2>3, <2>4
<1>11. CASE OpenUnanswered(h)
  <2> DEFINE d == SetAction(db, <<r, m, 0>>, "outcome_unknown")
             w == RecordWebTakeover(d, r)
  <2>1. db' = EnqueueHandoffAcknowledgement(w, r)
        /\ copies' = [copies EXCEPT ![<<r, m, 0>>] = @ + 1] /\ k = 0
    BY <1>3, <1>11 DEF OpenUnanswered, Finish
  <2>2. SameMessages(db, d) /\ HasColumns(d)
    BY <1>1, StatementsRecordNothing, OnlyAndSame
  <2> HIDE DEF d
  <2>3. SameMessages(d, w) /\ HasColumns(w)
    BY <2>2, StatementsRecordNothing, OnlyAndSame
  <2> HIDE DEF w
  <2>4. SameMessages(w, db')
    BY <2>1, <2>3, StatementsRecordNothing
  <2> QED
    BY <1>3, <1>8, <2>1, <2>2, <2>3, <2>4, SameTransitive
<1>12. CASE OpenRejected(h)
  <2> DEFINE d == SetAction(db, <<r, m, 0>>, "failed")
             w == RecordWebTakeover(d, r)
  <2>1. RelayClientMessage(h, w, r, m, WebTopic, TRUE) /\ copies' = copies
    BY <1>12 DEF OpenRejected
  <2>2. SameMessages(db, d) /\ HasColumns(d)
    BY <1>1, StatementsRecordNothing, OnlyAndSame
  <2> HIDE DEF d
  <2>3. SameMessages(d, w) /\ HasColumns(w)
    BY <2>2, StatementsRecordNothing, OnlyAndSame
  <2> HIDE DEF w
  <2>4. Only(w, db', m)
    BY <2>1, <2>3, RelayRecordsOne
  <2>5. SameMessages(db, w)
    BY <2>2, <2>3, SameTransitive
  <2> QED
    BY <1>7, <2>1, <2>4, <2>5
<1>13. CASE OpenAccepted(h)
  <2> DEFINE a == <<r, m, 0>>
             lostOne == SetAction(db, a, "outcome_unknown")
             w == RecordWebTakeover(lostOne, r)
  <2>1. copies' = [copies EXCEPT ![a] = @ + 1] /\ k = 0
    BY <1>3, <1>13 DEF OpenAccepted
  <2>2. PICK u : \/ RelayClientMessage(h, SetAction(SwitchOperatorTopic(db, r, u), a, "sent"),
                                       r, m, u, TRUE)
                 \/ Finish(h, EnqueueHandoffAcknowledgement(w, r))
    BY <1>13 DEF OpenAccepted
  <2>3. CASE RelayClientMessage(h, SetAction(SwitchOperatorTopic(db, r, u), a, "sent"),
                                       r, m, u, TRUE)
    <3> DEFINE d == SwitchOperatorTopic(db, r, u)
               e == SetAction(d, a, "sent")
    <3>1. SameMessages(db, d) /\ HasColumns(d)
      BY <1>1, StatementsRecordNothing, OnlyAndSame
    <3>2. RelayClientMessage(h, e, r, m, u, TRUE)
      BY <2>3
    <3> HIDE DEF d
    <3>3. SameMessages(d, e) /\ HasColumns(e)
      BY <3>1, StatementsRecordNothing, OnlyAndSame
    <3> HIDE DEF e
    <3>4. Only(e, db', m)
      BY <3>2, <3>3, RelayRecordsOne
    <3>5. SameMessages(db, e)
      BY <3>1, <3>3, SameTransitive
    <3> QED
      BY <1>3, <1>7, <2>1, <3>4, <3>5
  <2>4. CASE Finish(h, EnqueueHandoffAcknowledgement(w, r))
    <3>1. db' = EnqueueHandoffAcknowledgement(w, r)
      BY <2>4 DEF Finish
    <3>2. SameMessages(db, lostOne) /\ HasColumns(lostOne)
      BY <1>1, StatementsRecordNothing, OnlyAndSame
    <3> HIDE DEF lostOne
    <3>3. SameMessages(lostOne, w) /\ HasColumns(w)
      BY <3>2, StatementsRecordNothing, OnlyAndSame
    <3> HIDE DEF w
    <3>4. SameMessages(w, db')
      BY <3>1, <3>3, StatementsRecordNothing
    <3>5. SameMessages(db, w)
      BY <3>2, <3>3, SameTransitive
    <3> QED
      BY <1>3, <1>8, <2>1, <3>4, <3>5
  <2> QED
    BY <2>2, <2>3, <2>4
<1> QED
  BY <1>9, <1>10, <1>11, <1>12, <1>13

\* A crash records nothing; the requests that were awaited may have been accepted.
LEMMA CrashRecordsNothing ==
  ASSUME NEW owner \in Owners, HandoffFits(owner), CrashAndRestart
  PROVE  AboutUnderway
<1>1. HasColumns(db) /\ copies \in [ActionIds -> Nat]
  BY TablesHaveColumns DEF HandoffFits, HandoffTyped
<1>2. SameMessages(db, db')
  BY <1>1, StatementsRecordNothing DEF CrashAndRestart
<1>3. \A x \in db'.messages : x \in db.messages
  BY <1>2 DEF SameMessages
<1>4. ASSUME NEW a \in ActionIds, copies'[a] # copies[a]
      PROVE  Underway(a[2])
  <2>1. db.actions[a].status = "sending"
    BY <1>1, <1>4 DEF CrashAndRestart
  <2>2. PICK h \in Handlers : Working(h) /\ Awaited(h) = a
    BY <2>1 DEF HandoffFits, SendingIsAwaited, Sending
  <2>3. /\ taken[h] < Len(stream[h]) /\ Current(h).kind = "message"
        /\ Current(h).of = task[h].message
    BY <2>2, AtWork
  <2>4. Current(h).status = "processing"
    BY <2>2 DEF HandoffFits, TaskFits, Working
  <2>5. a[2] = task[h].message
    BY <2>2 DEF Awaited
  <2> QED
    BY <2>3, <2>4, <2>5 DEF Underway
<1> QED
  BY <1>3, <1>4 DEF AboutUnderway

\* Every step records and requests only what is underway.
LEMMA StepsAreAboutUnderway ==
  ASSUME NEW owner \in Owners, HandoffFits(owner), Act
  PROVE  AboutUnderway
<1>1. HasColumns(db)
  BY TablesHaveColumns DEF HandoffFits, HandoffTyped
<1>2. SameMessages(db, db)
  BY <1>1 DEF SameMessages
<1>3. ASSUME db' = db, copies' = copies
      PROVE  AboutUnderway
  BY <1>2, <1>3, NothingRecorded
<1>4. ASSUME NEW h \in Handlers, TakeUpdate(h) \/ ConfirmUpdates(h) \/ Answer(h)
      PROVE  AboutUnderway
  <2>1. CASE TakeUpdate(h)
    BY <2>1, RoutingRecordsOne
  <2>2. CASE ConfirmUpdates(h)
    BY <1>3, <2>2 DEF ConfirmUpdates
  <2>3. CASE \/ RelayAccepted(h) \/ RelayUnanswered(h) \/ RelayRejected(h)
             \/ OpenAccepted(h) \/ OpenUnanswered(h) \/ OpenRejected(h)
    <3>1. Working(h)
      BY <2>3 DEF Working, RelayAccepted, RelayUnanswered, RelayRejected, OpenAccepted,
                  OpenUnanswered, OpenRejected
    <3> QED
      BY <2>3, <3>1, AnswersRecordOne
  <2>4. CASE TopicCloseAnswered(h) \/ ReopenAnswered(h) \/ ResetAnswered(h) \/ MenuAnswered(h)
    <3>1. \/ db' = db \/ \E r : db' = ReopenRequest(db, r)
          \/ \E r : db' = CloseRequest(db, r)
      BY <2>4 DEF TopicCloseAnswered, ReopenAnswered, ResetAnswered, MenuAnswered,
                  AwaitMenuAnswer, Finish, Fail, Await
    <3>2. copies' = copies
      BY <2>4 DEF TopicCloseAnswered, ReopenAnswered, ResetAnswered, MenuAnswered
    <3> QED
      BY <1>1, <1>3, <3>1, <3>2, StatementsRecordNothing, NothingRecorded
  <2> QED
    BY <1>4, <2>1, <2>2, <2>3, <2>4 DEF Answer
<1>5. CASE \/ \E m \in Messages : ClientWrites(m)
           \/ \E t \in Topics :
                \/ \E kind \in Kinds \ {"topicClosed", "newQuestion"} : OperatorWrites(kind, t)
                \/ OperatorClosesTopic(t)
           \/ \E c \in TelegramClients : ClientResets(c)
           \/ Connect \/ Disconnect \/ Stopped
  <2>1. db' = db /\ copies' = copies
    BY <1>5 DEF ClientWrites, OperatorWrites, OperatorClosesTopic, ClientResets, Arrive,
                Connect, Disconnect, Stopped, SetTelegram
  <2> QED
    BY <1>3, <2>1
<1>6. ASSUME NEW r \in Requests, WebReply(r) \/ WebClose(r)
      PROVE  AboutUnderway
  <2>1. db' \in {EnqueueReply(db, WebTopic, r), CloseRequest(db, r)} /\ copies' = copies
    BY <1>6 DEF WebReply, WebClose, OnlyTables
  <2> QED
    BY <1>1, <2>1, StatementsRecordNothing, NothingRecorded
<1>7. ASSUME NEW a \in ActionIds, ConfirmReceived(a)
      PROVE  AboutUnderway
  <2> DEFINE d == SetAction(db, a, "confirmed")
  <2>1. db' \in {EnqueueHandoffAcknowledgement(d, a[1]), d} /\ copies' = copies
    BY <1>7 DEF ConfirmReceived, OnlyTables
  <2>2. SameMessages(db, d) /\ HasColumns(d)
    BY <1>1, StatementsRecordNothing, OnlyAndSame
  <2> HIDE DEF d
  <2>3. SameMessages(d, EnqueueHandoffAcknowledgement(d, a[1]))
    BY <2>2, StatementsRecordNothing
  <2> QED
    BY <2>1, <2>2, <2>3, SameTransitive, NothingRecorded
<1>8. ASSUME NEW a \in ActionIds, MoveToWeb(a)
      PROVE  AboutUnderway
  <2> DEFINE moved == SwitchOperatorTopic(db, a[1], WebTopic)
             told == IF db.actions[a].initial
                     THEN EnqueueHandoffAcknowledgement(moved, a[1]) ELSE moved
             resolved == ResolveAsWeb(told, a)
  <2>1. db' = RecordWebTakeover(resolved, a[1]) /\ copies' = copies
    BY <1>8 DEF MoveToWeb, OnlyTables
  <2>2. SameMessages(db, moved) /\ HasColumns(moved)
    BY <1>1, StatementsRecordNothing, OnlyAndSame
  <2> HIDE DEF moved
  <2>3. SameMessages(db, told) /\ HasColumns(told)
    <3>1. SameMessages(moved, EnqueueHandoffAcknowledgement(moved, a[1]))
      BY <2>2, StatementsRecordNothing
    <3> QED
      BY <2>2, <3>1, SameTransitive, OnlyAndSame
  <2> HIDE DEF told
  <2>4. SameMessages(db, resolved) /\ HasColumns(resolved)
    BY <2>3, StatementsRecordNothing, SameTransitive, OnlyAndSame
  <2> HIDE DEF resolved
  <2>5. SameMessages(resolved, db')
    BY <2>1, <2>4, StatementsRecordNothing
  <2> QED
    BY <2>1, <2>4, <2>5, SameTransitive, NothingRecorded
<1>9. CASE CrashAndRestart
  BY <1>9, CrashRecordsNothing
<1> QED
  BY <1>4, <1>5, <1>6, <1>7, <1>8, <1>9 DEF Act

\* Nothing more is recorded or requested in the name of a message whose update is
\* completed: what a step does is about an update underway, and each message came
\* in one update only.
THEOREM CompletedIsFinalAlways == Spec => CompletedIsFinal
<1> DEFINE Final ==
      \A h \in Handlers : \A i \in 1..Len(stream[h]) :
        stream[h][i].kind = "message" /\ stream[h][i].status = "completed" =>
          LET m == stream[h][i].of IN
          /\ \A r \in Requests : <<r, m>> \in db'.messages => <<r, m>> \in db.messages
          /\ \A a \in ActionIds : a[2] = m => copies'[a] = copies[a]
<1>1. ASSUME HandoffInv, [Next]_vars
      PROVE  [Final]_vars
  <2>1. CASE UNCHANGED vars
    BY <2>1
  <2>2. CASE Act
    <3>1. PICK owner \in Owners : HandoffFits(owner)
      BY <1>1 DEF HandoffInv
    <3>2. AboutUnderway
      BY <2>2, <3>1, StepsAreAboutUnderway
    <3>3. ASSUME NEW h \in Handlers, NEW i \in 1..Len(stream[h]),
                 stream[h][i].kind = "message", stream[h][i].status = "completed"
          PROVE  ~Underway(stream[h][i].of)
      <4>1. ASSUME Underway(stream[h][i].of)
            PROVE  FALSE
        <5>1. PICK g \in Handlers :
                /\ taken[g] < Len(stream[g])
                /\ Current(g).kind = "message" /\ Current(g).of = stream[h][i].of
                /\ Current(g).status # "completed"
          BY <4>1 DEF Underway
        <5>2. taken[g] + 1 \in 1..Len(stream[g]) /\ Current(g) = stream[g][taken[g] + 1]
          BY <3>1, <5>1 DEF HandoffFits, HandoffTyped, Current
        <5>3. UpdatesFit
          BY <3>1 DEF HandoffFits
        <5>4. g = h
          BY <3>3, <5>1, <5>2, <5>3 DEF UpdatesFit
        <5>5. taken[g] + 1 = i
          BY <3>3, <5>1, <5>2, <5>3, <5>4 DEF UpdatesFit
        <5> QED
          BY <3>3, <5>1, <5>2, <5>4, <5>5
      <4> QED
        BY <4>1
    <3>4. Final
      BY <3>2, <3>3 DEF AboutUnderway
    <3> QED
      BY <3>4
  <2> QED
    BY <1>1, <2>1, <2>2 DEF Next
<1>2. Spec => [][Final]_vars
  BY <1>1, HandoffInvariant, PTL DEF Spec
<1> QED
  BY <1>2 DEF CompletedIsFinal
=============================================================================
