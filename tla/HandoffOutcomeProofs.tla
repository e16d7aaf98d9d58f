------------------------ MODULE HandoffOutcomeProofs ------------------------
(***************************************************************************)
(* Proofs about Handoff: what becomes of a message, and who is told.       *)
(*                                                                         *)
(* OutcomesFit says what the tables tell about a message at any await; a   *)
(* relay that is awaited moreover follows what was done before it          *)
(* (ChunksAwaited).  A poller's step on a message is a MessageStep, or a   *)
(* CreationStep if it opens a request; every other step is a QuietStep,    *)
(* which may change the outcome of a message but completes none.  The      *)
(* lemmas go from the statements on the tables (...Fits, ...Keep) over the *)
(* ways a relay ends (...Outcome) to the actions.                          *)
(*                                                                         *)
(* ToldFits says who was told that the question was sent, and who is still *)
(* to tell the others; it needs the order in which updates are done with   *)
(* (UpdatesInOrder).  The same three kinds of steps keep it (...Told).     *)
(***************************************************************************)
EXTENDS HandoffProofs

-----------------------------------------------------------------------------
(* What the tables say of a message.                                       *)

Present(d, a) == d.actions[a].status # "absent"

\* Who was told has a reason;
AckedHonestly(d) ==
  \A r \in d.acked : r \in d.takeovers \/ \E m \in Messages : Sent(d, r, m)

\* a relay that was abandoned was moved to the web inbox with its request;
AbandonedInWeb(d) ==
  \A a \in ActionIds : d.actions[a].status = "abandoned" =>
    a[1] \in d.takeovers /\ TopicOf(d, a[1]) = WebTopic

\* all chunks of a message have rows or none, and are initial or not;
ChunksTogether(d) ==
  \A a, b \in ActionIds :
    /\ a[1] = b[1] /\ a[2] = b[2] /\ a[3] # 0 /\ b[3] \in 1..Chunks[b[2]]
    /\ Present(d, a)
    => Present(d, b) /\ d.actions[b].initial = d.actions[a].initial

\* a request whose opening was not seen to succeed stays in the web inbox and
\* relays nothing;
OpeningsFit(d) ==
  \A a \in ActionIds : a[3] = 0 /\ Present(d, a) =>
    /\ d.actions[a].initial
    /\ d.actions[a].status # "sent" =>
         /\ TopicOf(d, a[1]) = WebTopic
         /\ \A b \in ActionIds : b[1] = a[1] /\ b # a => ~Present(d, b)

\* what is relayed was recorded.
RowsRecorded(d) ==
  \A a \in ActionIds : Present(d, a) => <<a[1], a[2]>> \in d.messages

OutcomesFit(d) ==
  AckedHonestly(d) /\ AbandonedInWeb(d) /\ ChunksTogether(d) /\ OpeningsFit(d) /\ RowsRecorded(d)

\* The row of an action as time goes by: some outcomes are final.
Ages(x, y) ==
  /\ x.status # "absent" => y.status # "absent" /\ y.initial = x.initial
  /\ x.status \in {"sent", "confirmed", "outcome_unknown", "abandoned"} => y.status = x.status
  /\ y.status = "abandoned" => x.status = "abandoned"

\* What a poller does to the tables for message m of request r.
Turn(d, e, r, m) ==
  /\ \A a \in ActionIds : /\ Ages(d.actions[a], e.actions[a])
                          /\ ~(a[1] = r /\ a[2] = m) => e.actions[a] = d.actions[a]
  /\ \A q \in Requests : q # r => e.requests[q] = d.requests[q]
  /\ e.requests[r].status = d.requests[r].status /\ e.requests[r].client = d.requests[r].client
  /\ \/ e.requests[r].topic \in {d.requests[r].topic, WebTopic}
     \/ d.requests[r].status = "active"
  /\ d.messages \subseteq e.messages /\ e.messages \subseteq d.messages \cup {<<r, m>>}
  /\ d.takeovers \subseteq e.takeovers
  /\ d.acked \subseteq e.acked /\ e.acked \subseteq d.acked \cup {r}

\* One thing after the other.
LEMMA TurnTransitive ==
  ASSUME NEW d, NEW e, NEW f, NEW r, NEW m, Turn(d, e, r, m), Turn(e, f, r, m)
  PROVE  Turn(d, f, r, m)
<1>1. \A a \in ActionIds : /\ Ages(d.actions[a], f.actions[a])
                           /\ ~(a[1] = r /\ a[2] = m) => f.actions[a] = d.actions[a]
  <2> TAKE a \in ActionIds
  <2>1. Ages(d.actions[a], e.actions[a]) /\ Ages(e.actions[a], f.actions[a])
    BY DEF Turn
  <2>2. Ages(d.actions[a], f.actions[a])
    BY <2>1 DEF Ages
  <2>3. ~(a[1] = r /\ a[2] = m) => f.actions[a] = d.actions[a]
    BY DEF Turn
  <2> QED
    BY <2>2, <2>3
<1>2. /\ \A q \in Requests : q # r => f.requests[q] = d.requests[q]
      /\ f.requests[r].status = d.requests[r].status /\ f.requests[r].client = d.requests[r].client
  BY DEF Turn
<1>2a. \/ f.requests[r].topic \in {d.requests[r].topic, WebTopic}
       \/ d.requests[r].status = "active"
  BY DEF Turn
<1>3. /\ d.messages \subseteq f.messages /\ f.messages \subseteq d.messages \cup {<<r, m>>}
      /\ d.takeovers \subseteq f.takeovers
      /\ d.acked \subseteq f.acked /\ f.acked \subseteq d.acked \cup {r}
  BY DEF Turn
<1> QED
  BY <1>1, <1>2, <1>2a, <1>3 DEF Turn

\* Where no row of an action changes.
LEMMA SameRowsTurn ==
  ASSUME NEW d, NEW e, NEW r \in Requests, NEW m, e.actions = d.actions,
         \A q \in Requests : q # r => e.requests[q] = d.requests[q],
         e.requests[r].status = d.requests[r].status, e.requests[r].client = d.requests[r].client,
         \/ e.requests[r].topic \in {d.requests[r].topic, WebTopic}
         \/ d.requests[r].status = "active",
         d.messages \subseteq e.messages, e.messages \subseteq d.messages \cup {<<r, m>>},
         d.takeovers \subseteq e.takeovers,
         d.acked \subseteq e.acked, e.acked \subseteq d.acked \cup {r}
  PROVE  Turn(d, e, r, m)
<1>1. \A a \in ActionIds : Ages(d.actions[a], e.actions[a])
  BY DEF Ages
<1> QED
  BY <1>1 DEF Turn

\* A message that was sent stays so.
LEMMA SentStays ==
  ASSUME NEW d, NEW e, NEW r \in Requests, NEW m \in Messages, scenario \in Scenario, Sent(d, r, m),
         \A a \in ActionIds : d.actions[a].status \in {"sent", "confirmed"} =>
           e.actions[a].status \in {"sent", "confirmed"}
  PROVE  Sent(e, r, m)
<1>1. Chunks[m] \in 1..MaxChunks /\ MaxChunks \in Nat
  BY ScenarioFacts
<1>2. \A k \in 1..Chunks[m] : <<r, m, k>> \in ActionIds
  BY <1>1 DEF ActionIds
<1> QED
  BY <1>2 DEF Sent

\* Requests, messages and notes change, rows of actions do not.
LEMMA SameRowsKeep ==
  ASSUME NEW d \in Tables, NEW e \in Tables, OutcomesFit(d), e.actions = d.actions,
         d.messages \subseteq e.messages, d.takeovers \subseteq e.takeovers,
         \A r \in e.acked :
           r \in d.acked \/ r \in e.takeovers \/ \E m \in Messages : Sent(d, r, m),
         \A r \in Requests :
           \/ TopicOf(e, r) = TopicOf(d, r)
           \/ TopicOf(e, r) = WebTopic
           \/ \A a \in ActionIds : a[1] = r =>
                /\ d.actions[a].status # "abandoned"
                /\ a[3] = 0 => d.actions[a].status \in {"absent", "sent"}
  PROVE  OutcomesFit(e)
<1>0. \A a \in ActionIds : a[1] \in Requests
  BY DEF ActionIds
<1>1. AckedHonestly(e)
  <2>1. ASSUME NEW r \in e.acked
        PROVE  r \in e.takeovers \/ \E m \in Messages : Sent(d, r, m)
    BY DEF OutcomesFit, AckedHonestly
  <2> QED
    BY <2>1 DEF AckedHonestly, Sent
<1>2. AbandonedInWeb(e)
  BY <1>0 DEF OutcomesFit, AbandonedInWeb
<1>3. ChunksTogether(e)
  BY DEF OutcomesFit, ChunksTogether, Present
<1>4. OpeningsFit(e)
  <2> SUFFICES ASSUME NEW a \in ActionIds, a[3] = 0, Present(d, a)
               PROVE  /\ d.actions[a].initial
                      /\ d.actions[a].status # "sent" =>
                           /\ TopicOf(e, a[1]) = WebTopic
                           /\ \A b \in ActionIds : b[1] = a[1] /\ b # a => ~Present(d, b)
    BY DEF OpeningsFit, Present
  <2>1. /\ d.actions[a].initial
        /\ d.actions[a].status # "sent" =>
             /\ TopicOf(d, a[1]) = WebTopic
             /\ \A b \in ActionIds : b[1] = a[1] /\ b # a => ~Present(d, b)
    BY DEF OutcomesFit, OpeningsFit
  <2>2. d.actions[a].status # "sent" => TopicOf(e, a[1]) = WebTopic
    BY <1>0, <2>1 DEF Present
  <2> QED
    BY <2>1, <2>2
<1>5. RowsRecorded(e)
  BY DEF OutcomesFit, RowsRecorded, Present
<1> QED
  BY <1>1, <1>2, <1>3, <1>4, <1>5 DEF OutcomesFit

\* The row of one action changes its status.
LEMMA StatusKeeps ==
  ASSUME NEW d \in Tables, OutcomesFit(d), scenario \in Scenario, NEW a \in ActionIds,
         NEW s \in {"sending", "sent", "confirmed", "failed", "outcome_unknown"},
         Present(d, a), d.actions[a].status \notin {"sent", "confirmed", "abandoned"}
  PROVE  OutcomesFit(SetAction(d, a, s))
<1> DEFINE e == SetAction(d, a, s)
<1>0. s \in Statuses /\ s # "absent" /\ s # "abandoned"
  BY DEF Statuses
<1>1. /\ e.requests = d.requests /\ e.messages = d.messages
      /\ e.takeovers = d.takeovers /\ e.acked = d.acked
      /\ e.actions[a].status = s /\ e.actions[a].initial = d.actions[a].initial
      /\ \A b \in ActionIds \ {a} : e.actions[b] = d.actions[b]
  BY <1>0, SetActionIs
<1> HIDE DEF e
<1>2. \A b \in ActionIds : /\ Present(e, b) <=> Present(d, b)
                           /\ e.actions[b].initial = d.actions[b].initial
                           /\ e.actions[b].status = "abandoned" => d.actions[b].status = "abandoned"
                           /\ d.actions[b].status = "sent" => e.actions[b].status = "sent"
                           /\ d.actions[b].status \in {"sent", "confirmed"} =>
                                e.actions[b].status \in {"sent", "confirmed"}
  BY <1>0, <1>1 DEF Present
<1>3. AckedHonestly(e)
  <2> SUFFICES ASSUME NEW r \in d.acked, ~(r \in d.takeovers)
               PROVE  \E m \in Messages : Sent(e, r, m)
    BY <1>1 DEF AckedHonestly
  <2>1. PICK m \in Messages : Sent(d, r, m)
    BY DEF OutcomesFit, AckedHonestly
  <2>2. r \in Requests
    BY DEF Tables
  <2>3. Sent(e, r, m)
    BY <1>2, <2>1, <2>2, SentStays
  <2> QED
    BY <2>3
<1>4. AbandonedInWeb(e)
  BY <1>1, <1>2 DEF OutcomesFit, AbandonedInWeb, TopicOf
<1>5. ChunksTogether(e)
  BY <1>2 DEF OutcomesFit, ChunksTogether
<1>6. OpeningsFit(e)
  <2> SUFFICES ASSUME NEW b \in ActionIds, b[3] = 0, Present(e, b)
               PROVE  /\ e.actions[b].initial
                      /\ e.actions[b].status # "sent" =>
                           /\ TopicOf(e, b[1]) = WebTopic
                           /\ \A x \in ActionIds : x[1] = b[1] /\ x # b => ~Present(e, x)
    BY DEF OpeningsFit
  <2>1. /\ d.actions[b].initial
        /\ d.actions[b].status # "sent" =>
             /\ TopicOf(d, b[1]) = WebTopic
             /\ \A x \in ActionIds : x[1] = b[1] /\ x # b => ~Present(d, x)
    BY <1>2 DEF OutcomesFit, OpeningsFit
  <2>2. TopicOf(e, b[1]) = TopicOf(d, b[1])
    BY <1>1 DEF TopicOf
  <2>3. e.actions[b].status # "sent" => d.actions[b].status # "sent"
    BY <1>2
  <2> QED
    BY <1>2, <2>1, <2>2, <2>3
<1>7. RowsRecorded(e)
  BY <1>1, <1>2 DEF OutcomesFit, RowsRecorded
<1> QED
  BY <1>3, <1>4, <1>5, <1>6, <1>7 DEF OutcomesFit, e

\* The row of the message's own action is not final yet.
LEMMA StatusTurn ==
  ASSUME NEW d \in Tables, NEW a \in ActionIds,
         NEW s \in {"sending", "sent", "failed", "outcome_unknown"},
         d.actions[a].status \notin {"sent", "confirmed", "outcome_unknown", "abandoned"}
  PROVE  Turn(d, SetAction(d, a, s), a[1], a[2])
<1> DEFINE e == SetAction(d, a, s)
<1>0. s \in Statuses /\ s # "absent" /\ s # "abandoned"
  BY DEF Statuses
<1>1. /\ e.requests = d.requests /\ e.messages = d.messages
      /\ e.takeovers = d.takeovers /\ e.acked = d.acked
      /\ e.actions[a].status = s /\ e.actions[a].initial = d.actions[a].initial
      /\ \A b \in ActionIds \ {a} : e.actions[b] = d.actions[b]
  BY <1>0, SetActionIs
<1> HIDE DEF e
<1>2. \A b \in ActionIds : /\ Ages(d.actions[b], e.actions[b])
                           /\ ~(b[1] = a[1] /\ b[2] = a[2]) => e.actions[b] = d.actions[b]
  BY <1>0, <1>1 DEF Ages
<1>3. Turn(d, e, a[1], a[2])
  BY <1>1, <1>2 DEF Turn
<1> QED
  BY <1>3 DEF e

\* The rows a message is prepared with.
LEMMA PreparedRows ==
  ASSUME NEW d \in Tables, NEW r \in Requests, NEW m \in Messages,
         NEW t \in Places, NEW initial \in BOOLEAN, scenario \in Scenario,
         ChunksTogether(d)
  PROVE  LET e == PrepareRelay(d, r, m, t, initial) IN
         /\ e \in Tables /\ e.requests = d.requests /\ e.messages = d.messages
         /\ e.takeovers = d.takeovers /\ e.acked = d.acked
         /\ \A k \in 1..Chunks[m] : <<r, m, k>> \in ActionIds /\ Present(e, <<r, m, k>>)
         /\ \A a \in ActionIds :
              \/ e.actions[a] = d.actions[a]
              \/ /\ a[1] = r /\ a[2] = m /\ a[3] \in 1..Chunks[m] /\ ~Present(d, a)
                 /\ e.actions[a].status = "pending" /\ e.actions[a].initial = initial
                 /\ \A b \in ActionIds : b[1] = r /\ b[2] = m /\ b[3] # 0 => ~Present(d, b)
<1> DEFINE first == d.actions[<<r, m, 1>>]
           isInitial == IF first.status = "absent" THEN initial ELSE first.initial
           row == [status |-> "pending", topic |-> t, initial |-> isInitial]
           new(a) == a[1] = r /\ a[2] = m /\ a[3] \in 1..Chunks[m]
                     /\ d.actions[a].status = "absent"
           e == PrepareRelay(d, r, m, t, initial)
<1>1. d.actions \in [ActionIds -> ActionRow]
  BY DEF Tables
<1>2. Chunks[m] \in 1..MaxChunks /\ MaxChunks \in Nat
  BY ScenarioFacts
<1>3. \A k \in 1..Chunks[m] : <<r, m, k>> \in ActionIds
  BY <1>2 DEF ActionIds
<1>4. 1 \in 1..Chunks[m] /\ <<r, m, 1>> \in ActionIds
  BY <1>2, <1>3
<1>5. first \in ActionRow
  BY <1>1, <1>4
<1>6. isInitial \in BOOLEAN
  BY <1>5 DEF ActionRow
<1>7. ASSUME NEW a \in ActionIds, new(a)
      PROVE  /\ isInitial = initial
             /\ \A b \in ActionIds : b[1] = r /\ b[2] = m /\ b[3] # 0 => ~Present(d, b)
  <2>1. ASSUME NEW b \in ActionIds, b[1] = r, b[2] = m, b[3] # 0, Present(d, b)
        PROVE  FALSE
    <3>1. Present(d, a)
      BY <1>7, <2>1 DEF ChunksTogether
    <3> QED
      BY <1>7, <3>1 DEF Present
  <2>2. <<r, m, 1>>[1] = r /\ <<r, m, 1>>[2] = m /\ <<r, m, 1>>[3] # 0
    OBVIOUS
  <2>3. ~Present(d, <<r, m, 1>>)
    BY <1>4, <2>1, <2>2
  <2> QED
    BY <2>1, <2>3 DEF Present
<1> HIDE DEF isInitial
<1>8. row \in ActionRow /\ row.status = "pending" /\ row.initial = isInitial
  BY <1>6 DEF ActionRow, Statuses
<1>9. e = [d EXCEPT !.actions = [a \in ActionIds |-> IF new(a) THEN row ELSE d.actions[a]]]
  BY DEF PrepareRelay, isInitial
<1> HIDE DEF row
<1>10. /\ e \in Tables /\ e.requests = d.requests /\ e.messages = d.messages
       /\ e.takeovers = d.takeovers /\ e.acked = d.acked
       /\ \A a \in ActionIds : e.actions[a] = IF new(a) THEN row ELSE d.actions[a]
  <2> DEFINE rows == [a \in ActionIds |-> IF new(a) THEN row ELSE d.actions[a]]
  <2>1. rows \in [ActionIds -> ActionRow]
    BY <1>1, <1>8
  <2>2. \A a \in ActionIds : rows[a] = IF new(a) THEN row ELSE d.actions[a]
    OBVIOUS
  <2>3. e = [d EXCEPT !.actions = rows]
    BY <1>9
  <2> HIDE DEF rows
  <2>4. e.actions = rows /\ e \in Tables /\ e.requests = d.requests
        /\ e.messages = d.messages /\ e.takeovers = d.takeovers /\ e.acked = d.acked
    BY <2>1, <2>3 DEF Tables
  <2> QED
    BY <2>2, <2>4
<1> HIDE DEF e
<1>11. \A k \in 1..Chunks[m] : Present(e, <<r, m, k>>)
  BY <1>3, <1>8, <1>10 DEF Present
<1>12. ASSUME NEW a \in ActionIds
       PROVE  \/ e.actions[a] = d.actions[a]
              \/ /\ a[1] = r /\ a[2] = m /\ a[3] \in 1..Chunks[m] /\ ~Present(d, a)
                 /\ e.actions[a].status = "pending" /\ e.actions[a].initial = initial
                 /\ \A b \in ActionIds : b[1] = r /\ b[2] = m /\ b[3] # 0 => ~Present(d, b)
  <2>1. CASE ~new(a)
    BY <1>10, <2>1
  <2>2. CASE new(a)
    <3>1. e.actions[a].status = "pending" /\ e.actions[a].initial = isInitial
      BY <1>8, <1>10, <2>2
    <3>2. /\ isInitial = initial
          /\ \A b \in ActionIds : b[1] = r /\ b[2] = m /\ b[3] # 0 => ~Present(d, b)
      BY <1>7, <2>2
    <3> QED
      BY <2>2, <3>1, <3>2 DEF Present
  <2> QED
    BY <2>1, <2>2
<1> HIDE DEF new
<1>13. \A a \in ActionIds :
         \/ e.actions[a] = d.actions[a]
         \/ /\ a[1] = r /\ a[2] = m /\ a[3] \in 1..Chunks[m] /\ ~Present(d, a)
            /\ e.actions[a].status = "pending" /\ e.actions[a].initial = initial
            /\ \A b \in ActionIds : b[1] = r /\ b[2] = m /\ b[3] # 0 => ~Present(d, b)
  BY <1>12
<1> QED
  BY <1>3, <1>10, <1>11, <1>13 DEF e

\* Preparing the relay of a recorded message of a request that is in a topic.
LEMMA PrepareFits ==
  ASSUME NEW d \in Tables, NEW r \in Requests, NEW m \in Messages,
         NEW t \in Places, NEW initial \in BOOLEAN, scenario \in Scenario,
         OutcomesFit(d), TopicOf(d, r) # WebTopic, <<r, m>> \in d.messages
  PROVE  LET e == PrepareRelay(d, r, m, t, initial) IN
         OutcomesFit(e) /\ Turn(d, e, r, m)
<1> DEFINE e == PrepareRelay(d, r, m, t, initial)
           new(a) == /\ a[1] = r /\ a[2] = m /\ a[3] \in 1..Chunks[m] /\ ~Present(d, a)
                     /\ e.actions[a].status = "pending" /\ e.actions[a].initial = initial
                     /\ \A b \in ActionIds : b[1] = r /\ b[2] = m /\ b[3] # 0 => ~Present(d, b)
<1>1. /\ e \in Tables /\ e.requests = d.requests /\ e.messages = d.messages
      /\ e.takeovers = d.takeovers /\ e.acked = d.acked
      /\ \A k \in 1..Chunks[m] : <<r, m, k>> \in ActionIds /\ Present(e, <<r, m, k>>)
      /\ \A a \in ActionIds : e.actions[a] = d.actions[a] \/ new(a)
  BY PreparedRows DEF OutcomesFit
<1>2. \A a \in ActionIds : a[1] \in Requests /\ a[3] \in Nat /\ a = <<a[1], a[2], a[3]>>
  BY HandoffAssumption DEF ActionIds
<1>3. Chunks[m] \in Nat
  BY ScenarioFacts
<1> HIDE DEF e
<1>4. AckedHonestly(e)
  <2> SUFFICES ASSUME NEW q \in d.acked, ~(q \in d.takeovers)
               PROVE  \E n \in Messages : Sent(e, q, n)
    BY <1>1 DEF AckedHonestly
  <2>1. PICK n \in Messages : Sent(d, q, n)
    BY DEF OutcomesFit, AckedHonestly
  <2>2. q \in Requests
    BY DEF Tables
  <2>3. \A a \in ActionIds : d.actions[a].status \in {"sent", "confirmed"} =>
          e.actions[a].status \in {"sent", "confirmed"}
    BY <1>1 DEF Present
  <2>4. Sent(e, q, n)
    BY <2>1, <2>2, <2>3, SentStays
  <2> QED
    BY <2>4
<1>5. AbandonedInWeb(e)
  <2>1. \A a \in ActionIds : e.actions[a].status = "abandoned" => d.actions[a].status = "abandoned"
    BY <1>1
  <2> QED
    BY <1>1, <2>1 DEF OutcomesFit, AbandonedInWeb, TopicOf
<1>6. ChunksTogether(e)
  <2> SUFFICES ASSUME NEW a \in ActionIds, NEW b \in ActionIds,
                      a[1] = b[1], a[2] = b[2], a[3] # 0, b[3] \in 1..Chunks[b[2]], Present(e, a)
               PROVE  Present(e, b) /\ e.actions[b].initial = e.actions[a].initial
    BY DEF ChunksTogether
  <2>0. b[3] # 0
    OBVIOUS
  <2>1. CASE new(a)
    <3>1. ~Present(d, b) /\ b = <<r, m, b[3]>>
      BY <1>2, <2>0, <2>1
    <3>2. Present(e, b)
      BY <1>1, <2>1, <3>1
    <3>3. new(b)
      BY <1>1, <3>1, <3>2 DEF Present
    <3> QED
      BY <2>1, <3>2, <3>3
  <2>2. CASE e.actions[a] = d.actions[a]
    <3>1. Present(d, a) /\ Present(d, b) /\ d.actions[b].initial = d.actions[a].initial
      BY <2>2 DEF Present, OutcomesFit, ChunksTogether
    <3>2. e.actions[b] = d.actions[b]
      BY <1>1, <3>1
    <3> QED
      BY <2>2, <3>1, <3>2 DEF Present
  <2> QED
    BY <1>1, <2>1, <2>2
<1>7. OpeningsFit(e)
  <2> SUFFICES ASSUME NEW a \in ActionIds, a[3] = 0, Present(e, a)
               PROVE  /\ e.actions[a].initial
                      /\ e.actions[a].status # "sent" =>
                           /\ TopicOf(e, a[1]) = WebTopic
                           /\ \A b \in ActionIds : b[1] = a[1] /\ b # a => ~Present(e, b)
    BY DEF OpeningsFit
  <2>1. e.actions[a] = d.actions[a]
    BY <1>1, <1>3
  <2>2. /\ d.actions[a].initial
        /\ d.actions[a].status # "sent" =>
             /\ TopicOf(d, a[1]) = WebTopic
             /\ \A b \in ActionIds : b[1] = a[1] /\ b # a => ~Present(d, b)
    BY <2>1 DEF Present, OutcomesFit, OpeningsFit
  <2>3. ASSUME d.actions[a].status # "sent", NEW b \in ActionIds, b[1] = a[1], b # a
        PROVE  ~Present(e, b)
    <3>1. a[1] # r /\ ~Present(d, b)
      BY <2>2, <2>3
    <3>2. e.actions[b] = d.actions[b]
      BY <1>1, <2>3, <3>1
    <3> QED
      BY <3>1, <3>2 DEF Present
  <2>4. TopicOf(e, a[1]) = TopicOf(d, a[1])
    BY <1>1 DEF TopicOf
  <2> HIDE DEF new
  <2> QED
    BY <2>1, <2>2, <2>3, <2>4
<1>8. RowsRecorded(e)
  <2> SUFFICES ASSUME NEW a \in ActionIds, Present(e, a)
               PROVE  <<a[1], a[2]>> \in d.messages
    BY <1>1 DEF RowsRecorded
  <2>1. CASE e.actions[a] = d.actions[a]
    BY <2>1 DEF Present, OutcomesFit, RowsRecorded
  <2>2. CASE new(a)
    BY <2>2
  <2> QED
    BY <1>1, <2>1, <2>2
<1>9. Turn(d, e, r, m)
  <2>1. \A a \in ActionIds : /\ Ages(d.actions[a], e.actions[a])
                             /\ ~(a[1] = r /\ a[2] = m) => e.actions[a] = d.actions[a]
    BY <1>1 DEF Ages, Present
  <2> QED
    BY <1>1, <2>1 DEF Turn
<1> QED
  BY <1>4, <1>5, <1>6, <1>7, <1>8, <1>9 DEF OutcomesFit, e

-----------------------------------------------------------------------------
(* How a relay ends.                                                       *)

\* The notes, column by column.
LEMMA NotesAre ==
  ASSUME NEW d \in Tables, NEW r \in Requests
  PROVE  /\ LET e == EnqueueHandoffAcknowledgement(d, r) IN
            /\ e \in Tables /\ e.requests = d.requests /\ e.actions = d.actions
            /\ e.messages = d.messages /\ e.takeovers = d.takeovers
            /\ e.acked = d.acked \cup {r}
         /\ LET e == RecordWebTakeover(d, r) IN
            /\ e \in Tables /\ e.requests = d.requests /\ e.actions = d.actions
            /\ e.messages = d.messages /\ e.takeovers = d.takeovers \cup {r}
            /\ e.acked = d.acked
BY DEF EnqueueHandoffAcknowledgement, RecordWebTakeover, Tables

\* A request changes its topic.
LEMMA SwitchIs ==
  ASSUME NEW d \in Tables, NEW r \in Requests, NEW t \in Places
  PROVE  LET e == SwitchOperatorTopic(d, r, t) IN
         /\ e \in Tables /\ e.actions = d.actions /\ e.messages = d.messages
         /\ e.takeovers = d.takeovers /\ e.acked = d.acked
         /\ e.requests[r].status = d.requests[r].status
         /\ e.requests[r].client = d.requests[r].client /\ e.requests[r].topic = t
         /\ \A q \in Requests \ {r} : e.requests[q] = d.requests[q]
<1> DEFINE row == [d.requests[r] EXCEPT !.topic = t]
           e == SwitchOperatorTopic(d, r, t)
<1>1. d.requests[r] \in RequestRow
  BY DEF Tables
<1>2. /\ row \in RequestRow /\ row.status = d.requests[r].status
      /\ row.client = d.requests[r].client /\ row.topic = t
  BY <1>1 DEF RequestRow
<1>3. e = [d EXCEPT !.requests[r] = row]
  BY DEF SwitchOperatorTopic
<1> HIDE DEF row
<1>4. /\ e \in Tables /\ e.actions = d.actions /\ e.messages = d.messages
      /\ e.takeovers = d.takeovers /\ e.acked = d.acked /\ e.requests[r] = row
      /\ \A q \in Requests \ {r} : e.requests[q] = d.requests[q]
  BY <1>2, <1>3, RequestsSet
<1> HIDE DEF e
<1>5. /\ e.requests[r].status = d.requests[r].status
      /\ e.requests[r].client = d.requests[r].client /\ e.requests[r].topic = t
  BY <1>2, <1>4
<1> QED
  BY <1>4, <1>5 DEF e

\* A message is recorded.
LEMMA RecordIs ==
  ASSUME NEW d \in Tables, NEW r \in Requests, NEW m \in Messages
  PROVE  LET e == RecordConversationMessage(d, r, m) IN
         /\ e \in Tables /\ e.requests = d.requests /\ e.actions = d.actions
         /\ e.messages = d.messages \cup {<<r, m>>}
         /\ e.takeovers = d.takeovers /\ e.acked = d.acked
BY DEF RecordConversationMessage, Tables

\* The emergency inbox has the request of a message, and told its client so,
\* or the update is left for a retry.
LEMMA WebOutcome ==
  ASSUME NEW h \in Handlers, NEW d \in Tables, NEW r \in Requests, NEW m \in Messages, NEW from,
         OutcomesFit(d), RelayToWeb(h, d, r, from),
         from = WebTopic => TopicOf(d, r) = WebTopic /\ r \in d.takeovers
  PROVE  /\ OutcomesFit(db') /\ Turn(d, db', r, m) /\ db'.actions = d.actions
         /\ db'.messages = d.messages
         /\ \/ /\ Finish(h, db') /\ r \in db'.acked /\ TopicOf(db', r) = WebTopic
               /\ Active(d, r) \/ TopicOf(d, r) = WebTopic
            \/ /\ Fail(h, db') /\ db' = d /\ from # WebTopic
               /\ TopicOf(d, r) # WebTopic /\ ~CanSwitch(d, r, from)
<1>1. ASSUME NEW e \in Tables, e.actions = d.actions, e.messages = d.messages,
             d.takeovers \subseteq e.takeovers, r \in e.takeovers, e.acked = d.acked \cup {r},
             \A q \in Requests : q # r => e.requests[q] = d.requests[q],
             e.requests[r].status = d.requests[r].status,
             e.requests[r].client = d.requests[r].client, TopicOf(e, r) = WebTopic
      PROVE  OutcomesFit(e) /\ Turn(d, e, r, m)
  <2>1. \A q \in e.acked :
           q \in d.acked \/ q \in e.takeovers \/ \E n \in Messages : Sent(d, q, n)
    BY <1>1
  <2>2. \A q \in Requests : TopicOf(e, q) = TopicOf(d, q) \/ TopicOf(e, q) = WebTopic
    BY <1>1 DEF TopicOf
  <2>3. OutcomesFit(e)
    BY <1>1, <2>1, <2>2, SameRowsKeep
  <2>4. Turn(d, e, r, m)
    <3>1. e.requests[r].topic = WebTopic
      BY <1>1 DEF TopicOf
    <3> QED
      BY <1>1, <3>1, SameRowsTurn
  <2> QED
    BY <2>3, <2>4
<1>2. CASE from = WebTopic
  <2> DEFINE e == EnqueueHandoffAcknowledgement(d, r)
  <2>1. Finish(h, e) /\ db' = e
    BY <1>2 DEF RelayToWeb, Finish
  <2>2. /\ e \in Tables /\ e.requests = d.requests /\ e.actions = d.actions
        /\ e.messages = d.messages /\ e.takeovers = d.takeovers /\ e.acked = d.acked \cup {r}
    BY NotesAre
  <2> HIDE DEF e
  <2>3. TopicOf(e, r) = WebTopic
    BY <1>2, <2>2 DEF TopicOf
  <2>4. OutcomesFit(e) /\ Turn(d, e, r, m)
    BY <1>1, <1>2, <2>2, <2>3
  <2> QED
    BY <1>2, <2>1, <2>2, <2>3, <2>4
<1>3. CASE from # WebTopic /\ CanSwitch(d, r, from)
  <2> DEFINE s == SwitchOperatorTopic(d, r, WebTopic)
             w == RecordWebTakeover(s, r)
             e == EnqueueHandoffAcknowledgement(w, r)
  <2>1. Finish(h, e) /\ db' = e /\ Active(d, r)
    BY <1>3 DEF RelayToWeb, Finish, CanSwitch
  <2>2. /\ s \in Tables /\ s.actions = d.actions /\ s.messages = d.messages
        /\ s.takeovers = d.takeovers /\ s.acked = d.acked
        /\ s.requests[r].status = d.requests[r].status
        /\ s.requests[r].client = d.requests[r].client /\ s.requests[r].topic = WebTopic
        /\ \A q \in Requests \ {r} : s.requests[q] = d.requests[q]
    <3>1. WebTopic \in Places
      BY DEF Places
    <3> QED
      BY <3>1, SwitchIs
  <2> HIDE DEF s
  <2>3. /\ w \in Tables /\ w.requests = s.requests /\ w.actions = s.actions
        /\ w.messages = s.messages /\ w.takeovers = s.takeovers \cup {r} /\ w.acked = s.acked
    BY <2>2, NotesAre
  <2> HIDE DEF w
  <2>4. /\ e \in Tables /\ e.requests = w.requests /\ e.actions = w.actions
        /\ e.messages = w.messages /\ e.takeovers = w.takeovers /\ e.acked = w.acked \cup {r}
    BY <2>3, NotesAre
  <2> HIDE DEF e
  <2>5. TopicOf(e, r) = WebTopic
    BY <2>2, <2>3, <2>4 DEF TopicOf
  <2>6. /\ e.actions = d.actions /\ e.messages = d.messages
        /\ d.takeovers \subseteq e.takeovers /\ r \in e.takeovers /\ e.acked = d.acked \cup {r}
        /\ \A q \in Requests : q # r => e.requests[q] = d.requests[q]
        /\ e.requests[r].status = d.requests[r].status
        /\ e.requests[r].client = d.requests[r].client
    BY <2>2, <2>3, <2>4
  <2>7. OutcomesFit(e) /\ Turn(d, e, r, m)
    BY <1>1, <2>4, <2>5, <2>6
  <2> QED
    BY <2>1, <2>5, <2>6, <2>7
<1>4. CASE from # WebTopic /\ ~CanSwitch(d, r, from) /\ TopicOf(d, r) = WebTopic
  <2> DEFINE w == RecordWebTakeover(d, r)
             e == EnqueueHandoffAcknowledgement(w, r)
  <2>1. Finish(h, e) /\ db' = e
    BY <1>4 DEF RelayToWeb, Finish
  <2>3. /\ w \in Tables /\ w.requests = d.requests /\ w.actions = d.actions
        /\ w.messages = d.messages /\ w.takeovers = d.takeovers \cup {r} /\ w.acked = d.acked
    BY NotesAre
  <2> HIDE DEF w
  <2>4. /\ e \in Tables /\ e.requests = w.requests /\ e.actions = w.actions
        /\ e.messages = w.messages /\ e.takeovers = w.takeovers /\ e.acked = w.acked \cup {r}
    BY <2>3, NotesAre
  <2> HIDE DEF e
  <2>5. TopicOf(e, r) = WebTopic
    BY <1>4, <2>3, <2>4 DEF TopicOf
  <2>6. /\ e.actions = d.actions /\ e.messages = d.messages
        /\ d.takeovers \subseteq e.takeovers /\ r \in e.takeovers /\ e.acked = d.acked \cup {r}
        /\ e.requests = d.requests
    BY <2>3, <2>4
  <2>7. OutcomesFit(e) /\ Turn(d, e, r, m)
    BY <1>1, <2>4, <2>5, <2>6
  <2> QED
    BY <1>4, <2>1, <2>5, <2>6, <2>7
<1>5. CASE from # WebTopic /\ ~CanSwitch(d, r, from) /\ TopicOf(d, r) # WebTopic
  <2>1. Fail(h, d) /\ db' = d
    BY <1>5 DEF RelayToWeb, Fail
  <2>2. Turn(d, d, r, m)
    BY SameRowsTurn
  <2> QED
    BY <1>5, <2>1, <2>2
<1> QED
  BY <1>2, <1>3, <1>4, <1>5

\* The chunks before chunk k have been dealt with, and some were lost or none.
ChunksFit(d, r, m, k, lost) ==
  /\ \A j \in 1..Chunks[m] : j < k =>
       /\ d.actions[<<r, m, j>>].status \in {"sent", "abandoned", "outcome_unknown"}
       /\ ~lost => d.actions[<<r, m, j>>].status # "outcome_unknown"
  /\ lost => \E j \in 1..Chunks[m] :
       j < k /\ d.actions[<<r, m, j>>].status \in {"outcome_unknown", "abandoned"}

\* The message is done with, and its request's client was told so unless an
\* operator has to see to it;
Settled(d, r, m) ==
  \/ Unknown(d, r, m)
  \/ \E a \in ActionIds : a[1] = r /\ a[2] = m /\ d.actions[a].status = "abandoned"
  \/ r \in d.acked /\ Sent(d, r, m)

\* or its next chunk is awaited.
NextChunk(h, r, m, t) ==
  \E k \in 1..Chunks[m], l \in BOOLEAN :
    Await(h, db', RelayTask(r, m, k, t, l)) /\ ChunksFit(db', r, m, k, l)

\* All chunks of the message are at hand, none of them under way.
ChunksAtHand(d, r, m) ==
  \A j \in 1..Chunks[m] :
    d.actions[<<r, m, j>>].status \notin {"absent", "sending"}

\* No action gets a row.
NoNewRows(d, e) == \A a \in ActionIds : Present(e, a) => Present(d, a)

\* Only a message none of whose chunks had a row gets rows.
NewRows(d, e, r, m, initial) ==
  \A a \in ActionIds : ~Present(d, a) /\ Present(e, a) =>
    /\ a[3] # 0 /\ e.actions[a].initial = initial
    /\ \A b \in ActionIds : b[1] = r /\ b[2] = m /\ b[3] # 0 => ~Present(d, b)

\* The relay came to a chunk that an operator had resolved: the web inbox took
\* the message over, or its update is left for a retry.
TakenToWeb(h, d, r, m, t) ==
  /\ \E j \in 1..Chunks[m] : IsResolved(d, <<r, m, j>>)
  /\ db'.actions = d.actions
  /\ \/ /\ Finish(h, db') /\ r \in db'.acked /\ TopicOf(db', r) = WebTopic
        /\ Active(d, r) \/ TopicOf(d, r) = WebTopic
     \/ Fail(h, db') /\ db' = d /\ TopicOf(d, r) # WebTopic /\ ~CanSwitch(d, r, t)

\* The relay goes on with the first chunk that may be sent, or it is over.
LEMMA ChunksOutcome ==
  ASSUME NEW h \in Handlers, NEW d \in Tables, NEW r \in Requests, NEW m \in Messages,
         NEW t \in Places \ {WebTopic}, NEW k \in Nat \ {0}, NEW lost \in BOOLEAN, scenario \in Scenario,
         OutcomesFit(d), ChunksAtHand(d, r, m), ChunksFit(d, r, m, k, lost),
         RelayChunks(h, d, r, m, t, k, lost)
  PROVE  /\ OutcomesFit(db') /\ Turn(d, db', r, m)
         /\ db'.messages = d.messages /\ NoNewRows(d, db')
         /\ \/ /\ db'.requests = d.requests
               /\ (Finish(h, db') /\ Settled(db', r, m)) \/ NextChunk(h, r, m, t)
            \/ TakenToWeb(h, d, r, m, t)
<1> DEFINE todo == {j \in k..Chunks[m] :
                      MayBeSent(d, <<r, m, j>>) \/ IsResolved(d, <<r, m, j>>)}
           next == CHOOSE j \in todo : \A i \in todo : j <= i
           passed == {j \in k..Chunks[m] : \A i \in todo : j < i}
           st(j) == d.actions[<<r, m, j>>].status
           nowLost == lost \/ \E j \in passed : st(j) \in {"outcome_unknown", "sending"}
           goesOn == todo # {} /\ MayBeSent(d, <<r, m, next>>)
<1>1. Chunks[m] \in 1..MaxChunks /\ MaxChunks \in Nat /\ Chunks[m] \in Nat
  BY ScenarioFacts
<1>2. \A j \in 1..Chunks[m] : <<r, m, j>> \in ActionIds
  BY <1>1 DEF ActionIds
<1>3. \A j \in 1..Chunks[m] : st(j) \in Statuses
  BY <1>2 DEF Tables, ActionRow
<1>4. nowLost \in BOOLEAN
  OBVIOUS
<1>5. /\ goesOn => Await(h, SetAction(d, <<r, m, next>>, "sending"),
                         RelayTask(r, m, next, t, nowLost))
      /\ ~goesOn /\ nowLost => Finish(h, d)
      /\ ~goesOn /\ ~nowLost /\ todo # {} => RelayToWeb(h, d, r, t)
      /\ ~goesOn /\ ~nowLost /\ todo = {} => Finish(h, EnqueueHandoffAcknowledgement(d, r))
  BY DEF RelayChunks, RelayTask
<1>6. \A j \in 1..Chunks[m] : j \in passed => st(j) \in {"sent", "abandoned", "outcome_unknown"}
  <2> TAKE j \in 1..Chunks[m]
  <2> HAVE j \in passed
  <2>1. j \notin todo
    BY <1>1
  <2>2. j \in k..Chunks[m]
    OBVIOUS
  <2>3. st(j) \notin {"pending", "failed", "confirmed"}
    BY <2>1, <2>2 DEF MayBeSent, IsResolved
  <2>4. st(j) \notin {"absent", "sending"}
    BY DEF ChunksAtHand
  <2> QED
    BY <1>3, <2>3, <2>4 DEF Statuses
<1>7. \A j \in 1..Chunks[m] : j < k =>
        /\ st(j) \in {"sent", "abandoned", "outcome_unknown"}
        /\ ~lost => st(j) # "outcome_unknown"
  BY DEF ChunksFit
<1>8. \A j \in 1..Chunks[m] : (j < k \/ j \in passed) =>
        /\ st(j) \in {"sent", "abandoned", "outcome_unknown"}
        /\ ~nowLost => st(j) # "outcome_unknown"
  BY <1>6, <1>7
<1>9. nowLost => \E j \in 1..Chunks[m] :
        (j < k \/ j \in passed) /\ st(j) \in {"outcome_unknown", "abandoned"}
  <2>1. CASE lost
    BY <2>1 DEF ChunksFit
  <2>2. CASE nowLost /\ ~lost
    <3>1. PICK j \in passed : st(j) \in {"outcome_unknown", "sending"}
      BY <2>2
    <3>2. j \in 1..Chunks[m]
      BY <1>1, <3>1
    <3>3. st(j) = "outcome_unknown"
      BY <1>6, <3>1, <3>2
    <3> QED
      BY <3>1, <3>2, <3>3
  <2> QED
    BY <2>1, <2>2
<1> HIDE DEF nowLost, st
<1>10. CASE ~goesOn /\ nowLost
  <2>1. Finish(h, d) /\ db' = d
    BY <1>5, <1>10 DEF Finish
  <2>2. PICK j \in 1..Chunks[m] : st(j) \in {"outcome_unknown", "abandoned"}
    BY <1>9, <1>10
  <2>3. <<r, m, j>> \in ActionIds /\ j \in 0..Chunks[m]
    BY <1>1, <1>2
  <2>4. Settled(d, r, m)
    BY <2>2, <2>3 DEF Settled, Unknown, st
  <2>5. Turn(d, d, r, m)
    BY SameRowsTurn
  <2> QED
    BY <2>1, <2>4, <2>5 DEF NoNewRows
<1>11. CASE ~goesOn /\ ~nowLost /\ todo = {}
  <2>0. \A j \in 1..Chunks[m] : j < k \/ j \in passed
    BY <1>1, <1>11
  <2> DEFINE e == EnqueueHandoffAcknowledgement(d, r)
  <2>1. Finish(h, e) /\ db' = e
    BY <1>5, <1>11 DEF Finish
  <2>2. /\ e \in Tables /\ e.requests = d.requests /\ e.actions = d.actions
        /\ e.messages = d.messages /\ e.takeovers = d.takeovers /\ e.acked = d.acked \cup {r}
    BY NotesAre
  <2> HIDE DEF e
  <2>3. \A j \in 1..Chunks[m] : st(j) \in {"sent", "abandoned"}
    BY <1>8, <1>11, <2>0
  <2>4. Sent(d, r, m) \/ \E a \in ActionIds :
           a[1] = r /\ a[2] = m /\ d.actions[a].status = "abandoned"
    <3>1. CASE \A j \in 1..Chunks[m] : st(j) = "sent"
      BY <3>1 DEF Sent, st
    <3>2. CASE \E j \in 1..Chunks[m] : st(j) # "sent"
      <4>1. PICK j \in 1..Chunks[m] : st(j) = "abandoned"
        BY <2>3, <3>2
      <4> QED
        BY <1>2, <4>1 DEF st
    <3> QED
      BY <3>1, <3>2
  <2>5. r \in d.takeovers \/ Sent(d, r, m)
    BY <2>4 DEF OutcomesFit, AbandonedInWeb
  <2>6. \A q \in e.acked :
           q \in d.acked \/ q \in e.takeovers \/ \E n \in Messages : Sent(d, q, n)
    BY <2>2, <2>5
  <2>7. \A q \in Requests : TopicOf(e, q) = TopicOf(d, q)
    BY <2>2 DEF TopicOf
  <2>8. OutcomesFit(e)
    BY <2>2, <2>6, <2>7, SameRowsKeep
  <2>9. Turn(d, e, r, m)
    BY <2>2, SameRowsTurn
  <2>10. Settled(e, r, m)
    BY <2>2, <2>4 DEF Settled, Sent
  <2> QED
    BY <2>1, <2>2, <2>8, <2>9, <2>10 DEF NoNewRows, Present
<1>12. CASE ~goesOn /\ ~nowLost /\ todo # {}
  <2>1. RelayToWeb(h, d, r, t)
    BY <1>5, <1>12
  <2>2. /\ OutcomesFit(db') /\ Turn(d, db', r, m) /\ db'.actions = d.actions
        /\ db'.messages = d.messages
        /\ \/ /\ Finish(h, db') /\ r \in db'.acked /\ TopicOf(db', r) = WebTopic
              /\ Active(d, r) \/ TopicOf(d, r) = WebTopic
           \/ /\ Fail(h, db') /\ db' = d
              /\ TopicOf(d, r) # WebTopic /\ ~CanSwitch(d, r, t)
    BY <2>1, WebOutcome
  <2>3. todo \in SUBSET Nat /\ todo \in SUBSET (1..Chunks[m])
    BY <1>1
  <2>4. next \in todo
    <3>1. \E j \in todo : \A i \in todo : j <= i
      BY <1>12, <2>3, HasMinimum
    <3> QED
      BY <3>1
  <2>5. next \in 1..Chunks[m] /\ IsResolved(d, <<r, m, next>>)
    BY <1>12, <2>3, <2>4
  <2>6. TakenToWeb(h, d, r, m, t)
    <3> HIDE DEF next, todo
    <3> QED
      BY <2>2, <2>5 DEF TakenToWeb
  <2> QED
    BY <2>2, <2>6 DEF NoNewRows, Present
<1>13. CASE goesOn
  <2>1. todo \in SUBSET Nat /\ todo \in SUBSET (1..Chunks[m])
    BY <1>1
  <2>2. next \in todo /\ \A i \in todo : next <= i
    <3>1. \E j \in todo : \A i \in todo : j <= i
      BY <1>13, <2>1, HasMinimum
    <3> QED
      BY <3>1
  <2> DEFINE a == <<r, m, next>>
             e == SetAction(d, a, "sending")
  <2>3. next \in 1..Chunks[m] /\ MayBeSent(d, a)
    BY <1>13, <2>1, <2>2
  <2>4. \A j \in 1..Chunks[m] : j < next <=> (j < k \/ j \in passed)
    <3> TAKE j \in 1..Chunks[m]
    <3>1. next \in k..Chunks[m] /\ next \in Nat /\ j \in Nat
      BY <2>2, <2>3, <1>1
    <3>2. j \in passed => j < next
      BY <2>2
    <3>3. j < next /\ ~(j < k) => j \in passed
      <4> SUFFICES ASSUME j < next, ~(j < k), NEW i \in todo
                   PROVE  j \in k..Chunks[m] /\ j < i
        BY <1>1
      <4>1. next <= i /\ i \in Nat
        BY <2>1, <2>2
      <4> HIDE DEF next, todo
      <4> QED
        BY <1>1, <3>1, <4>1
    <3>4. j < k => j < next
      BY <3>1
    <3> QED
      BY <3>2, <3>3, <3>4
  <2>5. Await(h, e, RelayTask(r, m, next, t, nowLost)) /\ db' = e
    BY <1>5, <1>13 DEF Await
  <2> HIDE DEF next, todo, passed
  <2>6. a \in ActionIds /\ "sending" \in Statuses
    BY <1>2, <2>3 DEF Statuses
  <2>7. /\ e \in Tables /\ e.requests = d.requests /\ e.messages = d.messages
        /\ \A b \in ActionIds \ {a} : e.actions[b] = d.actions[b]
    BY <2>6, SetActionIs
  <2>8. d.actions[a].status \in {"pending", "failed"}
    BY <2>3 DEF MayBeSent
  <2>9. OutcomesFit(e)
    BY <2>6, <2>8, StatusKeeps DEF Present
  <2>10. Turn(d, e, r, m)
    <3>1. Turn(d, e, a[1], a[2])
      BY <2>6, <2>8, StatusTurn
    <3> QED
      BY <3>1
  <2> HIDE DEF e
  <2>13. NoNewRows(d, e)
    BY <2>7, <2>8 DEF NoNewRows, Present
  <2>11. ChunksFit(e, r, m, next, nowLost)
    <3>1. \A j \in 1..Chunks[m] : j < next => e.actions[<<r, m, j>>].status = st(j)
      <4> SUFFICES ASSUME NEW j \in 1..Chunks[m], j < next
                   PROVE  e.actions[<<r, m, j>>] = d.actions[<<r, m, j>>]
        BY DEF st
      <4>1. j # next
        BY <1>1, <2>3
      <4>2. <<r, m, j>> \in ActionIds \ {a}
        BY <1>2, <4>1
      <4> QED
        BY <2>7, <4>2
    <3>2. \A j \in 1..Chunks[m] : j < next =>
            /\ st(j) \in {"sent", "abandoned", "outcome_unknown"}
            /\ ~nowLost => st(j) # "outcome_unknown"
      BY <1>8, <2>4
    <3>3. nowLost => \E j \in 1..Chunks[m] :
            j < next /\ st(j) \in {"outcome_unknown", "abandoned"}
      BY <1>9, <2>4
    <3> QED
      BY <3>1, <3>2, <3>3 DEF ChunksFit
  <2>12. NextChunk(h, r, m, t)
    BY <1>4, <2>3, <2>5, <2>11 DEF NextChunk
  <2> QED
    BY <2>5, <2>7, <2>9, <2>10, <2>12, <2>13
<1> QED
  BY <1>10, <1>11, <1>12, <1>13

\* The emergency inbox has the message.
InWebInbox(d, e, r) ==
  r \in e.acked /\ TopicOf(e, r) = WebTopic /\ (Active(d, r) \/ TopicOf(d, r) = WebTopic)

\* RelayClientMessage: the message is with the operators or on its way to the
\* request's topic.
LEMMA MessageOutcome ==
  ASSUME NEW h \in Handlers, NEW d \in Tables, NEW r \in Requests, NEW m \in Messages,
         NEW initial \in BOOLEAN, scenario \in Scenario, OutcomesFit(d),
         Sending(d) \cap {<<r, m, j>> : j \in 1..Chunks[m]} = {},
         IF TopicOf(d, r) = WebTopic THEN r \in d.takeovers ELSE Active(d, r),
         RelayClientMessage(h, d, r, m, TopicOf(d, r), initial)
  PROVE  /\ OutcomesFit(db') /\ Turn(d, db', r, m) /\ <<r, m>> \in db'.messages
         /\ NewRows(d, db', r, m, initial)
         /\ \/ Finish(h, db') /\ InWebInbox(d, db', r) /\ db'.actions = d.actions
            \/ /\ TopicOf(d, r) # WebTopic /\ db'.requests = d.requests
               /\ Present(db', <<r, m, 1>>)
               /\ (Finish(h, db') /\ Settled(db', r, m)) \/ NextChunk(h, r, m, TopicOf(d, r))
<1> DEFINE t == TopicOf(d, r)
           e == RecordConversationMessage(d, r, m)
           f == PrepareRelay(e, r, m, t, initial)
<1>1. /\ e \in Tables /\ e.requests = d.requests /\ e.actions = d.actions
      /\ e.messages = d.messages \cup {<<r, m>>}
      /\ e.takeovers = d.takeovers /\ e.acked = d.acked
  BY RecordIs
<1>2. IF t = WebTopic \/ telegram # "connected" THEN RelayToWeb(h, e, r, t)
      ELSE RelayChunks(h, f, r, m, t, 1, FALSE)
  BY DEF RelayClientMessage
<1>3. t \in Places /\ TopicOf(e, r) = t
  BY <1>1 DEF Tables, RequestRow, TopicOf
<1>4. Active(e, r) <=> Active(d, r)
  BY <1>1 DEF Active
<1> HIDE DEF e
<1>5. OutcomesFit(e) /\ Turn(d, e, r, m)
  <2>1. \A q \in Requests : TopicOf(e, q) = TopicOf(d, q)
    BY <1>1 DEF TopicOf
  <2>2. OutcomesFit(e)
    BY <1>1, <2>1, SameRowsKeep
  <2>3. Turn(d, e, r, m)
    BY <1>1, SameRowsTurn
  <2> QED
    BY <2>2, <2>3
<1>6. CASE t = WebTopic \/ telegram # "connected"
  <2>1. t = WebTopic => TopicOf(e, r) = WebTopic /\ r \in e.takeovers
    BY <1>1, <1>3
  <2>2. RelayToWeb(h, e, r, t)
    BY <1>2, <1>6
  <2>3. /\ OutcomesFit(db') /\ Turn(e, db', r, m) /\ db'.actions = e.actions
        /\ db'.messages = e.messages
        /\ \/ /\ Finish(h, db') /\ r \in db'.acked /\ TopicOf(db', r) = WebTopic
              /\ Active(e, r) \/ TopicOf(e, r) = WebTopic
           \/ /\ Fail(h, db') /\ db' = e /\ t # WebTopic
              /\ TopicOf(e, r) # WebTopic /\ ~CanSwitch(e, r, t)
    BY <1>1, <1>5, <2>1, <2>2, WebOutcome
  <2>4. t # WebTopic => CanSwitch(e, r, t)
    BY <1>3, <1>4 DEF CanSwitch
  <2>5. Turn(d, db', r, m)
    BY <1>5, <2>3, TurnTransitive
  <2>6. InWebInbox(d, db', r) /\ Finish(h, db')
    BY <1>3, <1>4, <2>3, <2>4 DEF InWebInbox
  <2>7. NewRows(d, db', r, m, initial)
    BY <1>1, <2>3 DEF NewRows, Present
  <2> QED
    BY <1>1, <2>3, <2>5, <2>6, <2>7
<1>7. CASE ~(t = WebTopic \/ telegram # "connected")
  <2>1. /\ f \in Tables /\ f.requests = e.requests /\ f.messages = e.messages
        /\ \A j \in 1..Chunks[m] : <<r, m, j>> \in ActionIds /\ Present(f, <<r, m, j>>)
        /\ \A a \in ActionIds :
             \/ f.actions[a] = e.actions[a]
             \/ /\ a[3] \in 1..Chunks[m] /\ f.actions[a].status = "pending"
                /\ f.actions[a].initial = initial
                /\ \A b \in ActionIds : b[1] = r /\ b[2] = m /\ b[3] # 0 => ~Present(e, b)
    BY <1>1, <1>3, <1>5, PreparedRows DEF OutcomesFit
  <2>2. OutcomesFit(f) /\ Turn(e, f, r, m)
    BY <1>1, <1>3, <1>5, <1>7, PrepareFits
  <2>3. RelayChunks(h, f, r, m, t, 1, FALSE)
    BY <1>2, <1>7
  <2> HIDE DEF f
  <2>4. ChunksAtHand(f, r, m)
    <3> SUFFICES ASSUME NEW j \in 1..Chunks[m]
                 PROVE  f.actions[<<r, m, j>>].status \notin {"absent", "sending"}
      BY DEF ChunksAtHand
    <3>1. d.actions[<<r, m, j>>].status # "sending"
      BY <2>1 DEF Sending
    <3> QED
      BY <1>1, <2>1, <3>1 DEF Present
  <2>5. ChunksFit(f, r, m, 1, FALSE) /\ 1 \in Nat \ {0} /\ FALSE \in BOOLEAN
    <3>1. \A j \in 1..Chunks[m] : ~(j < 1)
      BY ScenarioFacts
    <3> QED
      BY <3>1 DEF ChunksFit
  <2>6. /\ OutcomesFit(db') /\ Turn(f, db', r, m)
        /\ db'.messages = f.messages /\ NoNewRows(f, db')
        /\ \/ /\ db'.requests = f.requests
              /\ (Finish(h, db') /\ Settled(db', r, m)) \/ NextChunk(h, r, m, t)
           \/ TakenToWeb(h, f, r, m, t)
    <3>1. t \in Places \ {WebTopic}
      BY <1>3, <1>7
    <3> QED
      BY <2>1, <2>2, <2>3, <2>4, <2>5, <3>1, ChunksOutcome
  <2>7. Turn(d, db', r, m)
    BY <1>5, <2>2, <2>6, TurnTransitive
  <2>8. \A a \in ActionIds : Ages(f.actions[a], db'.actions[a])
    BY <2>6 DEF Turn
  <2>9. NewRows(d, db', r, m, initial)
    <3> SUFFICES ASSUME NEW a \in ActionIds, ~Present(d, a), Present(db', a)
                 PROVE  /\ a[3] # 0 /\ db'.actions[a].initial = initial
                        /\ \A b \in ActionIds : b[1] = r /\ b[2] = m /\ b[3] # 0 => ~Present(d, b)
      BY DEF NewRows
    <3>1. Present(f, a)
      BY <2>6 DEF NoNewRows
    <3>2. f.actions[a] # e.actions[a]
      BY <1>1, <3>1 DEF Present
    <3>3. db'.actions[a].initial = f.actions[a].initial
      BY <2>8, <3>1 DEF Ages, Present
    <3> QED
      BY <1>1, <2>1, <3>2, <3>3 DEF Present
  <2>10. Present(db', <<r, m, 1>>)
    <3>1. 1 \in 1..Chunks[m]
      BY ScenarioFacts
    <3> QED
      BY <2>1, <2>8, <3>1 DEF Ages, Present
  <2>11. TakenToWeb(h, f, r, m, t) =>
           Finish(h, db') /\ InWebInbox(d, db', r) /\ db'.actions = d.actions
    <3> SUFFICES ASSUME TakenToWeb(h, f, r, m, t)
                 PROVE  Finish(h, db') /\ InWebInbox(d, db', r) /\ db'.actions = d.actions
      OBVIOUS
    <3>1. TopicOf(f, r) = t /\ Active(f, r) /\ CanSwitch(f, r, t)
      BY <1>1, <1>4, <1>7, <2>1 DEF TopicOf, Active, CanSwitch
    <3>2. Finish(h, db') /\ InWebInbox(d, db', r)
      BY <1>1, <1>4, <2>1, <3>1 DEF TakenToWeb, InWebInbox, Active
    <3>3. PICK j \in 1..Chunks[m] : f.actions[<<r, m, j>>].status \in {"confirmed", "abandoned"}
      BY DEF TakenToWeb, IsResolved
    <3> DEFINE b == <<r, m, j>>
    <3>4. b \in ActionIds /\ b[1] = r /\ b[2] = m /\ b[3] # 0 /\ b[3] \in 1..Chunks[m]
      BY <2>1
    <3> HIDE DEF b
    <3>5. Present(e, b)
      <4>1. f.actions[b].status # "pending" /\ Present(f, b)
        BY <3>3 DEF Present, b
      <4>2. f.actions[b] = e.actions[b]
        BY <2>1, <3>4, <4>1
      <4> QED
        BY <4>1, <4>2 DEF Present
    <3>6. \A a \in ActionIds : f.actions[a] = e.actions[a]
      BY <2>1, <3>4, <3>5
    <3>7. f.actions = e.actions
      BY <1>1, <2>1, <3>6 DEF Tables
    <3> QED
      BY <1>1, <3>2, <3>7 DEF TakenToWeb
  <2> QED
    BY <1>1, <1>7, <2>1, <2>6, <2>7, <2>9, <2>10, <2>11
<1> QED
  BY <1>6, <1>7

\* What a relay that is awaited has done so far.
ChunksAwaited(h) ==
  task[h].pc = "relaying" =>
    /\ task[h].topic # WebTopic
    /\ ChunksFit(db, task[h].request, task[h].message, task[h].chunk, task[h].lost)

OutcomesInv == OutcomesFit(db) /\ \A h \in Handlers : ChunksAwaited(h)

\* The message is with the operators of its request, see NothingLost.
Placed(d, e, r, m) ==
  \/ Active(e, r) /\ TopicOf(e, r) = WebTopic
  \/ Unknown(e, r, m)
  \/ Sent(e, r, m)
  \/ <<r, m>> \in d.messages /\ TopicOf(d, r) = WebTopic

\* A chunk of the request has a row.
SomeChunk(d, r) == \E a \in ActionIds : a[1] = r /\ a[3] # 0 /\ Present(d, a)

\* A poller's step on message m of request r: the message is done with and with
\* the operators, its update is left for a retry, or its next chunk is awaited.
MessageStep(h, r, m) ==
  /\ OutcomesFit(db') /\ Turn(db, db', r, m) /\ <<r, m>> \in db'.messages
  /\ \E initial \in BOOLEAN :
       /\ NewRows(db, db', r, m, initial)
       /\ initial \/ TopicOf(db, r) # WebTopic
  /\ \/ Finish(h, db') /\ Placed(db, db', r, m) /\ (r \in db'.acked \/ Settled(db', r, m))
     \/ Fail(h, db') /\ TopicOf(db', r) # WebTopic /\ SomeChunk(db', r)
     \/ /\ \E t \in Places \ {WebTopic} : NextChunk(h, r, m, t)
        /\ \/ TopicOf(db', r) # WebTopic /\ SomeChunk(db', r)
           \/ db'.requests = db.requests /\ SomeChunk(db, r)

\* A message that is settled is placed.
LEMMA SettledIsPlaced ==
  ASSUME NEW d \in Tables, NEW e, NEW r, NEW m,
         OutcomesFit(d), Turn(d, e, r, m), Settled(e, r, m)
  PROVE  Placed(d, e, r, m)
<1>1. CASE Unknown(e, r, m)
  BY <1>1 DEF Placed
<1>2. CASE Sent(e, r, m)
  BY <1>2 DEF Placed
<1>3. ASSUME NEW a \in ActionIds, a[1] = r, a[2] = m, e.actions[a].status = "abandoned"
      PROVE  Placed(d, e, r, m)
  <2>1. d.actions[a].status = "abandoned"
    BY <1>3 DEF Turn, Ages
  <2>2. TopicOf(d, r) = WebTopic
    BY <1>3, <2>1 DEF OutcomesFit, AbandonedInWeb
  <2>3. <<r, m>> \in d.messages
    BY <1>3, <2>1 DEF OutcomesFit, RowsRecorded, Present
  <2> QED
    BY <2>2, <2>3 DEF Placed
<1> QED
  BY <1>1, <1>2, <1>3 DEF Settled

\* Only one action of a message is under way.
LEMMA OneOfMessage ==
  ASSUME NEW owner \in Owners, HandoffFits(owner), NEW h \in Handlers, NEW a \in Sending(db),
         taken[h] < Len(stream[h]), Current(h).kind = "message", Current(h).of = a[2]
  PROVE  Working(h) /\ Awaited(h) = a
<1>1. PICK g \in Handlers : Working(g) /\ Awaited(g) = a
  BY DEF HandoffFits, SendingIsAwaited
<1>2. /\ taken[g] < Len(stream[g]) /\ Current(g).kind = "message"
      /\ Current(g).of = task[g].message
  BY <1>1, AtWork
<1>3. task[g].message = a[2]
  BY <1>1 DEF Awaited
<1>4. HandlerOf(Sender[a[2]]) = g
  BY <1>2, <1>3, OwnMessage DEF HandoffFits
<1>5. HandlerOf(Sender[a[2]]) = h
  BY OwnMessage DEF HandoffFits
<1> QED
  BY <1>1, <1>4, <1>5

\* An answer's row is stored.
LEMMA AnswerOutcome ==
  ASSUME NEW owner \in Owners, HandoffFits(owner), NEW h \in Handlers, Working(h),
         OutcomesFit(db), NEW s \in {"sent", "failed", "outcome_unknown"}
  PROVE  LET r == task[h].request  m == task[h].message
             d == SetAction(db, Awaited(h), s) IN
         /\ d \in Tables /\ OutcomesFit(d) /\ Turn(db, d, r, m) /\ NoNewRows(db, d)
         /\ d.requests = db.requests /\ d.messages = db.messages
         /\ d.takeovers = db.takeovers /\ d.acked = db.acked
         /\ d.actions[Awaited(h)].status = s
         /\ \A b \in ActionIds \ {Awaited(h)} : d.actions[b] = db.actions[b]
         /\ \A b \in ActionIds : b[1] = r /\ b[2] = m => d.actions[b].status # "sending"
<1> DEFINE r == task[h].request
           m == task[h].message
           a == Awaited(h)
           d == SetAction(db, a, s)
<1>1. /\ a \in ActionIds /\ db.actions[a].status = "sending" /\ a[1] = r /\ a[2] = m
      /\ taken[h] < Len(stream[h]) /\ Current(h).kind = "message" /\ Current(h).of = m
  BY AtWork DEF Awaited
<1>2. db \in Tables /\ scenario \in Scenario /\ s \in Statuses
  BY DEF HandoffFits, HandoffTyped, Statuses
<1> HIDE DEF a
<1>3. /\ d \in Tables /\ d.requests = db.requests /\ d.messages = db.messages
      /\ d.takeovers = db.takeovers /\ d.acked = db.acked /\ d.actions[a].status = s
      /\ \A b \in ActionIds \ {a} : d.actions[b] = db.actions[b]
  BY <1>1, <1>2, SetActionIs
<1>4. OutcomesFit(d)
  BY <1>1, <1>2, StatusKeeps DEF Present
<1>5. Turn(db, d, a[1], a[2])
  BY <1>1, <1>2, StatusTurn
<1> HIDE DEF d
<1>6. NoNewRows(db, d)
  BY <1>1, <1>3 DEF NoNewRows, Present
<1>7. ASSUME NEW b \in ActionIds, b[1] = r, b[2] = m, d.actions[b].status = "sending"
      PROVE  FALSE
  <2>1. b # a
    BY <1>3, <1>7
  <2>2. b \in Sending(db)
    BY <1>3, <1>7, <2>1 DEF Sending
  <2>3. Awaited(h) = b
    BY <1>1, <1>7, <2>2, OneOfMessage
  <2> QED
    BY <2>1, <2>3 DEF a
<1> QED
  BY <1>1, <1>3, <1>4, <1>5, <1>6, <1>7 DEF a, d

\* Without new rows there is nothing to say about them.
LEMMA NoneAreNew ==
  ASSUME NEW d, NEW e, NEW f, NEW r, NEW m, NEW initial,
         NoNewRows(d, e), \A a \in ActionIds : Present(d, a) => Present(e, a)
  PROVE  /\ NewRows(e, f, r, m, initial) => NewRows(d, f, r, m, initial)
         /\ NoNewRows(e, f) => NewRows(d, f, r, m, initial)
BY DEF NoNewRows, NewRows

\* Telegram accepted a chunk, or may have.
LEMMA RelayAnswered ==
  ASSUME NEW owner \in Owners, HandoffFits(owner), OutcomesInv, NEW h \in Handlers,
         RelayAccepted(h) \/ RelayUnanswered(h)
  PROVE  MessageStep(h, task[h].request, task[h].message)
<1> DEFINE r == task[h].request
           m == task[h].message
           k == task[h].chunk
           t == task[h].topic
           a == <<r, m, k>>
<1>1. task[h].pc = "relaying" /\ Working(h)
  BY DEF RelayAccepted, RelayUnanswered, Working
<1>2. /\ r \in Requests /\ m \in Messages /\ k \in 1..Chunks[m] /\ Awaited(h) = a
      /\ a \in ActionIds /\ db.actions[a].status = "sending" /\ t \in Places
      /\ task[h].lost \in BOOLEAN /\ <<r, m>> \in db.messages
  BY <1>1, AtWork
<1>3. PICK s \in {"sent", "outcome_unknown"}, lost \in BOOLEAN :
         /\ RelayChunks(h, SetAction(db, a, s), r, m, t, k + 1, lost)
         /\ s = "sent" => lost = task[h].lost
         /\ s = "outcome_unknown" => lost
  <2>1. CASE RelayAccepted(h)
    BY <1>2, <2>1 DEF RelayAccepted
  <2>2. CASE RelayUnanswered(h)
    BY <1>2, <2>2 DEF RelayUnanswered
  <2> QED
    BY <2>1, <2>2
<1>4. db \in Tables /\ scenario \in Scenario /\ OutcomesFit(db)
      /\ t # WebTopic /\ ChunksFit(db, r, m, k, task[h].lost)
  BY <1>1 DEF HandoffFits, HandoffTyped, OutcomesInv, ChunksAwaited
<1> DEFINE d == SetAction(db, a, s)
<1>5. /\ d \in Tables /\ OutcomesFit(d) /\ Turn(db, d, r, m) /\ NoNewRows(db, d)
      /\ d.requests = db.requests /\ d.messages = db.messages
      /\ d.takeovers = db.takeovers /\ d.acked = db.acked /\ d.actions[a].status = s
      /\ \A b \in ActionIds \ {a} : d.actions[b] = db.actions[b]
      /\ \A b \in ActionIds : b[1] = r /\ b[2] = m => d.actions[b].status # "sending"
  <2>1. s \in {"sent", "failed", "outcome_unknown"}
    OBVIOUS
  <2> QED
    BY <1>1, <1>2, <1>4, <2>1, AnswerOutcome
<1>6. RelayChunks(h, d, r, m, t, k + 1, lost)
  BY <1>3
<1>7. Chunks[m] \in 1..MaxChunks /\ MaxChunks \in Nat /\ Chunks[m] \in Nat
  BY <1>2, <1>4, ScenarioFacts
<1>8. \A j \in 1..Chunks[m] : <<r, m, j>> \in ActionIds
  BY <1>2, <1>7 DEF ActionIds
<1>9. a[1] = r /\ a[2] = m /\ a[3] = k /\ k # 0 /\ Present(db, a)
  BY <1>2 DEF Present
<1> HIDE DEF d, a
<1>10. ChunksAtHand(d, r, m)
  <2> SUFFICES ASSUME NEW j \in 1..Chunks[m]
               PROVE  d.actions[<<r, m, j>>].status \notin {"absent", "sending"}
    BY DEF ChunksAtHand
  <2> DEFINE b == <<r, m, j>>
  <2>1. b \in ActionIds /\ b[1] = r /\ b[2] = m /\ b[3] \in 1..Chunks[b[2]]
    BY <1>8
  <2> HIDE DEF b
  <2>2. Present(db, b)
    BY <1>2, <1>4, <1>9, <2>1 DEF OutcomesFit, ChunksTogether
  <2>3. Present(d, b)
    BY <1>3, <1>5, <2>1, <2>2 DEF Present
  <2>4. d.actions[b].status # "sending"
    BY <1>5, <2>1
  <2> QED
    BY <2>3, <2>4 DEF Present, b
<1>11. ChunksFit(d, r, m, k + 1, lost)
  <2>1. \A j \in 1..Chunks[m] : j < k + 1 <=> (j < k \/ j = k)
    BY <1>2
  <2>2. ASSUME NEW j \in 1..Chunks[m], j < k
        PROVE  d.actions[<<r, m, j>>] = db.actions[<<r, m, j>>]
    <3>1. j # k
      BY <1>2, <2>2
    <3>2. <<r, m, j>> \in ActionIds \ {a}
      BY <1>8, <3>1 DEF a
    <3> QED
      BY <1>5, <3>2
  <2>3. d.actions[<<r, m, k>>].status = s
    BY <1>5 DEF a
  <2>4. CASE s = "sent"
    <3>1. lost = task[h].lost
      BY <1>3, <2>4
    <3> QED
      BY <1>4, <2>1, <2>2, <2>3, <2>4, <3>1 DEF ChunksFit
  <2>5. CASE s = "outcome_unknown"
    <3>1. lost
      BY <1>3, <2>5
    <3>2. \E j \in 1..Chunks[m] :
            j < k + 1 /\ d.actions[<<r, m, j>>].status \in {"outcome_unknown", "abandoned"}
      BY <1>2, <2>1, <2>3, <2>5
    <3>3. \A j \in 1..Chunks[m] : j < k + 1 =>
            d.actions[<<r, m, j>>].status \in {"sent", "abandoned", "outcome_unknown"}
      BY <1>4, <2>1, <2>2, <2>3, <2>5 DEF ChunksFit
    <3> QED
      BY <3>1, <3>2, <3>3 DEF ChunksFit
  <2> QED
    BY <2>4, <2>5
<1>12. k + 1 \in Nat \ {0}
  BY <1>2
<1>13. t \in Places \ {WebTopic}
  BY <1>2, <1>4
<1>14. /\ OutcomesFit(db') /\ Turn(d, db', r, m)
       /\ db'.messages = d.messages /\ NoNewRows(d, db')
       /\ \/ /\ db'.requests = d.requests
             /\ (Finish(h, db') /\ Settled(db', r, m)) \/ NextChunk(h, r, m, t)
          \/ TakenToWeb(h, d, r, m, t)
  BY <1>2, <1>4, <1>5, <1>6, <1>10, <1>11, <1>12, <1>13, ChunksOutcome
<1>15. Turn(db, db', r, m) /\ <<r, m>> \in db'.messages
  BY <1>2, <1>5, <1>14, TurnTransitive
<1>16. \A b \in ActionIds : Present(db, b) => Present(d, b)
  BY <1>5 DEF Turn, Ages, Present
<1>17. NewRows(db, db', r, m, TRUE)
  BY <1>5, <1>14, <1>16, NoneAreNew
<1>18. SomeChunk(db, r) /\ SomeChunk(d, r)
  BY <1>2, <1>9, <1>16 DEF SomeChunk
<1>19. \E i \in BOOLEAN : NewRows(db, db', r, m, i) /\ (i \/ TopicOf(db, r) # WebTopic)
  BY <1>17
<1>20. CASE /\ db'.requests = d.requests
            /\ (Finish(h, db') /\ Settled(db', r, m)) \/ NextChunk(h, r, m, t)
  <2>1. \/ Finish(h, db') /\ Placed(db, db', r, m) /\ Settled(db', r, m)
        \/ NextChunk(h, r, m, t)
    BY <1>4, <1>15, <1>20, SettledIsPlaced
  <2>2. db'.requests = db.requests
    BY <1>5, <1>20
  <2> HIDE DEF r, m, t
  <2>3. MessageStep(h, r, m)
    BY <1>13, <1>14, <1>15, <1>18, <1>19, <2>1, <2>2 DEF MessageStep
  <2> QED
    BY <2>3 DEF r, m
<1>21. CASE TakenToWeb(h, d, r, m, t)
  <2>1. \/ /\ Finish(h, db') /\ r \in db'.acked /\ TopicOf(db', r) = WebTopic
           /\ Active(d, r) \/ TopicOf(d, r) = WebTopic
        \/ Fail(h, db') /\ db' = d /\ TopicOf(d, r) # WebTopic
    BY <1>21 DEF TakenToWeb
  <2>2. TopicOf(d, r) = TopicOf(db, r) /\ (Active(d, r) <=> Active(db, r))
    BY <1>5 DEF TopicOf, Active
  <2>3. TopicOf(db', r) = WebTopic /\ (Active(d, r) \/ TopicOf(d, r) = WebTopic)
        => Placed(db, db', r, m)
    BY <1>2, <1>15, <2>2 DEF Placed, Turn, Active
  <2> HIDE DEF r, m, t, d
  <2>4. MessageStep(h, r, m)
    <3>1. CASE Finish(h, db') /\ r \in db'.acked /\ Placed(db, db', r, m)
      BY <1>14, <1>15, <1>19, <3>1 DEF MessageStep
    <3>2. CASE Fail(h, db') /\ db' = d /\ TopicOf(d, r) # WebTopic
      BY <1>14, <1>15, <1>18, <1>19, <3>2 DEF MessageStep
    <3> QED
      BY <2>1, <2>3, <3>1, <3>2
  <2> QED
    BY <2>4 DEF r, m
<1> QED
  BY <1>14, <1>20, <1>21

\* Telegram refused a chunk.
LEMMA RelayRefused ==
  ASSUME NEW owner \in Owners, HandoffFits(owner), OutcomesInv, NEW h \in Handlers,
         RelayRejected(h)
  PROVE  MessageStep(h, task[h].request, task[h].message)
<1> DEFINE r == task[h].request
           m == task[h].message
           k == task[h].chunk
           t == task[h].topic
           a == <<r, m, k>>
           d == SetAction(db, a, "failed")
<1>1. task[h].pc = "relaying" /\ Working(h)
  BY DEF RelayRejected, Working
<1>2. /\ r \in Requests /\ m \in Messages /\ k \in 1..Chunks[m] /\ Awaited(h) = a
      /\ a \in ActionIds /\ db.actions[a].status = "sending"
      /\ <<r, m>> \in db.messages
  BY <1>1, AtWork
<1>3. IF task[h].lost THEN Finish(h, d) ELSE RelayToWeb(h, d, r, t)
  BY DEF RelayRejected
<1>4. db \in Tables /\ scenario \in Scenario /\ OutcomesFit(db)
      /\ t # WebTopic /\ ChunksFit(db, r, m, k, task[h].lost)
  BY <1>1 DEF HandoffFits, HandoffTyped, OutcomesInv, ChunksAwaited
<1>5. /\ d \in Tables /\ OutcomesFit(d) /\ Turn(db, d, r, m) /\ NoNewRows(db, d)
      /\ d.requests = db.requests /\ d.messages = db.messages
      /\ \A b \in ActionIds \ {a} : d.actions[b] = db.actions[b]
  <2>1. "failed" \in {"sent", "failed", "outcome_unknown"}
    OBVIOUS
  <2> QED
    BY <1>1, <1>2, <1>4, <2>1, AnswerOutcome
<1>6. Chunks[m] \in 1..MaxChunks /\ MaxChunks \in Nat /\ Chunks[m] \in Nat
  BY <1>2, <1>4, ScenarioFacts
<1>7. \A j \in 1..Chunks[m] : <<r, m, j>> \in ActionIds
  BY <1>2, <1>6 DEF ActionIds
<1>8. a[1] = r /\ a[2] = m /\ a[3] = k /\ k # 0 /\ Present(db, a)
  BY <1>2 DEF Present
<1>9. \A b \in ActionIds : Present(db, b) => Present(d, b)
  BY <1>5 DEF Turn, Ages, Present
<1>10. SomeChunk(db, r) /\ SomeChunk(d, r)
  BY <1>2, <1>8, <1>9 DEF SomeChunk
<1>11. NoNewRows(d, db') => NewRows(db, db', r, m, TRUE)
  BY <1>5, <1>9, NoneAreNew
<1>12. TopicOf(d, r) = TopicOf(db, r) /\ (Active(d, r) <=> Active(db, r))
  BY <1>5 DEF TopicOf, Active
<1> HIDE DEF d
<1>13. CASE task[h].lost
  <2>1. Finish(h, d) /\ db' = d
    BY <1>3, <1>13 DEF Finish
  <2>2. PICK j \in 1..Chunks[m] :
           j < k /\ db.actions[<<r, m, j>>].status \in {"outcome_unknown", "abandoned"}
    BY <1>4, <1>13 DEF ChunksFit
  <2>3. <<r, m, j>> \in ActionIds \ {a}
    BY <1>2, <1>7, <2>2
  <2>4. d.actions[<<r, m, j>>].status \in {"outcome_unknown", "abandoned"} /\ j \in 0..Chunks[m]
    BY <1>5, <1>6, <2>2, <2>3
  <2> HIDE DEF a
  <2>5. Settled(d, r, m)
    BY <2>3, <2>4 DEF Settled, Unknown
  <2>6. Placed(db, d, r, m)
    BY <1>4, <1>5, <2>5, SettledIsPlaced
  <2>7. NewRows(db, db', r, m, TRUE)
    BY <1>11, <2>1 DEF NoNewRows
  <2> HIDE DEF r, m, t
  <2>8. MessageStep(h, r, m)
    BY <1>2, <1>5, <2>1, <2>5, <2>6, <2>7 DEF MessageStep
  <2> QED
    BY <2>8 DEF r, m
<1>14. CASE ~task[h].lost
  <2>1. RelayToWeb(h, d, r, t)
    BY <1>3, <1>14
  <2>2. /\ OutcomesFit(db') /\ Turn(d, db', r, m) /\ db'.actions = d.actions
        /\ db'.messages = d.messages
        /\ \/ /\ Finish(h, db') /\ r \in db'.acked /\ TopicOf(db', r) = WebTopic
              /\ Active(d, r) \/ TopicOf(d, r) = WebTopic
           \/ Fail(h, db') /\ db' = d /\ TopicOf(d, r) # WebTopic
    BY <1>2, <1>4, <1>5, <2>1, WebOutcome
  <2>3. Turn(db, db', r, m)
    BY <1>5, <2>2, TurnTransitive
  <2>4. NewRows(db, db', r, m, TRUE)
    BY <1>11, <2>2 DEF NoNewRows, Present
  <2>5. TopicOf(db', r) = WebTopic /\ (Active(d, r) \/ TopicOf(d, r) = WebTopic)
        => Placed(db, db', r, m)
    BY <1>2, <1>12, <2>3 DEF Placed, Turn, Active
  <2>6. <<r, m>> \in db'.messages
    BY <1>2, <1>5, <2>2
  <2> HIDE DEF r, m, t
  <2>7. MessageStep(h, r, m)
    <3>1. CASE Finish(h, db') /\ r \in db'.acked /\ Placed(db, db', r, m)
      BY <2>2, <2>3, <2>4, <2>6, <3>1 DEF MessageStep
    <3>2. CASE Fail(h, db') /\ db' = d /\ TopicOf(d, r) # WebTopic
      BY <1>10, <2>2, <2>3, <2>4, <2>6, <3>2 DEF MessageStep
    <3> QED
      BY <2>2, <2>5, <3>1, <3>2
  <2> QED
    BY <2>7 DEF r, m
<1> QED
  BY <1>13, <1>14

\* A message is relayed after its tables were prepared for that.
LEMMA OnwardStep ==
  ASSUME NEW h \in Handlers, NEW d \in Tables, NEW r \in Requests, NEW m \in Messages,
         NEW initial \in BOOLEAN, scenario \in Scenario,
         OutcomesFit(d), Turn(db, d, r, m), NoNewRows(db, d),
         Sending(d) \cap {<<r, m, j>> : j \in 1..Chunks[m]} = {},
         IF TopicOf(d, r) = WebTopic THEN r \in d.takeovers ELSE Active(d, r),
         Active(d, r) \/ (TopicOf(db, r) = WebTopic /\ <<r, m>> \in db.messages),
         initial \/ TopicOf(d, r) = WebTopic \/ TopicOf(db, r) # WebTopic,
         db \in Tables, OutcomesFit(db),
         RelayClientMessage(h, d, r, m, TopicOf(d, r), initial)
  PROVE  MessageStep(h, r, m)
<1> DEFINE t == TopicOf(d, r)
<1>1. /\ OutcomesFit(db') /\ Turn(d, db', r, m) /\ <<r, m>> \in db'.messages
      /\ NewRows(d, db', r, m, initial)
      /\ \/ Finish(h, db') /\ InWebInbox(d, db', r) /\ db'.actions = d.actions
         \/ /\ t # WebTopic /\ db'.requests = d.requests
            /\ Present(db', <<r, m, 1>>)
            /\ (Finish(h, db') /\ Settled(db', r, m)) \/ NextChunk(h, r, m, t)
  BY MessageOutcome
<1>2. Turn(db, db', r, m)
  BY <1>1, TurnTransitive
<1>3. \A a \in ActionIds : Present(db, a) => Present(d, a)
  BY DEF Turn, Ages, Present
<1>4. NewRows(db, db', r, m, initial)
  BY <1>1, <1>3, NoneAreNew
<1>5. t \in Places
  BY DEF Tables, RequestRow, TopicOf
<1>6. <<r, m, 1>> \in ActionIds
  <2>1. Chunks[m] \in 1..MaxChunks /\ MaxChunks \in Nat
    BY ScenarioFacts
  <2> QED
    BY <2>1 DEF ActionIds
<1> HIDE DEF t
<1>7. CASE Finish(h, db') /\ InWebInbox(d, db', r) /\ db'.actions = d.actions
  <2>1. NoNewRows(d, db')
    BY <1>7 DEF NoNewRows, Present
  <2>2. NewRows(db, db', r, m, TRUE)
    BY <1>3, <2>1, NoneAreNew
  <2>3. \E i \in BOOLEAN : NewRows(db, db', r, m, i) /\ (i \/ TopicOf(db, r) # WebTopic)
    BY <2>2
  <2>4. Placed(db, db', r, m)
    <3>1. CASE Active(d, r)
      BY <1>1, <1>7, <3>1 DEF Placed, InWebInbox, Turn, Active
    <3>2. CASE TopicOf(db, r) = WebTopic /\ <<r, m>> \in db.messages
      BY <3>2 DEF Placed
    <3> QED
      BY <3>1, <3>2
  <2>5. r \in db'.acked
    BY <1>7 DEF InWebInbox
  <2> QED
    BY <1>1, <1>2, <1>7, <2>3, <2>4, <2>5 DEF MessageStep
<1>8. CASE /\ t # WebTopic /\ db'.requests = d.requests
           /\ Present(db', <<r, m, 1>>)
           /\ (Finish(h, db') /\ Settled(db', r, m)) \/ NextChunk(h, r, m, t)
  <2>1. \E i \in BOOLEAN : NewRows(db, db', r, m, i) /\ (i \/ TopicOf(db, r) # WebTopic)
    BY <1>4, <1>8 DEF t
  <2>2. SomeChunk(db', r)
    <3>1. <<r, m, 1>>[1] = r /\ <<r, m, 1>>[3] # 0
      OBVIOUS
    <3> QED
      BY <1>6, <1>8, <3>1 DEF SomeChunk
  <2>3. TopicOf(db', r) # WebTopic
    BY <1>8 DEF TopicOf, t
  <2>4. Settled(db', r, m) => Placed(db, db', r, m)
    BY <1>2, SettledIsPlaced
  <2>5. t \in Places \ {WebTopic}
    BY <1>5, <1>8
  <2>6. CASE Finish(h, db') /\ Settled(db', r, m)
    BY <1>1, <1>2, <2>1, <2>4, <2>6 DEF MessageStep
  <2>7. CASE NextChunk(h, r, m, t)
    BY <1>1, <1>2, <2>1, <2>2, <2>3, <2>5, <2>7 DEF MessageStep
  <2> QED
    BY <1>8, <2>6, <2>7
<1> QED
  BY <1>1, <1>7, <1>8

\* A request's opening was not seen to succeed.
LEMMA OpeningUnknown ==
  ASSUME NEW owner \in Owners, HandoffFits(owner), OutcomesInv, NEW h \in Handlers,
         task[h].pc = "opening",
         LET r == task[h].request  a == <<r, task[h].message, 0>> IN
         Finish(h, EnqueueHandoffAcknowledgement(
                     RecordWebTakeover(SetAction(db, a, "outcome_unknown"), r), r))
  PROVE  MessageStep(h, task[h].request, task[h].message)
<1> DEFINE r == task[h].request
           m == task[h].message
           a == <<r, m, 0>>
           d == SetAction(db, a, "outcome_unknown")
           w == RecordWebTakeover(d, r)
           e == EnqueueHandoffAcknowledgement(w, r)
<1>1. Working(h)
  BY DEF Working
<1>2. /\ r \in Requests /\ m \in Messages /\ Awaited(h) = a
      /\ a \in ActionIds /\ <<r, m>> \in db.messages
  BY <1>1, AtWork
<1>3. Finish(h, e) /\ db' = e
  BY DEF Finish
<1>4. db \in Tables /\ scenario \in Scenario /\ OutcomesFit(db)
  BY DEF HandoffFits, HandoffTyped, OutcomesInv
<1>5. /\ d \in Tables /\ OutcomesFit(d) /\ Turn(db, d, r, m) /\ NoNewRows(db, d)
      /\ d.requests = db.requests /\ d.messages = db.messages
      /\ d.actions[a].status = "outcome_unknown"
  <2>1. "outcome_unknown" \in {"sent", "failed", "outcome_unknown"}
    OBVIOUS
  <2> QED
    BY <1>1, <1>2, <1>4, <2>1, AnswerOutcome
<1> HIDE DEF d
<1>6. /\ w \in Tables /\ w.requests = d.requests /\ w.actions = d.actions
      /\ w.messages = d.messages /\ w.takeovers = d.takeovers \cup {r} /\ w.acked = d.acked
  BY <1>2, <1>5, NotesAre
<1> HIDE DEF w
<1>7. /\ e \in Tables /\ e.requests = w.requests /\ e.actions = w.actions
      /\ e.messages = w.messages /\ e.takeovers = w.takeovers /\ e.acked = w.acked \cup {r}
  BY <1>2, <1>6, NotesAre
<1> HIDE DEF e
<1>8. \A q \in e.acked :
         q \in d.acked \/ q \in e.takeovers \/ \E n \in Messages : Sent(d, q, n)
  BY <1>6, <1>7
<1>9. OutcomesFit(e)
  <2>1. \A q \in Requests : TopicOf(e, q) = TopicOf(d, q)
    BY <1>6, <1>7 DEF TopicOf
  <2> QED
    BY <1>5, <1>6, <1>7, <1>8, <2>1, SameRowsKeep
<1>10. Turn(d, e, r, m)
  BY <1>2, <1>6, <1>7, SameRowsTurn
<1>11. Turn(db, e, r, m)
  BY <1>5, <1>10, TurnTransitive
<1>12. NewRows(db, e, r, m, TRUE)
  <2>1. \A b \in ActionIds : Present(db, b) => Present(d, b)
    BY <1>5 DEF Turn, Ages, Present
  <2>2. NoNewRows(d, e)
    BY <1>6, <1>7 DEF NoNewRows, Present
  <2> QED
    BY <1>5, <2>1, <2>2, NoneAreNew
<1>13. Placed(db, e, r, m)
  <2>1. 0 \in 0..Chunks[m]
    BY <1>2, <1>4, ScenarioFacts
  <2>2. Unknown(e, r, m)
    BY <1>5, <1>6, <1>7, <2>1 DEF Unknown
  <2> QED
    BY <2>2 DEF Placed
<1>14. <<r, m>> \in e.messages /\ r \in e.acked
  BY <1>2, <1>5, <1>6, <1>7
<1> HIDE DEF r, m
<1>15. MessageStep(h, r, m)
  BY <1>3, <1>9, <1>11, <1>12, <1>13, <1>14 DEF MessageStep
<1> QED
  BY <1>15 DEF r, m

\* What is known of a request that is being opened.
LEMMA OpeningFacts ==
  ASSUME NEW owner \in Owners, HandoffFits(owner), OutcomesInv, NEW h \in Handlers,
         task[h].pc = "opening"
  PROVE  LET r == task[h].request IN
         /\ TopicOf(db, r) = WebTopic /\ db.actions[Awaited(h)].initial
         /\ \A b \in ActionIds : b[1] = r /\ b # Awaited(h) => ~Present(db, b)
<1>1. Working(h)
  BY DEF Working
<1>2. /\ Awaited(h) \in ActionIds /\ db.actions[Awaited(h)].status = "sending"
      /\ Awaited(h)[1] = task[h].request /\ Awaited(h)[3] = 0
  BY <1>1, AtWork DEF Awaited
<1> QED
  BY <1>2 DEF OutcomesInv, OutcomesFit, OpeningsFit, Present

\* The web inbox takes a request over whose opening Telegram refused.
LEMMA OpeningRefused ==
  ASSUME NEW owner \in Owners, HandoffFits(owner), OutcomesInv, NEW h \in Handlers,
         OpenRejected(h)
  PROVE  MessageStep(h, task[h].request, task[h].message)
<1> DEFINE r == task[h].request
           m == task[h].message
           a == <<r, m, 0>>
           d == SetAction(db, a, "failed")
           w == RecordWebTakeover(d, r)
<1>1. task[h].pc = "opening" /\ Working(h)
  BY DEF OpenRejected, Working
<1>2. /\ r \in Requests /\ m \in Messages /\ Awaited(h) = a
      /\ a \in ActionIds /\ <<r, m>> \in db.messages
  BY <1>1, AtWork
<1>3. RelayClientMessage(h, w, r, m, WebTopic, TRUE)
  BY DEF OpenRejected
<1>4. db \in Tables /\ scenario \in Scenario /\ OutcomesFit(db)
  BY DEF HandoffFits, HandoffTyped, OutcomesInv
<1>5. /\ d \in Tables /\ OutcomesFit(d) /\ Turn(db, d, r, m) /\ NoNewRows(db, d)
      /\ d.requests = db.requests /\ d.messages = db.messages
      /\ \A b \in ActionIds : b[1] = r /\ b[2] = m => d.actions[b].status # "sending"
  <2>1. "failed" \in {"sent", "failed", "outcome_unknown"}
    OBVIOUS
  <2> QED
    BY <1>1, <1>2, <1>4, <2>1, AnswerOutcome
<1> HIDE DEF d
<1>6. /\ w \in Tables /\ w.requests = d.requests /\ w.actions = d.actions
      /\ w.messages = d.messages /\ w.takeovers = d.takeovers \cup {r} /\ w.acked = d.acked
  BY <1>2, <1>5, NotesAre
<1> HIDE DEF w
<1>7. OutcomesFit(w)
  <2>1. \A q \in Requests : TopicOf(w, q) = TopicOf(d, q)
    BY <1>6 DEF TopicOf
  <2> QED
    BY <1>5, <1>6, <2>1, SameRowsKeep
<1>8. Turn(db, w, r, m)
  <2>1. Turn(d, w, r, m)
    BY <1>2, <1>6, SameRowsTurn
  <2> QED
    BY <1>5, <2>1, TurnTransitive
<1>9. TopicOf(db, r) = WebTopic /\ TopicOf(w, r) = WebTopic
  BY <1>1, <1>5, <1>6, OpeningFacts DEF TopicOf
<1>10. Sending(w) \cap {<<r, m, j>> : j \in 1..Chunks[m]} = {}
  BY <1>5, <1>6 DEF Sending
<1>11. NoNewRows(db, w)
  BY <1>5, <1>6 DEF NoNewRows, Present
<1>12. r \in w.takeovers
  BY <1>6
<1>13. RelayClientMessage(h, w, r, m, TopicOf(w, r), TRUE)
  BY <1>3, <1>9
<1> HIDE DEF r, m
<1>14. MessageStep(h, r, m)
  BY <1>2, <1>4, <1>6, <1>7, <1>8, <1>9, <1>10, <1>11, <1>12, <1>13, OnwardStep
<1> QED
  BY <1>14 DEF r, m

\* The request has its topic and its message goes there, unless it moved meanwhile.
LEMMA OpeningAccepted ==
  ASSUME NEW owner \in Owners, HandoffFits(owner), OutcomesInv, NEW h \in Handlers,
         OpenAccepted(h)
  PROVE  MessageStep(h, task[h].request, task[h].message)
<1> DEFINE r == task[h].request
           m == task[h].message
           a == <<r, m, 0>>
<1>1. task[h].pc = "opening" /\ Working(h)
  BY DEF OpenAccepted, Working
<1>2. PICK t \in ({task[h].topic} \ {WebTopic}) \cup ({topics + 1} \cap Topics) :
         IF CanSwitch(db, r, WebTopic) /\ TopicIsFree(db, r, t)
         THEN RelayClientMessage(
                h, SetAction(SwitchOperatorTopic(db, r, t), a, "sent"), r, m, t, TRUE)
         ELSE Finish(h, EnqueueHandoffAcknowledgement(
                          RecordWebTakeover(SetAction(db, a, "outcome_unknown"), r), r))
  BY DEF OpenAccepted
<1>3. /\ r \in Requests /\ m \in Messages /\ Awaited(h) = a
      /\ a \in ActionIds /\ <<r, m>> \in db.messages /\ task[h].topic \in Places
      /\ db.actions[a].status = "sending"
  BY <1>1, AtWork
<1>4. db \in Tables /\ scenario \in Scenario /\ OutcomesFit(db)
  BY DEF HandoffFits, HandoffTyped, OutcomesInv
<1>5. t \in Places /\ t # WebTopic
  BY <1>3 DEF Places, Topics, WebTopic
<1>6. CASE ~(CanSwitch(db, r, WebTopic) /\ TopicIsFree(db, r, t))
  BY <1>1, <1>2, <1>6, OpeningUnknown
<1>7. CASE CanSwitch(db, r, WebTopic) /\ TopicIsFree(db, r, t)
  <2> DEFINE s == SwitchOperatorTopic(db, r, t)
             b == SetAction(db, a, "sent")
             d == SetAction(s, a, "sent")
  <2>1. RelayClientMessage(h, d, r, m, t, TRUE)
    BY <1>2, <1>7
  <2>2. /\ b \in Tables /\ OutcomesFit(b) /\ Turn(db, b, r, m) /\ NoNewRows(db, b)
        /\ b.requests = db.requests /\ b.messages = db.messages
        /\ b.takeovers = db.takeovers /\ b.acked = db.acked /\ b.actions[a].status = "sent"
        /\ \A x \in ActionIds \ {a} : b.actions[x] = db.actions[x]
        /\ \A x \in ActionIds : x[1] = r /\ x[2] = m => b.actions[x].status # "sending"
    <3>1. "sent" \in {"sent", "failed", "outcome_unknown"}
      OBVIOUS
    <3> QED
      BY <1>1, <1>3, <1>4, <3>1, AnswerOutcome
  <2>3. /\ s \in Tables /\ s.actions = db.actions /\ s.messages = db.messages
        /\ s.takeovers = db.takeovers /\ s.acked = db.acked
        /\ s.requests[r].status = db.requests[r].status
        /\ s.requests[r].client = db.requests[r].client /\ s.requests[r].topic = t
        /\ \A q \in Requests \ {r} : s.requests[q] = db.requests[q]
    BY <1>3, <1>4, <1>5, SwitchIs
  <2>4. d.actions = b.actions
    <3>1. b.actions = [db.actions EXCEPT ![a].status = "sent"]
      BY <1>4 DEF SetAction, Tables
    <3> HIDE DEF s
    <3>2. d.actions = [s.actions EXCEPT ![a].status = "sent"]
      BY <2>3 DEF SetAction, Tables
    <3> QED
      BY <2>3, <3>1, <3>2
  <2> HIDE DEF s, b
  <2>5. /\ d \in Tables /\ d.requests = s.requests /\ d.messages = s.messages
        /\ d.takeovers = s.takeovers /\ d.acked = s.acked
    <3>1. "sent" \in Statuses
      BY DEF Statuses
    <3> QED
      BY <1>3, <2>3, <3>1, SetActionIs
  <2> HIDE DEF d
  <2>6. \A x \in ActionIds : x[1] = r =>
          /\ b.actions[x].status # "abandoned"
          /\ x[3] = 0 => b.actions[x].status \in {"absent", "sent"}
    <3>1. \A x \in ActionIds : x[1] = r /\ x # a => db.actions[x].status = "absent"
      BY <1>1, <1>3, OpeningFacts DEF Present
    <3> QED
      BY <2>2, <3>1
  <2>7. OutcomesFit(d)
    <3>1. \A q \in Requests :
           \/ TopicOf(d, q) = TopicOf(b, q)
           \/ TopicOf(d, q) = WebTopic
           \/ \A x \in ActionIds : x[1] = q =>
                /\ b.actions[x].status # "abandoned"
                /\ x[3] = 0 => b.actions[x].status \in {"absent", "sent"}
      BY <2>2, <2>3, <2>5, <2>6 DEF TopicOf
    <3> QED
      BY <2>2, <2>3, <2>4, <2>5, <3>1, SameRowsKeep
  <2>8. Turn(db, d, r, m)
    <3>1. Turn(b, d, r, m)
      <4>1. /\ \A q \in Requests : q # r => d.requests[q] = b.requests[q]
            /\ d.requests[r].status = b.requests[r].status
            /\ d.requests[r].client = b.requests[r].client
        BY <2>2, <2>3, <2>5
      <4>2. d.messages = b.messages /\ d.takeovers = b.takeovers /\ d.acked = b.acked
        BY <2>2, <2>3, <2>5
      <4>3. b.requests[r].status = "active"
        BY <1>7, <2>2 DEF CanSwitch, Active
      <4> HIDE DEF r
      <4> QED
        BY <1>3, <2>4, <4>1, <4>2, <4>3, SameRowsTurn
    <3> QED
      BY <2>2, <3>1, TurnTransitive
  <2>9. NoNewRows(db, d)
    BY <2>2, <2>4 DEF NoNewRows, Present
  <2>10. TopicOf(d, r) = t /\ Active(d, r)
    BY <1>7, <2>3, <2>5 DEF TopicOf, Active, CanSwitch
  <2>11. Sending(d) \cap {<<r, m, j>> : j \in 1..Chunks[m]} = {}
    BY <2>2, <2>4 DEF Sending
  <2>12. RelayClientMessage(h, d, r, m, TopicOf(d, r), TRUE)
    BY <2>1, <2>10
  <2> HIDE DEF r, m
  <2>13. MessageStep(h, r, m)
    BY <1>3, <1>4, <1>5, <2>5, <2>7, <2>8, <2>9, <2>10, <2>11, <2>12, OnwardStep
  <2> QED
    BY <2>13 DEF r, m
<1> QED
  BY <1>6, <1>7

\* A poller's step on message m that opens request r.
CreationStep(h, r, m) ==
  /\ r \in Requests /\ ~Exists(db, r) /\ \A q \in Requests : Exists(db, q) => q < r
  /\ OutcomesFit(db')
  /\ \A q \in Requests : q # r => db'.requests[q] = db.requests[q]
  /\ Active(db', r) /\ db'.requests[r].client = Sender[m] /\ TopicOf(db', r) = WebTopic
  /\ db'.messages = db.messages \cup {<<r, m>>}
  /\ db.acked \subseteq db'.acked /\ db'.acked \subseteq db.acked \cup {r}
  /\ \A a \in ActionIds : a[1] = r => ~Present(db, a)
  /\ \A a \in ActionIds : a # <<r, m, 0>> => db'.actions[a] = db.actions[a]
  /\ \/ Finish(h, db') /\ r \in db'.acked /\ db'.actions = db.actions
     \/ /\ <<r, m, 0>> \in ActionIds /\ db'.actions[<<r, m, 0>>].status = "sending"
        /\ \E t \in Places : 
             Await(h, db', [pc |-> "opening", request |-> r, message |-> m,
                            chunk |-> 0, topic |-> t, lost |-> FALSE])

\* The opening of a request that has no rows is claimed.
LEMMA OpeningClaimed ==
  ASSUME NEW d \in Tables, NEW r \in Requests, NEW m \in Messages, scenario \in Scenario,
         OutcomesFit(d), TopicOf(d, r) = WebTopic, <<r, m>> \in d.messages,
         \A a \in ActionIds : a[1] = r => ~Present(d, a)
  PROVE  LET e == Opening(d, r, m) IN
         /\ OutcomesFit(e) /\ e.requests = d.requests /\ e.messages = d.messages
         /\ e.acked = d.acked /\ <<r, m, 0>> \in ActionIds
         /\ e.actions[<<r, m, 0>>].status = "sending"
         /\ \A a \in ActionIds : a # <<r, m, 0>> => e.actions[a] = d.actions[a]
<1> DEFINE x == <<r, m, 0>>
           row == [status |-> "sending", topic |-> WebTopic, initial |-> TRUE]
           e == Opening(d, r, m)
<1>1. Chunks[m] \in 1..MaxChunks /\ MaxChunks \in Nat
  BY ScenarioFacts
<1>2. x \in ActionIds /\ x[1] = r /\ x[2] = m /\ x[3] = 0
  BY <1>1 DEF ActionIds
<1>3. row.status = "sending" /\ row.initial
  OBVIOUS
<1>4. e = [d EXCEPT !.actions = [d.actions EXCEPT ![x] = row]]
  BY DEF Opening
<1> HIDE DEF row, x
<1>5. d.actions \in [ActionIds -> ActionRow]
  BY DEF Tables
<1>6. /\ e.requests = d.requests /\ e.messages = d.messages /\ e.acked = d.acked
      /\ e.takeovers = d.takeovers /\ e.actions = [d.actions EXCEPT ![x] = row]
  BY <1>4 DEF Tables
<1> HIDE DEF e
<1>7. e.actions[x] = row /\ \A a \in ActionIds : a # x => e.actions[a] = d.actions[a]
  BY <1>2, <1>5, <1>6
<1>8. ~Present(d, x)
  BY <1>2
<1>9. AckedHonestly(e)
  <2> SUFFICES ASSUME NEW q \in d.acked, ~(q \in d.takeovers)
               PROVE  \E n \in Messages : Sent(e, q, n)
    BY <1>6 DEF AckedHonestly
  <2>1. PICK n \in Messages : Sent(d, q, n)
    BY DEF OutcomesFit, AckedHonestly
  <2>2. q \in Requests
    BY DEF Tables
  <2>3. \A a \in ActionIds : d.actions[a].status \in {"sent", "confirmed"} =>
          e.actions[a].status \in {"sent", "confirmed"}
    BY <1>7, <1>8 DEF Present
  <2>4. Sent(e, q, n)
    BY <2>1, <2>2, <2>3, SentStays
  <2> QED
    BY <2>4
<1>10. AbandonedInWeb(e)
  <2>1. \A a \in ActionIds : e.actions[a].status = "abandoned" => d.actions[a].status = "abandoned"
    BY <1>3, <1>7
  <2> QED
    BY <1>6, <2>1 DEF OutcomesFit, AbandonedInWeb, TopicOf
<1>11. ChunksTogether(e)
  <2> SUFFICES ASSUME NEW a \in ActionIds, NEW b \in ActionIds,
                      a[1] = b[1], a[2] = b[2], a[3] # 0, b[3] \in 1..Chunks[b[2]], Present(e, a)
               PROVE  Present(e, b) /\ e.actions[b].initial = e.actions[a].initial
    BY DEF ChunksTogether
  <2>1. a # x /\ b # x
    BY <1>2
  <2>2. e.actions[a] = d.actions[a] /\ e.actions[b] = d.actions[b]
    BY <1>7, <2>1
  <2> QED
    BY <2>2 DEF Present, OutcomesFit, ChunksTogether
<1>12. OpeningsFit(e)
  <2> SUFFICES ASSUME NEW a \in ActionIds, a[3] = 0, Present(e, a)
               PROVE  /\ e.actions[a].initial
                      /\ e.actions[a].status # "sent" =>
                           /\ TopicOf(e, a[1]) = WebTopic
                           /\ \A b \in ActionIds : b[1] = a[1] /\ b # a => ~Present(e, b)
    BY DEF OpeningsFit
  <2>1. \A q : TopicOf(e, q) = TopicOf(d, q)
    BY <1>6 DEF TopicOf
  <2>2. CASE a = x
    <3>1. \A b \in ActionIds : b[1] = r /\ b # x => ~Present(e, b)
      BY <1>7 DEF Present
    <3> QED
      BY <1>2, <1>3, <1>7, <2>1, <2>2, <3>1
  <2>3. CASE a # x
    <3>1. e.actions[a] = d.actions[a] /\ Present(d, a)
      BY <1>7, <2>3 DEF Present
    <3>2. a[1] # r
      BY <3>1
    <3>3. /\ d.actions[a].initial
          /\ d.actions[a].status # "sent" =>
               /\ TopicOf(d, a[1]) = WebTopic
               /\ \A b \in ActionIds : b[1] = a[1] /\ b # a => ~Present(d, b)
      BY <3>1 DEF OutcomesFit, OpeningsFit
    <3>4. \A b \in ActionIds : b[1] = a[1] => e.actions[b] = d.actions[b]
      BY <1>2, <1>7, <3>2
    <3> QED
      BY <2>1, <3>1, <3>3, <3>4 DEF Present
  <2> QED
    BY <2>2, <2>3
<1>13. RowsRecorded(e)
  <2> SUFFICES ASSUME NEW a \in ActionIds, Present(e, a)
               PROVE  <<a[1], a[2]>> \in d.messages
    BY <1>6 DEF RowsRecorded
  <2>1. CASE a = x
    BY <1>2, <2>1
  <2>2. CASE a # x
    BY <1>7, <2>2 DEF Present, OutcomesFit, RowsRecorded
  <2> QED
    BY <2>1, <2>2
<1>14. OutcomesFit(e)
  BY <1>9, <1>10, <1>11, <1>12, <1>13 DEF OutcomesFit
<1> QED
  BY <1>2, <1>3, <1>6, <1>7, <1>14 DEF e, x

\* A request is opened.
LEMMA RequestOpened ==
  ASSUME NEW owner \in Owners, HandoffFits(owner), OutcomesInv, NEW h \in Handlers,
         NEW m \in Messages, OpenClientRequest(h, db, m)
  PROVE  \E r \in Requests : CreationStep(h, r, m)
<1> DEFINE latest == FindLatestRequest(db, Sender[m])
           reusable == IF latest = 0 THEN WebTopic ELSE TopicOf(db, latest)
           r == Newest({q \in Requests : Exists(db, q)}) + 1
           row == [status |-> "active", client |-> Sender[m], topic |-> WebTopic]
           b == [db EXCEPT !.requests[r] = row]
           created == RecordConversationMessage(b, r, m)
           opening == Opening(created, r, m)
           x == [pc |-> "opening", request |-> r, message |-> m,
                 chunk |-> 0, topic |-> reusable, lost |-> FALSE]
<1>1. /\ r \in Requests
      /\ IF telegram = "connected" THEN Await(h, opening, x)
         ELSE RelayClientMessage(h, RecordWebTakeover(created, r), r, m, WebTopic, TRUE)
  BY DEF OpenClientRequest, Opening
<1>2. ~Exists(db, r) /\ \A q \in Requests : Exists(db, q) => q < r
  <2>1. ~Exists(db, r)
    BY <1>1, Fresh
  <2>2. ASSUME NEW q \in Requests, Exists(db, q)
        PROVE  q < r
    <3> DEFINE S == {p \in Requests : Exists(db, p)}
    <3>1. q \in S
      BY <2>2
    <3>2. q <= Newest(S) /\ Newest(S) \in 0..MaxRequests
      BY <3>1, NewestIs
    <3> HIDE DEF S
    <3>3. q \in Int /\ Newest(S) \in Int
      BY <3>2 DEF Requests
    <3>4. q < Newest(S) + 1
      BY <3>2, <3>3
    <3> QED
      BY <3>4 DEF S
  <2> QED
    BY <2>1, <2>2
<1>3. db \in Tables /\ scenario \in Scenario /\ OutcomesFit(db)
      /\ TablesFit(db, copies, owner, topics)
  BY DEF HandoffFits, HandoffTyped, OutcomesInv
<1>4. reusable \in Places
  BY <1>3, ReusableTopic
<1> HIDE DEF r, reusable
<1>5. row \in RequestRow /\ row.status = "active" /\ row.client = Sender[m]
      /\ row.topic = WebTopic
  <2>1. Sender[m] \in Clients
    BY <1>3, ScenarioFacts
  <2> QED
    BY <2>1 DEF RequestRow, Places
<1> HIDE DEF row
<1>6. /\ b \in Tables /\ b.actions = db.actions /\ b.messages = db.messages
      /\ b.takeovers = db.takeovers /\ b.acked = db.acked /\ b.requests[r] = row
      /\ \A q \in Requests \ {r} : b.requests[q] = db.requests[q]
  BY <1>1, <1>3, <1>5, RequestsSet
<1> HIDE DEF b
<1>7. /\ created \in Tables /\ created.requests = b.requests /\ created.actions = b.actions
      /\ created.messages = b.messages \cup {<<r, m>>}
      /\ created.takeovers = b.takeovers /\ created.acked = b.acked
  BY <1>1, <1>6, RecordIs
<1> HIDE DEF created
<1>8. \A a \in ActionIds : a[1] = r => ~Present(db, a)
  BY <1>2, <1>3 DEF TablesFit, RowsFit, Present
<1>9. TopicOf(created, r) = WebTopic /\ Active(created, r)
      /\ created.requests[r].client = Sender[m]
      /\ \A q \in Requests : q # r => created.requests[q] = db.requests[q]
  BY <1>5, <1>6, <1>7 DEF TopicOf, Active
<1>10. OutcomesFit(created)
  <2>1. \A q \in Requests : TopicOf(created, q) = TopicOf(db, q) \/ TopicOf(created, q) = WebTopic
    BY <1>9 DEF TopicOf
  <2> QED
    BY <1>3, <1>6, <1>7, <2>1, SameRowsKeep
<1>11. CASE telegram = "connected"
  <2>1. Await(h, opening, x) /\ db' = opening
    BY <1>1, <1>11 DEF Await
  <2>2. /\ OutcomesFit(opening) /\ opening.requests = created.requests
        /\ opening.messages = created.messages
        /\ opening.acked = created.acked /\ <<r, m, 0>> \in ActionIds
        /\ opening.actions[<<r, m, 0>>].status = "sending"
        /\ \A a \in ActionIds : a # <<r, m, 0>> => opening.actions[a] = created.actions[a]
    <3>1. <<r, m>> \in created.messages
      BY <1>7
    <3>2. \A a \in ActionIds : a[1] = r => ~Present(created, a)
      BY <1>6, <1>7, <1>8 DEF Present
    <3> QED
      BY <1>1, <1>3, <1>7, <1>9, <1>10, <3>1, <3>2, OpeningClaimed
  <2> HIDE DEF opening
  <2>3. /\ TopicOf(db', r) = WebTopic /\ Active(db', r)
        /\ db'.requests[r].client = Sender[m]
        /\ \A q \in Requests : q # r => db'.requests[q] = db.requests[q]
    BY <1>9, <2>1, <2>2 DEF TopicOf, Active
  <2>4. /\ db'.messages = db.messages \cup {<<r, m>>} /\ db'.acked = db.acked
        /\ \A a \in ActionIds : a # <<r, m, 0>> => db'.actions[a] = db.actions[a]
    BY <1>6, <1>7, <2>1, <2>2
  <2>5. \E t \in Places : 
             Await(h, db', [pc |-> "opening", request |-> r, message |-> m,
                            chunk |-> 0, topic |-> t, lost |-> FALSE])
    BY <1>4, <2>1
  <2>6. CreationStep(h, r, m)
    BY <1>1, <1>2, <1>8, <2>1, <2>2, <2>3, <2>4, <2>5 DEF CreationStep
  <2> QED
    BY <1>1, <2>6
<1>12. CASE telegram # "connected"
  <2> DEFINE d == RecordWebTakeover(created, r)
  <2>1. RelayClientMessage(h, d, r, m, WebTopic, TRUE)
    BY <1>1, <1>12
  <2>2. /\ d \in Tables /\ d.requests = created.requests /\ d.actions = created.actions
        /\ d.messages = created.messages /\ d.takeovers = created.takeovers \cup {r}
        /\ d.acked = created.acked
    BY <1>1, <1>7, NotesAre
  <2> HIDE DEF d
  <2>3. OutcomesFit(d)
    <3>1. \A q \in Requests : TopicOf(d, q) = TopicOf(created, q)
      BY <2>2 DEF TopicOf
    <3> QED
      BY <1>7, <1>10, <2>2, <3>1, SameRowsKeep
  <2>4. Sending(d) \cap {<<r, m, j>> : j \in 1..Chunks[m]} = {}
    BY <1>6, <1>7, <1>8, <2>2 DEF Sending, Present
  <2>5. TopicOf(d, r) = WebTopic /\ r \in d.takeovers
    BY <1>9, <2>2 DEF TopicOf
  <2>6. RelayClientMessage(h, d, r, m, TopicOf(d, r), TRUE)
    BY <2>1, <2>5
  <2>7. /\ OutcomesFit(db') /\ Turn(d, db', r, m)
        /\ Finish(h, db') /\ InWebInbox(d, db', r) /\ db'.actions = d.actions
    BY <1>1, <1>3, <2>2, <2>3, <2>4, <2>5, <2>6, MessageOutcome
  <2>8. /\ TopicOf(db', r) = WebTopic /\ Active(db', r)
        /\ db'.requests[r].client = Sender[m]
        /\ \A q \in Requests : q # r => db'.requests[q] = db.requests[q]
    BY <1>9, <2>2, <2>7 DEF Turn, InWebInbox, TopicOf, Active
  <2>9. /\ db'.messages = db.messages \cup {<<r, m>>}
        /\ db.acked \subseteq db'.acked /\ db'.acked \subseteq db.acked \cup {r}
        /\ r \in db'.acked
    BY <1>6, <1>7, <2>2, <2>7 DEF Turn, InWebInbox
  <2>10. db'.actions = db.actions
    BY <1>6, <1>7, <2>2, <2>7
  <2>11. CreationStep(h, r, m)
    BY <1>1, <1>2, <1>8, <2>7, <2>8, <2>9, <2>10 DEF CreationStep
  <2> QED
    BY <1>1, <2>11
<1> QED
  BY <1>11, <1>12

\* A client message is relayed, to a request it opened if need be.
LEMMA MessageProcessed ==
  ASSUME NEW owner \in Owners, HandoffFits(owner), OutcomesInv, NEW h \in Handlers,
         taken[h] < Len(stream[h]), task[h].pc = "idle",
         NEW m \in Messages, Current(h).kind = "message", Current(h).of = m,
         ProcessClientMessage(h, m)
  PROVE  LET r == FindActiveRequest(db, Sender[m]) IN
         \/ r \in Requests /\ Active(db, r) /\ MessageStep(h, r, m)
         \/ r = 0 /\ \E q \in Requests : CreationStep(h, q, m)
<1> DEFINE r == FindActiveRequest(db, Sender[m])
           t == TopicOf(db, r)
           d == IF t = WebTopic THEN RecordWebTakeover(db, r) ELSE db
<1>1. /\ r = 0 => OpenClientRequest(h, db, m)
      /\ r # 0 => RelayClientMessage(h, d, r, m, t, FALSE)
  BY DEF ProcessClientMessage
<1>2. r \in Requests \cup {0} /\ (r # 0 => Active(db, r))
  BY FoundActive
<1>3. db \in Tables /\ scenario \in Scenario /\ OutcomesFit(db)
  BY DEF HandoffFits, HandoffTyped, OutcomesInv
<1>4. CASE r = 0
  BY <1>1, <1>4, RequestOpened
<1>5. CASE r # 0
  <2>1. r \in Requests /\ Active(db, r) /\ RelayClientMessage(h, d, r, m, t, FALSE)
    BY <1>1, <1>2, <1>5
  <2> HIDE DEF r
  <2>2. /\ d \in Tables /\ d.requests = db.requests /\ d.actions = db.actions
        /\ d.messages = db.messages /\ db.takeovers \subseteq d.takeovers
        /\ d.acked = db.acked /\ (t = WebTopic => r \in d.takeovers)
    <3>1. CASE t = WebTopic
      <4> DEFINE w == RecordWebTakeover(db, r)
      <4>1. /\ w \in Tables /\ w.requests = db.requests /\ w.actions = db.actions
            /\ w.messages = db.messages /\ w.takeovers = db.takeovers \cup {r}
            /\ w.acked = db.acked
        BY <1>3, <2>1, NotesAre
      <4> HIDE DEF w
      <4>2. d = w
        BY <3>1 DEF w
      <4> HIDE DEF d
      <4> QED
        BY <4>1, <4>2
    <3>2. CASE t # WebTopic
      BY <1>3, <3>2
    <3> QED
      BY <3>1, <3>2
  <2> HIDE DEF d
  <2>3. OutcomesFit(d)
    <3>1. \A q \in Requests : TopicOf(d, q) = TopicOf(db, q)
      BY <2>2 DEF TopicOf
    <3> QED
      BY <1>3, <2>2, <3>1, SameRowsKeep
  <2>4. Turn(db, d, r, m)
    BY <2>1, <2>2, SameRowsTurn
  <2>5. NoNewRows(db, d)
    BY <2>2 DEF NoNewRows, Present
  <2>6. Sending(d) \cap {<<r, m, j>> : j \in 1..Chunks[m]} = {}
    <3>1. ASSUME NEW j \in 1..Chunks[m], <<r, m, j>> \in Sending(db)
          PROVE  FALSE
      <4>1. <<r, m, j>>[2] = m
        OBVIOUS
      <4>2. Working(h)
        BY <3>1, <4>1, OneOfMessage
      <4> QED
        BY <4>2 DEF Working
    <3> QED
      BY <2>2, <3>1 DEF Sending
  <2>7. TopicOf(d, r) = t /\ Active(d, r)
    BY <2>1, <2>2 DEF TopicOf, Active
  <2>8. RelayClientMessage(h, d, r, m, TopicOf(d, r), FALSE)
    BY <2>1, <2>7
  <2>9. IF TopicOf(d, r) = WebTopic THEN r \in d.takeovers ELSE Active(d, r)
    BY <2>2, <2>7
  <2>10. TopicOf(d, r) = WebTopic \/ TopicOf(db, r) # WebTopic
    BY <2>7
  <2>11. MessageStep(h, r, m)
    BY <1>3, <2>1, <2>2, <2>3, <2>4, <2>5, <2>6, <2>7, <2>8, <2>9, <2>10, OnwardStep
  <2> QED
    BY <2>1, <2>11 DEF r
<1> QED
  BY <1>4, <1>5

-----------------------------------------------------------------------------
(* Steps that are not about a message.                                     *)

\* Requests are closed or reopened and replies are queued.
SameOutcome(d, e) ==
  /\ e \in Tables /\ e.actions = d.actions /\ e.messages = d.messages
  /\ e.takeovers = d.takeovers /\ e.acked = d.acked
  /\ \A q \in Requests :
       /\ TopicOf(e, q) = TopicOf(d, q) /\ e.requests[q].client = d.requests[q].client
       /\ Exists(e, q) <=> Exists(d, q)

\* No relay goes on and no message is done with.
QuietStep ==
  /\ OutcomesFit(db')
  /\ \A h \in Handlers : task'[h].pc = "relaying" =>
       /\ task'[h] = task[h]
       /\ ChunksFit(db', task[h].request, task[h].message, task[h].chunk, task[h].lost)
  /\ \A h \in Handlers : \A i \in 1..Len(stream[h]) : ~Completes(h, i)

\* What such statements do.
LEMMA StatusIs ==
  ASSUME NEW d \in Tables, NEW r \in Requests, Exists(d, r),
         NEW e, e = CloseRequest(d, r) \/ e = ReopenRequest(d, r)
  PROVE  SameOutcome(d, e)
<1>1. PICK s \in {"closed", "active"} : e = [d EXCEPT !.requests[r].status = s]
  BY DEF CloseRequest, ReopenRequest
<1> DEFINE row == [d.requests[r] EXCEPT !.status = s]
<1>2. d.requests[r] \in RequestRow
  BY DEF Tables
<1>3. /\ row \in RequestRow /\ row.status = s
      /\ row.client = d.requests[r].client /\ row.topic = d.requests[r].topic
  BY <1>2 DEF RequestRow
<1>4. e = [d EXCEPT !.requests[r] = row]
  BY <1>1
<1> HIDE DEF row
<1>5. /\ e \in Tables /\ e.actions = d.actions /\ e.messages = d.messages
      /\ e.takeovers = d.takeovers /\ e.acked = d.acked /\ e.requests[r] = row
      /\ \A q \in Requests \ {r} : e.requests[q] = d.requests[q]
  BY <1>3, <1>4, RequestsSet
<1>6. \A q \in Requests :
        /\ TopicOf(e, q) = TopicOf(d, q) /\ e.requests[q].client = d.requests[q].client
        /\ Exists(e, q) <=> Exists(d, q)
  BY <1>3, <1>5 DEF TopicOf, Exists
<1> QED
  BY <1>5, <1>6 DEF SameOutcome

\* What queueing a reply does.
LEMMA ReplyIs ==
  ASSUME NEW d \in Tables, NEW r \in Requests, NEW t \in Places
  PROVE  SameOutcome(d, EnqueueReply(d, t, r))
<1> DEFINE e == EnqueueReply(d, t, r)
<1>1. /\ e \in Tables /\ e.requests = d.requests /\ e.actions = d.actions
      /\ e.messages = d.messages /\ e.takeovers = d.takeovers /\ e.acked = d.acked
  BY DEF EnqueueReply, Tables
<1> HIDE DEF e
<1>2. SameOutcome(d, e)
  BY <1>1 DEF SameOutcome, TopicOf, Exists
<1> QED
  BY <1>2 DEF e

\* They leave outcomes alone.
LEMMA SameOutcomeFits ==
  ASSUME OutcomesInv, NEW d, db \in Tables, SameOutcome(db, d)
  PROVE  /\ OutcomesFit(d)
         /\ \A h \in Handlers : task[h].pc = "relaying" =>
              ChunksFit(d, task[h].request, task[h].message, task[h].chunk, task[h].lost)
<1>1. OutcomesFit(db) /\ \A h \in Handlers : ChunksAwaited(h)
  BY DEF OutcomesInv
<1>2. OutcomesFit(d)
  BY <1>1, SameRowsKeep DEF SameOutcome
<1>3. \A h \in Handlers : task[h].pc = "relaying" =>
        ChunksFit(d, task[h].request, task[h].message, task[h].chunk, task[h].lost)
  BY <1>1 DEF SameOutcome, ChunksFit, ChunksAwaited
<1> QED
  BY <1>2, <1>3

\* An update that carries no message completes no message.
LEMMA NoMessageCompleted ==
  ASSUME HandoffTyped, NEW h \in Handlers, taken[h] < Len(stream[h]),
         NEW s \in {"none", "processing", "completed"}, Marked(h, s),
         Current(h).kind # "message" \/ s # "completed"
  PROVE  \A g \in Handlers : \A i \in 1..Len(stream[g]) : ~Completes(g, i)
<1>1. /\ \A g \in Handlers : \A i \in 1..Len(stream[g]) :
           /\ stream'[g][i].kind = stream[g][i].kind
           /\ ~(g = h /\ i = taken[h] + 1) => stream'[g][i] = stream[g][i]
      /\ stream'[h][taken[h] + 1].status = s
  BY MarkedUpdate
<1>2. taken[h] + 1 \in 1..Len(stream[h])
  BY DEF HandoffTyped
<1>3. ASSUME NEW g \in Handlers, NEW i \in 1..Len(stream[g]), Completes(g, i)
      PROVE  FALSE
  <2>1. CASE g = h /\ i = taken[h] + 1
    BY <1>1, <1>2, <1>3, <2>1 DEF Completes, Current
  <2>2. CASE ~(g = h /\ i = taken[h] + 1)
    BY <1>1, <1>3, <2>2 DEF Completes
  <2> QED
    BY <2>1, <2>2
<1> QED
  BY <1>3

\* A poller's step on an update that is no message: it is done with, left for a retry,
\* or a topic or the menu is awaited.  Only a client's latest request is reopened,
\* or one whose topic was awaited for that.
QuietEnd(h, d) ==
  \/ Finish(h, d) \/ Fail(h, d) \/ AwaitMenuAnswer(h, d)
  \/ \E pc \in {"closing", "reopening", "resetting"} : \E r \in Requests :
       /\ pc = "reopening" => CanReopenRequest(db, r)
       /\ Await(h, d, [NoTask EXCEPT !.pc = pc, !.request = r])

QuietTurn(h) ==
  \E d : /\ SameOutcome(db, d) /\ QuietEnd(h, d)
         /\ \A q \in Requests : Active(d, q) =>
              \/ Active(db, q) \/ CanReopenRequest(db, q)
              \/ task[h].pc = "reopening" /\ q = task[h].request /\ NoOtherActive(db, q)

\* How such a step ends.
LEMMA QuietEndIs ==
  ASSUME NEW h \in Handlers, NEW d, QuietEnd(h, d)
  PROVE  \E s \in {"none", "processing", "completed"} : \E t :
           /\ db' = d /\ Marked(h, s) /\ task' = [task EXCEPT ![h] = t]
           /\ t.pc \notin {"relaying", "opening"}
           /\ t.pc = "reopening" => t.request \in Requests /\ CanReopenRequest(db, t.request)
<1>1. NoTask.pc = "idle"
  BY DEF NoTask
<1>2. CASE Finish(h, d)
  BY <1>1, <1>2 DEF Finish, Marked, CompleteEvent
<1>3. CASE Fail(h, d)
  BY <1>1, <1>3 DEF Fail, Marked
<1>4. CASE AwaitMenuAnswer(h, d)
  <2> DEFINE x == [NoTask EXCEPT !.pc = "answering"]
  <2>1. x.pc = "answering"
    BY DEF NoTask
  <2>2. Await(h, d, x)
    BY <1>4 DEF AwaitMenuAnswer
  <2> HIDE DEF x
  <2> QED
    BY <2>1, <2>2 DEF Await, Marked
<1>5. ASSUME NEW pc \in {"closing", "reopening", "resetting"}, NEW r \in Requests,
             pc = "reopening" => CanReopenRequest(db, r),
             Await(h, d, [NoTask EXCEPT !.pc = pc, !.request = r])
      PROVE  \E s \in {"none", "processing", "completed"} : \E t :
               /\ db' = d /\ Marked(h, s) /\ task' = [task EXCEPT ![h] = t]
               /\ t.pc \notin {"relaying", "opening"}
               /\ t.pc = "reopening" => t.request \in Requests /\ CanReopenRequest(db, t.request)
  <2> DEFINE x == [NoTask EXCEPT !.pc = pc, !.request = r]
  <2>1. x.pc = pc /\ x.request = r
    BY DEF NoTask
  <2>2. Await(h, d, x)
    BY <1>5
  <2> HIDE DEF x
  <2>3. db' = d /\ Marked(h, "processing") /\ task' = [task EXCEPT ![h] = x]
    BY <2>2 DEF Await, Marked
  <2>4. x.pc \notin {"relaying", "opening"} /\ (x.pc = "reopening" => CanReopenRequest(db, x.request))
    BY <1>5, <2>1
  <2> QED
    BY <2>1, <2>3, <2>4
<1> QED
  BY <1>2, <1>3, <1>4, <1>5 DEF QuietEnd

\* It is quiet.
LEMMA QuietPoller ==
  ASSUME NEW owner \in Owners, HandoffFits(owner), OutcomesInv, NEW h \in Handlers,
         taken[h] < Len(stream[h]), Current(h).kind # "message", QuietTurn(h)
  PROVE  QuietStep
<1>1. HandoffTyped /\ db \in Tables /\ task \in [Handlers -> TaskRow]
  BY DEF HandoffFits, HandoffTyped
<1>2. PICK d : SameOutcome(db, d) /\ QuietEnd(h, d)
  BY DEF QuietTurn
<1>3. PICK s \in {"none", "processing", "completed"} : \E t :
         db' = d /\ Marked(h, s) /\ task' = [task EXCEPT ![h] = t] /\ t.pc # "relaying"
  BY <1>2, QuietEndIs
<1>4. \A g \in Handlers : \A i \in 1..Len(stream[g]) : ~Completes(g, i)
  BY <1>1, <1>3, NoMessageCompleted
<1>5. \A g \in Handlers : task'[g].pc = "relaying" => task'[g] = task[g]
  BY <1>1, <1>3
<1> QED
  BY <1>1, <1>2, <1>3, <1>4, <1>5, SameOutcomeFits DEF QuietStep

\* Tables in which no request becomes active, or one does.
LEMMA ActiveAfter ==
  ASSUME NEW d \in Tables, NEW r \in Requests
  PROVE  /\ \A q \in Requests : Active(CloseRequest(d, r), q) => Active(d, q)
         /\ \A q \in Requests : Active(ReopenRequest(d, r), q) => Active(d, q) \/ q = r
         /\ \A t : \A q \in Requests : Active(EnqueueReply(d, t, r), q) => Active(d, q)
<1>1. d.requests \in [Requests -> RequestRow]
  BY DEF Tables
<1>2. \A q \in Requests : Active(CloseRequest(d, r), q) => Active(d, q)
  <2> DEFINE e == CloseRequest(d, r)
  <2>1. e.requests = [d.requests EXCEPT ![r].status = "closed"]
    BY DEF CloseRequest, Tables
  <2> HIDE DEF e
  <2>2. \A q \in Requests : e.requests[q].status = "active" => d.requests[q].status = "active"
    BY <1>1, <2>1 DEF RequestRow
  <2>3. \A q \in Requests : Active(e, q) => Active(d, q)
    BY <2>2 DEF Active
  <2> QED
    BY <2>3 DEF e
<1>3. \A q \in Requests : Active(ReopenRequest(d, r), q) => Active(d, q) \/ q = r
  <2> DEFINE e == ReopenRequest(d, r)
  <2>1. e.requests = [d.requests EXCEPT ![r].status = "active"]
    BY DEF ReopenRequest, Tables
  <2> HIDE DEF e
  <2>2. \A q \in Requests \ {r} : e.requests[q] = d.requests[q]
    BY <1>1, <2>1
  <2>3. \A q \in Requests : Active(e, q) => Active(d, q) \/ q = r
    BY <2>2 DEF Active
  <2> QED
    BY <2>3 DEF e
<1>4. \A t : \A q \in Requests : Active(EnqueueReply(d, t, r), q) => Active(d, q)
  <2> TAKE t
  <2> DEFINE e == EnqueueReply(d, t, r)
  <2>1. e.requests = d.requests
    BY DEF EnqueueReply, Tables
  <2> HIDE DEF e
  <2>2. \A q \in Requests : Active(e, q) => Active(d, q)
    BY <2>1 DEF Active
  <2> QED
    BY <2>2 DEF e
<1> QED
  BY <1>2, <1>3, <1>4

\* An update from the operators' forum.
LEMMA OperatorUpdateTurn ==
  ASSUME NEW owner \in Owners, HandoffFits(owner), NEW h \in Handlers,
         taken[h] < Len(stream[h]), Current(h).kind \notin {"message", "newQuestion"},
         HandleOperatorUpdate(h, Current(h))
  PROVE  QuietTurn(h)
<1> DEFINE e == Current(h)
           r == FindRequestByTopicId(db, e.of)
<1>1. db \in Tables /\ SameOutcome(db, db)
  BY DEF HandoffFits, HandoffTyped, SameOutcome
<1>2. r # 0 => r \in Requests /\ Exists(db, r) /\ TopicOf(db, r) = e.of
  BY FoundByTopic
<1>3. \/ Finish(h, db)
      \/ /\ r # 0
         /\ \/ \E d \in {db, EnqueueReply(db, e.of, r), CloseRequest(db, r)} :
                 Finish(h, d) \/ AwaitTopicClosed(h, d, r)
            \/ /\ CanReopenRequest(db, r)
               /\ \/ Await(h, db, [NoTask EXCEPT !.pc = "reopening", !.request = r])
                  \/ Finish(h, ReopenRequest(db, r))
  <2>1. taken[h] + 1 \in 1..Len(stream[h]) /\ stream[h] \in Seq(Event)
    BY DEF HandoffFits, HandoffTyped
  <2>2. e \in Event
    BY <2>1, ElementOfSeq DEF Current
  <2>3. e.kind \in {"reply", "/close", "/reopen", "topicClosed", "topicReopened"}
    BY <2>2 DEF Event, Kinds
  <2> HIDE DEF r
  <2>4. (CASE r = 0 -> Finish(h, db)
            [] r # 0 /\ e.kind = "reply" ->
                 Finish(h, IF Active(db, r) THEN EnqueueReply(db, e.of, r) ELSE db)
            [] r # 0 /\ e.kind = "/close" -> AwaitTopicClosed(h, CloseRequest(db, r), r)
            [] r # 0 /\ e.kind = "/reopen" ->
                 IF CanReopenRequest(db, r)
                 THEN Await(h, db, [NoTask EXCEPT !.pc = "reopening", !.request = r])
                 ELSE AwaitTopicClosed(h, db, r)
            [] r # 0 /\ e.kind = "topicClosed" ->
                 Finish(h, IF r <= e.at THEN CloseRequest(db, r) ELSE db)
            [] r # 0 /\ e.kind = "topicReopened" ->
                 IF CanReopenRequest(db, r) THEN Finish(h, ReopenRequest(db, r))
                 ELSE AwaitTopicClosed(h, db, r))
    BY DEF HandleOperatorUpdate, r
  <2> HIDE DEF e
  <2>5. CASE r = 0
    BY <2>4, <2>5
  <2>6. CASE r # 0 /\ e.kind = "reply"
    <3>1. Finish(h, IF Active(db, r) THEN EnqueueReply(db, e.of, r) ELSE db)
      BY <2>4, <2>6
    <3> QED
      BY <2>6, <3>1
  <2>7. CASE r # 0 /\ e.kind = "/close"
    <3>1. AwaitTopicClosed(h, CloseRequest(db, r), r)
      BY <2>4, <2>7
    <3> QED
      BY <2>7, <3>1
  <2>8. CASE r # 0 /\ e.kind = "/reopen"
    <3>1. IF CanReopenRequest(db, r)
          THEN Await(h, db, [NoTask EXCEPT !.pc = "reopening", !.request = r])
          ELSE AwaitTopicClosed(h, db, r)
      BY <2>4, <2>8
    <3> QED
      BY <2>8, <3>1
  <2>9. CASE r # 0 /\ e.kind = "topicClosed"
    <3>1. Finish(h, IF r <= e.at THEN CloseRequest(db, r) ELSE db)
      BY <2>4, <2>9
    <3> QED
      BY <2>9, <3>1
  <2>10. CASE r # 0 /\ e.kind = "topicReopened"
    <3>1. IF CanReopenRequest(db, r) THEN Finish(h, ReopenRequest(db, r))
          ELSE AwaitTopicClosed(h, db, r)
      BY <2>4, <2>10
    <3> QED
      BY <2>10, <3>1
  <2> QED
    BY <2>3, <2>5, <2>6, <2>7, <2>8, <2>9, <2>10
<1> HIDE DEF r
<1>4. CASE Finish(h, db)
  BY <1>1, <1>4 DEF QuietTurn, QuietEnd
<1>5. ASSUME r # 0
      PROVE  /\ r \in Requests
             /\ \A d \in {db, EnqueueReply(db, e.of, r), CloseRequest(db, r)} :
                  /\ SameOutcome(db, d)
                  /\ \A q \in Requests : Active(d, q) => Active(db, q)
             /\ SameOutcome(db, ReopenRequest(db, r))
             /\ \A q \in Requests : Active(ReopenRequest(db, r), q) => Active(db, q) \/ q = r
  <2>1. r \in Requests /\ Exists(db, r) /\ e.of \in Places
    BY <1>1, <1>2, <1>5 DEF Tables, RequestRow, TopicOf
  <2> HIDE DEF e
  <2>2. SameOutcome(db, EnqueueReply(db, e.of, r))
    BY <1>1, <2>1, ReplyIs
  <2>3. SameOutcome(db, CloseRequest(db, r)) /\ SameOutcome(db, ReopenRequest(db, r))
    BY <1>1, <2>1, StatusIs
  <2> QED
    BY <1>1, <2>1, <2>2, <2>3, ActiveAfter
<1> HIDE DEF e
<1>6. ASSUME r # 0, NEW d \in {db, EnqueueReply(db, e.of, r), CloseRequest(db, r)},
             Finish(h, d) \/ AwaitTopicClosed(h, d, r)
      PROVE  QuietTurn(h)
  <2>1. QuietEnd(h, d)
    BY <1>5, <1>6 DEF QuietEnd, AwaitTopicClosed
  <2> QED
    BY <1>5, <1>6, <2>1 DEF QuietTurn
<1>7. CASE /\ r # 0 /\ CanReopenRequest(db, r)
           /\ Await(h, db, [NoTask EXCEPT !.pc = "reopening", !.request = r])
  <2>1. QuietEnd(h, db)
    BY <1>5, <1>7 DEF QuietEnd
  <2> QED
    BY <1>1, <2>1 DEF QuietTurn
<1>8. CASE r # 0 /\ CanReopenRequest(db, r) /\ Finish(h, ReopenRequest(db, r))
  <2>1. QuietEnd(h, ReopenRequest(db, r))
    BY <1>8 DEF QuietEnd
  <2> QED
    BY <1>5, <1>8, <2>1 DEF QuietTurn
<1> QED
  BY <1>3, <1>4, <1>6, <1>7, <1>8

\* The client asks a new question.
LEMMA ResetTurn ==
  ASSUME NEW owner \in Owners, HandoffFits(owner), NEW h \in Handlers,
         NEW c, ResetConversation(h, c)
  PROVE  QuietTurn(h)
<1> DEFINE r == FindActiveRequest(db, c)
<1>1. db \in Tables /\ SameOutcome(db, db)
  BY DEF HandoffFits, HandoffTyped, SameOutcome
<1>2. r # 0 => r \in Requests /\ Active(db, r)
  BY FoundActive
<1>3. \/ AwaitMenuAnswer(h, db)
      \/ r # 0 /\ AwaitMenuAnswer(h, CloseRequest(db, r))
      \/ r # 0 /\ Await(h, db, [NoTask EXCEPT !.pc = "resetting", !.request = r])
  BY DEF ResetConversation
<1> HIDE DEF r
<1>4. CASE AwaitMenuAnswer(h, db)
  BY <1>1, <1>4 DEF QuietTurn, QuietEnd
<1>5. CASE r # 0 /\ AwaitMenuAnswer(h, CloseRequest(db, r))
  <2>1. r \in Requests /\ Exists(db, r)
    BY <1>2, <1>5 DEF Active, Exists
  <2>2. SameOutcome(db, CloseRequest(db, r))
    BY <1>1, <2>1, StatusIs
  <2>3. QuietEnd(h, CloseRequest(db, r))
    BY <1>5 DEF QuietEnd
  <2> QED
    BY <1>1, <2>1, <2>2, <2>3, ActiveAfter DEF QuietTurn
<1>6. CASE r # 0 /\ Await(h, db, [NoTask EXCEPT !.pc = "resetting", !.request = r])
  <2>1. QuietEnd(h, db)
    BY <1>2, <1>6 DEF QuietEnd
  <2> QED
    BY <1>1, <2>1 DEF QuietTurn
<1> QED
  BY <1>3, <1>4, <1>5, <1>6

\* Telegram answers about a topic or about the menu.
LEMMA AnswerTurn ==
  ASSUME NEW owner \in Owners, HandoffFits(owner), NEW h \in Handlers,
         \/ TopicCloseAnswered(h) \/ ReopenAnswered(h) \/ ResetAnswered(h) \/ MenuAnswered(h)
  PROVE  /\ QuietTurn(h) /\ taken[h] < Len(stream[h]) /\ Current(h).kind # "message"
         /\ task[h].pc # "idle"
<1> DEFINE r == task[h].request
<1>1. ~Working(h) /\ task[h].pc # "idle"
  BY DEF TopicCloseAnswered, ReopenAnswered, ResetAnswered, MenuAnswered, Working
<1>2. TaskFits(h, owner) /\ db \in Tables /\ SameOutcome(db, db)
  BY DEF HandoffFits, HandoffTyped, SameOutcome
<1>3. taken[h] < Len(stream[h]) /\ Current(h).kind # "message"
  BY <1>1, <1>2 DEF TaskFits
<1>4. CASE Finish(h, db) \/ Fail(h, db)
  BY <1>1, <1>2, <1>3, <1>4 DEF QuietTurn, QuietEnd
<1>5. CASE task[h].pc = "reopening" /\ NoOtherActive(db, r) /\ Finish(h, ReopenRequest(db, r))
  <2>1. Exists(db, r) /\ r \in Requests
    BY <1>1, <1>2, <1>5 DEF TaskFits
  <2>2. SameOutcome(db, ReopenRequest(db, r))
    BY <1>2, <2>1, StatusIs
  <2>3. QuietEnd(h, ReopenRequest(db, r))
    BY <1>5 DEF QuietEnd
  <2>4. \A q \in Requests : Active(ReopenRequest(db, r), q) => Active(db, q) \/ q = r
    BY <1>2, <2>1, ActiveAfter
  <2> QED
    BY <1>1, <1>3, <1>5, <2>2, <2>3, <2>4 DEF QuietTurn
<1>6. CASE task[h].pc = "resetting" /\ AwaitMenuAnswer(h, CloseRequest(db, r))
  <2>1. Exists(db, r) /\ r \in Requests
    BY <1>1, <1>2, <1>6 DEF TaskFits
  <2>2. SameOutcome(db, CloseRequest(db, r))
    BY <1>2, <2>1, StatusIs
  <2>3. QuietEnd(h, CloseRequest(db, r))
    BY <1>6 DEF QuietEnd
  <2> QED
    BY <1>1, <1>2, <1>3, <2>1, <2>2, <2>3, ActiveAfter DEF QuietTurn
<1> QED
  BY <1>4, <1>5, <1>6 DEF TopicCloseAnswered, ReopenAnswered, ResetAnswered, MenuAnswered

\* Rows of actions become uncertain or are abandoned with their request.
LEMMA RowsAge ==
  ASSUME NEW d \in Tables, NEW e \in Tables, OutcomesFit(d), scenario \in Scenario,
         d.messages \subseteq e.messages, d.takeovers \subseteq e.takeovers,
         \A r \in e.acked : r \in d.acked \/ r \in e.takeovers,
         \A r \in Requests : TopicOf(e, r) \in {TopicOf(d, r), WebTopic},
         \A b \in ActionIds :
           /\ e.actions[b].initial = d.actions[b].initial
           /\ \/ e.actions[b].status = d.actions[b].status
              \/ /\ d.actions[b].status \in {"sending", "outcome_unknown"}
                 /\ e.actions[b].status \in {"outcome_unknown", "abandoned"},
         \A b \in ActionIds : e.actions[b].status = "abandoned" =>
           \/ d.actions[b].status = "abandoned"
           \/ b[1] \in e.takeovers /\ TopicOf(e, b[1]) = WebTopic
  PROVE  OutcomesFit(e)
<1>0. \A b \in ActionIds : b[1] \in Requests
  BY DEF ActionIds
<1>1. AckedHonestly(e)
  <2> SUFFICES ASSUME NEW r \in e.acked, r \notin e.takeovers
               PROVE  \E m \in Messages : Sent(e, r, m)
    BY DEF AckedHonestly
  <2>1. r \in d.acked /\ r \notin d.takeovers /\ r \in Requests
    BY DEF Tables
  <2>2. PICK m \in Messages : Sent(d, r, m)
    BY <2>1 DEF OutcomesFit, AckedHonestly
  <2>3. \A b \in ActionIds : d.actions[b].status \in {"sent", "confirmed"} =>
          e.actions[b].status \in {"sent", "confirmed"}
    OBVIOUS
  <2> QED
    BY <2>1, <2>2, <2>3, SentStays
<1>2. AbandonedInWeb(e)
  BY <1>0 DEF OutcomesFit, AbandonedInWeb
<1>3. \A b \in ActionIds : Present(e, b) <=> Present(d, b)
  BY DEF Present
<1>4. ChunksTogether(e)
  BY <1>3 DEF OutcomesFit, ChunksTogether
<1>5. OpeningsFit(e)
  <2> SUFFICES ASSUME NEW a \in ActionIds, a[3] = 0, Present(d, a)
               PROVE  /\ d.actions[a].initial
                      /\ e.actions[a].status # "sent" =>
                           /\ TopicOf(e, a[1]) = WebTopic
                           /\ \A b \in ActionIds : b[1] = a[1] /\ b # a => ~Present(d, b)
    BY <1>3 DEF OpeningsFit
  <2>1. /\ d.actions[a].initial
        /\ d.actions[a].status # "sent" =>
             /\ TopicOf(d, a[1]) = WebTopic
             /\ \A b \in ActionIds : b[1] = a[1] /\ b # a => ~Present(d, b)
    BY DEF OutcomesFit, OpeningsFit
  <2>2. e.actions[a].status # "sent" => d.actions[a].status # "sent"
    OBVIOUS
  <2> QED
    BY <1>0, <2>1, <2>2
<1>6. RowsRecorded(e)
  BY <1>3 DEF OutcomesFit, RowsRecorded
<1> QED
  BY <1>1, <1>2, <1>4, <1>5, <1>6 DEF OutcomesFit

\* Only the tables change, and no relay that is awaited notices.
LEMMA QuietTables ==
  ASSUME NEW d, OnlyTables(d), OutcomesFit(d),
         \A h \in Handlers : task[h].pc = "relaying" =>
           ChunksFit(d, task[h].request, task[h].message, task[h].chunk, task[h].lost)
  PROVE  QuietStep
BY DEF OnlyTables, QuietStep, Completes

\* A web operator replies or closes.
LEMMA WebIsQuiet ==
  ASSUME NEW owner \in Owners, HandoffFits(owner), OutcomesInv,
         NEW r \in Requests, WebReply(r) \/ WebClose(r)
  PROVE  QuietStep
<1>1. db \in Tables
  BY DEF HandoffFits, HandoffTyped
<1>2. Exists(db, r) /\ WebTopic \in Places
  BY DEF WebReply, WebClose, InWeb, Active, Exists, Places
<1>3. PICK d \in {EnqueueReply(db, WebTopic, r), CloseRequest(db, r)} : OnlyTables(d)
  BY DEF WebReply, WebClose
<1>4. SameOutcome(db, d)
  <2>1. SameOutcome(db, EnqueueReply(db, WebTopic, r))
    BY <1>1, <1>2, ReplyIs
  <2>2. SameOutcome(db, CloseRequest(db, r))
    BY <1>1, <1>2, StatusIs
  <2> QED
    BY <1>3, <2>1, <2>2
<1> QED
  BY <1>1, <1>3, <1>4, SameOutcomeFits, QuietTables

\* The owner confirms that an uncertain chunk was received: its client is told
\* when the others were sent, or its request is in the web inbox.
LEMMA ConfirmIsQuiet ==
  ASSUME NEW owner \in Owners, HandoffFits(owner), OutcomesInv,
         NEW a \in ActionIds, ConfirmReceived(a)
  PROVE  QuietStep
<1> DEFINE d == SetAction(db, a, "confirmed")
           e == EnqueueHandoffAcknowledgement(d, a[1])
<1>1. db \in Tables /\ scenario \in Scenario /\ OutcomesFit(db)
  BY DEF HandoffFits, HandoffTyped, OutcomesInv
<1>2. /\ db.actions[a].status = "outcome_unknown" /\ CanConfirm(db, a)
      /\ OnlyTables(d) \/ (OnlyTables(e) /\ ~Unknown(d, a[1], a[2]))
  BY DEF ConfirmReceived, Uncertain
<1>3. OutcomesFit(d)
  BY <1>1, <1>2, StatusKeeps DEF Present
<1>4. /\ d \in Tables /\ d.requests = db.requests /\ d.actions[a].status = "confirmed"
      /\ \A b \in ActionIds \ {a} : d.actions[b] = db.actions[b]
  BY <1>1, SetActionIs DEF Statuses
<1>5. a[1] \in Requests /\ a[2] \in Messages
  BY DEF ActionIds
<1>6. /\ e \in Tables /\ e.requests = d.requests /\ e.actions = d.actions
      /\ e.messages = d.messages /\ e.takeovers = d.takeovers /\ e.acked = d.acked \cup {a[1]}
  BY <1>4, <1>5, NotesAre
<1> HIDE DEF d, e
<1>7. CanConfirm(db, a) => /\ a[3] # 0
                          /\ \A b \in ActionIds : b[1] = a[1] /\ b[2] = a[2] /\ b # a =>
                               db.actions[b].status \notin {"pending", "sending", "failed"}
  BY DEF CanConfirm, ActionIds
<1>8. ~Unknown(d, a[1], a[2]) => a[1] \in d.takeovers \/ Sent(d, a[1], a[2])
  <2> SUFFICES ASSUME ~Unknown(d, a[1], a[2]), a[1] \notin d.takeovers,
                      NEW k \in 1..Chunks[a[2]]
               PROVE  d.actions[<<a[1], a[2], k>>].status \in {"sent", "confirmed"}
    BY DEF Sent
  <2> DEFINE b == <<a[1], a[2], k>>
  <2>1. b \in ActionIds /\ b[1] = a[1] /\ b[2] = a[2] /\ b[3] = k /\ k \in 0..Chunks[a[2]]
    BY <1>1, <1>5, ScenarioFacts DEF ActionIds
  <2>2. d.actions[b].status # "outcome_unknown"
    BY <2>1 DEF Unknown
  <2>3. d.actions[b].status # "abandoned"
    BY <1>3, <2>1 DEF OutcomesFit, AbandonedInWeb
  <2> HIDE DEF b
  <2>4. Present(d, b)
    <3>1. a[3] # 0 /\ Present(d, a)
      BY <1>2, <1>4, <1>7 DEF Present
    <3>2. b[3] \in 1..Chunks[b[2]]
      BY <2>1
    <3> QED
      BY <1>3, <2>1, <3>1, <3>2 DEF OutcomesFit, ChunksTogether
  <2>5. b # a => d.actions[b].status \notin {"pending", "sending", "failed"}
    BY <1>2, <1>4, <1>7, <2>1
  <2>6. d.actions[b].status \in Statuses
    BY <1>4, <2>1 DEF Tables, ActionRow
  <2>7. d.actions[b].status \in {"sent", "confirmed"}
    BY <1>4, <2>2, <2>3, <2>4, <2>5, <2>6 DEF Statuses, Present
  <2> QED
    BY <2>7 DEF b
<1>9. ~Unknown(d, a[1], a[2]) => OutcomesFit(e)
  <2> SUFFICES ASSUME ~Unknown(d, a[1], a[2])
               PROVE  OutcomesFit(e)
    OBVIOUS
  <2>1. \A r \in e.acked : r \in d.acked \/ r \in e.takeovers \/ \E m \in Messages : Sent(d, r, m)
    BY <1>5, <1>6, <1>8
  <2>2. \A r \in Requests : TopicOf(e, r) = TopicOf(d, r)
    BY <1>6 DEF TopicOf
  <2> QED
    BY <1>3, <1>4, <1>6, <2>1, <2>2, SameRowsKeep
<1>10. ASSUME NEW h \in Handlers, task[h].pc = "relaying"
       PROVE  ChunksFit(d, task[h].request, task[h].message, task[h].chunk, task[h].lost)
  <2> DEFINE r == task[h].request
             m == task[h].message
  <2>1. Awaited(h) \in Sending(db)
    BY <1>10 DEF HandoffFits, TaskFits, Working
  <2>2. Awaited(h) \in ActionIds /\ db.actions[Awaited(h)].status = "sending"
    BY <2>1 DEF Sending
  <2>3. ~(r = a[1] /\ m = a[2])
    BY <1>2, <1>7, <2>2 DEF Awaited
  <2>4. r \in Requests /\ m \in Messages
    BY <2>2 DEF Awaited, ActionIds
  <2>5. \A j \in 1..Chunks[m] : <<r, m, j>> \in ActionIds \ {a}
    BY <1>1, <2>3, <2>4, ScenarioFacts DEF ActionIds
  <2>6. \A j \in 1..Chunks[m] : d.actions[<<r, m, j>>] = db.actions[<<r, m, j>>]
    BY <1>4, <2>5
  <2>7. ChunksFit(db, r, m, task[h].chunk, task[h].lost)
    BY <1>10 DEF OutcomesInv, ChunksAwaited
  <2> QED
    BY <2>6, <2>7 DEF ChunksFit
<1>11. \A h \in Handlers : task[h].pc = "relaying" =>
         /\ ChunksFit(d, task[h].request, task[h].message, task[h].chunk, task[h].lost)
         /\ ChunksFit(e, task[h].request, task[h].message, task[h].chunk, task[h].lost)
  BY <1>6, <1>10 DEF ChunksFit
<1> QED
  BY <1>2, <1>3, <1>9, <1>11, QuietTables

\* What is left when an uncertain message was moved to the web inbox.
LEMMA MovedIs ==
  ASSUME db \in Tables, NEW a \in ActionIds, MoveToWeb(a)
  PROVE  \E e \in Tables :
           /\ OnlyTables(e) /\ e.messages = db.messages
           /\ e.takeovers = db.takeovers \cup {a[1]}
           /\ e.acked \subseteq db.acked \cup {a[1]} /\ db.acked \subseteq e.acked
           /\ db.actions[a].initial => a[1] \in e.acked
           /\ TopicOf(e, a[1]) = WebTopic
           /\ e.requests[a[1]].status = db.requests[a[1]].status
           /\ e.requests[a[1]].client = db.requests[a[1]].client
           /\ \A q \in Requests \ {a[1]} : e.requests[q] = db.requests[q]
           /\ \A b \in ActionIds :
                IF b[1] = a[1] /\ b[2] = a[2] /\ Uncertain(b)
                THEN /\ e.actions[b].status = "abandoned"
                     /\ e.actions[b].initial = db.actions[b].initial
                ELSE e.actions[b] = db.actions[b]
<1> DEFINE r == a[1]
           moved == SwitchOperatorTopic(db, r, WebTopic)
           told == IF db.actions[a].initial
                   THEN EnqueueHandoffAcknowledgement(moved, r) ELSE moved
           resolved == ResolveAsWeb(told, a)
           e == RecordWebTakeover(resolved, r)
<1>1. r \in Requests /\ WebTopic \in Places
  BY DEF ActionIds, Places
<1>2. OnlyTables(e)
  BY DEF MoveToWeb
<1>3. /\ moved \in Tables /\ moved.actions = db.actions /\ moved.messages = db.messages
      /\ moved.takeovers = db.takeovers /\ moved.acked = db.acked
      /\ moved.requests[r].status = db.requests[r].status
      /\ moved.requests[r].client = db.requests[r].client /\ moved.requests[r].topic = WebTopic
      /\ \A q \in Requests \ {r} : moved.requests[q] = db.requests[q]
  BY <1>1, SwitchIs
<1> HIDE DEF moved, r
<1>4. /\ told \in Tables /\ told.requests = moved.requests /\ told.actions = moved.actions
      /\ told.messages = moved.messages /\ told.takeovers = moved.takeovers
      /\ told.acked \subseteq moved.acked \cup {r} /\ moved.acked \subseteq told.acked
      /\ db.actions[a].initial => r \in told.acked
  BY <1>1, <1>3, NotesAre
<1> HIDE DEF told
<1>5. /\ resolved \in Tables /\ resolved.requests = told.requests
      /\ resolved.messages = told.messages /\ resolved.takeovers = told.takeovers
      /\ resolved.acked = told.acked
      /\ \A b \in ActionIds :
           IF b[1] = a[1] /\ b[2] = a[2] /\ Uncertain(b)
           THEN /\ resolved.actions[b].status = "abandoned"
                /\ resolved.actions[b].initial = told.actions[b].initial
           ELSE resolved.actions[b] = told.actions[b]
  <2> DEFINE hit(b) == b[1] = a[1] /\ b[2] = a[2] /\ Uncertain(b)
             rows == [b \in ActionIds |->
                        IF hit(b) THEN [told.actions[b] EXCEPT !.status = "abandoned"]
                        ELSE told.actions[b]]
  <2>1. \A b \in ActionIds :
          /\ rows[b] \in ActionRow
          /\ IF hit(b) THEN /\ rows[b].status = "abandoned"
                            /\ rows[b].initial = told.actions[b].initial
             ELSE rows[b] = told.actions[b]
    <3> TAKE b \in ActionIds
    <3> DEFINE x == [told.actions[b] EXCEPT !.status = "abandoned"]
    <3>1. told.actions[b] \in ActionRow
      BY <1>4 DEF Tables
    <3>2. x \in ActionRow /\ x.status = "abandoned" /\ x.initial = told.actions[b].initial
      BY <3>1 DEF ActionRow, Statuses
    <3> HIDE DEF x
    <3>3. rows[b] = IF hit(b) THEN x ELSE told.actions[b]
      BY DEF x
    <3> HIDE DEF hit, rows
    <3> QED
      BY <3>1, <3>2, <3>3
  <2>2. rows \in [ActionIds -> ActionRow]
    BY <2>1
  <2>3. resolved = [told EXCEPT !.actions = rows]
    BY DEF ResolveAsWeb
  <2> HIDE DEF rows, resolved
  <2>4. /\ resolved \in Tables /\ resolved.requests = told.requests
        /\ resolved.messages = told.messages /\ resolved.takeovers = told.takeovers
        /\ resolved.acked = told.acked /\ resolved.actions = rows
    BY <1>4, <2>2, <2>3 DEF Tables
  <2> QED
    BY <2>1, <2>4
<1> HIDE DEF resolved
<1>6. /\ e \in Tables /\ e.requests = resolved.requests /\ e.actions = resolved.actions
      /\ e.messages = resolved.messages /\ e.takeovers = resolved.takeovers \cup {r}
      /\ e.acked = resolved.acked
  BY <1>1, <1>5, NotesAre
<1> HIDE DEF e
<1>7. TopicOf(e, r) = WebTopic /\ e.requests = moved.requests
  BY <1>3, <1>4, <1>5, <1>6 DEF TopicOf
<1> QED
  BY <1>2, <1>3, <1>4, <1>5, <1>6, <1>7 DEF r

\* The owner moves the request of an uncertain message to the web inbox.
LEMMA MoveIsQuiet ==
  ASSUME NEW owner \in Owners, HandoffFits(owner), OutcomesInv,
         NEW a \in ActionIds, MoveToWeb(a)
  PROVE  QuietStep
<1>1. db \in Tables /\ scenario \in Scenario /\ OutcomesFit(db)
  BY DEF HandoffFits, HandoffTyped, OutcomesInv
<1>2. PICK e \in Tables :
           /\ OnlyTables(e) /\ e.messages = db.messages
           /\ e.takeovers = db.takeovers \cup {a[1]}
           /\ e.acked \subseteq db.acked \cup {a[1]}
           /\ TopicOf(e, a[1]) = WebTopic
           /\ \A q \in Requests \ {a[1]} : e.requests[q] = db.requests[q]
           /\ \A b \in ActionIds :
                IF b[1] = a[1] /\ b[2] = a[2] /\ Uncertain(b)
                THEN /\ e.actions[b].status = "abandoned"
                     /\ e.actions[b].initial = db.actions[b].initial
                ELSE e.actions[b] = db.actions[b]
  BY <1>1, MovedIs
<1>3. \A b \in ActionIds :
        /\ e.actions[b].initial = db.actions[b].initial
        /\ \/ e.actions[b].status = db.actions[b].status
           \/ /\ db.actions[b].status = "outcome_unknown"
              /\ e.actions[b].status = "abandoned" /\ b[1] = a[1]
  BY <1>2 DEF Uncertain
<1>4. OutcomesFit(e)
  <2>1. \A r \in Requests : TopicOf(e, r) \in {TopicOf(db, r), WebTopic}
    BY <1>2 DEF TopicOf
  <2>2. \A b \in ActionIds : e.actions[b].status = "abandoned" =>
          \/ db.actions[b].status = "abandoned"
          \/ b[1] \in e.takeovers /\ TopicOf(e, b[1]) = WebTopic
    BY <1>2, <1>3
  <2>3. \A r \in e.acked : r \in db.acked \/ r \in e.takeovers
    BY <1>2
  <2> QED
    BY <1>1, <1>2, <1>3, <2>1, <2>2, <2>3, RowsAge
<1>5. ASSUME NEW h \in Handlers, task[h].pc = "relaying"
      PROVE  ChunksFit(e, task[h].request, task[h].message, task[h].chunk, task[h].lost)
  <2> DEFINE r == task[h].request
             m == task[h].message
  <2>1. Awaited(h) \in ActionIds
    BY <1>5 DEF HandoffFits, TaskFits, Working, Sending
  <2>2. r \in Requests /\ m \in Messages
    BY <2>1 DEF Awaited, ActionIds
  <2>3. \A j \in 1..Chunks[m] : <<r, m, j>> \in ActionIds
    BY <1>1, <2>2, ScenarioFacts DEF ActionIds
  <2>4. ChunksFit(db, r, m, task[h].chunk, task[h].lost)
    BY <1>5 DEF OutcomesInv, ChunksAwaited
  <2>5. \A j \in 1..Chunks[m] :
          \/ e.actions[<<r, m, j>>].status = db.actions[<<r, m, j>>].status
          \/ /\ db.actions[<<r, m, j>>].status = "outcome_unknown"
             /\ e.actions[<<r, m, j>>].status = "abandoned"
    BY <1>3, <2>3
  <2> HIDE DEF r, m
  <2>6. ChunksFit(e, r, m, task[h].chunk, task[h].lost)
    BY <2>4, <2>5 DEF ChunksFit
  <2> QED
    BY <2>6 DEF r, m
<1> QED
  BY <1>2, <1>4, <1>5, QuietTables

\* After a crash what was being sent is uncertain.
LEMMA CrashIsQuiet ==
  ASSUME NEW owner \in Owners, HandoffFits(owner), OutcomesInv, CrashAndRestart
  PROVE  QuietStep
<1>1. db \in Tables /\ scenario \in Scenario /\ OutcomesFit(db)
  BY DEF HandoffFits, HandoffTyped, OutcomesInv
<1> DEFINE rows == [a \in ActionIds |->
                      IF db.actions[a].status = "sending"
                      THEN [db.actions[a] EXCEPT !.status = "outcome_unknown"]
                      ELSE db.actions[a]]
<1>2. \A a \in ActionIds :
        /\ rows[a] \in ActionRow /\ rows[a].initial = db.actions[a].initial
        /\ \/ rows[a].status = db.actions[a].status
           \/ db.actions[a].status = "sending" /\ rows[a].status = "outcome_unknown"
  <2> TAKE a \in ActionIds
  <2> DEFINE x == [db.actions[a] EXCEPT !.status = "outcome_unknown"]
  <2>1. db.actions[a] \in ActionRow
    BY <1>1 DEF Tables
  <2>2. x \in ActionRow /\ x.status = "outcome_unknown" /\ x.initial = db.actions[a].initial
    BY <2>1 DEF ActionRow, Statuses
  <2> HIDE DEF x
  <2>3. rows[a] = IF db.actions[a].status = "sending" THEN x ELSE db.actions[a]
    BY DEF x
  <2> HIDE DEF rows
  <2> QED
    BY <2>1, <2>2, <2>3
<1>3. rows \in [ActionIds -> ActionRow]
  BY <1>2
<1>4. db' = [db EXCEPT !.actions = rows]
  BY DEF CrashAndRestart, RecoverActions
<1> HIDE DEF rows
<1>5. /\ db' \in Tables /\ db'.requests = db.requests /\ db'.messages = db.messages
      /\ db'.takeovers = db.takeovers /\ db'.acked = db.acked /\ db'.actions = rows
  BY <1>1, <1>3, <1>4 DEF Tables
<1>6. OutcomesFit(db')
  <2>1. \A r \in Requests : TopicOf(db', r) \in {TopicOf(db, r), WebTopic}
    BY <1>5 DEF TopicOf
  <2>2. \A b \in ActionIds :
          /\ db'.actions[b].initial = db.actions[b].initial
          /\ \/ db'.actions[b].status = db.actions[b].status
             \/ /\ db.actions[b].status = "sending"
                /\ db'.actions[b].status = "outcome_unknown"
    BY <1>2, <1>5
  <2>3. \A b \in ActionIds : db'.actions[b].status = "abandoned" => db.actions[b].status = "abandoned"
    BY <2>2
  <2> QED
    BY <1>1, <1>5, <2>1, <2>2, <2>3, RowsAge
<1>7. \A h \in Handlers : task'[h].pc = "idle"
  BY DEF CrashAndRestart, NoTask
<1>8. ASSUME NEW h \in Handlers, NEW i \in 1..Len(stream[h])
      PROVE  ~Completes(h, i)
  <2>1. stream[h] \in Seq(Event)
    BY DEF HandoffFits, HandoffTyped
  <2>2. stream'[h] = ReleaseEvents(stream[h])
    BY DEF CrashAndRestart
  <2>3. stream[h][i] \in Event
    BY <1>8, <2>1, ElementOfSeq
  <2>4. stream'[h][i] = IF stream[h][i].status = "processing"
                        THEN [stream[h][i] EXCEPT !.status = "none"] ELSE stream[h][i]
    BY <1>8, <2>2 DEF ReleaseEvents
  <2>5. stream'[h][i].status = "completed" => stream[h][i].status = "completed"
    BY <2>3, <2>4 DEF Event
  <2> QED
    BY <2>5 DEF Completes
<1> QED
  BY <1>6, <1>7, <1>8 DEF QuietStep

\* Steps of the environment and of the runtimes leave the tables and the tasks alone.
LEMMA NothingHappened ==
  ASSUME OutcomesInv, db' = db, task' = task,
         \A h \in Handlers : \A i \in 1..Len(stream[h]) : stream'[h][i] = stream[h][i]
  PROVE  QuietStep
BY DEF OutcomesInv, ChunksAwaited, QuietStep, Completes

\* An update arrives.
LEMMA ArrivalIsQuiet ==
  ASSUME NEW owner \in Owners, HandoffFits(owner), OutcomesInv,
         NEW h \in Handlers, NEW kind, NEW x, NEW at, Arrive(h, kind, x, at)
  PROVE  QuietStep
<1> DEFINE e == [kind |-> kind, of |-> x, at |-> at, status |-> "none"]
<1>1. \A g \in Handlers : stream[g] \in Seq(Event)
  BY DEF HandoffFits, HandoffTyped
<1>2. stream \in [Handlers -> Seq(Event)]
  BY DEF HandoffFits, HandoffTyped
<1>3. stream' = [stream EXCEPT ![h] = Append(@, e)] /\ db' = db /\ task' = task
  BY DEF Arrive
<1> HIDE DEF e
<1>4. \A g \in Handlers : \A i \in 1..Len(stream[g]) : stream'[g][i] = stream[g][i]
  <2> TAKE g \in Handlers
  <2> TAKE i \in 1..Len(stream[g])
  <2>1. stream'[g] = IF g = h THEN Append(stream[g], e) ELSE stream[g]
    BY <1>2, <1>3
  <2> QED
    BY <1>1, <2>1
<1> QED
  BY <1>3, <1>4, NothingHappened

-----------------------------------------------------------------------------
(* No message is lost.                                                     *)

\* What NothingLost says of a step.
KeepsMessages ==
  \A h \in Handlers : \A i \in 1..Len(stream[h]) :
    Completes(h, i) =>
      LET m == stream[h][i].of IN
      \E r \in Requests : <<r, m>> \in db'.messages /\ Placed(db, db', r, m)

\* The step keeps the invariant of the outcomes, and loses no message.
OutcomesStep ==
  /\ OutcomesFit(db')
  /\ \A h \in Handlers : task'[h].pc = "relaying" =>
       /\ task'[h].topic # WebTopic
       /\ ChunksFit(db', task'[h].request, task'[h].message, task'[h].chunk, task'[h].lost)
  /\ KeepsMessages

\* A quiet step does.
LEMMA QuietOutcomes ==
  ASSUME OutcomesInv, QuietStep
  PROVE  OutcomesStep
BY DEF OutcomesInv, ChunksAwaited, QuietStep, OutcomesStep, KeepsMessages

\* A message under way is another poller's: its rows stay as they were.
LEMMA OtherRelayStays ==
  ASSUME NEW owner \in Owners, HandoffFits(owner), OutcomesInv, NEW h \in Handlers,
         taken[h] < Len(stream[h]), NEW m \in Messages,
         Current(h).kind = "message", Current(h).of = m,
         NEW d, \A a \in ActionIds : a[2] # m => d.actions[a] = db.actions[a],
         NEW g \in Handlers, g # h, task[g].pc = "relaying"
  PROVE  /\ task[g].topic # WebTopic
         /\ ChunksFit(d, task[g].request, task[g].message, task[g].chunk, task[g].lost)
<1> DEFINE q == task[g].request
           n == task[g].message
<1>1. /\ n \in Messages /\ q \in Requests /\ taken[g] < Len(stream[g])
      /\ Current(g).kind = "message" /\ Current(g).of = n
  BY AtWork DEF Working
<1>2. n # m
  BY <1>1, OwnMessage DEF HandoffFits
<1>3. ChunksFit(db, q, n, task[g].chunk, task[g].lost) /\ task[g].topic # WebTopic
  BY DEF OutcomesInv, ChunksAwaited
<1>4. \A j \in 1..Chunks[n] : <<q, n, j>> \in ActionIds
  <2>1. Chunks \in [Messages -> 1..MaxChunks] /\ MaxChunks \in Nat
    BY ScenarioFacts DEF HandoffFits, HandoffTyped
  <2>2. Chunks[n] \in 1..MaxChunks
    BY <1>1, <2>1
  <2> HIDE DEF q, n
  <2> QED
    BY <1>1, <2>1, <2>2 DEF ActionIds
<1> HIDE DEF q, n
<1>5. \A j \in 1..Chunks[n] : d.actions[<<q, n, j>>] = db.actions[<<q, n, j>>]
  BY <1>2, <1>4
<1>6. ChunksFit(d, q, n, task[g].chunk, task[g].lost)
  BY <1>3, <1>5 DEF ChunksFit
<1> QED
  BY <1>3, <1>6 DEF q, n

\* The message of an update that is finished is the one to complete.
LEMMA OneCompleted ==
  ASSUME HandoffTyped, NEW h \in Handlers, taken[h] < Len(stream[h]),
         NEW s \in {"none", "processing", "completed"}, Marked(h, s),
         NEW r \in Requests, <<r, Current(h).of>> \in db'.messages,
         s = "completed" => Placed(db, db', r, Current(h).of)
  PROVE  KeepsMessages
<1>1. /\ \A g \in Handlers : \A i \in 1..Len(stream[g]) :
           ~(g = h /\ i = taken[h] + 1) => stream'[g][i] = stream[g][i]
      /\ stream'[h][taken[h] + 1].status = s
  BY MarkedUpdate
<1> SUFFICES ASSUME NEW g \in Handlers, NEW i \in 1..Len(stream[g]), Completes(g, i)
             PROVE  \E q \in Requests : /\ <<q, stream[g][i].of>> \in db'.messages
                                        /\ Placed(db, db', q, stream[g][i].of)
  BY DEF KeepsMessages
<1>2. g = h /\ i = taken[h] + 1
  BY <1>1 DEF Completes
<1>3. s = "completed"
  BY <1>1, <1>2 DEF Completes
<1> QED
  BY <1>2, <1>3 DEF Current

\* A poller's step on a message.
LEMMA MessageStepOutcomes ==
  ASSUME NEW owner \in Owners, HandoffFits(owner), OutcomesInv, NEW h \in Handlers,
         taken[h] < Len(stream[h]), NEW m \in Messages,
         Current(h).kind = "message", Current(h).of = m,
         NEW r \in Requests, MessageStep(h, r, m)
  PROVE  OutcomesStep
<1>1. HandoffTyped /\ task \in [Handlers -> TaskRow]
  BY DEF HandoffFits, HandoffTyped
<1>2. \A a \in ActionIds : a[2] # m => db'.actions[a] = db.actions[a]
  BY DEF MessageStep, Turn
<1>3. \/ Finish(h, db') /\ Placed(db, db', r, m)
      \/ Fail(h, db')
      \/ \E t \in Places \ {WebTopic} : NextChunk(h, r, m, t)
  BY DEF MessageStep
<1>4. \E s \in {"none", "processing", "completed"} :
        /\ Marked(h, s)
        /\ s = "completed" => Placed(db, db', r, m)
        /\ \/ task' = [task EXCEPT ![h] = NoTask]
           \/ \E k \in 1..Chunks[m], l \in BOOLEAN, t \in Places \ {WebTopic} :
                task' = [task EXCEPT ![h] = RelayTask(r, m, k, t, l)] /\ ChunksFit(db', r, m, k, l)
  <2>1. CASE Finish(h, db') /\ Placed(db, db', r, m)
    BY <2>1 DEF Finish, Marked, CompleteEvent
  <2>2. CASE Fail(h, db')
    BY <2>2 DEF Fail, Marked
  <2>3. CASE \E t \in Places \ {WebTopic} : NextChunk(h, r, m, t)
    <3>1. PICK t \in Places \ {WebTopic} : NextChunk(h, r, m, t)
      BY <2>3
    <3>2. PICK k \in 1..Chunks[m], l \in BOOLEAN :
            Await(h, db', RelayTask(r, m, k, t, l)) /\ ChunksFit(db', r, m, k, l)
      BY <3>1 DEF NextChunk
    <3>3. Marked(h, "processing") /\ task' = [task EXCEPT ![h] = RelayTask(r, m, k, t, l)]
      BY <3>2 DEF Await, Marked
    <3> QED
      BY <3>2, <3>3
  <2> QED
    BY <1>3, <2>1, <2>2, <2>3
<1>5. KeepsMessages
  BY <1>1, <1>4, OneCompleted DEF MessageStep
<1>6. ASSUME NEW g \in Handlers, task'[g].pc = "relaying"
      PROVE  /\ task'[g].topic # WebTopic
             /\ ChunksFit(db', task'[g].request, task'[g].message, task'[g].chunk, task'[g].lost)
  <2>1. CASE g # h
    <3>1. task'[g] = task[g]
      BY <1>1, <1>4, <2>1
    <3> QED
      BY <1>2, <1>6, <2>1, <3>1, OtherRelayStays
  <2>2. CASE g = h
    <3>1. task'[h] # NoTask
      BY <1>6, <2>2 DEF NoTask
    <3>2. PICK k \in 1..Chunks[m], l \in BOOLEAN, t \in Places \ {WebTopic} :
            task' = [task EXCEPT ![h] = RelayTask(r, m, k, t, l)] /\ ChunksFit(db', r, m, k, l)
      BY <1>1, <1>4, <3>1
    <3>3. task'[h] = RelayTask(r, m, k, t, l)
      BY <1>1, <3>2
    <3> QED
      BY <2>2, <3>2, <3>3 DEF RelayTask
  <2> QED
    BY <2>1, <2>2
<1> QED
  BY <1>5, <1>6 DEF OutcomesStep, MessageStep

\* A poller's step that opens a request.
LEMMA CreationOutcomes ==
  ASSUME NEW owner \in Owners, HandoffFits(owner), OutcomesInv, NEW h \in Handlers,
         taken[h] < Len(stream[h]), NEW m \in Messages,
         Current(h).kind = "message", Current(h).of = m,
         NEW r \in Requests, CreationStep(h, r, m)
  PROVE  OutcomesStep
<1>1. HandoffTyped /\ task \in [Handlers -> TaskRow]
  BY DEF HandoffFits, HandoffTyped
<1>2. \A a \in ActionIds : a[2] # m => db'.actions[a] = db.actions[a]
  BY DEF CreationStep
<1>3. /\ <<r, m>> \in db'.messages /\ Placed(db, db', r, m)
      /\ \/ Finish(h, db')
         \/ \E t : Await(h, db', [pc |-> "opening", request |-> r, message |-> m,
                                  chunk |-> 0, topic |-> t, lost |-> FALSE])
  BY DEF CreationStep, Placed
<1>4. \E s \in {"none", "processing", "completed"} : \E x :
        Marked(h, s) /\ task' = [task EXCEPT ![h] = x] /\ x.pc # "relaying"
  <2>1. CASE Finish(h, db')
    <3>1. NoTask.pc # "relaying"
      BY DEF NoTask
    <3> QED
      BY <2>1, <3>1 DEF Finish, Marked, CompleteEvent
  <2>2. ASSUME NEW t, Await(h, db', [pc |-> "opening", request |-> r, message |-> m,
                                     chunk |-> 0, topic |-> t, lost |-> FALSE])
        PROVE  \E s \in {"none", "processing", "completed"} : \E x :
                 Marked(h, s) /\ task' = [task EXCEPT ![h] = x] /\ x.pc # "relaying"
    <3> DEFINE x == [pc |-> "opening", request |-> r, message |-> m,
                     chunk |-> 0, topic |-> t, lost |-> FALSE]
    <3>1. Await(h, db', x) /\ x.pc # "relaying"
      BY <2>2
    <3> HIDE DEF x
    <3> QED
      BY <3>1 DEF Await, Marked
  <2> QED
    BY <1>3, <2>1, <2>2
<1>5. KeepsMessages
  BY <1>1, <1>3, <1>4, OneCompleted
<1>6. ASSUME NEW g \in Handlers, task'[g].pc = "relaying"
      PROVE  /\ task'[g].topic # WebTopic
             /\ ChunksFit(db', task'[g].request, task'[g].message, task'[g].chunk, task'[g].lost)
  <2>1. g # h /\ task'[g] = task[g]
    BY <1>1, <1>4, <1>6
  <2> QED
    BY <1>2, <1>6, <2>1, OtherRelayStays
<1> QED
  BY <1>5, <1>6 DEF OutcomesStep, CreationStep

\* A poller takes the next update.
LEMMA TakingOutcomes ==
  ASSUME NEW owner \in Owners, HandoffFits(owner), OutcomesInv, NEW h \in Handlers,
         TakeUpdate(h)
  PROVE  OutcomesStep
<1> DEFINE e == Current(h)
<1>1. taken[h] < Len(stream[h]) /\ task[h].pc = "idle" /\ RouteUpdate(h)
  BY DEF TakeUpdate
<1>2. \/ db' = db /\ stream' = stream /\ task' = task
      \/ e.kind = "message" /\ ProcessClientMessage(h, e.of)
      \/ e.kind = "newQuestion" /\ ResetConversation(h, e.of)
      \/ e.kind \notin {"message", "newQuestion"} /\ HandleOperatorUpdate(h, e)
  BY <1>1 DEF RouteUpdate
<1> HIDE DEF e
<1>3. CASE db' = db /\ stream' = stream /\ task' = task
  BY <1>3, NothingHappened, QuietOutcomes
<1>4. CASE e.kind = "message" /\ ProcessClientMessage(h, e.of)
  <2>1. e.of \in Messages /\ e.kind = Current(h).kind /\ e.of = Current(h).of
    BY <1>1, <1>4, OwnMessage DEF HandoffFits, e
  <2> DEFINE r == FindActiveRequest(db, Sender[e.of])
  <2>2. \/ r \in Requests /\ MessageStep(h, r, e.of)
        \/ \E q \in Requests : CreationStep(h, q, e.of)
    BY <1>1, <1>4, <2>1, MessageProcessed
  <2> HIDE DEF r
  <2> QED
    BY <1>1, <1>4, <2>1, <2>2, MessageStepOutcomes, CreationOutcomes
<1>5. CASE e.kind = "newQuestion" /\ ResetConversation(h, e.of)
  BY <1>1, <1>5, ResetTurn, QuietPoller, QuietOutcomes DEF e
<1>6. CASE e.kind \notin {"message", "newQuestion"} /\ HandleOperatorUpdate(h, e)
  BY <1>1, <1>6, OperatorUpdateTurn, QuietPoller, QuietOutcomes DEF e
<1> QED
  BY <1>2, <1>3, <1>4, <1>5, <1>6

\* Telegram answers.
LEMMA AnswersOutcomes ==
  ASSUME NEW owner \in Owners, HandoffFits(owner), OutcomesInv, NEW h \in Handlers,
         Answer(h)
  PROVE  OutcomesStep
<1>1. CASE \/ RelayAccepted(h) \/ RelayUnanswered(h) \/ RelayRejected(h)
           \/ OpenAccepted(h) \/ OpenUnanswered(h) \/ OpenRejected(h)
  <2> DEFINE r == task[h].request
             m == task[h].message
  <2>1. Working(h)
    BY <1>1 DEF Working, RelayAccepted, RelayUnanswered, RelayRejected, OpenAccepted,
                OpenUnanswered, OpenRejected
  <2>2. /\ r \in Requests /\ m \in Messages /\ taken[h] < Len(stream[h])
        /\ Current(h).kind = "message" /\ Current(h).of = m
    BY <2>1, AtWork
  <2>3. OpenUnanswered(h) => MessageStep(h, r, m)
    BY OpeningUnknown DEF OpenUnanswered
  <2>4. MessageStep(h, r, m)
    BY <1>1, <2>3, RelayAnswered, RelayRefused, OpeningAccepted, OpeningRefused
  <2> HIDE DEF r, m
  <2> QED
    BY <2>2, <2>4, MessageStepOutcomes
<1>2. CASE TopicCloseAnswered(h) \/ ReopenAnswered(h) \/ ResetAnswered(h) \/ MenuAnswered(h)
  BY <1>2, AnswerTurn, QuietPoller, QuietOutcomes
<1> QED
  BY <1>1, <1>2 DEF Answer

\* Whatever happens, outcomes fit and no message is lost.
LEMMA StepsOutcomes ==
  ASSUME NEW owner \in Owners, HandoffFits(owner), OutcomesInv, Act
  PROVE  OutcomesStep
<1>1. ASSUME NEW h \in Handlers, TakeUpdate(h) \/ ConfirmUpdates(h) \/ Answer(h)
      PROVE  OutcomesStep
  <2>1. CASE TakeUpdate(h)
    BY <2>1, TakingOutcomes
  <2>2. CASE ConfirmUpdates(h)
    BY <2>2, NothingHappened, QuietOutcomes DEF ConfirmUpdates
  <2>3. CASE Answer(h)
    BY <2>3, AnswersOutcomes
  <2> QED
    BY <1>1, <2>1, <2>2, <2>3
<1>2. CASE \/ \E m \in Messages : ClientWrites(m)
           \/ \E t \in Topics :
                \/ \E kind \in Kinds \ {"topicClosed", "newQuestion"} : OperatorWrites(kind, t)
                \/ OperatorClosesTopic(t)
           \/ \E c \in TelegramClients : ClientResets(c)
  <2>1. \E h \in Handlers : \E kind, x, at : Arrive(h, kind, x, at)
    BY <1>2 DEF ClientWrites, OperatorWrites, OperatorClosesTopic, ClientResets, Handlers,
                HandlerOf
  <2> QED
    BY <2>1, ArrivalIsQuiet, QuietOutcomes
<1>3. CASE Connect \/ Disconnect \/ Stopped
  <2>1. db' = db /\ stream' = stream /\ task' = task
    BY <1>3 DEF Connect, Disconnect, Stopped, SetTelegram
  <2> QED
    BY <2>1, NothingHappened, QuietOutcomes
<1>4. ASSUME NEW r \in Requests, WebReply(r) \/ WebClose(r)
      PROVE  OutcomesStep
  BY <1>4, WebIsQuiet, QuietOutcomes
<1>5. ASSUME NEW a \in ActionIds, ConfirmReceived(a) \/ MoveToWeb(a)
      PROVE  OutcomesStep
  BY <1>5, ConfirmIsQuiet, MoveIsQuiet, QuietOutcomes
<1>6. CASE CrashAndRestart
  BY <1>6, CrashIsQuiet, QuietOutcomes
<1> QED
  BY <1>1, <1>2, <1>3, <1>4, <1>5, <1>6 DEF Act

\* What the outcomes say does not depend on anything but tables and tasks.
LEMMA OutcomesPrimed ==
  ASSUME scenario' = scenario, OutcomesStep
  PROVE  OutcomesInv'
<1>0. Chunks' = Chunks
  BY DEF Chunks
<1>1. AckedHonestly(db)'
  BY <1>0 DEF OutcomesStep, OutcomesFit, AckedHonestly, Sent
<1>2. AbandonedInWeb(db)'
  BY DEF OutcomesStep, OutcomesFit, AbandonedInWeb, TopicOf
<1>3. ChunksTogether(db)'
  BY <1>0 DEF OutcomesStep, OutcomesFit, ChunksTogether, Present
<1>4. OpeningsFit(db)'
  BY DEF OutcomesStep, OutcomesFit, OpeningsFit, Present, TopicOf
<1>5. RowsRecorded(db)'
  BY DEF OutcomesStep, OutcomesFit, RowsRecorded, Present
<1>6. \A h \in Handlers : ChunksAwaited(h)'
  BY <1>0 DEF OutcomesStep, ChunksAwaited, ChunksFit
<1> QED
  BY <1>1, <1>2, <1>3, <1>4, <1>5, <1>6 DEF OutcomesInv, OutcomesFit

\* The first of empty tables.
LEMMA OutcomesInit ==
  ASSUME Init
  PROVE  OutcomesInv
<1>1. /\ db.acked = {} /\ \A a \in ActionIds : db.actions[a].status = "absent"
      /\ \A h \in Handlers : task[h].pc = "idle"
  BY DEF Init, NoAction, NoTask
<1> QED
  BY <1>1 DEF OutcomesInv, OutcomesFit, AckedHonestly, AbandonedInWeb, ChunksTogether,
              OpeningsFit, RowsRecorded, ChunksAwaited, Present

\* The outcomes of relays: what was told to clients has a reason, and what is
\* awaited follows what was done.
THEOREM OutcomesInvariant == Spec => []OutcomesInv
<1>1. ASSUME HandoffInv, OutcomesInv, [Next]_vars
      PROVE  OutcomesInv'
  <2>1. CASE UNCHANGED vars
    BY <1>1, <2>1 DEF vars, OutcomesInv, OutcomesFit, AckedHonestly, AbandonedInWeb,
                      ChunksTogether, OpeningsFit, RowsRecorded, ChunksAwaited, ChunksFit,
                      Present, Sent, TopicOf, Chunks
  <2>2. CASE Act /\ scenario' = scenario
    BY <1>1, <2>2, StepsOutcomes, OutcomesPrimed DEF HandoffInv
  <2> QED
    BY <1>1, <2>1, <2>2 DEF Next
<1> QED
  BY <1>1, OutcomesInit, HandoffInvariant, PTL DEF Spec

\* A message whose update is completed is with the operators: in the topic, in the
\* web inbox or among the uncertain relays.
THEOREM NothingLostAlways == Spec => NothingLost
<1> DEFINE Lost ==
      \A h \in Handlers : \A i \in 1..Len(stream[h]) :
        Completes(h, i) =>
          LET m == stream[h][i].of IN
          \E r \in Requests :
            /\ <<r, m>> \in db'.messages
            /\ \/ Active(db', r) /\ TopicOf(db', r) = WebTopic
               \/ Unknown(db', r, m)
               \/ Sent(db', r, m)
               \/ <<r, m>> \in db.messages /\ TopicOf(db, r) = WebTopic
<1>1. ASSUME HandoffInv, OutcomesInv, [Next]_vars
      PROVE  [Lost]_vars
  <2>1. CASE UNCHANGED vars
    BY <2>1
  <2>2. CASE Act
    <3>1. KeepsMessages
      BY <1>1, <2>2, StepsOutcomes DEF HandoffInv, OutcomesStep
    <3>2. Lost
      BY <3>1 DEF KeepsMessages, Placed
    <3> QED
      BY <3>2
  <2> QED
    BY <1>1, <2>1, <2>2 DEF Next
<1>2. Spec => [][Lost]_vars
  BY <1>1, HandoffInvariant, OutcomesInvariant, PTL DEF Spec
<1> QED
  BY <1>2 DEF NothingLost

-----------------------------------------------------------------------------
(* Whoever is done with was told.  Of a client's latest request this says  *)
(* who is still to tell him: until then it has only the message it was     *)
(* opened for, and that message's update is the next one of its poller.    *)

IsLatest(d, r) ==
  /\ Exists(d, r)
  /\ \A q \in Requests :
       Exists(d, q) /\ d.requests[q].client = d.requests[r].client => q <= r

\* r is the latest request of the client of an older request q.
Newer(d, r, q) ==
  IsLatest(d, r) /\ q # r /\ d.requests[q].client = d.requests[r].client

\* Operators have to see to the request's first message, or the client was told.
Unclear(d, r) ==
  \E a \in ActionIds :
    a[1] = r /\ d.actions[a].initial /\ d.actions[a].status = "outcome_unknown"
Told(d, r) == r \in d.acked \/ Unclear(d, r)

BeingOpened(d, r) ==
  \E a \in ActionIds : a[1] = r /\ a[3] = 0 /\ d.actions[a].status = "sending"

\* The update that carries the only message of the request.
OpenedBy(d, r, e) ==
  /\ e.kind = "message" /\ e.status # "completed"
  /\ <<r, e.of>> \in d.messages
  /\ \A m \in Messages : <<r, m>> \in d.messages => m = e.of

OpenerIsNext(d, s, r) ==
  \E h \in Handlers : \E i \in 1..Len(s[h]) :
    /\ OpenedBy(d, r, s[h][i])
    /\ \A j \in 1..Len(s[h]) : j < i => s[h][j].status = "completed"

\* Nothing but the relay of that message was begun, and it was begun.
OnlyInitial(d, r) ==
  \A a \in ActionIds : a[1] = r /\ Present(d, a) =>
    d.actions[a].initial /\ d.actions[a].status # "abandoned"
OnItsWay(d, r) ==
  /\ OnlyInitial(d, r)
  /\ BeingOpened(d, r) \/ (TopicOf(d, r) # WebTopic /\ SomeChunk(d, r))

LatestIsTold(d, s) ==
  \A r \in Requests : IsLatest(d, r) /\ ~Told(d, r) =>
    OpenerIsNext(d, s, r) /\ OnItsWay(d, r)

\* An older request is active, reopened or relayed to only when the client was
\* told about the latest one, or soon is.
Handled(d, r) == Told(d, r) \/ BeingOpened(d, r)
OlderActive(d) ==
  \A q, r \in Requests : Active(d, q) /\ Newer(d, r, q) => Handled(d, r)
OlderReopening(d, t) ==
  \A h \in Handlers : t[h].pc = "reopening" =>
    /\ t[h].request \in Requests
    /\ \A r \in Requests : Newer(d, r, t[h].request) => Active(d, r) \/ Handled(d, r)
OlderRelayed(d, t) ==
  \A h \in Handlers : t[h].pc \in {"relaying", "opening"} =>
    /\ t[h].request \in Requests
    /\ \A r \in Requests : Newer(d, r, t[h].request) => Told(d, r)

\* Updates are done with in their order; one that is claimed is the poller's.
UpdatesInOrder(s, n, t) ==
  \A h \in Handlers : \A i \in 1..Len(s[h]) :
    /\ i <= n[h] => s[h][i].status = "completed"
    /\ s[h][i].status = "processing" => i = n[h] + 1 /\ t[h].pc # "idle"
    /\ h = "vk" => s[h][i].kind = "message"

\* A message that is done with was recorded.
CompletedIsRecorded(d, s) ==
  \A h \in Handlers : \A i \in 1..Len(s[h]) :
    s[h][i].kind = "message" /\ s[h][i].status = "completed" =>
      \E r \in Requests : <<r, s[h][i].of>> \in d.messages

ToldFits(d, s, t) ==
  /\ LatestIsTold(d, s) /\ OlderActive(d) /\ OlderReopening(d, t) /\ OlderRelayed(d, t)
  /\ CompletedIsRecorded(d, s)

ToldInv == UpdatesInOrder(stream, taken, task) /\ ToldFits(db, stream, task)

-----------------------------------------------------------------------------
(* The order of updates.                                                   *)

\* Updates stay, completed ones stay completed, and new ones are still to be taken.
EventsKept(s, u) ==
  \A h \in Handlers :
    /\ Len(s[h]) <= Len(u[h]) /\ Len(u[h]) \in Nat
    /\ \A i \in 1..Len(s[h]) :
         /\ u[h][i].kind = s[h][i].kind /\ u[h][i].of = s[h][i].of
         /\ s[h][i].status = "completed" => u[h][i].status = "completed"
    /\ \A i \in 1..Len(u[h]) : i > Len(s[h]) => u[h][i].status = "none"

UpdatesStep == EventsKept(stream, stream') /\ UpdatesInOrder(stream', taken', task')

\* A poller's update is done with, left for a retry, or something is awaited.
PollerEnd(h) ==
  \/ Finish(h, db') \/ Fail(h, db')
  \/ \E t : t.pc # "idle" /\ Await(h, db', t)

\* What becomes of the update, the task and the poller's position.
LEMMA PollerEndIs ==
  ASSUME HandoffTyped, NEW h \in Handlers, taken[h] < Len(stream[h]), PollerEnd(h)
  PROVE  \E s \in {"none", "processing", "completed"} : \E t :
           /\ Marked(h, s) /\ task' = [task EXCEPT ![h] = t]
           /\ s = "processing" => t.pc # "idle"
           /\ \A g \in Handlers \ {h} : taken'[g] = taken[g] /\ task'[g] = task[g]
           /\ task'[h] = t
           /\ taken'[h] = IF s = "completed" THEN taken[h] + 1 ELSE taken[h]
<1>0. task \in [Handlers -> TaskRow] /\ taken \in [Handlers -> Nat]
  BY DEF HandoffTyped
<1>1. \E s \in {"none", "processing", "completed"} : \E t :
           /\ Marked(h, s) /\ task' = [task EXCEPT ![h] = t]
           /\ s = "processing" => t.pc # "idle"
           /\ taken' = IF s = "completed" THEN [taken EXCEPT ![h] = @ + 1] ELSE taken
  <2>1. CASE Finish(h, db')
    <3>1. Marked(h, "completed") /\ task' = [task EXCEPT ![h] = NoTask]
          /\ taken' = [taken EXCEPT ![h] = @ + 1]
      BY <2>1 DEF Finish, Marked, CompleteEvent
    <3> QED
      BY <3>1
  <2>2. CASE Fail(h, db')
    <3>1. Marked(h, "none") /\ task' = [task EXCEPT ![h] = NoTask] /\ taken' = taken
      BY <2>2 DEF Fail, Marked
    <3> QED
      BY <3>1
  <2>3. ASSUME NEW t, t.pc # "idle", Await(h, db', t)
        PROVE  Marked(h, "processing") /\ task' = [task EXCEPT ![h] = t] /\ taken' = taken
    BY <2>3 DEF Await, Marked
  <2> QED
    BY <2>1, <2>2, <2>3 DEF PollerEnd
<1>2. PICK s \in {"none", "processing", "completed"} : \E t :
           /\ Marked(h, s) /\ task' = [task EXCEPT ![h] = t]
           /\ s = "processing" => t.pc # "idle"
           /\ taken' = IF s = "completed" THEN [taken EXCEPT ![h] = @ + 1] ELSE taken
  BY <1>1
<1>3. PICK t :
           /\ Marked(h, s) /\ task' = [task EXCEPT ![h] = t]
           /\ s = "processing" => t.pc # "idle"
           /\ taken' = IF s = "completed" THEN [taken EXCEPT ![h] = @ + 1] ELSE taken
  BY <1>2
<1>4. /\ \A g \in Handlers \ {h} : taken'[g] = taken[g] /\ task'[g] = task[g]
      /\ task'[h] = t
      /\ taken'[h] = IF s = "completed" THEN taken[h] + 1 ELSE taken[h]
  BY <1>0, <1>3
<1> QED
  BY <1>3, <1>4

\* The poller's own update is the only one whose status changes.
LEMMA PollerInOrder ==
  ASSUME HandoffTyped, UpdatesInOrder(stream, taken, task),
         NEW h \in Handlers, taken[h] < Len(stream[h]), Current(h).status # "completed",
         PollerEnd(h)
  PROVE  UpdatesStep
<1>0. PICK s \in {"none", "processing", "completed"} : \E t :
           /\ Marked(h, s)
           /\ s = "processing" => t.pc # "idle"
           /\ \A g \in Handlers \ {h} : taken'[g] = taken[g] /\ task'[g] = task[g]
           /\ task'[h] = t
           /\ taken'[h] = IF s = "completed" THEN taken[h] + 1 ELSE taken[h]
  BY PollerEndIs
<1>1. PICK t :
           /\ Marked(h, s)
           /\ s = "processing" => t.pc # "idle"
           /\ \A g \in Handlers \ {h} : taken'[g] = taken[g] /\ task'[g] = task[g]
           /\ task'[h] = t
           /\ taken'[h] = IF s = "completed" THEN taken[h] + 1 ELSE taken[h]
  BY <1>0
<1>2. /\ \A g \in Handlers : Len(stream'[g]) = Len(stream[g])
      /\ \A g \in Handlers : \A i \in 1..Len(stream[g]) :
           /\ stream'[g][i].kind = stream[g][i].kind
           /\ stream'[g][i].of = stream[g][i].of
           /\ ~(g = h /\ i = taken[h] + 1) => stream'[g][i] = stream[g][i]
      /\ stream'[h][taken[h] + 1].status = s
  BY <1>1, MarkedUpdate
<1>3. \A g \in Handlers : Len(stream[g]) \in Nat /\ taken[g] \in Nat
  BY DEF HandoffTyped
<1>4. stream[h][taken[h] + 1].status # "completed"
  BY DEF Current
<1>5. EventsKept(stream, stream')
  <2> SUFFICES ASSUME NEW g \in Handlers
               PROVE  /\ Len(stream[g]) <= Len(stream'[g]) /\ Len(stream'[g]) \in Nat
                      /\ \A i \in 1..Len(stream[g]) :
                           /\ stream'[g][i].kind = stream[g][i].kind
                           /\ stream'[g][i].of = stream[g][i].of
                           /\ stream[g][i].status = "completed" => stream'[g][i].status = "completed"
                      /\ \A i \in 1..Len(stream'[g]) : i > Len(stream[g]) => stream'[g][i].status = "none"
    BY DEF EventsKept
  <2>1. ASSUME NEW i \in 1..Len(stream[g]), stream[g][i].status = "completed"
        PROVE  stream'[g][i].status = "completed"
    BY <1>2, <1>4, <2>1
  <2>2. Len(stream[g]) <= Len(stream'[g]) /\ Len(stream'[g]) \in Nat
        /\ \A i \in 1..Len(stream'[g]) : ~(i > Len(stream[g]))
    BY <1>2, <1>3
  <2> QED
    BY <1>2, <2>1, <2>2
<1>6. ASSUME NEW g \in Handlers, NEW i \in 1..Len(stream'[g])
      PROVE  /\ i <= taken'[g] => stream'[g][i].status = "completed"
             /\ stream'[g][i].status = "processing" => i = taken'[g] + 1 /\ task'[g].pc # "idle"
             /\ g = "vk" => stream'[g][i].kind = "message"
  <2>1. i \in 1..Len(stream[g]) /\ i \in Nat
    BY <1>2, <1>3
  <2>2. /\ i <= taken[g] => stream[g][i].status = "completed"
        /\ stream[g][i].status = "processing" => i = taken[g] + 1 /\ task[g].pc # "idle"
        /\ g = "vk" => stream[g][i].kind = "message"
    BY <2>1 DEF UpdatesInOrder
  <2>3. stream'[g][i].kind = stream[g][i].kind
    BY <1>2, <2>1
  <2>4. CASE g # h
    <3>1. stream'[g][i] = stream[g][i] /\ taken'[g] = taken[g] /\ task'[g] = task[g]
      BY <1>1, <1>2, <2>1, <2>4
    <3> QED
      BY <2>2, <3>1
  <2>5. CASE g = h /\ i # taken[h] + 1
    <3>1. stream'[g][i] = stream[g][i]
      BY <1>2, <2>1, <2>5
    <3>2. stream[g][i].status # "processing"
      BY <2>2, <2>5
    <3>3. i <= taken'[g] => i <= taken[g]
      BY <1>1, <1>3, <2>1, <2>5
    <3> QED
      BY <2>2, <3>1, <3>2, <3>3
  <2>6. CASE g = h /\ i = taken[h] + 1
    <3>1. stream'[g][i].status = s
      BY <1>2, <2>6
    <3>2. i <= taken'[g] => s = "completed"
      BY <1>1, <1>3, <2>6
    <3>3. s = "processing" => i = taken'[g] + 1 /\ task'[g].pc # "idle"
      BY <1>1, <2>6
    <3> QED
      BY <2>2, <2>3, <3>1, <3>2, <3>3
  <2> QED
    BY <2>4, <2>5, <2>6
<1> QED
  BY <1>5, <1>6 DEF UpdatesStep, UpdatesInOrder

\* Steps that leave the updates and the tasks alone move no position forward.
LEMMA StillInOrder ==
  ASSUME HandoffTyped, UpdatesInOrder(stream, taken, task),
         stream' = stream, task' = task,
         \A h \in Handlers :
           taken'[h] = taken[h] \/ (task[h].pc = "idle" /\ taken'[h] \in Nat /\ taken'[h] <= taken[h])
  PROVE  UpdatesStep
<1>1. \A g \in Handlers : Len(stream[g]) \in Nat /\ taken[g] \in Nat
  BY DEF HandoffTyped
<1>2. EventsKept(stream, stream')
  BY <1>1 DEF EventsKept
<1>3. ASSUME NEW g \in Handlers, NEW i \in 1..Len(stream[g])
      PROVE  /\ i <= taken'[g] => stream[g][i].status = "completed"
             /\ stream[g][i].status = "processing" => i = taken'[g] + 1 /\ task[g].pc # "idle"
             /\ g = "vk" => stream[g][i].kind = "message"
  <2>1. /\ i <= taken[g] => stream[g][i].status = "completed"
        /\ stream[g][i].status = "processing" => i = taken[g] + 1 /\ task[g].pc # "idle"
        /\ g = "vk" => stream[g][i].kind = "message"
    BY DEF UpdatesInOrder
  <2>2. i <= taken'[g] => i <= taken[g]
    BY <1>1
  <2>3. task[g].pc # "idle" => taken'[g] = taken[g]
    OBVIOUS
  <2> QED
    BY <2>1, <2>2, <2>3
<1> QED
  BY <1>2, <1>3 DEF UpdatesStep, UpdatesInOrder

\* An update that was claimed before is skipped: it was completed.
LEMMA SkippedInOrder ==
  ASSUME HandoffTyped, UpdatesInOrder(stream, taken, task), NEW h \in Handlers,
         taken[h] < Len(stream[h]), task[h].pc = "idle", Current(h).status # "none",
         stream' = stream, task' = task, taken' = [taken EXCEPT ![h] = @ + 1]
  PROVE  UpdatesStep
<1>1. /\ \A g \in Handlers : Len(stream[g]) \in Nat /\ taken[g] \in Nat
      /\ taken \in [Handlers -> Nat] /\ stream \in [Handlers -> Seq(Event)]
  BY DEF HandoffTyped
<1>2. EventsKept(stream, stream')
  BY <1>1 DEF EventsKept
<1>3. taken[h] + 1 \in 1..Len(stream[h])
  BY <1>1
<1>4. stream[h][taken[h] + 1].status = "completed"
  <2>1. stream[h][taken[h] + 1] \in Event
    BY <1>1, <1>3, ElementOfSeq
  <2>2. stream[h][taken[h] + 1].status # "processing"
    BY <1>3 DEF UpdatesInOrder
  <2> QED
    BY <2>1, <2>2 DEF Event, Current
<1>5. taken'[h] = taken[h] + 1 /\ \A g \in Handlers \ {h} : taken'[g] = taken[g]
  BY <1>1
<1>6. ASSUME NEW g \in Handlers, NEW i \in 1..Len(stream[g])
      PROVE  /\ i <= taken'[g] => stream[g][i].status = "completed"
             /\ stream[g][i].status = "processing" => i = taken'[g] + 1 /\ task[g].pc # "idle"
             /\ g = "vk" => stream[g][i].kind = "message"
  <2>1. /\ i <= taken[g] => stream[g][i].status = "completed"
        /\ stream[g][i].status = "processing" => i = taken[g] + 1 /\ task[g].pc # "idle"
        /\ g = "vk" => stream[g][i].kind = "message"
    BY DEF UpdatesInOrder
  <2>2. CASE g # h
    BY <1>5, <2>1, <2>2
  <2>3. CASE g = h
    <3>1. stream[g][i].status # "processing"
      BY <2>1, <2>3
    <3>2. i <= taken'[g] => i <= taken[g] \/ i = taken[h] + 1
      BY <1>1, <1>5, <2>3
    <3> QED
      BY <1>4, <2>1, <2>3, <3>1, <3>2
  <2> QED
    BY <2>2, <2>3
<1> QED
  BY <1>2, <1>6 DEF UpdatesStep, UpdatesInOrder

\* An update arrives behind the others.
LEMMA ArrivedInOrder ==
  ASSUME HandoffTyped, UpdatesInOrder(stream, taken, task), NEW h \in Handlers,
         NEW kind, NEW x, NEW at, Arrive(h, kind, x, at), h = "vk" => kind = "message"
  PROVE  UpdatesStep
<1> DEFINE e == [kind |-> kind, of |-> x, at |-> at, status |-> "none"]
<1>1. /\ stream \in [Handlers -> Seq(Event)]
      /\ \A g \in Handlers : Len(stream[g]) \in Nat /\ taken[g] \in Nat /\ taken[g] <= Len(stream[g])
  BY DEF HandoffTyped
<1>2. stream' = [stream EXCEPT ![h] = Append(@, e)] /\ taken' = taken /\ task' = task
  BY DEF Arrive
<1>3. e.status = "none" /\ e.kind = kind
  OBVIOUS
<1> HIDE DEF e
<1>4. /\ stream'[h] = Append(stream[h], e) /\ \A g \in Handlers \ {h} : stream'[g] = stream[g]
      /\ stream[h] \in Seq(Event)
  BY <1>1, <1>2
<1>5. /\ Len(stream'[h]) = Len(stream[h]) + 1
      /\ \A i \in 1..Len(stream[h]) : stream'[h][i] = stream[h][i]
      /\ stream'[h][Len(stream[h]) + 1] = e
  BY <1>4
<1>6. \A g \in Handlers :
        /\ Len(stream[g]) <= Len(stream'[g]) /\ Len(stream'[g]) \in Nat
        /\ \A i \in 1..Len(stream[g]) : stream'[g][i] = stream[g][i]
        /\ \A i \in 1..Len(stream'[g]) :
             \/ i \in 1..Len(stream[g])
             \/ g = h /\ stream'[g][i] = e /\ i > Len(stream[g])
  <2> TAKE g \in Handlers
  <2>1. CASE g = h
    BY <1>1, <1>5, <2>1
  <2>2. CASE g # h
    BY <1>1, <1>4, <2>2
  <2> QED
    BY <2>1, <2>2
<1>7. EventsKept(stream, stream')
  <2> SUFFICES ASSUME NEW g \in Handlers
               PROVE  /\ Len(stream[g]) <= Len(stream'[g]) /\ Len(stream'[g]) \in Nat
                      /\ \A i \in 1..Len(stream[g]) :
                           /\ stream'[g][i].kind = stream[g][i].kind
                           /\ stream'[g][i].of = stream[g][i].of
                           /\ stream[g][i].status = "completed" => stream'[g][i].status = "completed"
                      /\ \A i \in 1..Len(stream'[g]) : i > Len(stream[g]) => stream'[g][i].status = "none"
    BY DEF EventsKept
  <2>1. ASSUME NEW i \in 1..Len(stream'[g]), i > Len(stream[g])
        PROVE  stream'[g][i].status = "none"
    <3>1. i \notin 1..Len(stream[g])
      BY <1>1, <2>1
    <3> QED
      BY <1>3, <1>6, <3>1
  <2> QED
    BY <1>6, <2>1
<1>8. ASSUME NEW g \in Handlers, NEW i \in 1..Len(stream'[g])
      PROVE  /\ i <= taken'[g] => stream'[g][i].status = "completed"
             /\ stream'[g][i].status = "processing" => i = taken'[g] + 1 /\ task'[g].pc # "idle"
             /\ g = "vk" => stream'[g][i].kind = "message"
  <2>1. CASE i \in 1..Len(stream[g])
    BY <1>2, <1>6, <2>1 DEF UpdatesInOrder
  <2>2. CASE g = h /\ stream'[g][i] = e /\ i > Len(stream[g])
    <3>1. ~(i <= taken'[g])
      BY <1>1, <1>2, <2>2
    <3> QED
      BY <1>3, <2>2, <3>1
  <2> QED
    BY <1>6, <2>1, <2>2
<1> QED
  BY <1>7, <1>8 DEF UpdatesStep, UpdatesInOrder

\* After a crash nothing is claimed.
LEMMA CrashInOrder ==
  ASSUME HandoffTyped, UpdatesInOrder(stream, taken, task), CrashAndRestart
  PROVE  UpdatesStep
<1>1. /\ stream \in [Handlers -> Seq(Event)]
      /\ \A g \in Handlers : /\ Len(stream[g]) \in Nat /\ taken[g] \in Nat
                             /\ confirmed[g] \in Nat /\ confirmed[g] <= taken[g]
  BY DEF HandoffTyped
<1>2. /\ stream' = [h \in Handlers |-> ReleaseEvents(stream[h])] /\ taken' = confirmed
  BY DEF CrashAndRestart
<1>3. ASSUME NEW g \in Handlers
      PROVE  /\ Len(stream'[g]) = Len(stream[g])
             /\ \A i \in 1..Len(stream[g]) :
                  /\ stream'[g][i].kind = stream[g][i].kind
                  /\ stream'[g][i].of = stream[g][i].of
                  /\ stream[g][i].status = "completed" => stream'[g][i].status = "completed"
                  /\ stream'[g][i].status # "processing"
  <2> DEFINE s == stream[g]
             f(i) == IF s[i].status = "processing" THEN [s[i] EXCEPT !.status = "none"] ELSE s[i]
             u == [i \in 1..Len(s) |-> f(i)]
  <2>1. stream'[g] = u
    BY <1>2 DEF ReleaseEvents
  <2>2. ASSUME NEW i \in 1..Len(s)
        PROVE  /\ f(i).kind = s[i].kind /\ f(i).of = s[i].of /\ f(i).status # "processing"
               /\ s[i].status = "completed" => f(i).status = "completed"
    <3>1. s[i] \in Event
      BY <1>1, <2>2, ElementOfSeq
    <3>2. LET y == [s[i] EXCEPT !.status = "none"] IN
          y.kind = s[i].kind /\ y.of = s[i].of /\ y.status = "none"
      BY <3>1 DEF Event
    <3> QED
      BY <3>2
  <2>3. Len(s) \in Nat
    BY <1>1
  <2> HIDE DEF s, f
  <2>4. Len(u) = Len(s) /\ \A i \in 1..Len(s) : u[i] = f(i)
    BY <2>3
  <2> HIDE DEF u
  <2> QED
    BY <2>1, <2>2, <2>4 DEF s
<1>4. EventsKept(stream, stream')
  BY <1>1, <1>3 DEF EventsKept
<1>5. ASSUME NEW g \in Handlers, NEW i \in 1..Len(stream'[g])
      PROVE  /\ i <= taken'[g] => stream'[g][i].status = "completed"
             /\ stream'[g][i].status # "processing"
             /\ g = "vk" => stream'[g][i].kind = "message"
  <2>1. i \in 1..Len(stream[g])
    BY <1>3
  <2>2. i <= taken'[g] => i <= taken[g]
    BY <1>1, <1>2, <2>1
  <2> QED
    BY <1>3, <2>1, <2>2 DEF UpdatesInOrder
<1> QED
  BY <1>4, <1>5 DEF UpdatesStep, UpdatesInOrder

-----------------------------------------------------------------------------
(* Steps that are not about a message leave nobody untold.                 *)

\* What such a step may do to what clients were told.
Hushed(d, e) ==
  /\ e.messages = d.messages
  /\ \A r \in Requests :
       /\ Exists(e, r) <=> Exists(d, r)
       /\ e.requests[r].client = d.requests[r].client
       /\ Told(d, r) => Told(e, r)
       /\ BeingOpened(d, r) => Handled(e, r)
       /\ OnItsWay(d, r) => OnItsWay(e, r) \/ Told(e, r)

\* What is known of a request stays known.
LEMMA HushedKeeps ==
  ASSUME NEW d, NEW e, Hushed(d, e)
  PROVE  /\ \A r \in Requests : IsLatest(e, r) => IsLatest(d, r)
         /\ \A r, q \in Requests : Newer(e, r, q) => Newer(d, r, q)
         /\ \A r \in Requests : Handled(d, r) => Handled(e, r)
<1>1. \A r \in Requests : IsLatest(e, r) => IsLatest(d, r)
  BY DEF Hushed, IsLatest
<1>2. \A r, q \in Requests : Newer(e, r, q) => Newer(d, r, q)
  BY <1>1 DEF Hushed, Newer
<1>3. \A r \in Requests : Handled(d, r) => Handled(e, r)
  BY DEF Hushed, Handled
<1> QED
  BY <1>1, <1>2, <1>3

\* The update that is to tell a client is still the next one.
LEMMA OpenerStays ==
  ASSUME NEW d, NEW e, NEW s, NEW u, NEW r,
         \A h \in Handlers : Len(s[h]) \in Nat,
         EventsKept(s, u), OpenerIsNext(d, s, r),
         \A m \in Messages : <<r, m>> \in e.messages <=> <<r, m>> \in d.messages,
         \A h \in Handlers : \A i \in 1..Len(s[h]) :
           OpenedBy(d, r, s[h][i]) =>
             u[h][i].status # "completed" /\ s[h][i].of \in Messages
  PROVE  OpenerIsNext(e, u, r)
<1>0. PICK h \in Handlers : \E i \in 1..Len(s[h]) :
        /\ OpenedBy(d, r, s[h][i])
        /\ \A j \in 1..Len(s[h]) : j < i => s[h][j].status = "completed"
  BY DEF OpenerIsNext
<1>1. PICK i \in 1..Len(s[h]) :
        /\ OpenedBy(d, r, s[h][i])
        /\ \A j \in 1..Len(s[h]) : j < i => s[h][j].status = "completed"
  BY <1>0
<1>2. /\ Len(s[h]) <= Len(u[h]) /\ Len(u[h]) \in Nat /\ Len(s[h]) \in Nat
      /\ u[h][i].kind = s[h][i].kind /\ u[h][i].of = s[h][i].of
      /\ \A j \in 1..Len(s[h]) : s[h][j].status = "completed" => u[h][j].status = "completed"
  BY DEF EventsKept
<1>3. i \in 1..Len(u[h]) /\ \A j \in 1..Len(u[h]) : j < i => j \in 1..Len(s[h])
  BY <1>2
<1>4. \A j \in 1..Len(u[h]) : j < i => u[h][j].status = "completed"
  BY <1>1, <1>2, <1>3
<1>5. OpenedBy(e, r, u[h][i])
  BY <1>1, <1>2 DEF OpenedBy
<1> QED
  BY <1>3, <1>4, <1>5 DEF OpenerIsNext

\* A message that is done with stays recorded.
LEMMA RecordedStays ==
  ASSUME NEW d, NEW e, NEW s, NEW u,
         \A h \in Handlers : Len(s[h]) \in Nat,
         EventsKept(s, u), CompletedIsRecorded(d, s), d.messages \subseteq e.messages,
         \A h \in Handlers : \A i \in 1..Len(s[h]) :
           /\ u[h][i].kind = "message" /\ u[h][i].status = "completed"
           /\ s[h][i].status # "completed"
           => \E r \in Requests : <<r, s[h][i].of>> \in e.messages
  PROVE  CompletedIsRecorded(e, u)
<1> SUFFICES ASSUME NEW h \in Handlers, NEW i \in 1..Len(u[h]),
                    u[h][i].kind = "message", u[h][i].status = "completed"
             PROVE  \E r \in Requests : <<r, u[h][i].of>> \in e.messages
  BY DEF CompletedIsRecorded
<1>1. ~(i > Len(s[h]))
  BY DEF EventsKept
<1>2. i \in 1..Len(s[h])
  BY <1>1 DEF EventsKept
<1>3. u[h][i].kind = s[h][i].kind /\ u[h][i].of = s[h][i].of
  BY <1>2 DEF EventsKept
<1>4. CASE s[h][i].status = "completed"
  BY <1>2, <1>3, <1>4 DEF CompletedIsRecorded
<1>5. CASE s[h][i].status # "completed"
  BY <1>2, <1>3, <1>5
<1> QED
  BY <1>4, <1>5

\* Requests become active, and tasks are taken up, only in favour of the latest
\* request or where its client was told.
LEMMA HushedFits ==
  ASSUME HandoffTyped, UpdatesFit, ToldFits(db, stream, task), QuietStep,
         EventsKept(stream, stream'), Hushed(db, db'),
         \A q \in Requests : Active(db', q) =>
           Active(db, q) \/ \A r \in Requests : Newer(db, r, q) => Handled(db, r),
         \A h \in Handlers :
           \/ /\ task'[h] = task[h]
              /\ task[h].pc = "reopening" =>
                   \A r \in Requests :
                     Newer(db, r, task[h].request) /\ Active(db, r) =>
                       Active(db', r) \/ Handled(db', r)
           \/ /\ task'[h].pc \notin {"relaying", "opening"}
              /\ task'[h].pc = "reopening" =>
                   /\ task'[h].request \in Requests
                   /\ \A r \in Requests : ~Newer(db, r, task'[h].request)
  PROVE  ToldFits(db', stream', task')
<1>1. /\ \A r \in Requests : IsLatest(db', r) => IsLatest(db, r)
      /\ \A r, q \in Requests : Newer(db', r, q) => Newer(db, r, q)
      /\ \A r \in Requests : Handled(db, r) => Handled(db', r)
  BY HushedKeeps
<1>2. \A h \in Handlers : Len(stream[h]) \in Nat
  BY DEF HandoffTyped
<1>3. \A h \in Handlers : \A i \in 1..Len(stream[h]) :
        /\ stream'[h][i].kind = stream[h][i].kind
        /\ ~(/\ stream'[h][i].kind = "message" /\ stream'[h][i].status = "completed"
             /\ stream[h][i].status # "completed")
  BY DEF QuietStep, Completes, EventsKept
<1>4. LatestIsTold(db', stream')
  <2> SUFFICES ASSUME NEW r \in Requests, IsLatest(db', r), ~Told(db', r)
               PROVE  OpenerIsNext(db', stream', r) /\ OnItsWay(db', r)
    BY DEF LatestIsTold
  <2>1. IsLatest(db, r) /\ ~Told(db, r)
    BY <1>1 DEF Hushed
  <2>2. OpenerIsNext(db, stream, r) /\ OnItsWay(db, r)
    BY <2>1 DEF ToldFits, LatestIsTold
  <2>3. OnItsWay(db', r)
    BY <2>2 DEF Hushed
  <2>4. \A h \in Handlers : \A i \in 1..Len(stream[h]) :
           OpenedBy(db, r, stream[h][i]) =>
             stream'[h][i].status # "completed" /\ stream[h][i].of \in Messages
    BY <1>3 DEF OpenedBy, UpdatesFit
  <2>5. db'.messages = db.messages
    BY DEF Hushed
  <2>6. OpenerIsNext(db', stream', r)
    BY <1>2, <2>2, <2>4, <2>5, OpenerStays
  <2> QED
    BY <2>3, <2>6
<1>5. OlderActive(db')
  BY <1>1 DEF OlderActive, ToldFits
<1>6. OlderReopening(db', task')
  <2> SUFFICES ASSUME NEW h \in Handlers, task'[h].pc = "reopening"
               PROVE  /\ task'[h].request \in Requests
                      /\ \A r \in Requests :
                           Newer(db', r, task'[h].request) => Active(db', r) \/ Handled(db', r)
    BY DEF OlderReopening
  <2>1. CASE /\ task'[h] = task[h]
             /\ task[h].pc = "reopening" =>
                  \A r \in Requests :
                    Newer(db, r, task[h].request) /\ Active(db, r) =>
                      Active(db', r) \/ Handled(db', r)
    <3>1. /\ task[h].request \in Requests
          /\ \A r \in Requests : Newer(db, r, task[h].request) => Active(db, r) \/ Handled(db, r)
      BY <2>1 DEF ToldFits, OlderReopening
    <3> QED
      BY <1>1, <2>1, <3>1
  <2>2. CASE /\ task'[h].pc = "reopening" =>
                   /\ task'[h].request \in Requests
                   /\ \A r \in Requests : ~Newer(db, r, task'[h].request)
    BY <1>1, <2>2
  <2> QED
    BY <2>1, <2>2
<1>7. OlderRelayed(db', task')
  <2> SUFFICES ASSUME NEW h \in Handlers, task'[h].pc \in {"relaying", "opening"}
               PROVE  /\ task'[h].request \in Requests
                      /\ \A r \in Requests : Newer(db', r, task'[h].request) => Told(db', r)
    BY DEF OlderRelayed
  <2>1. task'[h] = task[h]
    OBVIOUS
  <2>2. /\ task[h].request \in Requests
        /\ \A r \in Requests : Newer(db, r, task[h].request) => Told(db, r)
    BY <2>1 DEF ToldFits, OlderRelayed
  <2> QED
    BY <1>1, <2>1, <2>2 DEF Hushed
<1>8. CompletedIsRecorded(db', stream')
  <2>1. CompletedIsRecorded(db, stream) /\ db'.messages = db.messages
    BY DEF ToldFits, Hushed
  <2> QED
    BY <1>2, <1>3, <2>1, RecordedStays
<1> QED
  BY <1>4, <1>5, <1>6, <1>7, <1>8 DEF ToldFits

\* Nothing is told or untold where no row of an action, topic or note changes.
LEMMA SameOutcomeHushed ==
  ASSUME NEW d, NEW e, SameOutcome(d, e)
  PROVE  Hushed(d, e)
<1>1. /\ e.actions = d.actions /\ e.messages = d.messages /\ e.acked = d.acked
      /\ \A q \in Requests :
           /\ TopicOf(e, q) = TopicOf(d, q) /\ e.requests[q].client = d.requests[q].client
           /\ Exists(e, q) <=> Exists(d, q)
  BY DEF SameOutcome
<1>2. \A r \in Requests : /\ Told(d, r) <=> Told(e, r)
                          /\ BeingOpened(d, r) <=> BeingOpened(e, r)
  BY <1>1 DEF Told, Unclear, BeingOpened
<1>3. \A r \in Requests : OnItsWay(d, r) => OnItsWay(e, r)
  BY <1>1, <1>2 DEF OnItsWay, OnlyInitial, SomeChunk, Present
<1> QED
  BY <1>1, <1>2, <1>3 DEF Hushed, Handled

\* No request is newer than one that can be reopened.
LEMMA ReopenedIsLatest ==
  ASSUME NEW d, NEW q \in Requests, CanReopenRequest(d, q)
  PROVE  \A r \in Requests : ~Newer(d, r, q)
<1> SUFFICES ASSUME NEW r \in Requests, Newer(d, r, q)
             PROVE  FALSE
  OBVIOUS
<1> DEFINE c == d.requests[q].client
<1>1. FindLatestRequest(d, c) = q /\ q # 0
  BY DEF CanReopenRequest, Requests
<1>2. Exists(d, q) /\ \A x \in Requests : Exists(d, x) /\ d.requests[x].client = c => x <= q
  <2> HIDE DEF c
  <2>1. LET x == FindLatestRequest(d, c) IN
         /\ x # 0 => Exists(d, x) /\ d.requests[x].client = c
         /\ \A y \in Requests : Exists(d, y) /\ d.requests[y].client = c => y <= x
    BY FoundLatest
  <2> QED
    BY <1>1, <2>1
<1>3. r <= q /\ q <= r /\ r # q
  BY <1>2 DEF Newer, IsLatest
<1> QED
  BY <1>3 DEF Requests

\* A request whose topic was awaited becomes active beside no other.
LEMMA ReopenedIsTold ==
  ASSUME OneActive(db), OlderReopening(db, task), NEW h \in Handlers, task[h].pc = "reopening",
         NoOtherActive(db, task[h].request)
  PROVE  \A r \in Requests : Newer(db, r, task[h].request) => Handled(db, r)
<1> DEFINE q == task[h].request
           c == db.requests[q].client
           f == FindActiveRequest(db, c)
<1> SUFFICES ASSUME NEW r \in Requests, Newer(db, r, q)
             PROVE  Handled(db, r)
  OBVIOUS
<1>1. q \in Requests /\ (Active(db, r) \/ Handled(db, r))
  BY DEF OlderReopening
<1>2. f \in {0, q}
  BY DEF NoOtherActive
<1>3. db.requests[r].client = c /\ r # q
  BY DEF Newer
<1>4. /\ f # 0 => Active(db, f) /\ db.requests[f].client = c
      /\ f = 0 => \A x \in Requests : Active(db, x) => db.requests[x].client # c
  <2> HIDE DEF c
  <2> QED
    BY FoundActive
<1> HIDE DEF f, c, q
<1>5. ~Active(db, r)
  BY <1>1, <1>2, <1>3, <1>4 DEF OneActive
<1> QED
  BY <1>1, <1>5

\* Only the Telegram poller takes updates that are no messages.
LEMMA OnlyTelegramReopens ==
  ASSUME NEW owner \in Owners, HandoffFits(owner), UpdatesInOrder(stream, taken, task),
         NEW h \in Handlers, taken[h] < Len(stream[h]), Current(h).kind # "message",
         NEW g \in Handlers, task[g].pc = "reopening"
  PROVE  g = h
<1>1. \A x \in Handlers : Len(stream[x]) \in Nat /\ taken[x] \in Nat
  BY DEF HandoffFits, HandoffTyped
<1>2. taken[g] < Len(stream[g]) /\ Current(g).kind # "message"
  BY DEF HandoffFits, TaskFits, Working
<1>3. ASSUME NEW x \in Handlers, taken[x] < Len(stream[x]), Current(x).kind # "message"
      PROVE  x = "telegram"
  <2>1. taken[x] + 1 \in 1..Len(stream[x])
    BY <1>1, <1>3
  <2> QED
    BY <1>3, <2>1 DEF UpdatesInOrder, Current, Handlers
<1> QED
  BY <1>2, <1>3

\* A poller's step that is not about a message.
LEMMA QuietTurnTold ==
  ASSUME NEW owner \in Owners, HandoffFits(owner), OutcomesInv, ToldInv, NEW h \in Handlers,
         taken[h] < Len(stream[h]), Current(h).kind # "message", QuietTurn(h),
         EventsKept(stream, stream')
  PROVE  ToldFits(db', stream', task')
<1>1. /\ HandoffTyped /\ UpdatesFit /\ OneActive(db) /\ ToldFits(db, stream, task)
      /\ OlderReopening(db, task) /\ task \in [Handlers -> TaskRow]
  BY DEF HandoffFits, HandoffTyped, TablesFit, ToldInv, ToldFits
<1>2. QuietStep
  BY QuietPoller
<1>3. PICK d : /\ SameOutcome(db, d) /\ QuietEnd(h, d)
               /\ \A q \in Requests : Active(d, q) =>
                    \/ Active(db, q) \/ CanReopenRequest(db, q)
                    \/ task[h].pc = "reopening" /\ q = task[h].request /\ NoOtherActive(db, q)
  BY DEF QuietTurn
<1>4. \E s \in {"none", "processing", "completed"} : \E t :
           /\ db' = d /\ Marked(h, s) /\ task' = [task EXCEPT ![h] = t]
           /\ t.pc \notin {"relaying", "opening"}
           /\ t.pc = "reopening" => t.request \in Requests /\ CanReopenRequest(db, t.request)
  BY <1>3, QuietEndIs
<1>5. PICK t : /\ db' = d /\ task' = [task EXCEPT ![h] = t]
               /\ t.pc \notin {"relaying", "opening"}
               /\ t.pc = "reopening" => t.request \in Requests /\ CanReopenRequest(db, t.request)
  BY <1>4
<1>6. Hushed(db, db')
  BY <1>3, <1>5, SameOutcomeHushed
<1>7. ASSUME NEW q \in Requests, Active(db', q)
      PROVE  Active(db, q) \/ \A r \in Requests : Newer(db, r, q) => Handled(db, r)
  <2>1. CASE CanReopenRequest(db, q)
    BY <2>1, ReopenedIsLatest
  <2>2. CASE task[h].pc = "reopening" /\ q = task[h].request /\ NoOtherActive(db, q)
    BY <1>1, <2>2, ReopenedIsTold
  <2> QED
    BY <1>3, <1>5, <1>7, <2>1, <2>2
<1>8. ASSUME NEW g \in Handlers
      PROVE  \/ task'[g] = task[g] /\ task[g].pc # "reopening"
             \/ /\ task'[g].pc \notin {"relaying", "opening"}
                /\ task'[g].pc = "reopening" =>
                     /\ task'[g].request \in Requests
                     /\ \A r \in Requests : ~Newer(db, r, task'[g].request)
  <2>1. CASE g = h
    <3>1. task'[g] = t
      BY <1>1, <1>5, <2>1
    <3> QED
      BY <1>5, <3>1, ReopenedIsLatest
  <2>2. CASE g # h
    <3>1. task'[g] = task[g]
      BY <1>1, <1>5, <2>2
    <3>2. task[g].pc # "reopening"
      BY <2>2, OnlyTelegramReopens DEF ToldInv
    <3> QED
      BY <3>1, <3>2
  <2> QED
    BY <2>1, <2>2
<1> QED
  BY <1>1, <1>2, <1>6, <1>7, <1>8, HushedFits

\* Only the tables change, and only requests whose client was told, or soon is,
\* are closed.
LEMMA TablesTold ==
  ASSUME NEW owner, HandoffFits(owner), ToldInv, QuietStep, EventsKept(stream, stream'),
         Hushed(db, db'), task' = task,
         \A r \in Requests : Active(db', r) => Active(db, r),
         \A r \in Requests : Active(db, r) => Active(db', r) \/ TopicOf(db, r) = WebTopic
  PROVE  ToldFits(db', stream', task')
<1>1. HandoffTyped /\ UpdatesFit /\ ToldFits(db, stream, task)
  BY DEF HandoffFits, ToldInv
<1>2. ASSUME NEW r \in Requests, NEW q, Newer(db, r, q), Active(db, r)
      PROVE  Active(db', r) \/ Handled(db', r)
  <2>1. CASE Active(db', r)
    BY <2>1
  <2>2. CASE TopicOf(db, r) = WebTopic
    <3>1. Told(db, r) \/ OnItsWay(db, r)
      BY <1>1, <1>2 DEF ToldFits, LatestIsTold, Newer
    <3>2. Handled(db, r)
      BY <2>2, <3>1 DEF OnItsWay, Handled
    <3> QED
      BY <3>2, HushedKeeps
  <2> QED
    BY <1>2, <2>1, <2>2
<1> QED
  BY <1>1, <1>2, HushedFits

\* A web operator replies or closes.
LEMMA WebTold ==
  ASSUME NEW owner \in Owners, HandoffFits(owner), OutcomesInv, ToldInv,
         EventsKept(stream, stream'), NEW r \in Requests, WebReply(r) \/ WebClose(r)
  PROVE  ToldFits(db', stream', task')
<1>1. db \in Tables
  BY SameTables
<1>2. /\ Active(db, r) /\ TopicOf(db, r) = WebTopic /\ task' = task
      /\ db' = EnqueueReply(db, WebTopic, r) \/ db' = CloseRequest(db, r)
  BY DEF WebReply, WebClose, InWeb, OnlyTables
<1>3. Exists(db, r) /\ WebTopic \in Places
  BY <1>2 DEF Exists, Active, Places
<1>4. SameOutcome(db, EnqueueReply(db, WebTopic, r)) /\ SameOutcome(db, CloseRequest(db, r))
  BY <1>1, <1>3, StatusIs, ReplyIs
<1>5. Hushed(db, db')
  BY <1>2, <1>4, SameOutcomeHushed
<1>6. \A q \in Requests : Active(db', q) => Active(db, q)
  BY <1>1, <1>2, ActiveAfter
<1>7. \A q \in Requests \ {r} : Active(db, q) => Active(db', q)
  <2>1. CASE db' = EnqueueReply(db, WebTopic, r)
    <3>1. db'.requests = db.requests
      BY <1>1, <2>1 DEF EnqueueReply, Tables
    <3> QED
      BY <3>1 DEF Active
  <2>2. CASE db' = CloseRequest(db, r)
    <3>1. \A q \in Requests \ {r} : db'.requests[q] = db.requests[q]
      BY <1>1, <2>2 DEF CloseRequest, Tables
    <3> QED
      BY <3>1 DEF Active
  <2> QED
    BY <1>2, <2>1, <2>2
<1> QED
  BY <1>2, <1>5, <1>6, <1>7, WebIsQuiet, TablesTold

\* Rows of actions change so that whoever was to be told still is.
LEMMA RowsHushed ==
  ASSUME NEW d, NEW e, OutcomesFit(d), e.messages = d.messages, d.acked \subseteq e.acked,
         \A r \in Requests :
           /\ Exists(e, r) <=> Exists(d, r)
           /\ e.requests[r].client = d.requests[r].client
           /\ TopicOf(e, r) = TopicOf(d, r) \/ Told(e, r) \/ ~OnlyInitial(d, r),
         \A b \in ActionIds :
           /\ e.actions[b].initial = d.actions[b].initial
           /\ Present(e, b) <=> Present(d, b)
           /\ d.actions[b].status = "sending" => e.actions[b].status \in {"sending", "outcome_unknown"}
           /\ d.actions[b].initial /\ d.actions[b].status = "outcome_unknown" => Told(e, b[1])
           /\ e.actions[b].status = "abandoned" =>
                d.actions[b].status = "abandoned" \/ ~d.actions[b].initial \/ Told(e, b[1])
  PROVE  Hushed(d, e)
<1>1. ASSUME NEW r \in Requests, Told(d, r)
      PROVE  Told(e, r)
  <2>1. CASE r \in d.acked
    BY <2>1 DEF Told
  <2>2. CASE Unclear(d, r)
    BY <2>2 DEF Unclear
  <2> QED
    BY <1>1, <2>1, <2>2 DEF Told
<1>2. ASSUME NEW r \in Requests, BeingOpened(d, r)
      PROVE  Handled(e, r)
  <2>1. PICK a \in ActionIds : a[1] = r /\ a[3] = 0 /\ d.actions[a].status = "sending"
    BY <1>2 DEF BeingOpened
  <2>2. d.actions[a].initial
    BY <2>1 DEF OutcomesFit, OpeningsFit, Present
  <2>3. CASE e.actions[a].status = "sending"
    BY <2>1, <2>3 DEF Handled, BeingOpened
  <2>4. CASE e.actions[a].status = "outcome_unknown"
    <3>1. e.actions[a].initial
      BY <2>2
    <3> QED
      BY <2>1, <2>4, <3>1 DEF Handled, Told, Unclear
  <2> QED
    BY <2>1, <2>3, <2>4
<1>3. ASSUME NEW r \in Requests, OnItsWay(d, r), ~Told(e, r)
      PROVE  OnItsWay(e, r)
  <2>1. OnlyInitial(d, r) /\ TopicOf(e, r) = TopicOf(d, r)
    BY <1>3 DEF OnItsWay
  <2>2. OnlyInitial(e, r)
    BY <1>3, <2>1 DEF OnlyInitial
  <2>3. BeingOpened(d, r) => BeingOpened(e, r)
    BY <1>2, <1>3 DEF Handled
  <2>4. SomeChunk(d, r) => SomeChunk(e, r)
    BY DEF SomeChunk
  <2> QED
    BY <1>3, <2>1, <2>2, <2>3, <2>4 DEF OnItsWay
<1> QED
  BY <1>1, <1>2, <1>3 DEF Hushed

\* Uncertain relays of one message are initial or not, all of them.
LEMMA UncertainTogether ==
  ASSUME NEW d, OutcomesFit(d), RowsFit(d), scenario \in Scenario,
         NEW a \in ActionIds, NEW b \in ActionIds, a[1] = b[1], a[2] = b[2],
         d.actions[a].status = "outcome_unknown", d.actions[b].status = "outcome_unknown"
  PROVE  d.actions[b].initial = d.actions[a].initial
<1>1. Present(d, a) /\ Present(d, b)
  BY DEF Present
<1>2. CASE a[3] = 0 \/ b[3] = 0
  BY <1>1, <1>2 DEF OutcomesFit, OpeningsFit
<1>3. CASE a[3] # 0 /\ b[3] # 0
  <2>1. Chunks[b[2]] \in Nat /\ b[3] \in Nat
    <3>1. Chunks \in [Messages -> 1..MaxChunks] /\ MaxChunks \in Nat
      BY ScenarioFacts
    <3> QED
      BY <3>1 DEF ActionIds
  <2>2. b[3] <= Chunks[b[2]]
    BY <1>1 DEF RowsFit, Present
  <2>3. b[3] \in 1..Chunks[b[2]]
    BY <1>3, <2>1, <2>2
  <2> QED
    BY <1>1, <1>3, <2>3 DEF OutcomesFit, ChunksTogether
<1> QED
  BY <1>2, <1>3

\* The owner confirms that an uncertain chunk was received.
LEMMA ConfirmTold ==
  ASSUME NEW owner \in Owners, HandoffFits(owner), OutcomesInv, ToldInv,
         EventsKept(stream, stream'), NEW a \in ActionIds, ConfirmReceived(a)
  PROVE  ToldFits(db', stream', task')
<1> DEFINE d == SetAction(db, a, "confirmed")
           e == EnqueueHandoffAcknowledgement(d, a[1])
<1>1. /\ db \in Tables /\ scenario \in Scenario /\ RowsFit(db) /\ OutcomesFit(db)
      /\ a[1] \in Requests /\ a[2] \in Messages
  BY SameTables DEF HandoffFits, TablesFit, OutcomesInv, ActionIds
<1>2. /\ task' = task /\ db.actions[a].status = "outcome_unknown"
      /\ db' = IF d.actions[a].initial /\ ~Unknown(d, a[1], a[2]) THEN e ELSE d
  BY DEF ConfirmReceived, OnlyTables, Uncertain
<1>3. /\ d \in Tables /\ d.requests = db.requests /\ d.messages = db.messages
      /\ d.acked = db.acked
      /\ d.actions[a].status = "confirmed" /\ d.actions[a].initial = db.actions[a].initial
      /\ \A b \in ActionIds \ {a} : d.actions[b] = db.actions[b]
  <2>1. "confirmed" \in Statuses
    BY DEF Statuses
  <2> QED
    BY <1>1, <2>1, SetActionIs
<1>4. /\ e.requests = d.requests /\ e.actions = d.actions
      /\ e.messages = d.messages /\ e.acked = d.acked \cup {a[1]}
  <2> HIDE DEF d
  <2> QED
    BY <1>1, <1>3, NotesAre
<1> HIDE DEF d, e
<1>5. /\ db'.requests = db.requests /\ db'.messages = db.messages /\ db'.actions = d.actions
      /\ db.acked \subseteq db'.acked
      /\ d.actions[a].initial /\ ~Unknown(d, a[1], a[2]) => a[1] \in db'.acked
  BY <1>2, <1>3, <1>4
<1>6. ASSUME d.actions[a].initial
      PROVE  Told(db', a[1])
  <2>1. CASE ~Unknown(d, a[1], a[2])
    BY <1>5, <1>6, <2>1 DEF Told
  <2>2. CASE Unknown(d, a[1], a[2])
    <3>1. PICK k \in 0..Chunks[a[2]] : d.actions[<<a[1], a[2], k>>].status = "outcome_unknown"
      BY <2>2 DEF Unknown
    <3> DEFINE b == <<a[1], a[2], k>>
    <3>2. b \in ActionIds /\ b[1] = a[1] /\ b[2] = a[2]
      <4>1. Chunks \in [Messages -> 1..MaxChunks] /\ MaxChunks \in Nat
        BY <1>1, ScenarioFacts
      <4>2. Chunks[a[2]] \in 1..MaxChunks
        BY <1>1, <4>1
      <4>3. k \in 0..MaxChunks
        BY <4>1, <4>2
      <4> QED
        BY <1>1, <4>3 DEF ActionIds
    <3>3. d.actions[b].status = "outcome_unknown"
      BY <3>1
    <3> HIDE DEF b
    <3>4. b # a
      BY <1>3, <3>3
    <3>5. db.actions[b].status = "outcome_unknown" /\ d.actions[b] = db.actions[b]
      BY <1>3, <3>2, <3>3, <3>4
    <3>6. db.actions[b].initial = db.actions[a].initial
      BY <1>1, <1>2, <3>2, <3>5, UncertainTogether
    <3>7. db'.actions[b].initial /\ db'.actions[b].status = "outcome_unknown"
      BY <1>3, <1>5, <1>6, <3>5, <3>6
    <3> QED
      BY <3>2, <3>7 DEF Told, Unclear
  <2> QED
    BY <2>1, <2>2
<1>7. \A b \in ActionIds :
           /\ db'.actions[b].initial = db.actions[b].initial
           /\ Present(db', b) <=> Present(db, b)
           /\ db.actions[b].status = "sending" =>
                db'.actions[b].status \in {"sending", "outcome_unknown"}
           /\ db.actions[b].initial /\ db.actions[b].status = "outcome_unknown" => Told(db', b[1])
           /\ db'.actions[b].status = "abandoned" =>
                db.actions[b].status = "abandoned" \/ ~db.actions[b].initial \/ Told(db', b[1])
  <2> TAKE b \in ActionIds
  <2>1. CASE b = a
    BY <1>2, <1>3, <1>5, <1>6, <2>1 DEF Present
  <2>2. CASE b # a
    <3>1. db'.actions[b] = db.actions[b]
      BY <1>3, <1>5, <2>2
    <3>2. db.actions[b].initial /\ db.actions[b].status = "outcome_unknown" => Told(db', b[1])
      BY <3>1 DEF Told, Unclear
    <3> QED
      BY <3>1, <3>2 DEF Present
  <2> QED
    BY <2>1, <2>2
<1>8. \A r \in Requests :
           /\ Exists(db', r) <=> Exists(db, r)
           /\ db'.requests[r].client = db.requests[r].client
           /\ TopicOf(db', r) = TopicOf(db, r)
           /\ Active(db', r) <=> Active(db, r)
  BY <1>5 DEF Exists, TopicOf, Active
<1>9. Hushed(db, db')
  BY <1>1, <1>5, <1>7, <1>8, RowsHushed
<1> QED
  BY <1>2, <1>8, <1>9, ConfirmIsQuiet, TablesTold

\* The owner moves the request of an uncertain message to the web inbox: that tells
\* the client if the message is the request's first.
LEMMA MoveTold ==
  ASSUME NEW owner \in Owners, HandoffFits(owner), OutcomesInv, ToldInv,
         EventsKept(stream, stream'), NEW a \in ActionIds, MoveToWeb(a)
  PROVE  ToldFits(db', stream', task')
<1>1. /\ db \in Tables /\ scenario \in Scenario /\ RowsFit(db) /\ OutcomesFit(db)
      /\ a[1] \in Requests
  BY SameTables DEF HandoffFits, TablesFit, OutcomesInv, ActionIds
<1>2. PICK e \in Tables :
           /\ OnlyTables(e) /\ e.messages = db.messages
           /\ db.acked \subseteq e.acked
           /\ db.actions[a].initial => a[1] \in e.acked
           /\ e.requests[a[1]].status = db.requests[a[1]].status
           /\ e.requests[a[1]].client = db.requests[a[1]].client
           /\ \A q \in Requests \ {a[1]} : e.requests[q] = db.requests[q]
           /\ \A b \in ActionIds :
                IF b[1] = a[1] /\ b[2] = a[2] /\ Uncertain(b)
                THEN /\ e.actions[b].status = "abandoned"
                     /\ e.actions[b].initial = db.actions[b].initial
                ELSE e.actions[b] = db.actions[b]
  BY <1>1, MovedIs
<1>3. db' = e /\ task' = task
  BY <1>2 DEF OnlyTables
<1>4. db.actions[a].status = "outcome_unknown"
  BY DEF MoveToWeb, Uncertain
<1>5. db.actions[a].initial => Told(e, a[1])
  BY <1>2 DEF Told
<1>6. \A b \in ActionIds :
           /\ e.actions[b].initial = db.actions[b].initial
           /\ Present(e, b) <=> Present(db, b)
           /\ db.actions[b].status = "sending" =>
                e.actions[b].status \in {"sending", "outcome_unknown"}
           /\ db.actions[b].initial /\ db.actions[b].status = "outcome_unknown" => Told(e, b[1])
           /\ e.actions[b].status = "abandoned" =>
                db.actions[b].status = "abandoned" \/ ~db.actions[b].initial \/ Told(e, b[1])
  <2> TAKE b \in ActionIds
  <2>1. CASE b[1] = a[1] /\ b[2] = a[2] /\ Uncertain(b)
    <3>1. db.actions[b].status = "outcome_unknown"
      BY <2>1 DEF Uncertain
    <3>2. db.actions[b].initial = db.actions[a].initial
      BY <1>1, <1>4, <2>1, <3>1, UncertainTogether
    <3>3. e.actions[b].status = "abandoned" /\ e.actions[b].initial = db.actions[b].initial
      BY <1>2, <2>1
    <3> QED
      BY <1>5, <2>1, <3>1, <3>2, <3>3 DEF Present
  <2>2. CASE ~(b[1] = a[1] /\ b[2] = a[2] /\ Uncertain(b))
    <3>1. e.actions[b] = db.actions[b]
      BY <1>2, <2>2
    <3>2. db.actions[b].initial /\ db.actions[b].status = "outcome_unknown" => Told(e, b[1])
      BY <3>1 DEF Told, Unclear
    <3> QED
      BY <3>1, <3>2 DEF Present
  <2> QED
    BY <2>1, <2>2
<1>7. ~db.actions[a].initial => ~OnlyInitial(db, a[1])
  BY <1>4 DEF OnlyInitial, Present
<1>8. \A r \in Requests :
           /\ Exists(e, r) <=> Exists(db, r)
           /\ e.requests[r].client = db.requests[r].client
           /\ TopicOf(e, r) = TopicOf(db, r) \/ Told(e, r) \/ ~OnlyInitial(db, r)
           /\ Active(e, r) <=> Active(db, r)
  <2> TAKE r \in Requests
  <2>1. CASE r = a[1]
    BY <1>2, <1>5, <1>7, <2>1 DEF Exists, Active
  <2>2. CASE r # a[1]
    <3>1. e.requests[r] = db.requests[r]
      BY <1>2, <2>2
    <3> QED
      BY <3>1 DEF Exists, Active, TopicOf
  <2> QED
    BY <2>1, <2>2
<1>9. Hushed(db, e)
  BY <1>1, <1>2, <1>6, <1>8, RowsHushed
<1> QED
  BY <1>3, <1>8, <1>9, MoveIsQuiet, TablesTold

\* After a crash what was being sent is uncertain, and that tells too.
LEMMA CrashTold ==
  ASSUME NEW owner \in Owners, HandoffFits(owner), OutcomesInv, ToldInv,
         EventsKept(stream, stream'), CrashAndRestart
  PROVE  ToldFits(db', stream', task')
<1>1. /\ db \in Tables /\ OutcomesFit(db) /\ db.actions \in [ActionIds -> ActionRow]
      /\ HandoffTyped /\ UpdatesFit /\ ToldFits(db, stream, task)
  BY SameTables DEF HandoffFits, OutcomesInv, ToldInv, Tables
<1> DEFINE rows == [b \in ActionIds |->
                      IF db.actions[b].status = "sending"
                      THEN [db.actions[b] EXCEPT !.status = "outcome_unknown"]
                      ELSE db.actions[b]]
<1>2. \A b \in ActionIds :
        /\ rows[b].initial = db.actions[b].initial
        /\ IF db.actions[b].status = "sending" THEN rows[b].status = "outcome_unknown"
           ELSE rows[b].status = db.actions[b].status
  <2> TAKE b \in ActionIds
  <2>1. db.actions[b] \in ActionRow
    BY <1>1
  <2>2. LET y == [db.actions[b] EXCEPT !.status = "outcome_unknown"] IN
        y.initial = db.actions[b].initial /\ y.status = "outcome_unknown"
    BY <2>1 DEF ActionRow
  <2> QED
    BY <2>2
<1>3. db' = [db EXCEPT !.actions = rows]
  BY DEF CrashAndRestart, RecoverActions
<1> HIDE DEF rows
<1>4. /\ db'.requests = db.requests /\ db'.messages = db.messages /\ db'.acked = db.acked
      /\ db'.actions = rows
  BY <1>1, <1>3 DEF Tables
<1>5. \A b \in ActionIds :
           /\ db'.actions[b].initial = db.actions[b].initial
           /\ IF db.actions[b].status = "sending" THEN db'.actions[b].status = "outcome_unknown"
              ELSE db'.actions[b].status = db.actions[b].status
  BY <1>2, <1>4
<1>6. \A b \in ActionIds :
           /\ db'.actions[b].initial = db.actions[b].initial
           /\ Present(db', b) <=> Present(db, b)
           /\ db.actions[b].status = "sending" =>
                db'.actions[b].status \in {"sending", "outcome_unknown"}
           /\ db.actions[b].initial /\ db.actions[b].status = "outcome_unknown" => Told(db', b[1])
           /\ db'.actions[b].status = "abandoned" =>
                db.actions[b].status = "abandoned" \/ ~db.actions[b].initial \/ Told(db', b[1])
  BY <1>5 DEF Present, Told, Unclear
<1>7. \A r \in Requests :
           /\ Exists(db', r) <=> Exists(db, r)
           /\ db'.requests[r].client = db.requests[r].client
           /\ TopicOf(db', r) = TopicOf(db, r)
           /\ Active(db', r) <=> Active(db, r)
  BY <1>4 DEF Exists, TopicOf, Active
<1>8. Hushed(db, db')
  BY <1>1, <1>4, <1>6, <1>7, RowsHushed
<1>9. \A h \in Handlers : task'[h] = NoTask
  BY DEF CrashAndRestart
<1>10. NoTask.pc = "idle"
  BY DEF NoTask
<1> QED
  BY <1>1, <1>7, <1>8, <1>9, <1>10, CrashIsQuiet, HushedFits

\* Where the tables and the tasks stay as they are, so does what was told.
LEMMA NothingTold ==
  ASSUME NEW owner, HandoffFits(owner), ToldInv, QuietStep, EventsKept(stream, stream'),
         db' = db, task' = task
  PROVE  ToldFits(db', stream', task')
<1>1. Hushed(db, db')
  BY DEF Hushed, Handled
<1> QED
  BY <1>1, TablesTold

-----------------------------------------------------------------------------
(* Steps on a message.                                                     *)

\* The relay goes on in the request's topic, or stopped there for a retry.
Onward(r) ==
  \/ TopicOf(db', r) # WebTopic /\ SomeChunk(db', r)
  \/ db'.requests = db.requests /\ SomeChunk(db, r)

\* How a step on a message ends: it is done with, or the relay goes on.
LEMMA MessageStepIs ==
  ASSUME NEW h \in Handlers, task \in [Handlers -> TaskRow], NEW r, NEW m, MessageStep(h, r, m)
  PROVE  /\ PollerEnd(h) /\ \A g \in Handlers \ {h} : task'[g] = task[g]
         /\ task'[h].pc = "idle" \/ (task'[h].pc = "relaying" /\ task'[h].request = r)
         /\ \E s \in {"none", "processing", "completed"} :
              /\ Marked(h, s)
              /\ IF s = "completed" THEN r \in db'.acked \/ Settled(db', r, m) ELSE Onward(r)
<1>0. NoTask.pc = "idle"
  BY DEF NoTask
<1>1. CASE Finish(h, db') /\ (r \in db'.acked \/ Settled(db', r, m))
  <2>1. task' = [task EXCEPT ![h] = NoTask] /\ Marked(h, "completed")
    BY <1>1 DEF Finish, Marked, CompleteEvent
  <2>2. task'[h] = NoTask /\ \A g \in Handlers \ {h} : task'[g] = task[g]
    BY <2>1
  <2> QED
    BY <1>0, <1>1, <2>1, <2>2 DEF PollerEnd
<1>2. CASE Fail(h, db') /\ TopicOf(db', r) # WebTopic /\ SomeChunk(db', r)
  <2>1. task' = [task EXCEPT ![h] = NoTask] /\ Marked(h, "none")
    BY <1>2 DEF Fail, Marked
  <2>2. task'[h] = NoTask /\ \A g \in Handlers \ {h} : task'[g] = task[g]
    BY <2>1
  <2> QED
    BY <1>0, <1>2, <2>1, <2>2 DEF PollerEnd, Onward
<1>3. ASSUME NEW t \in Places \ {WebTopic}, NextChunk(h, r, m, t), Onward(r)
      PROVE  /\ PollerEnd(h) /\ \A g \in Handlers \ {h} : task'[g] = task[g]
             /\ task'[h].pc = "relaying" /\ task'[h].request = r
             /\ Marked(h, "processing")
  <2>1. PICK k \in 1..Chunks[m], l \in BOOLEAN : Await(h, db', RelayTask(r, m, k, t, l))
    BY <1>3 DEF NextChunk
  <2> DEFINE x == RelayTask(r, m, k, t, l)
  <2>2. x.pc = "relaying" /\ x.request = r
    BY DEF RelayTask
  <2>3. Await(h, db', x)
    BY <2>1
  <2> HIDE DEF x
  <2>4. task' = [task EXCEPT ![h] = x] /\ Marked(h, "processing")
    BY <2>3 DEF Await, Marked
  <2>5. task'[h] = x /\ \A g \in Handlers \ {h} : task'[g] = task[g]
    BY <2>4
  <2>6. PollerEnd(h)
    BY <2>2, <2>3 DEF PollerEnd
  <2> QED
    BY <2>2, <2>4, <2>5, <2>6
<1>4. \/ Finish(h, db') /\ (r \in db'.acked \/ Settled(db', r, m))
      \/ Fail(h, db') /\ TopicOf(db', r) # WebTopic /\ SomeChunk(db', r)
      \/ Onward(r) /\ \E t \in Places \ {WebTopic} : NextChunk(h, r, m, t)
  BY DEF MessageStep, Onward
<1>5. CASE Onward(r) /\ \E t \in Places \ {WebTopic} : NextChunk(h, r, m, t)
  <2>1. PICK t \in Places \ {WebTopic} : NextChunk(h, r, m, t)
    BY <1>5
  <2> QED
    BY <1>3, <1>5, <2>1
<1> QED
  BY <1>1, <1>2, <1>4, <1>5

\* A request of the client of a poller's message is opened by that poller only.
LEMMA OpenedByOwnPoller ==
  ASSUME NEW owner \in Owners, HandoffFits(owner), NEW q \in Requests, BeingOpened(db, q),
         NEW h \in Handlers, HandlerOf(db.requests[q].client) = h
  PROVE  Working(h)
<1>1. PICK a \in ActionIds : a[1] = q /\ db.actions[a].status = "sending"
  BY DEF BeingOpened
<1>2. PICK g \in Handlers : Working(g) /\ Awaited(g) = a
  BY <1>1 DEF HandoffFits, SendingIsAwaited, Sending
<1>3. /\ taken[g] < Len(stream[g]) /\ Current(g).kind = "message"
      /\ Current(g).of = task[g].message /\ task[g].request = q
      /\ db.requests[task[g].request].client = Sender[task[g].message]
  <2>1. /\ taken[g] < Len(stream[g]) /\ Current(g).kind = "message"
        /\ Current(g).of = task[g].message
        /\ db.requests[task[g].request].client = Sender[task[g].message]
    BY <1>2, AtWork
  <2>2. Awaited(g)[1] = task[g].request
    BY DEF Awaited
  <2>3. task[g].request = q
    BY <1>1, <1>2, <2>2
  <2> QED
    BY <2>1, <2>3
<1>4. HandlerOf(Sender[Current(g).of]) = g
  BY <1>3, OwnMessage DEF HandoffFits
<1> QED
  BY <1>2, <1>3, <1>4

\* The update that is to tell the client is the one its poller is at.
LEMMA OpenerIsCurrent ==
  ASSUME NEW owner \in Owners, HandoffFits(owner), UpdatesInOrder(stream, taken, task),
         NEW q \in Requests, OpenerIsNext(db, stream, q),
         NEW h \in Handlers, taken[h] < Len(stream[h]), NEW m \in Messages,
         Current(h).kind = "message", Current(h).of = m, Current(h).status # "completed",
         db.requests[q].client = Sender[m]
  PROVE  <<q, m>> \in db.messages /\ \A n \in Messages : <<q, n>> \in db.messages => n = m
<1>0. PICK g \in Handlers : \E i \in 1..Len(stream[g]) :
        /\ OpenedBy(db, q, stream[g][i])
        /\ \A j \in 1..Len(stream[g]) : j < i => stream[g][j].status = "completed"
  BY DEF OpenerIsNext
<1>1. PICK i \in 1..Len(stream[g]) :
        /\ OpenedBy(db, q, stream[g][i])
        /\ \A j \in 1..Len(stream[g]) : j < i => stream[g][j].status = "completed"
  BY <1>0
<1>2. HandoffTyped /\ UpdatesFit /\ RowsFit(db)
      /\ \A x \in Handlers : Len(stream[x]) \in Nat /\ taken[x] \in Nat
  BY DEF HandoffFits, TablesFit, HandoffTyped
<1>3. /\ stream[g][i].kind = "message" /\ stream[g][i].status # "completed"
      /\ <<q, stream[g][i].of>> \in db.messages
      /\ \A n \in Messages : <<q, n>> \in db.messages => n = stream[g][i].of
  BY <1>1 DEF OpenedBy
<1>4. HandlerOf(Sender[stream[g][i].of]) = g
  BY <1>2, <1>3 DEF UpdatesFit
<1>5. Sender[stream[g][i].of] = db.requests[q].client
  BY <1>2, <1>3 DEF RowsFit
<1>6. g = h
  BY <1>2, <1>4, <1>5, OwnMessage
<1>7. ~(i <= taken[h])
  BY <1>3, <1>6 DEF UpdatesInOrder
<1>8. ~(taken[h] + 1 < i)
  <2>1. taken[h] + 1 \in 1..Len(stream[h])
    BY <1>2
  <2> QED
    BY <1>1, <1>6, <2>1 DEF Current
<1>9. i = taken[h] + 1
  BY <1>2, <1>6, <1>7, <1>8
<1> QED
  BY <1>3, <1>6, <1>9 DEF Current

\* While only the request's first message is under way, all its rows are initial.
LEMMA StillInitial ==
  ASSUME OutcomesFit(db), NEW h, NEW r \in Requests, NEW m, MessageStep(h, r, m),
         OnlyInitial(db, r),
         \/ BeingOpened(db, r)
         \/ \E a \in ActionIds : a[1] = r /\ a[2] = m /\ a[3] # 0 /\ Present(db, a)
  PROVE  OnlyInitial(db', r)
<1>1. \A a \in ActionIds : Ages(db.actions[a], db'.actions[a])
  BY DEF MessageStep, Turn
<1>2. PICK initial \in BOOLEAN :
        NewRows(db, db', r, m, initial) /\ (initial \/ TopicOf(db, r) # WebTopic)
  BY DEF MessageStep
<1>3. BeingOpened(db, r) => TopicOf(db, r) = WebTopic
  BY DEF OutcomesFit, OpeningsFit, BeingOpened, Present
<1> SUFFICES ASSUME NEW a \in ActionIds, a[1] = r, Present(db', a)
             PROVE  db'.actions[a].initial /\ db'.actions[a].status # "abandoned"
  BY DEF OnlyInitial
<1>4. CASE Present(db, a)
  BY <1>1, <1>4 DEF OnlyInitial, Ages, Present
<1>5. CASE ~Present(db, a)
  <2>1. /\ db'.actions[a].initial = initial
        /\ \A b \in ActionIds : b[1] = r /\ b[2] = m /\ b[3] # 0 => ~Present(db, b)
    BY <1>2, <1>5 DEF NewRows
  <2>2. initial
    BY <1>2, <1>3, <2>1
  <2>3. db'.actions[a].status # "abandoned"
    BY <1>1, <1>5 DEF Ages, Present
  <2> QED
    BY <2>1, <2>2, <2>3
<1> QED
  BY <1>4, <1>5

\* A first message that is done with is told about.
LEMMA SettledIsTold ==
  ASSUME scenario \in Scenario, NEW d, NEW r \in Requests, NEW m \in Messages,
         OnlyInitial(d, r), r \in d.acked \/ Settled(d, r, m)
  PROVE  Told(d, r)
<1>1. CASE r \in d.acked
  BY <1>1 DEF Told
<1>2. CASE Unknown(d, r, m)
  <2>1. PICK k \in 0..Chunks[m] : d.actions[<<r, m, k>>].status = "outcome_unknown"
    BY <1>2 DEF Unknown
  <2> DEFINE b == <<r, m, k>>
  <2>2. b \in ActionIds /\ b[1] = r
    <3>1. Chunks \in [Messages -> 1..MaxChunks] /\ MaxChunks \in Nat
      BY ScenarioFacts
    <3>2. Chunks[m] \in 1..MaxChunks
      BY <3>1
    <3>3. k \in 0..MaxChunks
      BY <3>1, <3>2
    <3> QED
      BY <3>3 DEF ActionIds
  <2>3. d.actions[b].status = "outcome_unknown"
    BY <2>1
  <2> HIDE DEF b
  <2> QED
    BY <2>2, <2>3 DEF OnlyInitial, Present, Told, Unclear
<1>3. CASE \E a \in ActionIds : a[1] = r /\ a[2] = m /\ d.actions[a].status = "abandoned"
  BY <1>3 DEF OnlyInitial, Present
<1> QED
  BY <1>1, <1>2, <1>3 DEF Settled

\* A request that is opened though it was closed meanwhile has no topic to go on in.
LEMMA ClosedIsTold ==
  ASSUME scenario \in Scenario, OutcomesFit(db), task \in [Handlers -> TaskRow],
         NEW h \in Handlers, NEW r \in Requests, NEW m \in Messages, MessageStep(h, r, m),
         BeingOpened(db, r), ~Active(db, r)
  PROVE  Told(db', r)
<1>1. PICK a \in ActionIds : a[1] = r /\ a[3] = 0 /\ db.actions[a].status = "sending"
  BY DEF BeingOpened
<1>2. /\ db.actions[a].initial /\ TopicOf(db, r) = WebTopic
      /\ \A b \in ActionIds : b[1] = r /\ b # a => ~Present(db, b)
  BY <1>1 DEF OutcomesFit, OpeningsFit, Present
<1>3. OnlyInitial(db, r)
  BY <1>1, <1>2 DEF OnlyInitial
<1>4. OnlyInitial(db', r)
  BY <1>3, StillInitial
<1>5. TopicOf(db', r) = WebTopic
  BY <1>2 DEF MessageStep, Turn, TopicOf, Active
<1>6. ~SomeChunk(db, r)
  BY <1>1, <1>2 DEF SomeChunk
<1>7. ~Onward(r)
  BY <1>5, <1>6 DEF Onward
<1>8. r \in db'.acked \/ Settled(db', r, m)
  BY <1>7, MessageStepIs
<1> QED
  BY <1>4, <1>8, SettledIsTold

\* A turn of one request and message leaves the other requests as they are.
LEMMA TurnKeeps ==
  ASSUME NEW d, NEW e, NEW r \in Requests, NEW m, Turn(d, e, r, m)
  PROVE  /\ \A q \in Requests : /\ Exists(e, q) <=> Exists(d, q)
                                /\ Active(e, q) <=> Active(d, q)
                                /\ e.requests[q].client = d.requests[q].client
                                /\ IsLatest(e, q) => IsLatest(d, q)
                                /\ Told(d, q) => Told(e, q)
         /\ \A q, x \in Requests : Newer(e, q, x) => Newer(d, q, x)
         /\ \A q \in Requests : q # r =>
              /\ BeingOpened(d, q) => BeingOpened(e, q)
              /\ OnItsWay(d, q) => OnItsWay(e, q)
              /\ \A n \in Messages : <<q, n>> \in e.messages <=> <<q, n>> \in d.messages
<1>1. \A q \in Requests : e.requests[q].status = d.requests[q].status
                          /\ e.requests[q].client = d.requests[q].client
  BY DEF Turn
<1>2. \A q \in Requests : /\ Exists(e, q) <=> Exists(d, q)
                          /\ Active(e, q) <=> Active(d, q)
                          /\ e.requests[q].client = d.requests[q].client
  BY <1>1 DEF Exists, Active
<1>3. \A q \in Requests : IsLatest(e, q) => IsLatest(d, q)
  BY <1>2 DEF IsLatest
<1>4. \A q, x \in Requests : Newer(e, q, x) => Newer(d, q, x)
  BY <1>2, <1>3 DEF Newer
<1>5. ASSUME NEW q \in Requests, Told(d, q)
      PROVE  Told(e, q)
  <2>1. CASE q \in d.acked
    BY <2>1 DEF Turn, Told
  <2>2. CASE Unclear(d, q)
    <3>1. PICK a \in ActionIds :
            a[1] = q /\ d.actions[a].initial /\ d.actions[a].status = "outcome_unknown"
      BY <2>2 DEF Unclear
    <3>2. Ages(d.actions[a], e.actions[a])
      BY DEF Turn
    <3>3. e.actions[a].initial /\ e.actions[a].status = "outcome_unknown"
      BY <3>1, <3>2 DEF Ages
    <3> QED
      BY <3>1, <3>3 DEF Told, Unclear
  <2> QED
    BY <1>5, <2>1, <2>2 DEF Told
<1>6. ASSUME NEW q \in Requests, q # r
      PROVE  /\ BeingOpened(d, q) => BeingOpened(e, q)
             /\ OnItsWay(d, q) => OnItsWay(e, q)
             /\ \A n \in Messages : <<q, n>> \in e.messages <=> <<q, n>> \in d.messages
  <2>1. \A a \in ActionIds : a[1] = q => e.actions[a] = d.actions[a]
    BY <1>6 DEF Turn
  <2>2. TopicOf(e, q) = TopicOf(d, q)
    BY <1>6 DEF Turn, TopicOf
  <2>3. BeingOpened(d, q) => BeingOpened(e, q)
    BY <2>1 DEF BeingOpened
  <2>4. OnlyInitial(d, q) => OnlyInitial(e, q)
    BY <2>1 DEF OnlyInitial, Present
  <2>5. SomeChunk(d, q) => SomeChunk(e, q)
    BY <2>1 DEF SomeChunk, Present
  <2>6. \A n \in Messages : <<q, n>> \in e.messages <=> <<q, n>> \in d.messages
    BY <1>6 DEF Turn
  <2> QED
    BY <2>2, <2>3, <2>4, <2>5, <2>6 DEF OnItsWay
<1> QED
  BY <1>2, <1>3, <1>4, <1>5, <1>6

\* Which request a poller takes its message to: the one it was at, or the
\* client's active one.
TakesTo(h, r, m) ==
  \/ Working(h) /\ r = task[h].request /\ m = task[h].message
  \/ task[h].pc = "idle" /\ Active(db, r) /\ db.requests[r].client = Sender[m]

\* It is of the message's client, who was told about any newer one.
LEMMA TakenTo ==
  ASSUME NEW owner \in Owners, HandoffFits(owner), ToldInv, NEW h \in Handlers,
         taken[h] < Len(stream[h]), NEW m \in Messages, Current(h).kind = "message",
         Current(h).of = m, NEW r \in Requests, TakesTo(h, r, m)
  PROVE  /\ Exists(db, r) /\ db.requests[r].client = Sender[m]
         /\ \A q \in Requests : Newer(db, q, r) => Told(db, q)
<1>1. CASE Working(h) /\ r = task[h].request /\ m = task[h].message
  <2>1. Exists(db, r) /\ db.requests[r].client = Sender[m]
    BY <1>1, AtWork
  <2>2. task[h].pc \in {"relaying", "opening"}
    BY <1>1 DEF Working
  <2>3. OlderRelayed(db, task)
    BY DEF ToldInv, ToldFits
  <2>4. \A q \in Requests : Newer(db, q, r) => Told(db, q)
    BY <1>1, <2>2, <2>3 DEF OlderRelayed
  <2> QED
    BY <2>1, <2>4
<1>2. CASE task[h].pc = "idle" /\ Active(db, r) /\ db.requests[r].client = Sender[m]
  <2>1. Exists(db, r)
    BY <1>2 DEF Exists, Active
  <2>2. HandlerOf(Sender[m]) = h
    BY OwnMessage DEF HandoffFits
  <2>3. ASSUME NEW q \in Requests, Newer(db, q, r)
        PROVE  Told(db, q)
    <3>1. Handled(db, q)
      BY <1>2, <2>3 DEF ToldInv, ToldFits, OlderActive
    <3>2. db.requests[q].client = Sender[m]
      BY <1>2, <2>3 DEF Newer
    <3>3. ~Working(h)
      BY <1>2 DEF Working
    <3>4. ~BeingOpened(db, q)
      BY <2>2, <3>2, <3>3, OpenedByOwnPoller
    <3> QED
      BY <3>1, <3>4 DEF Handled
  <2> QED
    BY <1>2, <2>1, <2>3
<1> QED
  BY <1>1, <1>2 DEF TakesTo

\* The client of the request the message went to was told, or soon is.
LEMMA TakenRequestTold ==
  ASSUME NEW owner \in Owners, HandoffFits(owner), OutcomesInv, ToldInv, NEW h \in Handlers,
         taken[h] < Len(stream[h]), NEW m \in Messages, Current(h).kind = "message",
         Current(h).of = m, Current(h).status # "completed",
         NEW r \in Requests, TakesTo(h, r, m), MessageStep(h, r, m),
         EventsKept(stream, stream'), IsLatest(db', r), ~Told(db', r)
  PROVE  OpenerIsNext(db', stream', r) /\ OnItsWay(db', r)
<1>1. /\ HandoffTyped /\ UpdatesFit /\ RowsFit(db) /\ scenario \in Scenario
      /\ task \in [Handlers -> TaskRow] /\ OutcomesFit(db)
      /\ UpdatesInOrder(stream, taken, task) /\ LatestIsTold(db, stream)
      /\ \A g \in Handlers : Len(stream[g]) \in Nat
  BY DEF HandoffFits, HandoffTyped, TablesFit, OutcomesInv, ToldInv, ToldFits
<1>2. Turn(db, db', r, m)
  BY DEF MessageStep
<1>3. IsLatest(db, r) /\ ~Told(db, r)
  BY <1>2, TurnKeeps
<1>4. OpenerIsNext(db, stream, r) /\ OnItsWay(db, r)
  BY <1>1, <1>3 DEF LatestIsTold
<1>5. db.requests[r].client = Sender[m]
  BY TakenTo
<1>6. <<r, m>> \in db.messages /\ \A n \in Messages : <<r, n>> \in db.messages => n = m
  BY <1>1, <1>4, <1>5, OpenerIsCurrent
<1>7. OnlyInitial(db, r)
  BY <1>4 DEF OnItsWay
<1>8. BeingOpened(db, r) \/ \E a \in ActionIds : a[1] = r /\ a[2] = m /\ a[3] # 0 /\ Present(db, a)
  <2>1. CASE SomeChunk(db, r)
    <3>1. PICK a \in ActionIds : a[1] = r /\ a[3] # 0 /\ Present(db, a)
      BY <2>1 DEF SomeChunk
    <3>2. <<r, a[2]>> \in db.messages /\ a[2] \in Messages
      BY <1>1, <3>1 DEF OutcomesFit, RowsRecorded, ActionIds
    <3> QED
      BY <1>6, <3>1, <3>2
  <2> QED
    BY <1>4, <2>1 DEF OnItsWay
<1>9. OnlyInitial(db', r)
  BY <1>1, <1>7, <1>8, StillInitial
<1>10. PICK s \in {"none", "processing", "completed"} :
         /\ Marked(h, s)
         /\ IF s = "completed" THEN r \in db'.acked \/ Settled(db', r, m) ELSE Onward(r)
  BY <1>1, MessageStepIs
<1>11. s # "completed" /\ Onward(r)
  BY <1>1, <1>9, <1>10, SettledIsTold
<1>12. OnItsWay(db', r)
  <2>1. CASE TopicOf(db', r) # WebTopic /\ SomeChunk(db', r)
    BY <1>9, <2>1 DEF OnItsWay
  <2>2. CASE db'.requests = db.requests /\ SomeChunk(db, r)
    <3>1. ~BeingOpened(db, r)
      BY <1>1, <2>2 DEF OutcomesFit, OpeningsFit, BeingOpened, SomeChunk, Present
    <3>2. TopicOf(db', r) # WebTopic
      BY <1>4, <2>2, <3>1 DEF OnItsWay, TopicOf
    <3>3. SomeChunk(db', r)
      BY <1>2, <2>2 DEF SomeChunk, Turn, Ages, Present
    <3> QED
      BY <2>1, <3>2, <3>3
  <2> QED
    BY <1>11, <2>1, <2>2 DEF Onward
<1>13. \A g \in Handlers : \A i \in 1..Len(stream[g]) : ~Completes(g, i)
  BY <1>1, <1>10, <1>11, NoMessageCompleted
<1>14. \A g \in Handlers : \A i \in 1..Len(stream[g]) :
         OpenedBy(db, r, stream[g][i]) =>
           stream'[g][i].status # "completed" /\ stream[g][i].of \in Messages
  BY <1>1, <1>13 DEF OpenedBy, Completes, EventsKept, UpdatesFit
<1>15. \A n \in Messages : <<r, n>> \in db'.messages <=> <<r, n>> \in db.messages
  BY <1>2, <1>6 DEF Turn
<1>16. OpenerIsNext(db', stream', r)
  BY <1>1, <1>4, <1>14, <1>15, OpenerStays
<1> QED
  BY <1>12, <1>16

\* The other clients were told, or soon are, as before.
LEMMA OtherRequestTold ==
  ASSUME NEW owner \in Owners, HandoffFits(owner), OutcomesInv, ToldInv, NEW h \in Handlers,
         taken[h] < Len(stream[h]), NEW m \in Messages, Current(h).kind = "message",
         Current(h).of = m,
         NEW r \in Requests, TakesTo(h, r, m), MessageStep(h, r, m),
         EventsKept(stream, stream'), NEW q \in Requests, q # r,
         IsLatest(db', q), ~Told(db', q)
  PROVE  OpenerIsNext(db', stream', q) /\ OnItsWay(db', q)
<1>1. /\ HandoffTyped /\ UpdatesFit /\ RowsFit(db) /\ LatestIsTold(db, stream)
      /\ \A g \in Handlers : Len(stream[g]) \in Nat
      /\ task \in [Handlers -> TaskRow]
  BY DEF HandoffFits, HandoffTyped, TablesFit, ToldInv, ToldFits
<1>2. Turn(db, db', r, m)
  BY DEF MessageStep
<1>3. IsLatest(db, q) /\ ~Told(db, q)
  BY <1>2, TurnKeeps
<1>4. OpenerIsNext(db, stream, q) /\ OnItsWay(db, q)
  BY <1>1, <1>3 DEF LatestIsTold
<1>5. /\ OnItsWay(db', q)
      /\ \A n \in Messages : <<q, n>> \in db'.messages <=> <<q, n>> \in db.messages
  BY <1>2, <1>4, TurnKeeps
<1>6. <<q, m>> \notin db.messages
  <2>1. db.requests[r].client = Sender[m] /\ ~Newer(db, q, r)
    BY <1>3, TakenTo
  <2>2. db.requests[q].client # Sender[m]
    BY <1>3, <2>1 DEF Newer
  <2>3. <<q, m>> \in db.messages => db.requests[q].client = Sender[m]
    BY <1>1 DEF RowsFit
  <2> QED
    BY <2>2, <2>3
<1>7. PICK s \in {"none", "processing", "completed"} : Marked(h, s)
  BY <1>1, MessageStepIs
<1>8. \A g \in Handlers : \A i \in 1..Len(stream[g]) :
        ~(g = h /\ i = taken[h] + 1) => stream'[g][i] = stream[g][i]
  BY <1>1, <1>7, MarkedUpdate
<1>9. ASSUME NEW g \in Handlers, NEW i \in 1..Len(stream[g]), OpenedBy(db, q, stream[g][i])
      PROVE  stream'[g][i].status # "completed" /\ stream[g][i].of \in Messages
  <2>1. ~(g = h /\ i = taken[h] + 1)
    BY <1>6, <1>9 DEF OpenedBy, Current
  <2>2. stream'[g][i] = stream[g][i]
    BY <1>8, <2>1
  <2>3. stream[g][i].kind = "message" /\ stream[g][i].status # "completed"
    BY <1>9 DEF OpenedBy
  <2> QED
    BY <1>1, <2>2, <2>3 DEF UpdatesFit
<1>10. OpenerIsNext(db', stream', q)
  BY <1>1, <1>4, <1>5, <1>9, OpenerStays
<1> QED
  BY <1>5, <1>10

\* A step on a message leaves nobody untold.
LEMMA MessageStepTold ==
  ASSUME NEW owner \in Owners, HandoffFits(owner), OutcomesInv, ToldInv, NEW h \in Handlers,
         taken[h] < Len(stream[h]), NEW m \in Messages, Current(h).kind = "message",
         Current(h).of = m, Current(h).status # "completed",
         NEW r \in Requests, TakesTo(h, r, m), MessageStep(h, r, m),
         EventsKept(stream, stream')
  PROVE  ToldFits(db', stream', task')
<1>1. /\ HandoffTyped /\ OneActive(db) /\ scenario \in Scenario /\ OutcomesFit(db)
      /\ task \in [Handlers -> TaskRow]
      /\ OlderActive(db) /\ OlderReopening(db, task) /\ OlderRelayed(db, task)
      /\ CompletedIsRecorded(db, stream)
      /\ \A g \in Handlers : Len(stream[g]) \in Nat
  BY DEF HandoffFits, HandoffTyped, TablesFit, OutcomesInv, ToldInv, ToldFits
<1>2. Turn(db, db', r, m)
  BY DEF MessageStep
<1>3. \A q \in Requests : /\ Active(db', q) <=> Active(db, q)
                          /\ Told(db, q) => Told(db', q)
                          /\ q # r /\ BeingOpened(db, q) => BeingOpened(db', q)
  BY <1>2, TurnKeeps
<1>4. \A q, x \in Requests : Newer(db', q, x) => Newer(db, q, x)
  BY <1>2, TurnKeeps
<1>5. \A x \in Requests : Handled(db, x) => (x = r /\ Active(db, r)) \/ Handled(db', x)
  <2> TAKE x \in Requests
  <2>1. CASE x = r
    BY <1>1, <1>3, <2>1, ClosedIsTold DEF Handled
  <2>2. CASE x # r
    BY <1>3, <2>2 DEF Handled
  <2> QED
    BY <2>1, <2>2
<1>6. LatestIsTold(db', stream')
  BY TakenRequestTold, OtherRequestTold DEF LatestIsTold
<1>7. OlderActive(db')
  <2> SUFFICES ASSUME NEW q \in Requests, NEW x \in Requests, Active(db', q), Newer(db', x, q)
               PROVE  Handled(db', x)
    BY DEF OlderActive
  <2>1. Active(db, q) /\ Newer(db, x, q)
    BY <1>3, <1>4
  <2>2. ~Active(db, x)
    BY <1>1, <2>1 DEF OneActive, Newer
  <2> QED
    BY <1>1, <1>5, <2>1, <2>2 DEF OlderActive
<1>8. /\ task'[h].pc = "idle" \/ (task'[h].pc = "relaying" /\ task'[h].request = r)
      /\ \A g \in Handlers : g # h => task'[g] = task[g]
  BY <1>1, MessageStepIs
<1>9. OlderReopening(db', task')
  <2> SUFFICES ASSUME NEW g \in Handlers, task'[g].pc = "reopening"
               PROVE  /\ task'[g].request \in Requests
                      /\ \A x \in Requests :
                           Newer(db', x, task'[g].request) => Active(db', x) \/ Handled(db', x)
    BY DEF OlderReopening
  <2>1. task'[g] = task[g]
    BY <1>8
  <2>2. /\ task[g].request \in Requests
        /\ \A x \in Requests :
             Newer(db, x, task[g].request) => Active(db, x) \/ Handled(db, x)
    BY <1>1, <2>1 DEF OlderReopening
  <2> QED
    BY <1>3, <1>4, <1>5, <2>1, <2>2
<1>10. OlderRelayed(db', task')
  <2> SUFFICES ASSUME NEW g \in Handlers, task'[g].pc \in {"relaying", "opening"}
               PROVE  /\ task'[g].request \in Requests
                      /\ \A x \in Requests : Newer(db', x, task'[g].request) => Told(db', x)
    BY DEF OlderRelayed
  <2>1. CASE g = h
    <3>1. task'[g].request = r
      BY <1>8, <2>1
    <3>2. \A x \in Requests : Newer(db, x, r) => Told(db, x)
      BY TakenTo
    <3> QED
      BY <1>3, <1>4, <3>1, <3>2
  <2>2. CASE g # h
    <3>1. task'[g] = task[g]
      BY <1>8, <2>2
    <3>2. /\ task[g].request \in Requests
          /\ \A x \in Requests : Newer(db, x, task[g].request) => Told(db, x)
      BY <1>1, <3>1 DEF OlderRelayed
    <3> QED
      BY <1>3, <1>4, <3>1, <3>2
  <2> QED
    BY <2>1, <2>2
<1>11. CompletedIsRecorded(db', stream')
  <2>1. KeepsMessages
    BY MessageStepOutcomes DEF OutcomesStep
  <2>2. \A g \in Handlers : \A i \in 1..Len(stream[g]) :
          /\ stream'[g][i].kind = "message" /\ stream'[g][i].status = "completed"
          /\ stream[g][i].status # "completed"
          => \E q \in Requests : <<q, stream[g][i].of>> \in db'.messages
    BY <2>1 DEF KeepsMessages, Completes
  <2>3. db.messages \subseteq db'.messages
    BY <1>2 DEF Turn
  <2> QED
    BY <1>1, <2>2, <2>3, RecordedStays
<1> QED
  BY <1>6, <1>7, <1>9, <1>10, <1>11 DEF ToldFits

\* A new request leaves the others as they are, and is the latest of its client.
LEMMA CreationLeaves ==
  ASSUME NEW h, NEW r, NEW m, CreationStep(h, r, m), RowsFit(db)
  PROVE  /\ \A q \in Requests : q # r =>
              /\ Exists(db', q) <=> Exists(db, q)
              /\ Active(db', q) <=> Active(db, q)
              /\ db'.requests[q].client = db.requests[q].client
              /\ Told(db', q) <=> Told(db, q)
              /\ BeingOpened(db, q) => BeingOpened(db', q)
              /\ OnItsWay(db, q) => OnItsWay(db', q)
              /\ \A n \in Messages : <<q, n>> \in db'.messages <=> <<q, n>> \in db.messages
              /\ IsLatest(db', q) => IsLatest(db, q) /\ db.requests[q].client # Sender[m]
         /\ \A n : <<r, n>> \in db'.messages <=> n = m
<1>1. /\ r \in Requests /\ ~Exists(db, r) /\ \A q \in Requests : Exists(db, q) => q < r
      /\ Active(db', r) /\ db'.requests[r].client = Sender[m]
      /\ db'.messages = db.messages \cup {<<r, m>>}
      /\ db.acked \subseteq db'.acked /\ db'.acked \subseteq db.acked \cup {r}
  BY DEF CreationStep
<1>2. ASSUME NEW q \in Requests, q # r
      PROVE  /\ db'.requests[q] = db.requests[q]
             /\ \A a \in ActionIds : a[1] = q => db'.actions[a] = db.actions[a]
             /\ q \in db'.acked <=> q \in db.acked
  <2>1. \A a \in ActionIds : a[1] = q => a # <<r, m, 0>>
    BY <1>2
  <2> QED
    BY <1>1, <1>2, <2>1 DEF CreationStep
<1>3. ASSUME NEW q \in Requests, q # r
      PROVE  /\ Exists(db', q) <=> Exists(db, q)
             /\ Active(db', q) <=> Active(db, q)
             /\ db'.requests[q].client = db.requests[q].client
             /\ TopicOf(db', q) = TopicOf(db, q)
  BY <1>2, <1>3 DEF Exists, Active, TopicOf
<1>4. ASSUME NEW q \in Requests, q # r
      PROVE  /\ Told(db', q) <=> Told(db, q)
             /\ BeingOpened(db, q) => BeingOpened(db', q)
             /\ OnItsWay(db, q) => OnItsWay(db', q)
  <2>1. (Told(db', q) <=> Told(db, q)) /\ (BeingOpened(db, q) => BeingOpened(db', q))
    BY <1>2, <1>4 DEF Told, Unclear, BeingOpened
  <2>2. OnlyInitial(db, q) => OnlyInitial(db', q)
    BY <1>2, <1>4 DEF OnlyInitial, Present
  <2>3. SomeChunk(db, q) => SomeChunk(db', q)
    BY <1>2, <1>4 DEF SomeChunk, Present
  <2> QED
    BY <1>3, <1>4, <2>1, <2>2, <2>3 DEF OnItsWay
<1>5. ASSUME NEW q \in Requests, q # r, IsLatest(db', q)
      PROVE  IsLatest(db, q) /\ db.requests[q].client # Sender[m]
  <2>1. Exists(db, q)
    BY <1>3, <1>5 DEF IsLatest
  <2>2. ASSUME NEW x \in Requests, Exists(db, x), db.requests[x].client = db.requests[q].client
        PROVE  x <= q
    <3>1. x # r
      BY <1>1, <2>2
    <3> QED
      BY <1>3, <1>5, <2>2, <3>1 DEF IsLatest
  <2>3. q < r /\ q \in Nat /\ r \in Nat
    BY <1>1, <2>1 DEF Requests
  <2>4. ~(r <= q)
    BY <2>3
  <2>5. Exists(db', r)
    BY <1>1 DEF Exists, Active
  <2>6. db'.requests[r].client # db'.requests[q].client
    BY <1>1, <1>5, <2>4, <2>5 DEF IsLatest
  <2> QED
    BY <1>1, <1>3, <1>5, <2>1, <2>2, <2>6 DEF IsLatest
<1>6. \A n : <<r, n>> \in db'.messages <=> n = m
  <2>1. \A n : <<r, n>> \notin db.messages
    BY <1>1 DEF RowsFit
  <2> QED
    BY <1>1, <2>1
<1>7. \A q \in Requests : q # r =>
        \A n \in Messages : <<q, n>> \in db'.messages <=> <<q, n>> \in db.messages
  BY <1>1
<1>8. ASSUME NEW q \in Requests, q # r
      PROVE  /\ Exists(db', q) <=> Exists(db, q)
             /\ Active(db', q) <=> Active(db, q)
             /\ db'.requests[q].client = db.requests[q].client
             /\ Told(db', q) <=> Told(db, q)
             /\ BeingOpened(db, q) => BeingOpened(db', q)
             /\ OnItsWay(db, q) => OnItsWay(db', q)
             /\ \A n \in Messages : <<q, n>> \in db'.messages <=> <<q, n>> \in db.messages
             /\ IsLatest(db', q) => IsLatest(db, q) /\ db.requests[q].client # Sender[m]
  <2>1. /\ Exists(db', q) <=> Exists(db, q)
        /\ Active(db', q) <=> Active(db, q)
        /\ db'.requests[q].client = db.requests[q].client
    BY <1>3, <1>8
  <2>2. /\ Told(db', q) <=> Told(db, q)
        /\ BeingOpened(db, q) => BeingOpened(db', q)
        /\ OnItsWay(db, q) => OnItsWay(db', q)
    BY <1>4, <1>8
  <2>3. IsLatest(db', q) => IsLatest(db, q) /\ db.requests[q].client # Sender[m]
    BY <1>5, <1>8
  <2>4. \A n \in Messages : <<q, n>> \in db'.messages <=> <<q, n>> \in db.messages
    BY <1>7, <1>8
  <2> QED
    BY <2>1, <2>2, <2>3, <2>4
<1> QED
  BY <1>6, <1>8

\* Ends of a creation: the client is told, or the request is being opened.
LEMMA CreationEnds ==
  ASSUME HandoffTyped, NEW h \in Handlers, NEW r, NEW m, CreationStep(h, r, m)
  PROVE  /\ PollerEnd(h) /\ \A g \in Handlers : g # h => task'[g] = task[g]
         /\ task'[h].pc = "idle" \/ (task'[h].pc = "opening" /\ task'[h].request = r)
         /\ \/ Marked(h, "completed") /\ r \in db'.acked
            \/ /\ Marked(h, "processing")
               /\ <<r, m, 0>> \in ActionIds /\ db'.actions[<<r, m, 0>>].status = "sending"
<1>1. task \in [Handlers -> TaskRow] /\ NoTask.pc = "idle"
  BY DEF HandoffTyped, NoTask
<1>2. CASE Finish(h, db') /\ r \in db'.acked
  <2>1. task' = [task EXCEPT ![h] = NoTask] /\ Marked(h, "completed")
    BY <1>2 DEF Finish, Marked, CompleteEvent
  <2>2. task'[h] = NoTask /\ \A g \in Handlers : g # h => task'[g] = task[g]
    BY <1>1, <2>1
  <2> QED
    BY <1>1, <1>2, <2>1, <2>2 DEF PollerEnd
<1>3. CASE /\ <<r, m, 0>> \in ActionIds /\ db'.actions[<<r, m, 0>>].status = "sending"
           /\ \E t \in Places :
                Await(h, db', [pc |-> "opening", request |-> r, message |-> m,
                               chunk |-> 0, topic |-> t, lost |-> FALSE])
  <2>1. PICK t \in Places :
          Await(h, db', [pc |-> "opening", request |-> r, message |-> m,
                         chunk |-> 0, topic |-> t, lost |-> FALSE])
    BY <1>3
  <2> DEFINE x == [pc |-> "opening", request |-> r, message |-> m,
                   chunk |-> 0, topic |-> t, lost |-> FALSE]
  <2>2. x.pc = "opening" /\ x.request = r
    OBVIOUS
  <2>3. Await(h, db', x)
    BY <2>1
  <2> HIDE DEF x
  <2>4. task' = [task EXCEPT ![h] = x] /\ Marked(h, "processing")
    BY <2>3 DEF Await, Marked
  <2>5. task'[h] = x /\ \A g \in Handlers : g # h => task'[g] = task[g]
    BY <1>1, <2>4
  <2>6. PollerEnd(h)
    BY <2>2, <2>3 DEF PollerEnd
  <2> QED
    BY <1>3, <2>2, <2>4, <2>5, <2>6
<1> QED
  BY <1>2, <1>3 DEF CreationStep

\* Whoever gets a new request is told about it, or is about to be.
LEMMA NewRequestTold ==
  ASSUME NEW owner \in Owners, HandoffFits(owner), ToldInv, NEW h \in Handlers,
         taken[h] < Len(stream[h]), NEW m \in Messages, Current(h).kind = "message",
         Current(h).of = m, NEW r \in Requests, CreationStep(h, r, m),
         EventsKept(stream, stream'), ~Told(db', r)
  PROVE  OpenerIsNext(db', stream', r) /\ OnItsWay(db', r)
<1>1. /\ HandoffTyped /\ RowsFit(db) /\ UpdatesInOrder(stream, taken, task)
      /\ Len(stream[h]) \in Nat /\ taken[h] \in Nat
  BY DEF HandoffFits, HandoffTyped, TablesFit, ToldInv
<1> DEFINE a == <<r, m, 0>>
           i == taken[h] + 1
<1>2. Marked(h, "processing") /\ a \in ActionIds /\ db'.actions[a].status = "sending"
  BY <1>1, CreationEnds DEF Told
<1>3. /\ Len(stream'[h]) = Len(stream[h])
      /\ stream'[h][i].kind = "message" /\ stream'[h][i].of = m
      /\ stream'[h][i].status = "processing" /\ i \in 1..Len(stream[h])
  <2>1. i \in 1..Len(stream[h])
    BY <1>1
  <2>2. stream[h][i].kind = "message" /\ stream[h][i].of = m
    BY DEF Current
  <2> QED
    BY <1>1, <1>2, <2>1, <2>2, MarkedUpdate
<1>4. OpenedBy(db', r, stream'[h][i])
  BY <1>1, <1>3, CreationLeaves DEF OpenedBy
<1>5. \A j \in 1..Len(stream'[h]) : j < i => stream'[h][j].status = "completed"
  <2> TAKE j \in 1..Len(stream'[h])
  <2> HAVE j < i
  <2>1. j \in 1..Len(stream[h]) /\ j <= taken[h]
    BY <1>1, <1>3
  <2> QED
    BY <1>1, <2>1 DEF UpdatesInOrder, EventsKept
<1>6. OpenerIsNext(db', stream', r)
  BY <1>3, <1>4, <1>5 DEF OpenerIsNext
<1>7. db'.actions[a].initial
  BY <1>2 DEF CreationStep, OutcomesFit, OpeningsFit, Present
<1>8. \A b \in ActionIds : b[1] = r /\ b # a => ~Present(db', b)
  BY DEF CreationStep, Present
<1>9. OnlyInitial(db', r)
  BY <1>2, <1>7, <1>8 DEF OnlyInitial
<1>10. BeingOpened(db', r)
  BY <1>2 DEF BeingOpened
<1> QED
  BY <1>6, <1>9, <1>10 DEF OnItsWay

\* The latest requests of the other clients.
LEMMA OthersTold ==
  ASSUME NEW owner \in Owners, HandoffFits(owner), ToldInv, NEW h \in Handlers,
         taken[h] < Len(stream[h]), NEW m \in Messages, Current(h).kind = "message",
         Current(h).of = m, NEW r \in Requests, CreationStep(h, r, m),
         EventsKept(stream, stream'), NEW q \in Requests, q # r,
         IsLatest(db', q), ~Told(db', q)
  PROVE  OpenerIsNext(db', stream', q) /\ OnItsWay(db', q)
<1>1. /\ HandoffTyped /\ UpdatesFit /\ RowsFit(db) /\ LatestIsTold(db, stream)
      /\ \A g \in Handlers : Len(stream[g]) \in Nat
  BY DEF HandoffFits, HandoffTyped, TablesFit, ToldInv, ToldFits
<1>2. IsLatest(db, q) /\ ~Told(db, q) /\ db.requests[q].client # Sender[m]
  BY <1>1, CreationLeaves
<1>3. OpenerIsNext(db, stream, q) /\ OnItsWay(db, q)
  BY <1>1, <1>2 DEF LatestIsTold
<1>4. /\ OnItsWay(db', q)
      /\ \A n \in Messages : <<q, n>> \in db'.messages <=> <<q, n>> \in db.messages
  BY <1>1, <1>3, CreationLeaves
<1>5. <<q, m>> \notin db.messages
  <2>1. <<q, m>> \in db.messages => db.requests[q].client = Sender[m]
    BY <1>1 DEF RowsFit
  <2> QED
    BY <1>2, <2>1
<1>6. PICK s \in {"none", "processing", "completed"} : Marked(h, s)
  BY <1>1, CreationEnds
<1>7. \A g \in Handlers : \A i \in 1..Len(stream[g]) :
        ~(g = h /\ i = taken[h] + 1) => stream'[g][i] = stream[g][i]
  BY <1>1, <1>6, MarkedUpdate
<1>8. ASSUME NEW g \in Handlers, NEW i \in 1..Len(stream[g]), OpenedBy(db, q, stream[g][i])
      PROVE  stream'[g][i].status # "completed" /\ stream[g][i].of \in Messages
  <2>1. ~(g = h /\ i = taken[h] + 1)
    BY <1>5, <1>8 DEF OpenedBy, Current
  <2>2. stream'[g][i] = stream[g][i]
    BY <1>7, <2>1
  <2>3. stream[g][i].kind = "message" /\ stream[g][i].status # "completed"
    BY <1>8 DEF OpenedBy
  <2> QED
    BY <1>1, <2>2, <2>3 DEF UpdatesFit
<1>9. OpenerIsNext(db', stream', q)
  BY <1>1, <1>3, <1>4, <1>8, OpenerStays
<1> QED
  BY <1>4, <1>9

\* A new request leaves nobody untold.
LEMMA CreationTold ==
  ASSUME NEW owner \in Owners, HandoffFits(owner), OutcomesInv, ToldInv, NEW h \in Handlers,
         taken[h] < Len(stream[h]), NEW m \in Messages, Current(h).kind = "message",
         Current(h).of = m, FindActiveRequest(db, Sender[m]) = 0,
         NEW r \in Requests, CreationStep(h, r, m), EventsKept(stream, stream')
  PROVE  ToldFits(db', stream', task')
<1>1. /\ HandoffTyped /\ UpdatesFit /\ RowsFit(db)
      /\ OlderActive(db) /\ OlderReopening(db, task) /\ OlderRelayed(db, task)
      /\ CompletedIsRecorded(db, stream)
      /\ \A g \in Handlers : Len(stream[g]) \in Nat
  BY DEF HandoffFits, HandoffTyped, TablesFit, ToldInv, ToldFits
<1>2. /\ ~Exists(db, r) /\ Active(db', r) /\ db'.requests[r].client = Sender[m]
  BY DEF CreationStep
<1>3. \A q \in Requests : q # r =>
        /\ Active(db', q) <=> Active(db, q)
        /\ db'.requests[q].client = db.requests[q].client
        /\ Told(db, q) => Told(db', q)
        /\ Handled(db, q) => Handled(db', q)
        /\ IsLatest(db', q) => IsLatest(db, q) /\ db.requests[q].client # Sender[m]
  BY <1>1, CreationLeaves DEF Handled
<1>4. ASSUME NEW x \in Requests, NEW q \in Requests, q # r, Newer(db', x, q)
      PROVE  \/ x = r /\ db.requests[q].client = Sender[m]
             \/ x # r /\ Newer(db, x, q)
  BY <1>2, <1>3, <1>4 DEF Newer
<1>5. \A x \in Requests : ~Newer(db', x, r)
  BY <1>2, <1>3 DEF Newer
<1>6. LatestIsTold(db', stream')
  BY NewRequestTold, OthersTold DEF LatestIsTold
<1>7. OlderActive(db')
  <2> SUFFICES ASSUME NEW q \in Requests, NEW x \in Requests, Active(db', q), Newer(db', x, q)
               PROVE  Handled(db', x)
    BY DEF OlderActive
  <2>1. q # r
    BY <1>5
  <2>2. Active(db, q)
    BY <1>3, <2>1
  <2>3. db.requests[q].client # Sender[m]
    BY <2>2, FoundActive
  <2>4. x # r /\ Newer(db, x, q)
    BY <1>4, <2>1, <2>3
  <2> QED
    BY <1>1, <1>3, <2>2, <2>4 DEF OlderActive
<1>8. /\ task'[h].pc = "idle" \/ (task'[h].pc = "opening" /\ task'[h].request = r)
      /\ \A g \in Handlers : g # h => task'[g] = task[g]
  BY <1>1, CreationEnds
<1>9. OlderReopening(db', task')
  <2> SUFFICES ASSUME NEW g \in Handlers, task'[g].pc = "reopening"
               PROVE  /\ task'[g].request \in Requests
                      /\ \A x \in Requests :
                           Newer(db', x, task'[g].request) => Active(db', x) \/ Handled(db', x)
    BY DEF OlderReopening
  <2>1. task'[g] = task[g]
    BY <1>8
  <2>2. /\ task[g].request \in Requests
        /\ \A x \in Requests :
             Newer(db, x, task[g].request) => Active(db, x) \/ Handled(db, x)
    BY <1>1, <2>1 DEF OlderReopening
  <2>3. ASSUME NEW x \in Requests, Newer(db', x, task[g].request)
        PROVE  Active(db', x) \/ Handled(db', x)
    <3>1. task[g].request # r
      BY <1>5, <2>3
    <3>2. x = r \/ (x # r /\ Newer(db, x, task[g].request))
      BY <1>4, <2>2, <2>3, <3>1
    <3> QED
      BY <1>2, <1>3, <2>2, <3>2
  <2> QED
    BY <2>1, <2>2, <2>3
<1>10. OlderRelayed(db', task')
  <2> SUFFICES ASSUME NEW g \in Handlers, task'[g].pc \in {"relaying", "opening"}
               PROVE  /\ task'[g].request \in Requests
                      /\ \A x \in Requests : Newer(db', x, task'[g].request) => Told(db', x)
    BY DEF OlderRelayed
  <2>1. CASE g = h
    BY <1>5, <1>8, <2>1
  <2>2. CASE g # h
    <3>1. task'[g] = task[g]
      BY <1>8, <2>2
    <3>2. /\ task[g].request \in Requests
          /\ \A x \in Requests : Newer(db, x, task[g].request) => Told(db, x)
      BY <1>1, <3>1 DEF OlderRelayed
    <3>3. /\ taken[g] < Len(stream[g]) /\ Current(g).kind = "message"
          /\ Current(g).of = task[g].message /\ Exists(db, task[g].request)
          /\ db.requests[task[g].request].client = Sender[task[g].message]
      BY <3>1, AtWork DEF Working
    <3>4. HandlerOf(Sender[task[g].message]) = g
      BY <1>1, <3>3, OwnMessage
    <3>5. HandlerOf(Sender[m]) = h
      BY <1>1, OwnMessage
    <3>6. task[g].request # r /\ db.requests[task[g].request].client # Sender[m]
      BY <1>2, <2>2, <3>3, <3>4, <3>5
    <3>7. ASSUME NEW x \in Requests, Newer(db', x, task[g].request)
          PROVE  Told(db', x)
      <4>1. x # r /\ Newer(db, x, task[g].request)
        BY <1>4, <3>2, <3>6, <3>7
      <4> QED
        BY <1>3, <3>2, <4>1
    <3> QED
      BY <3>1, <3>2, <3>7
  <2> QED
    BY <2>1, <2>2
<1>11. CompletedIsRecorded(db', stream')
  <2>1. KeepsMessages
    BY CreationOutcomes DEF OutcomesStep
  <2>2. \A g \in Handlers : \A i \in 1..Len(stream[g]) :
          /\ stream'[g][i].kind = "message" /\ stream'[g][i].status = "completed"
          /\ stream[g][i].status # "completed"
          => \E q \in Requests : <<q, stream[g][i].of>> \in db'.messages
    BY <2>1 DEF KeepsMessages, Completes
  <2>3. db.messages \subseteq db'.messages
    BY DEF CreationStep
  <2> QED
    BY <1>1, <2>2, <2>3, RecordedStays
<1> QED
  BY <1>6, <1>7, <1>9, <1>10, <1>11 DEF ToldFits

\* What every step does for the order of updates and for what clients were told.
ToldStep == UpdatesStep /\ ToldFits(db', stream', task')

\* A poller's step that is not about a message ends like any other.
LEMMA QuietTurnEnds ==
  ASSUME NEW h \in Handlers, QuietTurn(h)
  PROVE  PollerEnd(h)
<1>1. PICK d : QuietEnd(h, d)
  BY DEF QuietTurn
<1>2. CASE Finish(h, d) \/ Fail(h, d)
  BY <1>2 DEF PollerEnd, Finish, Fail
<1>3. ASSUME NEW t, t.pc # "idle", Await(h, d, t)
      PROVE  PollerEnd(h)
  BY <1>3 DEF PollerEnd, Await
<1>4. CASE AwaitMenuAnswer(h, d)
  <2> DEFINE t == [NoTask EXCEPT !.pc = "answering"]
  <2>1. t.pc = "answering" /\ Await(h, d, t)
    BY <1>4 DEF AwaitMenuAnswer, NoTask
  <2> HIDE DEF t
  <2> QED
    BY <1>3, <2>1
<1>5. ASSUME NEW pc \in {"closing", "reopening", "resetting"}, NEW r \in Requests,
             Await(h, d, [NoTask EXCEPT !.pc = pc, !.request = r])
      PROVE  PollerEnd(h)
  <2> DEFINE t == [NoTask EXCEPT !.pc = pc, !.request = r]
  <2>1. t.pc = pc /\ Await(h, d, t)
    BY <1>5 DEF NoTask
  <2> HIDE DEF t
  <2> QED
    BY <1>3, <2>1
<1> QED
  BY <1>1, <1>2, <1>4, <1>5 DEF QuietEnd

\* A poller's step on a message.
LEMMA MessageTold ==
  ASSUME NEW owner \in Owners, HandoffFits(owner), OutcomesInv, ToldInv, NEW h \in Handlers,
         taken[h] < Len(stream[h]), NEW m \in Messages, Current(h).kind = "message",
         Current(h).of = m, Current(h).status # "completed", NEW r \in Requests,
         \/ TakesTo(h, r, m) /\ MessageStep(h, r, m)
         \/ FindActiveRequest(db, Sender[m]) = 0 /\ CreationStep(h, r, m)
  PROVE  ToldStep
<1>1. HandoffTyped /\ UpdatesInOrder(stream, taken, task) /\ task \in [Handlers -> TaskRow]
  BY DEF HandoffFits, HandoffTyped, ToldInv
<1>2. PollerEnd(h)
  BY <1>1, MessageStepIs, CreationEnds
<1>3. UpdatesStep
  BY <1>1, <1>2, PollerInOrder
<1>4. EventsKept(stream, stream')
  BY <1>3 DEF UpdatesStep
<1>5. CASE TakesTo(h, r, m) /\ MessageStep(h, r, m)
  BY <1>3, <1>4, <1>5, MessageStepTold DEF ToldStep
<1>6. CASE FindActiveRequest(db, Sender[m]) = 0 /\ CreationStep(h, r, m)
  BY <1>3, <1>4, <1>6, CreationTold DEF ToldStep
<1> QED
  BY <1>5, <1>6

\* A poller's step on another update.
LEMMA OperatorTold ==
  ASSUME NEW owner \in Owners, HandoffFits(owner), OutcomesInv, ToldInv, NEW h \in Handlers,
         taken[h] < Len(stream[h]), Current(h).kind # "message",
         Current(h).status # "completed", QuietTurn(h)
  PROVE  ToldStep
<1>1. HandoffTyped /\ UpdatesInOrder(stream, taken, task)
  BY DEF HandoffFits, ToldInv
<1>2. UpdatesStep
  BY <1>1, QuietTurnEnds, PollerInOrder
<1>3. EventsKept(stream, stream')
  BY <1>2 DEF UpdatesStep
<1> QED
  BY <1>2, <1>3, QuietTurnTold DEF ToldStep

\* A poller takes its next update.
LEMMA TakingTold ==
  ASSUME NEW owner \in Owners, HandoffFits(owner), OutcomesInv, ToldInv, NEW h \in Handlers,
         TakeUpdate(h)
  PROVE  ToldStep
<1> DEFINE e == Current(h)
<1>1. taken[h] < Len(stream[h]) /\ task[h].pc = "idle" /\ RouteUpdate(h)
  BY DEF TakeUpdate
<1>2. \/ /\ e.status # "none" /\ db' = db /\ stream' = stream /\ task' = task
         /\ taken' = [taken EXCEPT ![h] = @ + 1]
      \/ e.status = "none" /\ e.kind = "message" /\ ProcessClientMessage(h, e.of)
      \/ e.status = "none" /\ e.kind = "newQuestion" /\ ResetConversation(h, e.of)
      \/ /\ e.status = "none" /\ e.kind \notin {"message", "newQuestion"}
         /\ HandleOperatorUpdate(h, e)
  BY <1>1 DEF RouteUpdate
<1> HIDE DEF e
<1>3. CASE /\ e.status # "none" /\ db' = db /\ stream' = stream /\ task' = task
           /\ taken' = [taken EXCEPT ![h] = @ + 1]
  <2>1. HandoffTyped /\ UpdatesInOrder(stream, taken, task)
    BY DEF HandoffFits, ToldInv
  <2>2. UpdatesStep
    BY <1>1, <1>3, <2>1, SkippedInOrder DEF e
  <2>3. EventsKept(stream, stream')
    BY <2>2 DEF UpdatesStep
  <2>4. QuietStep
    BY <1>3, NothingHappened
  <2> QED
    BY <1>3, <2>2, <2>3, <2>4, NothingTold DEF ToldStep
<1>4. CASE e.status = "none" /\ e.kind = "message" /\ ProcessClientMessage(h, e.of)
  <2>1. /\ e.of \in Messages /\ e.kind = Current(h).kind /\ e.of = Current(h).of
        /\ e.status = Current(h).status
    BY <1>1, <1>4, OwnMessage DEF HandoffFits, e
  <2> DEFINE r == FindActiveRequest(db, Sender[e.of])
  <2>2. \/ r \in Requests /\ Active(db, r) /\ MessageStep(h, r, e.of)
        \/ r = 0 /\ \E q \in Requests : CreationStep(h, q, e.of)
    BY <1>1, <1>4, <2>1, MessageProcessed
  <2>3. r # 0 => db.requests[r].client = Sender[e.of]
    BY FoundActive
  <2>4. 0 \notin Requests
    BY DEF Requests
  <2>5. CASE r \in Requests /\ Active(db, r) /\ MessageStep(h, r, e.of)
    <3>1. TakesTo(h, r, e.of)
      BY <1>1, <2>3, <2>4, <2>5 DEF TakesTo
    <3> HIDE DEF r
    <3> QED
      BY <1>1, <1>4, <2>1, <2>5, <3>1, MessageTold
  <2>6. CASE r = 0 /\ \E q \in Requests : CreationStep(h, q, e.of)
    BY <1>1, <1>4, <2>1, <2>6, MessageTold
  <2> QED
    BY <2>2, <2>5, <2>6
<1>5. CASE e.status = "none" /\ e.kind = "newQuestion" /\ ResetConversation(h, e.of)
  <2>1. QuietTurn(h) /\ Current(h).kind # "message" /\ Current(h).status # "completed"
    BY <1>5, ResetTurn DEF e
  <2> QED
    BY <1>1, <2>1, OperatorTold
<1>6. CASE /\ e.status = "none" /\ e.kind \notin {"message", "newQuestion"}
           /\ HandleOperatorUpdate(h, e)
  <2>1. QuietTurn(h) /\ Current(h).kind # "message" /\ Current(h).status # "completed"
    BY <1>1, <1>6, OperatorUpdateTurn DEF e
  <2> QED
    BY <1>1, <2>1, OperatorTold
<1> QED
  BY <1>2, <1>3, <1>4, <1>5, <1>6

\* Telegram answers.
LEMMA AnswersTold ==
  ASSUME NEW owner \in Owners, HandoffFits(owner), OutcomesInv, ToldInv, NEW h \in Handlers,
         Answer(h)
  PROVE  ToldStep
<1>1. CASE \/ RelayAccepted(h) \/ RelayUnanswered(h) \/ RelayRejected(h)
           \/ OpenAccepted(h) \/ OpenUnanswered(h) \/ OpenRejected(h)
  <2> DEFINE r == task[h].request
             m == task[h].message
  <2>1. Working(h)
    BY <1>1 DEF Working, RelayAccepted, RelayUnanswered, RelayRejected, OpenAccepted,
                OpenUnanswered, OpenRejected
  <2>2. /\ r \in Requests /\ m \in Messages /\ taken[h] < Len(stream[h])
        /\ Current(h).kind = "message" /\ Current(h).of = m
    BY <2>1, AtWork
  <2>3. OpenUnanswered(h) => MessageStep(h, r, m)
    BY OpeningUnknown DEF OpenUnanswered
  <2>4. MessageStep(h, r, m)
    BY <1>1, <2>3, RelayAnswered, RelayRefused, OpeningAccepted, OpeningRefused
  <2>5. Current(h).status = "processing"
    BY <2>1 DEF HandoffFits, TaskFits, Working
  <2>6. TakesTo(h, r, m)
    BY <2>1 DEF TakesTo
  <2> HIDE DEF r, m
  <2> QED
    BY <2>2, <2>4, <2>5, <2>6, MessageTold
<1>2. CASE TopicCloseAnswered(h) \/ ReopenAnswered(h) \/ ResetAnswered(h) \/ MenuAnswered(h)
  <2>1. /\ QuietTurn(h) /\ taken[h] < Len(stream[h]) /\ Current(h).kind # "message"
        /\ task[h].pc # "idle"
    BY <1>2, AnswerTurn
  <2>2. Current(h).status = "processing"
    BY <2>1 DEF HandoffFits, TaskFits
  <2> QED
    BY <2>1, <2>2, OperatorTold
<1> QED
  BY <1>1, <1>2 DEF Answer

\* Updates arrive.
LEMMA ArrivalTold ==
  ASSUME NEW owner \in Owners, HandoffFits(owner), OutcomesInv, ToldInv,
         NEW h \in Handlers, NEW kind, NEW x, NEW at, Arrive(h, kind, x, at),
         h = "vk" => kind = "message"
  PROVE  ToldStep
<1>1. HandoffTyped /\ UpdatesInOrder(stream, taken, task)
  BY DEF HandoffFits, ToldInv
<1>2. UpdatesStep
  BY <1>1, ArrivedInOrder
<1>3. EventsKept(stream, stream')
  BY <1>2 DEF UpdatesStep
<1>4. QuietStep /\ db' = db /\ task' = task
  BY ArrivalIsQuiet DEF Arrive
<1> QED
  BY <1>2, <1>3, <1>4, NothingTold DEF ToldStep

\* Whatever happens, whoever is done with was told.
LEMMA StepsTold ==
  ASSUME NEW owner \in Owners, HandoffFits(owner), OutcomesInv, ToldInv, Act
  PROVE  ToldStep
<1>0. /\ HandoffTyped /\ UpdatesInOrder(stream, taken, task)
      /\ taken \in [Handlers -> Nat] /\ confirmed \in [Handlers -> Nat]
      /\ \A h \in Handlers : confirmed[h] <= taken[h]
  BY DEF HandoffFits, HandoffTyped, ToldInv
<1>1. ASSUME NEW h \in Handlers, TakeUpdate(h) \/ ConfirmUpdates(h) \/ Answer(h)
      PROVE  ToldStep
  <2>1. CASE TakeUpdate(h)
    BY <2>1, TakingTold
  <2>2. CASE ConfirmUpdates(h)
    <3>1. stream' = stream /\ task' = task /\ taken' = taken /\ db' = db
      BY <2>2 DEF ConfirmUpdates
    <3>2. UpdatesStep
      BY <1>0, <3>1, StillInOrder
    <3>3. EventsKept(stream, stream') /\ QuietStep
      BY <3>1, <3>2, NothingHappened DEF UpdatesStep
    <3> QED
      BY <3>1, <3>2, <3>3, NothingTold DEF ToldStep
  <2>3. CASE Answer(h)
    BY <2>3, AnswersTold
  <2> QED
    BY <1>1, <2>1, <2>2, <2>3
<1>2. CASE \/ \E m \in Messages : ClientWrites(m)
           \/ \E t \in Topics :
                \/ \E kind \in Kinds \ {"topicClosed", "newQuestion"} : OperatorWrites(kind, t)
                \/ OperatorClosesTopic(t)
           \/ \E c \in TelegramClients : ClientResets(c)
  <2>1. \E h \in Handlers : \E kind, x, at :
          Arrive(h, kind, x, at) /\ (h = "vk" => kind = "message")
    BY <1>2 DEF ClientWrites, OperatorWrites, OperatorClosesTopic, ClientResets, Handlers,
                HandlerOf
  <2> QED
    BY <2>1, ArrivalTold
<1>3. CASE Connect \/ Disconnect \/ Stopped
  <2>1. db' = db /\ stream' = stream /\ task' = task
    BY <1>3 DEF Connect, Disconnect, Stopped, SetTelegram
  <2>2. \A h \in Handlers :
          taken'[h] = taken[h] \/ (task[h].pc = "idle" /\ taken'[h] \in Nat /\ taken'[h] <= taken[h])
    <3>1. CASE Connect \/ Disconnect
      BY <3>1 DEF Connect, Disconnect
    <3>2. CASE Stopped
      <4>1. task["telegram"].pc = "idle"
            /\ taken' = [taken EXCEPT !["telegram"] = confirmed["telegram"]]
        BY <3>2 DEF Stopped
      <4> QED
        BY <1>0, <4>1
    <3> QED
      BY <1>3, <3>1, <3>2
  <2>3. UpdatesStep
    BY <1>0, <2>1, <2>2, StillInOrder
  <2>4. EventsKept(stream, stream') /\ QuietStep
    BY <2>1, <2>3, NothingHappened DEF UpdatesStep
  <2> QED
    BY <2>1, <2>3, <2>4, NothingTold DEF ToldStep
<1>4. ASSUME stream' = stream, task' = task, taken' = taken
      PROVE  UpdatesStep /\ EventsKept(stream, stream')
  BY <1>0, <1>4, StillInOrder DEF UpdatesStep
<1>5. ASSUME NEW r \in Requests, WebReply(r) \/ WebClose(r)
      PROVE  ToldStep
  <2>1. stream' = stream /\ task' = task /\ taken' = taken
    BY <1>5 DEF WebReply, WebClose, OnlyTables
  <2> QED
    BY <1>4, <1>5, <2>1, WebTold DEF ToldStep
<1>6. ASSUME NEW a \in ActionIds, ConfirmReceived(a) \/ MoveToWeb(a)
      PROVE  ToldStep
  <2>1. stream' = stream /\ task' = task /\ taken' = taken
    BY <1>6 DEF ConfirmReceived, MoveToWeb, OnlyTables
  <2> QED
    BY <1>4, <1>6, <2>1, ConfirmTold, MoveTold DEF ToldStep
<1>7. CASE CrashAndRestart
  <2>1. UpdatesStep
    BY <1>0, <1>7, CrashInOrder
  <2>2. EventsKept(stream, stream')
    BY <2>1 DEF UpdatesStep
  <2> QED
    BY <1>7, <2>1, <2>2, CrashTold DEF ToldStep
<1> QED
  BY <1>1, <1>2, <1>3, <1>5, <1>6, <1>7 DEF Act

\* At first nobody wrote.
LEMMA ToldInit ==
  ASSUME Init
  PROVE  ToldInv
<1>1. /\ \A r \in Requests : db.requests[r].status = "absent"
      /\ \A h \in Handlers : task[h].pc = "idle" /\ stream[h] = << >>
  BY DEF Init, NoRequest, NoTask
<1>2. \A r \in Requests : ~Exists(db, r) /\ ~Active(db, r)
  BY <1>1 DEF Exists, Active
<1>3. \A h \in Handlers : 1..Len(stream[h]) = {}
  BY <1>1
<1>4. UpdatesInOrder(stream, taken, task) /\ CompletedIsRecorded(db, stream)
  BY <1>3 DEF UpdatesInOrder, CompletedIsRecorded
<1>5. LatestIsTold(db, stream) /\ OlderActive(db)
  BY <1>2 DEF LatestIsTold, OlderActive, IsLatest
<1>6. OlderReopening(db, task) /\ OlderRelayed(db, task)
  BY <1>1 DEF OlderReopening, OlderRelayed
<1> QED
  BY <1>4, <1>5, <1>6 DEF ToldInv, ToldFits

\* A client whose messages are done with was told about his latest request, and
\* until then the message that opened it is next in line.
THEOREM ToldInvariant == Spec => []ToldInv
<1>1. ASSUME HandoffInv, OutcomesInv, ToldInv, [Next]_vars
      PROVE  ToldInv'
  <2>1. CASE UNCHANGED vars
    <3>1. db' = db /\ stream' = stream /\ taken' = taken /\ task' = task
      BY <2>1 DEF vars
    <3> QED
      BY <1>1, <3>1 DEF ToldInv
  <2>2. CASE Act
    <3>1. ToldStep
      BY <1>1, <2>2, StepsTold DEF HandoffInv
    <3> QED
      BY <3>1 DEF ToldStep, UpdatesStep, ToldInv
  <2> QED
    BY <1>1, <2>1, <2>2 DEF Next
<1> QED
  BY <1>1, ToldInit, HandoffInvariant, OutcomesInvariant, PTL DEF Spec

\* A message that is done with belongs to a request whose client was told, whose
\* relay is uncertain, or that is not the latest.
LEMMA DoneIsTold ==
  ASSUME NEW owner \in Owners, HandoffFits(owner), OutcomesInv, ToldInv,
         NEW h \in Handlers, NEW i \in 1..Len(stream[h]),
         stream[h][i].kind = "message", stream[h][i].status = "completed"
  PROVE  \E r \in Requests :
           /\ <<r, stream[h][i].of>> \in db.messages
           /\ \/ r \in db.acked
              \/ \E m \in Messages : Unknown(db, r, m)
              \/ FindLatestRequest(db, Sender[stream[h][i].of]) # r
<1>1. /\ HandoffTyped /\ UpdatesFit /\ RowsFit(db) /\ scenario \in Scenario
      /\ LatestIsTold(db, stream) /\ CompletedIsRecorded(db, stream)
  BY DEF HandoffFits, HandoffTyped, TablesFit, ToldInv, ToldFits
<1> DEFINE n == stream[h][i].of
<1>2. n \in Messages /\ HandlerOf(Sender[n]) = h
      /\ \A j \in 1..Len(stream[h]) :
           stream[h][j].kind = "message" /\ stream[h][j].of = n => j = i
  BY <1>1 DEF UpdatesFit
<1>3. PICK r \in Requests : <<r, n>> \in db.messages
  BY <1>1 DEF CompletedIsRecorded
<1> HIDE DEF n
<1>4. Exists(db, r) /\ Sender[n] = db.requests[r].client
  BY <1>1, <1>3 DEF RowsFit
<1>5. CASE FindLatestRequest(db, Sender[n]) # r
  BY <1>3, <1>5 DEF n
<1>6. CASE Told(db, r)
  <2>1. ASSUME Unclear(db, r)
        PROVE  \E m \in Messages : Unknown(db, r, m)
    <3>1. PICK a \in ActionIds : a[1] = r /\ db.actions[a].status = "outcome_unknown"
      BY <2>1 DEF Unclear
    <3>2. a[3] <= Chunks[a[2]]
      BY <1>1, <3>1 DEF RowsFit
    <3>3. Chunks \in [Messages -> 1..MaxChunks] /\ MaxChunks \in Nat
      BY <1>1, ScenarioFacts
    <3>4. a[2] \in Messages /\ a[3] \in 0..MaxChunks /\ a = <<a[1], a[2], a[3]>>
      BY DEF ActionIds
    <3>5. Chunks[a[2]] \in 1..MaxChunks
      BY <3>3, <3>4
    <3>6. a[3] \in 0..Chunks[a[2]]
      BY <3>2, <3>3, <3>4, <3>5
    <3> QED
      BY <3>1, <3>4, <3>6 DEF Unknown
  <2> QED
    BY <1>3, <1>6, <2>1 DEF Told, n
<1>7. CASE FindLatestRequest(db, Sender[n]) = r /\ ~Told(db, r)
  <2>1. \A q \in Requests : Exists(db, q) /\ db.requests[q].client = Sender[n] => q <= r
    BY <1>7, FoundLatest
  <2>2. IsLatest(db, r)
    BY <1>4, <2>1 DEF IsLatest
  <2>3. OpenerIsNext(db, stream, r)
    BY <1>1, <1>7, <2>2 DEF LatestIsTold
  <2>4. PICK g \in Handlers : \E j \in 1..Len(stream[g]) : OpenedBy(db, r, stream[g][j])
    BY <2>3 DEF OpenerIsNext
  <2>5. PICK j \in 1..Len(stream[g]) : OpenedBy(db, r, stream[g][j])
    BY <2>4
  <2>6. stream[g][j].kind = "message" /\ stream[g][j].status # "completed" /\ stream[g][j].of = n
    BY <1>2, <1>3, <2>5 DEF OpenedBy
  <2>7. g = h
    BY <1>1, <1>2, <2>6 DEF UpdatesFit
  <2> QED
    BY <1>2, <2>6, <2>7
<1> QED
  BY <1>5, <1>6, <1>7

\* A client is told that his question was sent only if operators have one of the
\* messages, and is told so, or an uncertain relay is to be resolved, whenever a
\* message of his latest request is done with.
THEOREM AcknowledgementIsHonestAlways == Spec => []AcknowledgementIsHonest
<1>1. ASSUME HandoffInv, OutcomesInv, ToldInv
      PROVE  AcknowledgementIsHonest
  <2>1. \A r \in db.acked : r \in db.takeovers \/ \E m \in Messages : Sent(db, r, m)
    BY <1>1 DEF OutcomesInv, OutcomesFit, AckedHonestly
  <2>2. PICK owner \in Owners : HandoffFits(owner)
    BY <1>1 DEF HandoffInv
  <2> QED
    BY <1>1, <2>1, <2>2, DoneIsTold DEF AcknowledgementIsHonest
<1> QED
  BY <1>1, HandoffInvariant, OutcomesInvariant, ToldInvariant, PTL
=============================================================================
