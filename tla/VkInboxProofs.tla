---------------------------- MODULE VkInboxProofs ----------------------------
(***************************************************************************)
(* Proofs about VkInbox, for any events, clients and limits, and for any   *)
(* number of pollers that overlap.                                         *)
(*                                                                         *)
(* No property is inductive alone.  A row may be deleted on the strength   *)
(* of another poller's claim only because a claim in progress belongs to a *)
(* poller whose turn it is (Claims, HaveTurn), so that whoever's turn it   *)
(* is next finds the claim released or completed (IInv, first part).       *)
(* Messages are taken up in order because, while a poller waits on an      *)
(* event, every event stored before it is excused (NoneOvertakes).  That   *)
(* lasts since only the running poller adds rows, it found nothing pending *)
(* before it asked for more (Quiet), and whatever VK hands out again was   *)
(* stored once (Seen) (OrderInv, second part).                             *)
(***************************************************************************)
EXTENDS VkInbox, FiniteSetTheorems, SequenceTheorems, WellFoundedInduction, TLAPS

-----------------------------------------------------------------------------
\* p is at work on the claimed event e.
Works(p, e) == poller[p].pc \in {"handling", "answering"} /\ poller[p].event = e

InboundRow == [status: {"absent", "pending", "quarantined"}, attempts: Nat]
PollerState == [pc: {"off", "idle", "delaying", "naming", "queued", "handling",
                     "answering", "polling"},
                event: Events \cup {None}, ts: Int, aborted: BOOLEAN]

StoreTyped == inbound \in [Events -> InboundRow]
PollersTyped == poller \in [Pollers -> PollerState]
TurnsTyped == turns \in [Conversations -> Seq(Pollers)]
HistoryTyped ==
  /\ relayed \in [Events -> Nat]
  /\ ruling \in [Events -> {"none", "declined", "skipped", "retried"}]

TypeInv ==
  /\ StoreTyped /\ PollersTyped /\ TurnsTyped /\ HistoryTyped
  /\ processed \in [Events -> {"none", "processing", "completed"}]
  /\ running \in Pollers \cup {None}

\* What a poller awaits fits the kind of its event.
OnEvents ==
  \A p \in Pollers :
    /\ poller[p].pc \in {"delaying", "naming", "queued", "handling", "answering"}
         => poller[p].event \in Events
    /\ poller[p].pc \in {"naming", "queued", "handling"}
         => IsMessage(poller[p].event)
    /\ poller[p].pc = "answering" => ~IsMessage(poller[p].event)

HaveTurn ==
  \A p \in Pollers :
    poller[p].pc = "handling" => HasTurn(p, Conversation[poller[p].event])

Claims ==
  \A e \in Events :
    /\ processed[e] = "processing" => \E p \in Pollers : Works(p, e)
    /\ Kind[e] = "attachment" => processed[e] = "none"
    /\ Kind[e] # "attachment" =>
         /\ \A p \in Pollers : Works(p, e) => processed[e] = "processing"
         /\ \A p, q \in Pollers : Works(p, e) /\ Works(q, e) => p = q

RelayedWhenCompleted ==
  \A e \in Events :
    IsMessage(e) =>
      relayed[e] = 0 \/ (relayed[e] = 1 /\ processed[e] = "completed")

IInv == TypeInv /\ OnEvents /\ HaveTurn /\ Claims /\ RelayedWhenCompleted

\* Nothing is claimed, and nobody waits, at the start.
LEMMA Init_IInv == Init => IInv
<1> SUFFICES ASSUME Init PROVE IInv
  OBVIOUS
<1>1. TypeInv
  BY DEF Init, TypeInv, StoreTyped, PollersTyped, TurnsTyped, HistoryTyped,
         InboundRow, PollerState, NoRow, Off, None
<1>2. OnEvents /\ HaveTurn
  BY DEF Init, OnEvents, HaveTurn, Off
<1>3. \A p \in Pollers, e \in Events : ~Works(p, e)
  BY DEF Init, Works, Off
<1>4. Claims
  BY <1>3 DEF Init, Claims
<1>5. \A e \in Events : relayed[e] = 0
  BY DEF Init
<1>6. RelayedWhenCompleted
  BY <1>5 DEF RelayedWhenCompleted, IsMessage
<1> QED
  BY <1>1, <1>2, <1>4, <1>6 DEF IInv

-----------------------------------------------------------------------------
(* Steps that leave the claims and the pollers at work alone.              *)

\* The pollers at work are the same, on the same events, and keep their turn.
SameWork ==
  \A q \in Pollers :
    /\ poller'[q].pc \in {"handling", "answering"}
         <=> poller[q].pc \in {"handling", "answering"}
    /\ poller[q].pc \in {"handling", "answering"} =>
         poller'[q].pc = poller[q].pc /\ poller'[q].event = poller[q].event
    /\ poller[q].pc = "handling" =>
         \A c \in Conversations : HasTurn(q, c) => HasTurn(q, c)'

\* A step that leaves the pollers at work and the claims alone keeps the invariant.
LEMMA QuietStep ==
  ASSUME IInv, TypeInv', OnEvents', SameWork, UNCHANGED <<processed, relayed>>
  PROVE  IInv'
<1>1. HaveTurn'
  BY DEF IInv, HaveTurn, SameWork, OnEvents, Conversations
<1>2. \A q \in Pollers, e \in Events : Works(q, e)' <=> Works(q, e)
  BY DEF SameWork, Works
<1>3. Claims'
  BY <1>2 DEF IInv, Claims
<1>4. RelayedWhenCompleted'
  BY DEF IInv, RelayedWhenCompleted
<1> QED
  BY <1>1, <1>3, <1>4 DEF IInv

\* Only the poller p moves, and it is not at work before or after.
Moves(p) ==
  /\ poller[p].pc \notin {"handling", "answering"}
  /\ poller'[p].pc \notin {"handling", "answering"}
  /\ \A q \in Pollers : q # p => poller'[q] = poller[q]

\* A poller that is not at work waits for an event of the right kind.
Fits(r) ==
  /\ r.pc \in {"delaying", "naming", "queued"} => r.event \in Events
  /\ r.pc \in {"naming", "queued"} => IsMessage(r.event)

\* So does a move of a poller that is not at work before or after it.
LEMMA MoveStep ==
  ASSUME IInv, TypeInv', NEW p \in Pollers, Moves(p), Fits(poller'[p]),
         \A q \in Pollers, c \in Conversations :
           q # p /\ HasTurn(q, c) => HasTurn(q, c)',
         UNCHANGED <<processed, relayed>>
  PROVE  IInv'
<1>1. OnEvents'
  BY DEF IInv, OnEvents, Moves, Fits, IsMessage
<1>2. SameWork
  BY DEF SameWork, Moves
<1> QED
  BY <1>1, <1>2, QuietStep


\* The table keeps its type under each statement of the repository.
LEMMA CompleteTyped ==
  ASSUME StoreTyped, NEW e \in Events, CompleteInboundEvent(e)
  PROVE  /\ StoreTyped'
         /\ \A f \in Events : f # e => inbound'[f] = inbound[f]
<1>1. inbound' = [inbound EXCEPT ![e] = NoRow]
  BY DEF CompleteInboundEvent
<1> QED
  BY <1>1 DEF StoreTyped, InboundRow, NoRow

\* The row of a failed attempt is a row, and it is still stored.
LEMMA FailureTyped ==
  ASSUME NEW row \in InboundRow
  PROVE  Failure(row) \in InboundRow /\ Failure(row).status # "absent"
BY VkInboxAssumption DEF Failure, InboundRow

\* A failure keeps the types of the table and deletes no row.
LEMMA FailedTyped ==
  ASSUME StoreTyped, NEW p \in Pollers, NEW e \in Events, Failed(p, e)
  PROVE  /\ StoreTyped'
         /\ \A f \in Events : inbound'[f].status = "absent"
                                => inbound[f].status = "absent"
<1>1. inbound[e] \in InboundRow
  BY DEF StoreTyped
<1>2. /\ Failure(inbound[e]) \in InboundRow
      /\ Failure(inbound[e]).status # "absent"
  BY <1>1, FailureTyped
<1> QED
  BY <1>2 DEF StoreTyped, Failed

\* The end of a turn of the loop takes p out of work and touches nobody else.
LEMMA LoopMoves ==
  ASSUME PollersTyped, NEW p \in Pollers, Loop(p)
  PROVE  /\ PollersTyped'
         /\ poller'[p].pc \in {"off", "idle"}
         /\ \A q \in Pollers : q # p => poller'[q] = poller[q]
<1>1. poller'[p] \in PollerState /\ poller'[p].pc \in {"off", "idle"}
  <2>1. CASE poller[p].aborted
    <3>1. poller'[p] = Off
      BY <2>1 DEF Loop, PollersTyped
    <3> QED
      BY <3>1 DEF Off, None, PollerState
  <2>2. CASE ~poller[p].aborted
    <3>1. poller'[p] = [poller[p] EXCEPT !.pc = "idle", !.event = None]
      BY <2>2 DEF Loop, PollersTyped
    <3>2. poller[p] \in PollerState
      BY DEF PollersTyped
    <3> QED
      BY <3>1, <3>2 DEF PollerState
  <2> QED
    BY <2>1, <2>2
<1>2. \A q \in Pollers : q # p => poller'[q] = poller[q]
  BY DEF Loop, PollersTyped
<1>3. PollersTyped'
  BY <1>1, <1>2 DEF Loop, PollersTyped
<1> QED
  BY <1>1, <1>2, <1>3

\* p awaits on e, and nobody else moves.
LEMMA AwaitMoves ==
  ASSUME PollersTyped, NEW p \in Pollers, NEW e \in Events,
         NEW pc \in {"delaying", "naming", "queued", "handling", "answering"},
         Await(p, pc, e)
  PROVE  /\ PollersTyped'
         /\ poller'[p].pc = pc /\ poller'[p].event = e
         /\ \A q \in Pollers : q # p => poller'[q] = poller[q]
BY DEF PollersTyped, PollerState, Await

\* Leaving the queue takes no other poller's turn away.
LEMMA LeaveQueueKeepsTurns ==
  ASSUME TurnsTyped, NEW p \in Pollers, LeaveQueue(p)
  PROVE  /\ TurnsTyped'
         /\ \A q \in Pollers, c \in Conversations :
              q # p /\ HasTurn(q, c) => HasTurn(q, c)'
<1>1. \A c \in Conversations : HasTurn(p, c) => Tail(turns[c]) \in Seq(Pollers)
  BY DEF TurnsTyped, HasTurn
<1>2. TurnsTyped'
  BY <1>1 DEF TurnsTyped, LeaveQueue
<1>3. ASSUME NEW q \in Pollers, NEW c \in Conversations, q # p, HasTurn(q, c)
      PROVE  HasTurn(q, c)'
  <2>1. ~HasTurn(p, c)
    BY <1>3 DEF HasTurn
  <2>2. turns'[c] = turns[c]
    BY <2>1 DEF LeaveQueue
  <2> QED
    BY <1>3, <2>2 DEF HasTurn
<1> QED
  BY <1>2, <1>3

-----------------------------------------------------------------------------
(* Routing an event, from NextEvent or from DelayEnds.                     *)

\* What route() has in common for both callers.
RouteContext(p) ==
  /\ poller[p].pc \notin {"handling", "answering"}
  /\ UNCHANGED <<running, turns, relayed>>

\* Completing an event without work on it keeps claims and turns apart.
LEMMA HandledPreserves ==
  ASSUME IInv, NEW p \in Pollers, NEW e \in Events,
         poller[p].pc \notin {"handling", "answering"},
         Handled(p, e), UNCHANGED <<processed, running, relayed>>,
         turns' = turns \/ LeaveQueue(p), HistoryTyped'
  PROVE  IInv'
<1>1. StoreTyped' /\ PollersTyped' /\ Moves(p) /\ Fits(poller'[p])
  BY CompleteTyped, LoopMoves DEF IInv, TypeInv, Handled, Moves, Fits
<1>2. /\ TurnsTyped'
      /\ \A q \in Pollers, c \in Conversations :
           q # p /\ HasTurn(q, c) => HasTurn(q, c)'
  BY LeaveQueueKeepsTurns DEF IInv, TypeInv, TurnsTyped, HasTurn
<1>3. TypeInv'
  BY <1>1, <1>2 DEF IInv, TypeInv
<1> QED
  BY <1>1, <1>2, <1>3, MoveStep

\* So does a failure, with or without quarantine, that no claim preceded.
LEMMA FailedPreserves ==
  ASSUME IInv, NEW p \in Pollers, NEW e \in Events,
         poller[p].pc \notin {"handling", "answering"},
         Failed(p, e), UNCHANGED <<processed, running, relayed, turns, ruling>>
  PROVE  IInv'
<1>1. StoreTyped'
  BY FailedTyped DEF IInv, TypeInv
<1>2. PollersTyped' /\ Moves(p) /\ Fits(poller'[p])
  BY LoopMoves DEF IInv, TypeInv, Failed, Moves, Fits
<1>3. TypeInv'
  BY <1>1, <1>2 DEF IInv, TypeInv, HistoryTyped, TurnsTyped
<1>4. \A q \in Pollers, c \in Conversations :
        q # p /\ HasTurn(q, c) => HasTurn(q, c)'
  BY DEF HasTurn
<1> QED
  BY <1>2, <1>3, <1>4, MoveStep

\* p awaits something that is not work on a claimed event.
LEMMA AwaitPreserves ==
  ASSUME IInv, NEW p \in Pollers, NEW e \in Events,
         NEW pc \in {"delaying", "naming", "queued"},
         pc # "delaying" => IsMessage(e),
         poller[p].pc \notin {"handling", "answering"},
         Await(p, pc, e),
         TurnsTyped',
         \A q \in Pollers, c \in Conversations :
           q # p /\ HasTurn(q, c) => HasTurn(q, c)',
         UNCHANGED <<inbound, processed, running, relayed, ruling>>
  PROVE  IInv'
<1>1. PollersTyped' /\ Moves(p) /\ Fits(poller'[p])
  BY AwaitMoves DEF IInv, TypeInv, Moves, Fits
<1>2. TypeInv'
  BY <1>1 DEF IInv, TypeInv, StoreTyped, HistoryTyped
<1> QED
  BY <1>1, <1>2, MoveStep

\* A poller starts to work on an event that nobody works on, or, which claims
\* nothing, on an attachment.
LEMMA ClaimPreserves ==
  ASSUME IInv, NEW p \in Pollers, NEW e \in Events,
         poller[p].pc \notin {"handling", "answering"},
         NEW pc \in {"handling", "answering"}, Await(p, pc, e),
         pc = "handling" <=> IsMessage(e),
         pc = "handling" => HasTurn(p, Conversation[e]),
         IF Kind[e] = "attachment" THEN UNCHANGED processed
         ELSE CanClaim(e) /\ processed' = [processed EXCEPT ![e] = "processing"],
         UNCHANGED <<inbound, turns, running, relayed, ruling>>
  PROVE  IInv'
<1>1. /\ PollersTyped'
      /\ poller'[p].pc = pc /\ poller'[p].event = e
      /\ \A q \in Pollers : q # p => poller'[q] = poller[q]
  BY AwaitMoves DEF IInv, TypeInv
<1>2. TypeInv'
  BY <1>1 DEF IInv, TypeInv, StoreTyped, HistoryTyped, TurnsTyped
<1>3. OnEvents'
  BY <1>1 DEF IInv, OnEvents, IsMessage
<1>4. HaveTurn'
  BY <1>1 DEF IInv, HaveTurn, HasTurn, IsMessage
<1>5. \A q \in Pollers, f \in Events :
        Works(q, f)' <=> Works(q, f) \/ (q = p /\ f = e)
  BY <1>1 DEF Works
<1>6. Claims'
  BY <1>2, <1>5 DEF IInv, TypeInv, Claims, CanClaim
<1>7. RelayedWhenCompleted'
  BY DEF IInv, TypeInv, RelayedWhenCompleted, CanClaim
<1> QED
  BY <1>2, <1>3, <1>4, <1>6, <1>7 DEF IInv

\* Routing p's event keeps claims and turns apart, whatever the event is.
LEMMA RoutePreserves ==
  ASSUME IInv, NEW p \in Pollers, NEW e \in Events, RouteContext(p), Route(p, e)
  PROVE  IInv'
<1> USE DEF RouteContext
<1>1. Kind[e] \in Kinds
  BY VkInboxAssumption
<1>2. CASE Kind[e] = "other"
  BY <1>2, HandledPreserves DEF Route, IInv, TypeInv, HistoryTyped
<1>3. CASE Kind[e] = "invalid"
  BY <1>3, FailedPreserves DEF Route
<1>4. CASE Kind[e] = "attachment"
  BY <1>4, ClaimPreserves DEF Route, IsMessage, store
<1>5. CASE Kind[e] = "menu"
  <2>1. CASE CanClaim(e)
    BY <1>5, <2>1, ClaimPreserves DEF Route, IsMessage, store
  <2>2. CASE ~CanClaim(e)
    BY <1>5, <2>2, HandledPreserves DEF Route, IInv, TypeInv, HistoryTyped
  <2> QED
    BY <2>1, <2>2
<1>6. CASE Kind[e] = "message"
  <2>1. CASE Await(p, "naming", e) /\ UNCHANGED <<store, processed, ruling>>
    BY <1>6, <2>1, AwaitPreserves
       DEF IInv, TypeInv, TurnsTyped, HasTurn, IsMessage, store
  <2>2. CASE /\ ruling' = [ruling EXCEPT ![e] = "declined"]
             /\ Handled(p, e) /\ UNCHANGED processed
    BY <2>2, HandledPreserves DEF IInv, TypeInv, HistoryTyped
  <2> QED
    BY <1>6, <2>1, <2>2 DEF Route
<1> QED
  BY <1>1, <1>2, <1>3, <1>4, <1>5, <1>6 DEF Kinds

-----------------------------------------------------------------------------
(* Each action preserves the invariant.                                    *)

\* The next event is taken by a poller that held nothing.
LEMMA NextEventPreserves ==
  ASSUME IInv, NEW p \in Pollers, NextEvent(p)
  PROVE  IInv'
<1>1. PICK e \in Events :
        \/ Route(p, e)
        \/ Await(p, "delaying", e) /\ UNCHANGED <<store, processed, ruling>>
  BY DEF NextEvent
<1>2. RouteContext(p)
  BY DEF NextEvent, RouteContext
<1>3. CASE Route(p, e)
  BY <1>2, <1>3, RoutePreserves
<1>4. CASE Await(p, "delaying", e) /\ UNCHANGED <<store, processed, ruling>>
  BY <1>2, <1>4, AwaitPreserves
     DEF RouteContext, IInv, TypeInv, TurnsTyped, HasTurn, store
<1> QED
  BY <1>1, <1>3, <1>4

\* A retry after the delay routes the event again.
LEMMA DelayEndsPreserves ==
  ASSUME IInv, NEW p \in Pollers, DelayEnds(p)
  PROVE  IInv'
<1>1. poller[p].event \in Events /\ RouteContext(p)
  BY DEF IInv, OnEvents, DelayEnds, RouteContext
<1>2. CASE poller[p].aborted
  <2>1. Loop(p) /\ UNCHANGED <<store, processed, ruling>>
    BY <1>2 DEF DelayEnds
  <2>2. PollersTyped' /\ Moves(p) /\ Fits(poller'[p])
    BY <1>1, <2>1, LoopMoves DEF IInv, TypeInv, Moves, Fits, RouteContext
  <2>3. TypeInv'
    BY <1>1, <2>1, <2>2
       DEF IInv, TypeInv, StoreTyped, HistoryTyped, TurnsTyped, RouteContext, store
  <2> QED
    BY <1>1, <2>1, <2>2, <2>3, MoveStep DEF RouteContext, HasTurn
<1>3. CASE ~poller[p].aborted
  BY <1>1, <1>3, RoutePreserves DEF DelayEnds
<1> QED
  BY <1>2, <1>3

\* Whoever's turn it is keeps it when another poller joins the queue.
LEMMA AppendKeepsHead ==
  ASSUME NEW S, NEW s \in Seq(S), NEW x \in S, s # <<>>
  PROVE  Append(s, x) # <<>> /\ Head(Append(s, x)) = Head(s)
<1>1. Len(s) \in Nat \ {0}
  OBVIOUS
<1> QED
  BY <1>1

\* With the client's name, p enters the client's queue at its end.
LEMMA NameAnsweredPreserves ==
  ASSUME IInv, NEW p \in Pollers, NameAnswered(p)
  PROVE  IInv'
<1> DEFINE e == poller[p].event
           c == Conversation[e]
<1>1. e \in Events /\ IsMessage(e) /\ poller[p].pc = "naming"
  BY DEF IInv, OnEvents, NameAnswered
<1>2. CASE /\ turns' = [turns EXCEPT ![c] = Append(@, p)]
           /\ Await(p, "queued", e) /\ UNCHANGED store
  <2>1. c \in Conversations /\ turns[c] \in Seq(Pollers)
    BY <1>1 DEF Conversations, IInv, TypeInv, TurnsTyped
  <2>2. TurnsTyped'
    BY <1>2, <2>1 DEF IInv, TypeInv, TurnsTyped
  <2>3. ASSUME NEW q \in Pollers, NEW d \in Conversations, HasTurn(q, d)
        PROVE  HasTurn(q, d)'
    <3>1. CASE d = c
      BY <1>2, <2>1, <2>3, <3>1, AppendKeepsHead
         DEF IInv, TypeInv, TurnsTyped, HasTurn
    <3>2. CASE d # c
      BY <1>2, <2>3, <3>2 DEF IInv, TypeInv, TurnsTyped, HasTurn
    <3> QED
      BY <3>1, <3>2
  <2> QED
    BY <1>1, <1>2, <2>2, <2>3, AwaitPreserves DEF NameAnswered, store
<1>3. CASE Failed(p, e) /\ UNCHANGED turns
  BY <1>1, <1>3, FailedPreserves DEF NameAnswered
<1> QED
  BY <1>2, <1>3 DEF NameAnswered

\* The claim is taken by the poller whose turn it is.
LEMMA TakeTurnPreserves ==
  ASSUME IInv, NEW p \in Pollers, TakeTurn(p)
  PROVE  IInv'
<1> DEFINE e == poller[p].event
<1>1. /\ e \in Events /\ IsMessage(e) /\ poller[p].pc = "queued"
      /\ HasTurn(p, Conversation[e])
  BY DEF IInv, OnEvents, TakeTurn
<1>2. CASE CanClaim(e)
  BY <1>1, <1>2, ClaimPreserves DEF TakeTurn, IsMessage, store
<1>3. CASE ~CanClaim(e)
  BY <1>1, <1>3, HandledPreserves DEF TakeTurn, IInv, TypeInv, HistoryTyped
<1> QED
  BY <1>2, <1>3

\* What p was working on is settled, and p leaves the queue.
LEMMA SettlesPreserves ==
  ASSUME IInv, NEW p \in Pollers, Settles(p)
  PROVE  IInv'
<1> DEFINE e == poller[p].event
<1>1. e \in Events /\ Works(p, e)
  BY DEF IInv, OnEvents, Settles, HandlingSucceeds, HandlingFails, Works
<1>2. /\ LeaveQueue(p) /\ Loop(p)
      /\ Handled(p, e) \/ Failed(p, e)
      /\ UNCHANGED <<running, ruling>>
      /\ \E outcome \in {"completed", "none"} :
           processed' = IF Kind[e] = "attachment" THEN processed
                        ELSE [processed EXCEPT ![e] = outcome]
  BY DEF Settles, HandlingSucceeds, HandlingFails, Handled, Failed
<1>3. /\ PollersTyped'
      /\ poller'[p].pc \in {"off", "idle"}
      /\ \A q \in Pollers : q # p => poller'[q] = poller[q]
  BY <1>2, LoopMoves DEF IInv, TypeInv
<1>4. /\ TurnsTyped'
      /\ \A q \in Pollers, c \in Conversations :
           q # p /\ HasTurn(q, c) => HasTurn(q, c)'
  BY <1>2, LeaveQueueKeepsTurns DEF IInv, TypeInv
<1>5. StoreTyped'
  BY <1>1, <1>2, CompleteTyped, FailedTyped DEF IInv, TypeInv, Handled
<1>6. /\ HistoryTyped' /\ RelayedWhenCompleted'
  BY <1>1 DEF IInv, TypeInv, HistoryTyped, RelayedWhenCompleted, Claims, Works,
              IsMessage, Settles, HandlingSucceeds, HandlingFails
<1>7. TypeInv'
  BY <1>1, <1>2, <1>3, <1>4, <1>5, <1>6 DEF IInv, TypeInv
<1>8. OnEvents'
  BY <1>3 DEF IInv, OnEvents, IsMessage
<1>9. HaveTurn'
  BY <1>3, <1>4 DEF IInv, HaveTurn, OnEvents, Conversations
<1>10. \A q \in Pollers, f \in Events : Works(q, f)' <=> Works(q, f) /\ q # p
  BY <1>3 DEF Works
<1>11. \A f \in Events : f # e => processed'[f] = processed[f] /\ ~Works(p, f)
  BY <1>1, <1>2 DEF IInv, TypeInv, Works
<1>12. Claims'
  <2> SUFFICES ASSUME NEW f \in Events
               PROVE  /\ processed'[f] = "processing" =>
                           \E q \in Pollers : Works(q, f)'
                      /\ Kind[f] = "attachment" => processed'[f] = "none"
                      /\ Kind[f] # "attachment" =>
                           /\ \A q \in Pollers :
                                Works(q, f)' => processed'[f] = "processing"
                           /\ \A q, t \in Pollers :
                                Works(q, f)' /\ Works(t, f)' => q = t
    BY DEF Claims
  <2>1. CASE f # e
    BY <1>10, <1>11, <2>1 DEF IInv, Claims
  <2>2. CASE f = e
    BY <1>1, <1>2, <1>10, <2>2 DEF IInv, TypeInv, Claims
  <2> QED
    BY <2>1, <2>2
<1> QED
  BY <1>6, <1>7, <1>8, <1>9, <1>12 DEF IInv

\* The poller that is off, and the one that starts, have their types.
LEMMA OffTyped ==
  /\ Off \in PollerState /\ Off.pc = "off"
  /\ [Off EXCEPT !.pc = "idle"] \in PollerState
  /\ [Off EXCEPT !.pc = "idle"].pc = "idle"
<1>1. Off \in PollerState /\ Off.pc = "off"
  BY DEF Off, PollerState, None
<1>2. ASSUME NEW r \in PollerState
      PROVE  /\ [r EXCEPT !.pc = "idle"] \in PollerState
             /\ [r EXCEPT !.pc = "idle"].pc = "idle"
  BY DEF PollerState
<1> QED
  BY <1>1, <1>2

\* Long polls, and a poller that starts: p moves and the tables of claims stay.
LEMMA PollingPreserves ==
  ASSUME IInv, NEW p \in Pollers,
         \/ LongPoll(p) \/ NewPosition(p) \/ PersistUpdates(p)
         \/ PollAborted(p) \/ Start(p)
  PROVE  IInv'
<1>1. PollersTyped' /\ Moves(p) /\ Fits(poller'[p])
  <2> USE DEF Moves, Fits
  <2>1. poller \in [Pollers -> PollerState] /\ poller[p] \in PollerState
    BY DEF IInv, TypeInv, PollersTyped
  <2>2. CASE LongPoll(p)
    BY <2>1, <2>2 DEF LongPoll, PollersTyped, PollerState
  <2>3. ASSUME NEW ts \in Int, poller[p].pc = "polling",
               poller' = [poller EXCEPT ![p].pc = "idle", ![p].ts = ts]
        PROVE  PollersTyped' /\ Moves(p) /\ Fits(poller'[p])
    <3>1. poller' = [poller EXCEPT ![p] = [@ EXCEPT !.pc = "idle", !.ts = ts]]
      BY <2>1, <2>3 DEF PollerState
    <3>2. [poller[p] EXCEPT !.pc = "idle", !.ts = ts] \in PollerState
      BY <2>1, <2>3 DEF PollerState
    <3>3. PollersTyped'
      BY <2>1, <3>1, <3>2 DEF PollersTyped
    <3>4. poller'[p].pc = "idle"
      BY <2>1, <3>1 DEF PollerState
    <3> QED
      BY <2>1, <2>3, <3>1, <3>3, <3>4
  <2>4. CASE NewPosition(p)
    <3>1. PICK ts \in 1..sent + 1 :
            poller' = [poller EXCEPT ![p].pc = "idle", ![p].ts = ts]
      BY <2>4 DEF NewPosition
    <3>2. ts \in Int
      OBVIOUS
    <3>3. poller[p].pc = "polling"
      BY <2>4 DEF NewPosition
    <3> QED
      BY <2>3, <3>1, <3>2, <3>3
  <2>5. CASE PersistUpdates(p)
    <3>1. PICK last \in sent..MaxEvents :
            poller' = [poller EXCEPT ![p].pc = "idle", ![p].ts = last + 1]
      BY <2>5 DEF PersistUpdates
    <3>2. last + 1 \in Int
      BY <3>1
    <3> QED
      BY <2>3, <2>5, <3>1, <3>2 DEF PersistUpdates
  <2>6. ASSUME NEW r \in PollerState, r.pc \in {"off", "idle"},
               poller[p].pc \in {"polling", "off"},
               poller' = [poller EXCEPT ![p] = r]
        PROVE  PollersTyped' /\ Moves(p) /\ Fits(poller'[p])
    <3>1. PollersTyped'
      BY <2>1, <2>6 DEF PollersTyped
    <3>2. poller'[p] = r /\ \A q \in Pollers : q # p => poller'[q] = poller[q]
      BY <2>1, <2>6
    <3> QED
      BY <2>6, <3>1, <3>2
  <2>7. CASE PollAborted(p)
    BY <2>6, <2>7, OffTyped DEF PollAborted
  <2>8. CASE Start(p)
    BY <2>6, <2>8, OffTyped DEF Start
  <2> QED
    BY <2>2, <2>4, <2>5, <2>7, <2>8
<1>2. StoreTyped'
  <2>1. CASE PersistUpdates(p)
    <3>1. PICK batch : EnqueueInboundEvents(batch)
      BY <2>1 DEF PersistUpdates
    <3>2. [status |-> "pending", attempts |-> 0] \in InboundRow
      BY DEF InboundRow
    <3> QED
      BY <3>1, <3>2 DEF EnqueueInboundEvents, IInv, TypeInv, StoreTyped
  <2>2. CASE UNCHANGED inbound
    BY <2>2 DEF IInv, TypeInv, StoreTyped
  <2> QED
    BY <2>1, <2>2 DEF LongPoll, NewPosition, PollAborted, Start, store
<1>3. UNCHANGED <<processed, turns, relayed, ruling>> /\ running' \in {running, p}
  BY DEF LongPoll, NewPosition, PersistUpdates, PollAborted, Start
<1>4. TypeInv'
  BY <1>1, <1>2, <1>3 DEF IInv, TypeInv, TurnsTyped, HistoryTyped
<1> QED
  BY <1>1, <1>3, <1>4, MoveStep DEF HasTurn

\* Stop aborts every poller and takes no claim away.
LEMMA StopPreserves ==
  ASSUME IInv, Stop
  PROVE  IInv'
<1>1. running \in Pollers
  BY DEF IInv, TypeInv, Stop
<1>2. /\ PollersTyped'
      /\ \A q \in Pollers :
           \/ poller'[q].pc = poller[q].pc /\ poller'[q].event = poller[q].event
           \/ poller[q].pc = "idle" /\ poller'[q].pc = "off"
  <2>1. CASE poller[running].pc = "idle"
    BY <1>1, <2>1 DEF Stop, IInv, TypeInv, PollersTyped, PollerState, Off, None
  <2>2. CASE poller[running].pc # "idle"
    BY <1>1, <2>2 DEF Stop, IInv, TypeInv, PollersTyped, PollerState
  <2> QED
    BY <2>1, <2>2
<1>3. TypeInv'
  BY <1>2 DEF Stop, IInv, TypeInv, StoreTyped, TurnsTyped, HistoryTyped, store
<1>4. OnEvents' /\ SameWork
  BY <1>2 DEF Stop, IInv, OnEvents, SameWork, HasTurn, IsMessage
<1> QED
  BY <1>3, <1>4, QuietStep DEF Stop

\* An administrator's resolution touches no claim and no poller.
LEMMA ResolutionPreserves ==
  ASSUME IInv, NEW e \in Events, RetryQuarantined(e) \/ SkipQuarantined(e)
  PROVE  IInv'
<1>1. StoreTyped'
  BY CompleteTyped
     DEF RetryQuarantined, SkipQuarantined, IInv, TypeInv, StoreTyped, InboundRow
<1>2. TypeInv' /\ OnEvents' /\ SameWork
  BY <1>1 DEF RetryQuarantined, SkipQuarantined, IInv, TypeInv, PollersTyped,
              TurnsTyped, HistoryTyped, OnEvents, SameWork, HasTurn, IsMessage
<1> QED
  BY <1>2, QuietStep DEF RetryQuarantined, SkipQuarantined

\* Neither does the pause.
LEMMA IdlePreserves ==
  ASSUME IInv, SetPaused \/ UNCHANGED vars
  PROVE  IInv'
<1>1. UNCHANGED <<inbound, processed, poller, running, turns, relayed, ruling>>
  BY DEF SetPaused, vars, store
<1>2. TypeInv' /\ OnEvents' /\ SameWork
  BY <1>1 DEF IInv, TypeInv, StoreTyped, PollersTyped, TurnsTyped, HistoryTyped,
              OnEvents, SameWork, HasTurn, IsMessage
<1> QED
  BY <1>1, <1>2, QuietStep

\* Nobody is at work after a restart, and no claim in progress is left.
LEMMA RestartPreserves ==
  ASSUME IInv, CrashAndRestart
  PROVE  IInv'
<1>1. PICK p \in Pollers \cup {None} :
        /\ running' = p
        /\ poller' = [q \in Pollers |-> IF q = p THEN [Off EXCEPT !.pc = "idle"]
                                        ELSE Off]
  BY DEF CrashAndRestart
<1>2. PollersTyped' /\ \A q \in Pollers : poller'[q].pc \in {"off", "idle"}
  BY <1>1, OffTyped DEF PollersTyped
<1>3. TurnsTyped'
  BY DEF CrashAndRestart, TurnsTyped
<1>4. TypeInv'
  BY <1>1, <1>2, <1>3 DEF CrashAndRestart, ReleaseInterruptedEvents, IInv, TypeInv, StoreTyped,
              HistoryTyped, store
<1>5. OnEvents' /\ HaveTurn'
  BY <1>2 DEF OnEvents, HaveTurn
<1>6. \A e \in Events : /\ processed'[e] # "processing"
                        /\ processed[e] # "processing" => processed'[e] = processed[e]
  BY DEF CrashAndRestart, ReleaseInterruptedEvents
<1>7. Claims'
  BY <1>2, <1>6 DEF IInv, Claims, Works
<1>8. RelayedWhenCompleted'
  BY <1>6 DEF CrashAndRestart, IInv, RelayedWhenCompleted, IsMessage
<1> QED
  BY <1>4, <1>5, <1>7, <1>8 DEF IInv

\* Every step keeps the invariant of claims and turns.
LEMMA Step_IInv ==
  ASSUME IInv, [Next]_vars
  PROVE  IInv'
<1>1. ASSUME NEW p \in Pollers,
             \/ NextEvent(p) \/ DelayEnds(p) \/ NameAnswered(p) \/ TakeTurn(p)
             \/ Settles(p)
             \/ LongPoll(p) \/ NewPosition(p) \/ PersistUpdates(p)
             \/ PollAborted(p) \/ Start(p)
      PROVE  IInv'
  BY <1>1, NextEventPreserves, DelayEndsPreserves, NameAnsweredPreserves,
     TakeTurnPreserves, SettlesPreserves, PollingPreserves
<1>2. CASE Stop
  BY <1>2, StopPreserves
<1>3. ASSUME NEW e \in Events, RetryQuarantined(e) \/ SkipQuarantined(e)
      PROVE  IInv'
  BY <1>3, ResolutionPreserves
<1>4. CASE SetPaused \/ UNCHANGED vars
  BY <1>4, IdlePreserves
<1>5. CASE CrashAndRestart
  BY <1>5, RestartPreserves
<1> QED
  BY <1>1, <1>2, <1>3, <1>4, <1>5 DEF Next

\* The invariant of claims and turns holds in every behaviour.
LEMMA Invariance == Spec => []IInv
<1>1. IInv /\ [Next]_vars => IInv'
  BY Step_IInv
<1> QED
  BY <1>1, Init_IInv, PTL DEF Spec

-----------------------------------------------------------------------------
(* The properties.                                                         *)

\* A client's message reaches the operators at most once, whatever overlaps:
\* the claim on it in processed_events is never taken twice to the end.
THEOREM HandledOnceAlways == Spec => []HandledOnce
<1>1. IInv => HandledOnce
  BY DEF IInv, RelayedWhenCompleted, HandledOnce
<1> QED
  BY <1>1, Invariance, PTL

\* A claim in progress has exactly one poller at work on it, in every reachable
\* state: claimEvent, releaseEvent and releaseInterruptedEvents leave none
\* behind.
THEOREM ClaimIsHeldAlways == Spec => []ClaimIsHeld
<1>1. ASSUME IInv
      PROVE  ClaimIsHeld
  <2> SUFFICES ASSUME NEW e \in Events
               PROVE  LET workers == {p \in Pollers : Works(p, e)}
                      IN  /\ processed[e] = "processing" => workers # {}
                          /\ Kind[e] # "attachment" =>
                               \A p, q \in workers :
                                 p = q /\ processed[e] = "processing"
    BY DEF ClaimIsHeld, Works
  <2> QED
    BY <1>1 DEF IInv, Claims
<1> QED
  BY <1>1, Invariance, PTL

\* When p has the turn of a message of its client and may not claim it, the
\* message is completed: a claim in progress would be that of another poller
\* with the same turn.
LEMMA UnclaimableIsCompleted ==
  ASSUME IInv, NEW p \in Pollers, NEW e \in Events, IsMessage(e),
         poller[p].pc = "queued", HasTurn(p, Conversation[e]), ~CanClaim(e)
  PROVE  processed[e] = "completed"
<1> SUFFICES ASSUME processed[e] = "processing"
             PROVE  FALSE
  BY DEF IInv, TypeInv, CanClaim
<1>1. PICK q \in Pollers : Works(q, e)
  BY DEF IInv, Claims
<1>2. poller[q].pc = "handling" /\ poller[q].event = e
  BY <1>1 DEF IInv, OnEvents, Works
<1>3. HasTurn(q, Conversation[e])
  BY <1>2 DEF IInv, HaveTurn
<1> QED
  BY <1>2, <1>3 DEF HasTurn

\* The row of a message that route() ended with is settled.
Settled(e) == processed'[e] = "completed" \/ ruling'[e] \in {"declined", "skipped"}

\* Only a decision or a completed claim deletes the row of a message.
DropsNone ==
  \A e \in Events :
    IsMessage(e) /\ Stored(e) /\ inbound'[e].status = "absent" => Settled(e)

\* Where rows only stay or come, none is dropped.
LEMMA KeepsRows ==
  ASSUME \A f \in Events : inbound'[f].status = "absent" => ~Stored(f)
  PROVE  DropsNone
BY DEF DropsNone

\* A settled event may go, and no other row goes with it.
LEMMA HandledDropsNone ==
  ASSUME IInv, NEW p \in Pollers, NEW e \in Events, Handled(p, e),
         IsMessage(e) => Settled(e)
  PROVE  DropsNone
<1>1. \A f \in Events : f # e => inbound'[f] = inbound[f]
  BY CompleteTyped DEF IInv, TypeInv, Handled
<1> QED
  BY <1>1 DEF DropsNone, Stored

\* A failure keeps the row.
LEMMA FailedDropsNone ==
  ASSUME IInv, NEW p \in Pollers, NEW e \in Events, Failed(p, e)
  PROVE  DropsNone
BY FailedTyped, KeepsRows DEF IInv, TypeInv, Stored

\* A step that leaves the table alone drops nothing.
LEMMA UnchangedDropsNone ==
  ASSUME UNCHANGED inbound
  PROVE  DropsNone
BY KeepsRows DEF Stored

\* Routing drops only what is not a message of a client.
LEMMA RouteDropsNone ==
  ASSUME IInv, NEW p \in Pollers, NEW e \in Events, Route(p, e)
  PROVE  DropsNone
<1>1. Kind[e] \in Kinds
  BY VkInboxAssumption
<1>2. CASE Kind[e] \in {"other", "invalid", "attachment"}
  BY <1>2, HandledDropsNone, FailedDropsNone, UnchangedDropsNone
     DEF Route, IsMessage, store
<1>3. CASE Kind[e] = "menu"
  BY <1>3, HandledDropsNone, UnchangedDropsNone DEF Route, IsMessage, store
<1>4. CASE Kind[e] = "message"
  <2>1. CASE UNCHANGED store
    BY <2>1, UnchangedDropsNone DEF store
  <2>2. CASE ruling' = [ruling EXCEPT ![e] = "declined"] /\ Handled(p, e)
    <3>1. ruling'[e] = "declined"
      BY <2>2 DEF IInv, TypeInv, HistoryTyped
    <3> QED
      BY <2>2, <3>1, HandledDropsNone DEF Settled
  <2> QED
    BY <1>4, <2>1, <2>2 DEF Route
<1> QED
  BY <1>1, <1>2, <1>3, <1>4 DEF Kinds

\* A refused claim deletes the row of an event that is completed.
LEMMA TurnDropsNone ==
  ASSUME IInv, NEW p \in Pollers, TakeTurn(p) \/ Settles(p)
  PROVE  DropsNone
<1> DEFINE e == poller[p].event
<1>1. e \in Events
  BY DEF IInv, OnEvents, TakeTurn, Settles, HandlingSucceeds, HandlingFails
<1>2. CASE TakeTurn(p)
  <2>1. CASE CanClaim(e)
    BY <1>2, <2>1, UnchangedDropsNone DEF TakeTurn, store
  <2>2. CASE ~CanClaim(e)
    <3>1. processed'[e] = "completed"
      BY <1>1, <1>2, <2>2, UnclaimableIsCompleted
         DEF TakeTurn, IInv, OnEvents, IsMessage
    <3> QED
      BY <1>1, <1>2, <2>2, <3>1, HandledDropsNone DEF TakeTurn, Settled
  <2> QED
    BY <2>1, <2>2
<1>3. CASE HandlingSucceeds(p)
  <2>1. IsMessage(e) => processed'[e] = "completed"
    BY <1>1, <1>3 DEF HandlingSucceeds, IInv, TypeInv, IsMessage
  <2> QED
    BY <1>1, <1>3, <2>1, HandledDropsNone DEF HandlingSucceeds, Settled
<1>4. CASE HandlingFails(p)
  BY <1>1, <1>4, FailedDropsNone DEF HandlingFails
<1> QED
  BY <1>2, <1>3, <1>4 DEF Settles

\* No step of a poller drops a message.
LEMMA PollerDropsNone ==
  ASSUME IInv, NEW p \in Pollers,
         \/ NextEvent(p) \/ DelayEnds(p) \/ NameAnswered(p) \/ PersistUpdates(p)
  PROVE  DropsNone
<1>1. CASE NextEvent(p)
  BY <1>1, RouteDropsNone, UnchangedDropsNone DEF NextEvent, store
<1>2. CASE DelayEnds(p)
  <2>1. poller[p].event \in Events
    BY <1>2 DEF IInv, OnEvents, DelayEnds
  <2> QED
    BY <1>2, <2>1, RouteDropsNone, UnchangedDropsNone DEF DelayEnds, store
<1>3. CASE NameAnswered(p)
  <2>1. poller[p].event \in Events
    BY <1>3 DEF IInv, OnEvents, NameAnswered
  <2> QED
    BY <1>3, <2>1, FailedDropsNone, UnchangedDropsNone DEF NameAnswered, store
<1>4. CASE PersistUpdates(p)
  <2>1. PICK batch : EnqueueInboundEvents(batch)
    BY <1>4 DEF PersistUpdates
  <2> QED
    BY <2>1, KeepsRows DEF EnqueueInboundEvents, Stored
<1> QED
  BY <1>1, <1>2, <1>3, <1>4

\* A skipped event is dropped on the administrator's decision.
LEMMA OperatorDropsNone ==
  ASSUME IInv, NEW e \in Events, RetryQuarantined(e) \/ SkipQuarantined(e)
  PROVE  DropsNone
<1>1. CASE RetryQuarantined(e)
  BY <1>1, KeepsRows DEF RetryQuarantined, IInv, TypeInv, StoreTyped, Stored
<1>2. CASE SkipQuarantined(e)
  <2>1. ruling'[e] = "skipped"
    BY <1>2 DEF SkipQuarantined, IInv, TypeInv, HistoryTyped
  <2>2. \A f \in Events : f # e => inbound'[f] = inbound[f]
    BY <1>2, CompleteTyped DEF SkipQuarantined, IInv, TypeInv
  <2> QED
    BY <2>1, <2>2 DEF DropsNone, Settled, Stored
<1> QED
  BY <1>1, <1>2

\* No step drops a message.
LEMMA StepDropsNone ==
  ASSUME IInv, [Next]_vars
  PROVE  DropsNone
<1>1. ASSUME NEW p \in Pollers,
             \/ NextEvent(p) \/ DelayEnds(p) \/ NameAnswered(p) \/ TakeTurn(p)
             \/ Settles(p)
             \/ LongPoll(p) \/ NewPosition(p) \/ PersistUpdates(p)
             \/ PollAborted(p) \/ Start(p)
      PROVE  DropsNone
  <2>1. CASE LongPoll(p) \/ NewPosition(p) \/ PollAborted(p) \/ Start(p)
    BY <2>1, UnchangedDropsNone
       DEF LongPoll, NewPosition, PollAborted, Start, store
  <2> QED
    BY <1>1, <2>1, PollerDropsNone, TurnDropsNone
<1>2. ASSUME NEW e \in Events, RetryQuarantined(e) \/ SkipQuarantined(e)
      PROVE  DropsNone
  BY <1>2, OperatorDropsNone
<1>3. CASE Stop \/ SetPaused \/ CrashAndRestart \/ UNCHANGED vars
  BY <1>3, UnchangedDropsNone DEF Stop, SetPaused, CrashAndRestart, store, vars
<1> QED
  BY <1>1, <1>2, <1>3 DEF Next

\* No stored message of a client leaves inbound_events but as handed over,
\* declined or skipped, even when a poller that was stopped and the next one
\* route it at the same time: completeInboundEvent after a refused claim is
\* sound because the refused poller had the client's turn.
THEOREM NoMessageDroppedAlways == Spec => NoMessageDropped
<1>1. DropsNone =>
        \A e \in Events :
          IsMessage(e) /\ Stored(e) /\ inbound'[e].status = "absent" =>
            processed'[e] = "completed" \/ ruling'[e] \in {"declined", "skipped"}
  BY DEF DropsNone, Settled
<1>2. IInv /\ [Next]_vars => DropsNone
  BY StepDropsNone
<1> QED
  BY <1>1, <1>2, Invariance, PTL DEF Spec, NoMessageDropped

-----------------------------------------------------------------------------
(* The order of the rows.                                                  *)

Precedes(s, f, g) == \E i, j \in 1..Len(s) : i < j /\ s[i] = f /\ s[j] = g

\* A set of naturals has a least element.
LEMMA HasLeast ==
  ASSUME NEW T \in SUBSET Nat, T # {}
  PROVE  \E x \in T : \A y \in T : x <= y
<1> DEFINE R == OpToRel(<, Nat)
<1>1. IsWellFoundedOn(R, Nat)
  BY NatLessThanWellFounded
<1>2. \A x, y \in Nat : <<y, x>> \in R <=> y < x
  BY DEF OpToRel
<1> HIDE DEF R
<1>3. PICK x \in T : \A y \in T : ~(<<y, x>> \in R)
  BY <1>1, WFMin
<1>4. ASSUME NEW y \in T
      PROVE  x <= y
  <2>1. x \in Nat /\ y \in Nat
    OBVIOUS
  <2>2. ~(y < x)
    BY <1>2, <1>3, <2>1
  <2> QED
    BY <2>1, <2>2
<1> QED
  BY <1>4

\* What is left when a row is deleted stays in its order.
LEMMA WithoutOne ==
  ASSUME NEW s \in Seq(Events), IsInjective(s), NEW e \in Events
  PROVE  /\ Without(s, e) \in Seq(Events) /\ IsInjective(Without(s, e))
         /\ ToSet(Without(s, e)) = ToSet(s) \ {e}
         /\ \A f, g : Precedes(Without(s, e), f, g) => Precedes(s, f, g)
<1>1. DOMAIN s = 1..Len(s) /\ Len(s) \in Nat /\ \A i \in 1..Len(s) : s[i] \in Events
  OBVIOUS
<1>2. CASE ~\E i \in DOMAIN s : s[i] = e
  <2>1. Without(s, e) = s
    BY <1>2 DEF Without
  <2>2. e \notin ToSet(s)
    BY <1>2 DEF ToSet
  <2> QED
    BY <2>1, <2>2
<1>3. CASE \E i \in DOMAIN s : s[i] = e
  <2>1. PICK k : k = CHOOSE i \in DOMAIN s : s[i] = e
    OBVIOUS
  <2>2. k \in DOMAIN s /\ s[k] = e
    BY <1>3, <2>1
  <2>3. k \in Nat /\ 1 <= k /\ k <= Len(s)
    BY <1>1, <2>2
  <2>4. PICK w : w = RemoveAt(s, k)
    OBVIOUS
  <2>5. Without(s, e) = w
    BY <1>3, <2>1, <2>4 DEF Without
  <2>6. /\ w \in Seq(Events) /\ Len(w) = Len(s) - 1
        /\ \A i \in 1..Len(s) - 1 : w[i] = IF i < k THEN s[i] ELSE s[i + 1]
    <3>1. PICK a, b : a = SubSeq(s, 1, k - 1) /\ b = SubSeq(s, k + 1, Len(s))
      OBVIOUS
    <3>2. /\ a \in Seq(Events) /\ Len(a) = k - 1
          /\ \A i \in 1..k - 1 : a[i] = s[i]
      <4>1. \A i \in 1..k - 1 : s[i] \in Events
        BY <1>1, <2>3
      <4>2. 1 \in Int /\ k - 1 \in Int
        BY <2>3
      <4>3. /\ a \in Seq(Events)
            /\ Len(a) = IF 1 <= k - 1 THEN k - 1 - 1 + 1 ELSE 0
            /\ \A i \in 1..k - 1 - 1 + 1 : a[i] = s[1 + i - 1]
        BY <3>1, <4>1, <4>2, SubSeqProperties
      <4>4. Len(a) = k - 1
        BY <2>3, <4>3
      <4>5. ASSUME NEW i \in 1..k - 1
            PROVE  a[i] = s[i]
        <5>1. i \in 1..k - 1 - 1 + 1 /\ 1 + i - 1 = i
          BY <2>3
        <5> QED
          BY <4>3, <5>1
      <4> QED
        BY <4>3, <4>4, <4>5
    <3>3. /\ b \in Seq(Events) /\ Len(b) = Len(s) - k
          /\ \A i \in 1..Len(s) - k : b[i] = s[k + i]
      <4>1. \A i \in k + 1..Len(s) : s[i] \in Events
        BY <1>1, <2>3
      <4>2. k + 1 \in Int /\ Len(s) \in Int
        BY <1>1, <2>3
      <4>3. /\ b \in Seq(Events)
            /\ Len(b) = IF k + 1 <= Len(s) THEN Len(s) - (k + 1) + 1 ELSE 0
            /\ \A i \in 1..Len(s) - (k + 1) + 1 : b[i] = s[k + 1 + i - 1]
        BY <3>1, <4>1, <4>2, SubSeqProperties
      <4>4. Len(b) = Len(s) - k
        <5>1. CASE k + 1 <= Len(s)
          BY <1>1, <2>3, <4>3, <5>1
        <5>2. CASE k = Len(s)
          <6>1. ~(k + 1 <= Len(s)) /\ Len(s) - k = 0
            BY <1>1, <5>2
          <6> QED
            BY <4>3, <6>1
        <5>3. k + 1 <= Len(s) \/ k = Len(s)
          <6>1. Len(s) \in Nat
            BY <1>1
          <6> QED
            BY <2>3, <6>1
        <5> QED
          BY <5>1, <5>2, <5>3
      <4>5. ASSUME NEW i \in 1..Len(s) - k
            PROVE  b[i] = s[k + i]
        <5>1. i \in 1..Len(s) - (k + 1) + 1 /\ k + 1 + i - 1 = k + i
          BY <1>1, <2>3
        <5> QED
          BY <4>3, <5>1
      <4> QED
        BY <4>3, <4>4, <4>5
    <3>4. w = a \o b
      BY <2>4, <3>1 DEF RemoveAt
    <3>5. /\ w \in Seq(Events) /\ Len(w) = Len(a) + Len(b)
          /\ \A i \in 1..Len(a) + Len(b) :
               w[i] = IF i <= Len(a) THEN a[i] ELSE b[i - Len(a)]
      BY <3>2, <3>3, <3>4, ConcatProperties
    <3>6. ASSUME NEW i \in 1..Len(s) - 1
          PROVE  w[i] = IF i < k THEN s[i] ELSE s[i + 1]
      <4>1. i \in 1..Len(a) + Len(b)
        BY <1>1, <2>3, <3>2, <3>3
      <4>2. CASE i < k
        <5>1. i <= Len(a) /\ i \in 1..k - 1
          BY <2>3, <3>2, <4>2
        <5> QED
          BY <3>2, <3>5, <4>1, <4>2, <5>1
      <4>3. CASE ~(i < k)
        <5>1. /\ ~(i <= Len(a)) /\ i - Len(a) = i - k + 1 /\ i - k + 1 \in 1..Len(s) - k
              /\ k + (i - k + 1) = i + 1
          BY <1>1, <2>3, <3>2, <4>3
        <5>2. w[i] = b[i - k + 1]
          BY <3>5, <4>1, <5>1
        <5>3. b[i - k + 1] = s[k + (i - k + 1)]
          BY <3>3, <5>1
        <5> QED
          BY <4>3, <5>1, <5>2, <5>3
      <4> QED
        BY <4>2, <4>3
    <3> QED
      BY <1>1, <2>3, <3>2, <3>3, <3>5, <3>6
  <2>7. \A i, j \in 1..Len(s) : s[i] = s[j] => i = j
    BY <1>1 DEF IsInjective
  <2>8. DOMAIN w = 1..Len(s) - 1
    BY <2>6
  <2>9. IsInjective(w)
    <3> SUFFICES ASSUME NEW i \in 1..Len(s) - 1, NEW j \in 1..Len(s) - 1, w[i] = w[j]
                 PROVE  i = j
      BY <2>8 DEF IsInjective
    <3>1. i \in 1..Len(s) /\ j \in 1..Len(s) /\ i + 1 \in 1..Len(s) /\ j + 1 \in 1..Len(s)
      BY <1>1
    <3> QED
      BY <1>1, <2>3, <2>6, <2>7, <3>1
  <2>10. ASSUME NEW f, NEW g, Precedes(w, f, g)
         PROVE  Precedes(s, f, g)
    <3>1. PICK i, j \in 1..Len(s) - 1 : i < j /\ w[i] = f /\ w[j] = g
      BY <2>6, <2>10 DEF Precedes
    <3>2. PICK m \in {i, i + 1} : w[i] = s[m] /\ (i < k => m = i) /\ (~(i < k) => m = i + 1)
      BY <2>6
    <3>3. PICK n \in {j, j + 1} : w[j] = s[n] /\ (j < k => n = j) /\ (~(j < k) => n = j + 1)
      BY <2>6
    <3>4. m \in 1..Len(s) /\ n \in 1..Len(s) /\ m < n
      BY <1>1, <2>3, <3>1, <3>2, <3>3
    <3> QED
      BY <3>1, <3>2, <3>3, <3>4 DEF Precedes
  <2>11. ToSet(w) = ToSet(s) \ {e}
    <3>1. ASSUME NEW x \in ToSet(w)
          PROVE  x \in ToSet(s) \ {e}
      <4>1. PICK i \in 1..Len(s) - 1 : w[i] = x
        BY <2>8 DEF ToSet
      <4>2. PICK m \in {i, i + 1} : w[i] = s[m] /\ (i < k => m = i) /\ (~(i < k) => m = i + 1)
        BY <2>6
      <4>3. m \in 1..Len(s) /\ m # k
        BY <1>1, <2>3, <4>2
      <4>4. s[m] # e
        BY <1>1, <2>2, <2>7, <4>3
      <4> QED
        BY <1>1, <4>1, <4>2, <4>3, <4>4 DEF ToSet
    <3>2. ASSUME NEW x \in ToSet(s) \ {e}
          PROVE  x \in ToSet(w)
      <4>1. PICK i \in 1..Len(s) : s[i] = x
        BY <1>1 DEF ToSet
      <4>2. i # k
        BY <2>2, <4>1
      <4>3. CASE i < k
        <5>1. i \in 1..Len(s) - 1 /\ w[i] = x
          BY <1>1, <2>3, <2>6, <4>1, <4>3
        <5> QED
          BY <2>8, <5>1 DEF ToSet
      <4>4. CASE ~(i < k)
        <5>1. i - 1 \in 1..Len(s) - 1 /\ ~(i - 1 < k) /\ i - 1 + 1 = i
          BY <1>1, <2>3, <4>2, <4>4
        <5>2. w[i - 1] = x
          BY <2>6, <4>1, <5>1
        <5> QED
          BY <2>8, <5>1, <5>2 DEF ToSet
      <4> QED
        BY <4>3, <4>4
    <3> QED
      BY <3>1, <3>2
  <2> QED
    BY <2>5, <2>6, <2>9, <2>10, <2>11
<1> QED
  BY <1>2, <1>3

\* New rows come after the others, once each and in the order of the log.
LEMMA Enqueued ==
  ASSUME NEW s \in Seq(Events), IsInjective(s), NEW new \in SUBSET Events,
         new \cap ToSet(s) = {},
         NEW rows \in [1..Cardinality(new) -> new],
         \A i, j \in DOMAIN rows : i < j => rows[i] < rows[j]
  PROVE  /\ s \o rows \in Seq(Events) /\ IsInjective(s \o rows)
         /\ ToSet(s \o rows) = ToSet(s) \cup new
         /\ \A f, g : Precedes(s \o rows, f, g) =>
              \/ Precedes(s, f, g)
              \/ f \in ToSet(s) /\ g \in new
              \/ f \in new /\ g \in new /\ f < g
<1>1. IsFiniteSet(new) /\ Cardinality(new) \in Nat
  <2>1. MaxEvents \in Nat
    BY VkInboxAssumption
  <2>2. IsFiniteSet(Events)
    BY <2>1, FS_Interval DEF Events
  <2> QED
    BY <2>2, FS_Subset, FS_CardinalityType
<1>2. PICK n : n = Cardinality(new)
  OBVIOUS
<1>3. n \in Nat /\ rows \in [1..n -> new] /\ DOMAIN rows = 1..n
  BY <1>1, <1>2
<1>4. \A i, j \in 1..n : rows[i] = rows[j] => i = j
  <2>1. ASSUME NEW i \in 1..n
        PROVE  rows[i] \in Int
    <3>1. rows[i] \in Events
      BY <1>3
    <3> QED
      BY <3>1, VkInboxAssumption DEF Events
  <2>2. ASSUME NEW i \in 1..n, NEW j \in 1..n, i < j
        PROVE  rows[i] # rows[j]
    BY <1>3, <2>1, <2>2
  <2> QED
    BY <1>3, <2>2
<1>5. \A x \in new : \E i \in 1..n : rows[i] = x
  <2>1. rows \in Injection(1..n, new)
    BY <1>3, <1>4 DEF Injection, IsInjective
  <2>2. Cardinality(1..n) = n
    BY <1>3, FS_Interval
  <2>3. rows \in Surjection(1..n, new)
    BY <1>1, <1>2, <2>1, <2>2, FS_Injection
  <2> QED
    BY <2>3 DEF Surjection
<1>6. rows \in Seq(Events) /\ Len(rows) = n
  BY <1>3
<1>7. PICK w : w = s \o rows
  OBVIOUS
<1>8. /\ w \in Seq(Events) /\ Len(w) = Len(s) + n /\ Len(s) \in Nat
      /\ \A i \in 1..Len(s) + n : w[i] = IF i <= Len(s) THEN s[i] ELSE rows[i - Len(s)]
  <2>1. /\ w \in Seq(Events) /\ Len(w) = Len(s) + Len(rows)
        /\ \A i \in 1..Len(s) + Len(rows) :
             w[i] = IF i <= Len(s) THEN s[i] ELSE rows[i - Len(s)]
    BY <1>6, <1>7, ConcatProperties
  <2>2. Len(s) \in Nat
    OBVIOUS
  <2> QED
    BY <1>6, <2>1, <2>2
<1>9. /\ DOMAIN s = 1..Len(s) /\ DOMAIN w = 1..Len(s) + n
      /\ \A i, j \in 1..Len(s) : s[i] = s[j] => i = j
  BY <1>8 DEF IsInjective
<1>10. /\ \A i \in 1..Len(s) : i \in 1..Len(s) + n /\ w[i] = s[i]
       /\ \A i \in 1..n : Len(s) + i \in 1..Len(s) + n /\ w[Len(s) + i] = rows[i]
  <2>1. ASSUME NEW i \in 1..n
        PROVE  Len(s) + i \in 1..Len(s) + n /\ w[Len(s) + i] = rows[i]
    <3>1. Len(s) + i \in 1..Len(s) + n /\ ~(Len(s) + i <= Len(s)) /\ Len(s) + i - Len(s) = i
      BY <1>3, <1>8
    <3> QED
      BY <1>8, <3>1
  <2>2. ASSUME NEW i \in 1..Len(s)
        PROVE  i \in 1..Len(s) + n /\ w[i] = s[i]
    <3>1. i \in 1..Len(s) + n /\ i <= Len(s)
      BY <1>3, <1>8
    <3> QED
      BY <1>8, <3>1
  <2> QED
    BY <2>1, <2>2
<1>11. \A i \in 1..Len(s) + n : i \in 1..Len(s) \/ \E j \in 1..n : i = Len(s) + j
  <2> SUFFICES ASSUME NEW i \in 1..Len(s) + n, i \notin 1..Len(s)
               PROVE  \E j \in 1..n : i = Len(s) + j
    OBVIOUS
  <2>1. i - Len(s) \in 1..n /\ i = Len(s) + (i - Len(s))
    BY <1>3, <1>8
  <2> QED
    BY <2>1
<1>12. \A i \in 1..Len(s) : s[i] \in ToSet(s)
  BY <1>9 DEF ToSet
<1>13. IsInjective(w)
  <2> SUFFICES ASSUME NEW i \in 1..Len(s) + n, NEW j \in 1..Len(s) + n, w[i] = w[j]
               PROVE  i = j
    BY <1>9 DEF IsInjective
  <2>1. CASE i \in 1..Len(s) /\ j \in 1..Len(s)
    BY <1>9, <1>10, <2>1
  <2>2. CASE i \in 1..Len(s) /\ j \notin 1..Len(s)
    <3>1. PICK m \in 1..n : j = Len(s) + m
      BY <1>11, <2>2
    <3>2. w[i] \in ToSet(s) /\ w[j] \in new
      BY <1>3, <1>10, <1>12, <2>2, <3>1
    <3> QED
      BY <3>2
  <2>3. CASE i \notin 1..Len(s) /\ j \in 1..Len(s)
    <3>1. PICK m \in 1..n : i = Len(s) + m
      BY <1>11, <2>3
    <3>2. w[j] \in ToSet(s) /\ w[i] \in new
      BY <1>3, <1>10, <1>12, <2>3, <3>1
    <3> QED
      BY <3>2
  <2>4. CASE i \notin 1..Len(s) /\ j \notin 1..Len(s)
    <3>1. PICK m, k \in 1..n : i = Len(s) + m /\ j = Len(s) + k
      BY <1>11, <2>4
    <3>2. rows[m] = rows[k]
      BY <1>10, <3>1
    <3> QED
      BY <1>4, <3>1, <3>2
  <2> QED
    BY <2>1, <2>2, <2>3, <2>4
<1>14. ToSet(w) = ToSet(s) \cup new
  <2>1. ASSUME NEW x \in ToSet(w)
        PROVE  x \in ToSet(s) \cup new
    <3>1. PICK i \in 1..Len(s) + n : w[i] = x
      BY <1>9 DEF ToSet
    <3> QED
      BY <1>3, <1>10, <1>11, <1>12, <3>1
  <2>2. ASSUME NEW x \in ToSet(s)
        PROVE  x \in ToSet(w)
    <3>1. PICK i \in 1..Len(s) : s[i] = x
      BY <1>9 DEF ToSet
    <3> QED
      BY <1>9, <1>10, <3>1 DEF ToSet
  <2>3. ASSUME NEW x \in new
        PROVE  x \in ToSet(w)
    <3>1. PICK i \in 1..n : rows[i] = x
      BY <1>5
    <3> QED
      BY <1>9, <1>10, <3>1 DEF ToSet
  <2> QED
    BY <2>1, <2>2, <2>3
<1>15. ASSUME NEW f, NEW g, Precedes(w, f, g)
       PROVE  \/ Precedes(s, f, g)
              \/ f \in ToSet(s) /\ g \in new
              \/ f \in new /\ g \in new /\ f < g
  <2>1. PICK i, j \in 1..Len(s) + n : i < j /\ w[i] = f /\ w[j] = g
    BY <1>8, <1>15 DEF Precedes
  <2>2. CASE i \in 1..Len(s) /\ j \in 1..Len(s)
    BY <1>10, <2>1, <2>2 DEF Precedes
  <2>3. CASE i \in 1..Len(s) /\ j \notin 1..Len(s)
    <3>1. PICK m \in 1..n : j = Len(s) + m
      BY <1>11, <2>3
    <3> QED
      BY <1>3, <1>10, <1>12, <2>1, <2>3, <3>1
  <2>4. CASE i \notin 1..Len(s) /\ j \in 1..Len(s)
    BY <1>8, <2>1, <2>4
  <2>5. CASE i \notin 1..Len(s) /\ j \notin 1..Len(s)
    <3>1. PICK m, k \in 1..n : i = Len(s) + m /\ j = Len(s) + k
      BY <1>11, <2>5
    <3>2. f = rows[m] /\ g = rows[k] /\ f \in new /\ g \in new
      BY <1>3, <1>10, <2>1, <3>1
    <3>3. m < k
      BY <1>8, <2>1, <3>1
    <3> QED
      BY <1>3, <3>2, <3>3
  <2> QED
    BY <2>2, <2>3, <2>4, <2>5
<1> QED
  BY <1>7, <1>8, <1>13, <1>14, <1>15

(***************************************************************************)
(* The order of a client's messages.  A poller takes up the first pending  *)
(* event, so whatever comes before it is out of its way (InLine).  That    *)
(* lasts, although its row may be deleted by another poller and stored     *)
(* again behind new ones: rows are added only by the one poller that was   *)
(* not stopped (Single), which found nothing pending before it asked VK    *)
(* (Quiet), and it asks from a position behind which every message was     *)
(* stored once and is settled if its row is gone (Positions, Seen).        *)
(***************************************************************************)
Waits(p) == poller[p].pc \in {"delaying", "naming", "queued", "handling", "answering"}

Excused(f) == processed[f] = "completed" \/ Quarantined(f) \/ ruling[f] # "none"

InLine(e) == \A f \in Events : IsMessage(f) /\ Precedes(order, f, e) => Excused(f)

RowsFit ==
  order \in Seq(Events) /\ IsInjective(order) /\ ToSet(order) = {e \in Events : Stored(e)}

Limits ==
  \A e \in Events : /\ inbound[e].attempts <= MaxEventAttempts
                    /\ Pending(e) => inbound[e].attempts < MaxEventAttempts

Positions ==
  /\ sent \in 0..MaxEvents
  /\ \A p \in Pollers : /\ poller[p].ts \in 0..sent + 1
                        /\ Waits(p) => poller[p].event <= sent
  /\ \A e \in Events : Stored(e) => e <= sent

Single == \A p \in Pollers : poller[p].pc # "off" /\ ~poller[p].aborted => running = p

Quiet ==
  \A p \in Pollers :
    poller[p].pc = "polling" /\ ~poller[p].aborted =>
      \A f \in Events : Pending(f) => ruling[f] # "none"

Seen ==
  \A f \in Events : f <= sent /\ IsMessage(f) /\ ~Stored(f)
                      => processed[f] = "completed" \/ ruling[f] # "none"

NoneOvertakes == \A p \in Pollers : Waits(p) => InLine(poller[p].event)

OrderInv ==
  RowsFit /\ Limits /\ Positions /\ Single /\ Quiet /\ Seen /\ NoneOvertakes

\* The table is empty and nobody polls at the start.
LEMMA Init_OrderInv == Init => OrderInv
<1> SUFFICES ASSUME Init PROVE OrderInv
  OBVIOUS
<1>1. MaxEvents \in Nat /\ MaxEventAttempts \in Nat \ {0}
  BY VkInboxAssumption
<1>2. \A e \in Events : inbound[e].status = "absent" /\ inbound[e].attempts = 0
  BY DEF Init, NoRow
<1>3. \A p \in Pollers : poller[p].pc = "off" /\ poller[p].ts = 0
  BY DEF Init, Off, None
<1>4. RowsFit
  <2>1. order = <<>>
    BY DEF Init
  <2>2. DOMAIN order = {}
    BY <2>1
  <2>3. order \in Seq(Events)
    BY <2>1
  <2> QED
    BY <1>2, <2>2, <2>3 DEF RowsFit, IsInjective, ToSet, Stored
<1>5. Limits
  BY <1>1, <1>2 DEF Limits, Pending
<1>6. Positions
  BY <1>1, <1>2, <1>3 DEF Init, Positions, Waits, Stored
<1>7. Single /\ Quiet /\ NoneOvertakes
  BY <1>3 DEF Single, Quiet, NoneOvertakes, Waits
<1>8. Seen
  BY <1>1 DEF Init, Seen, Events
<1> QED
  BY <1>4, <1>5, <1>6, <1>7, <1>8 DEF OrderInv

-----------------------------------------------------------------------------
\* No row is added, and one that stays keeps its place and what excuses it.
StoreShrinks ==
  /\ \A f \in Events :
       /\ Stored(f)' => Stored(f)
       /\ Pending(f)' => Pending(f) \/ ruling'[f] # "none"
       /\ Quarantined(f) /\ Stored(f)' => Quarantined(f)' \/ ruling'[f] # "none"
  /\ \A f, g : Precedes(order', f, g) => Precedes(order, f, g)

HistoryKept ==
  \A f \in Events : /\ ruling[f] # "none" => ruling'[f] # "none"
                    /\ processed[f] = "completed" => processed'[f] = "completed"

\* No poller waits for an event but one it waited for or one that is in line.
PollersFit ==
  \A q \in Pollers :
    /\ poller'[q].ts \in 0..sent + 1
    /\ Waits(q)' => \/ Waits(q) /\ poller'[q].event = poller[q].event
                    \/ poller'[q].event <= sent /\ InLine(poller'[q].event)
    /\ poller'[q].pc # "off" /\ ~poller'[q].aborted => running' = q
    /\ poller'[q].pc = "polling" /\ ~poller'[q].aborted =>
         \/ poller[q].pc = "polling" /\ ~poller[q].aborted
         \/ \A f \in Events : ~Pending(f)

\* A step that stores nothing, drops no message, takes no decision back and lets
\* no poller wait on an event that is not in line keeps the order.
LEMMA OrderKept ==
  ASSUME IInv, IInv', OrderInv, RowsFit', Limits', DropsNone,
         StoreShrinks, HistoryKept, PollersFit, sent' = sent
  PROVE  OrderInv'
<1>1. Positions'
  <2>1. /\ sent' \in 0..MaxEvents
        /\ \A e \in Events : Stored(e)' => e <= sent'
    BY DEF OrderInv, Positions, StoreShrinks
  <2>2. ASSUME NEW q \in Pollers
        PROVE  /\ poller'[q].ts \in 0..sent' + 1
               /\ Waits(q)' => poller'[q].event <= sent'
    BY DEF OrderInv, Positions, PollersFit
  <2> QED
    BY <2>1, <2>2 DEF Positions
<1>2. Single'
  BY DEF PollersFit, Single
<1>3. Quiet'
  <2> SUFFICES ASSUME NEW q \in Pollers, poller'[q].pc = "polling", ~poller'[q].aborted,
                      NEW f \in Events, Pending(f)'
               PROVE  ruling'[f] # "none"
    BY DEF Quiet
  <2>1. (Pending(f) => ruling[f] # "none") \/ ~Pending(f)
    BY DEF PollersFit, OrderInv, Quiet
  <2>2. Pending(f) \/ ruling'[f] # "none"
    BY DEF StoreShrinks
  <2> QED
    BY <2>1, <2>2 DEF HistoryKept
<1>4. Seen'
  <2> SUFFICES ASSUME NEW f \in Events, f <= sent, IsMessage(f), ~Stored(f)'
               PROVE  processed'[f] = "completed" \/ ruling'[f] # "none"
    BY DEF Seen, IsMessage
  <2>1. CASE Stored(f)
    BY <2>1 DEF DropsNone, Settled, Stored
  <2>2. CASE ~Stored(f)
    BY <2>2 DEF OrderInv, Seen, HistoryKept
  <2> QED
    BY <2>1, <2>2
<1>5. NoneOvertakes'
  <2> SUFFICES ASSUME NEW q \in Pollers, Waits(q)', NEW f \in Events, IsMessage(f),
                      Precedes(order', f, poller'[q].event)
               PROVE  Excused(f)'
    BY DEF NoneOvertakes, InLine, IsMessage
  <2>1. PICK e : e = poller'[q].event
    OBVIOUS
  <2>2. InLine(e)
    BY <2>1 DEF PollersFit, OrderInv, NoneOvertakes
  <2>3. Precedes(order, f, e)
    BY <2>1 DEF StoreShrinks
  <2>4. Excused(f)
    BY <2>2, <2>3 DEF InLine
  <2>5. Stored(f)'
    <3>1. f \in ToSet(order')
      BY DEF Precedes, ToSet, RowsFit
    <3> QED
      BY <3>1 DEF RowsFit
  <2> QED
    BY <2>4, <2>5 DEF Excused, StoreShrinks, HistoryKept
<1> QED
  BY <1>1, <1>2, <1>3, <1>4, <1>5 DEF OrderInv

-----------------------------------------------------------------------------
(* What the statements do to the rows.                                     *)

\* Deleting a row leaves the others in their order.
LEMMA CompleteShrinks ==
  ASSUME IInv, OrderInv, NEW e \in Events, CompleteInboundEvent(e)
  PROVE  RowsFit' /\ Limits' /\ StoreShrinks
<1>1. /\ inbound'[e].status = "absent" /\ inbound'[e].attempts = 0
      /\ \A f \in Events : f # e => inbound'[f] = inbound[f]
      /\ order' = Without(order, e)
  BY DEF CompleteInboundEvent, IInv, TypeInv, StoreTyped, NoRow
<1>2. /\ order' \in Seq(Events) /\ IsInjective(order')
      /\ ToSet(order') = ToSet(order) \ {e}
      /\ \A f, g : Precedes(order', f, g) => Precedes(order, f, g)
  BY <1>1, WithoutOne DEF OrderInv, RowsFit
<1>3. RowsFit'
  BY <1>1, <1>2 DEF OrderInv, RowsFit, Stored
<1>4. Limits'
  BY <1>1, VkInboxAssumption DEF OrderInv, Limits, Pending
<1>5. StoreShrinks
  BY <1>1, <1>2 DEF StoreShrinks, Stored, Pending, Quarantined
<1> QED
  BY <1>3, <1>4, <1>5

\* So does a failure, which deletes at most the row itself.
LEMMA FailedShrinks ==
  ASSUME IInv, OrderInv, NEW p \in Pollers, NEW e \in Events, Failed(p, e)
  PROVE  RowsFit' /\ Limits' /\ StoreShrinks
<1>1. order' = order
  BY DEF Failed
<1>2. CASE UNCHANGED inbound
  <2>1. RowsFit'
    BY <1>1, <1>2 DEF OrderInv, RowsFit, Stored
  <2>2. Limits'
    BY <1>1, <1>2 DEF OrderInv, Limits, Pending
  <2>3. StoreShrinks
    BY <1>1, <1>2 DEF StoreShrinks, Stored, Pending, Quarantined
  <2> QED
    BY <2>1, <2>2, <2>3
<1>3. CASE Pending(e) /\ inbound' = [inbound EXCEPT ![e] = Failure(@)]
  <2>1. /\ inbound'[e] = Failure(inbound[e])
        /\ \A f \in Events : f # e => inbound'[f] = inbound[f]
    BY <1>3 DEF IInv, TypeInv, StoreTyped
  <2>2. inbound[e].attempts \in Nat /\ inbound[e].attempts < MaxEventAttempts
    BY <1>3 DEF IInv, TypeInv, StoreTyped, InboundRow, OrderInv, Limits
  <2>3. /\ inbound'[e].status \in {"pending", "quarantined"}
        /\ inbound'[e].attempts <= MaxEventAttempts
        /\ inbound'[e].status = "pending" => inbound'[e].attempts < MaxEventAttempts
    BY <2>1, <2>2, VkInboxAssumption DEF Failure
  <2>4. RowsFit'
    BY <1>1, <1>3, <2>1, <2>3 DEF OrderInv, RowsFit, Stored, Pending
  <2>5. Limits'
    BY <2>1, <2>3 DEF OrderInv, Limits, Pending
  <2>6. StoreShrinks
    BY <1>1, <1>3, <2>1, <2>3 DEF StoreShrinks, Stored, Pending, Quarantined
  <2> QED
    BY <2>4, <2>5, <2>6
<1> QED
  BY <1>2, <1>3 DEF Failed

\* A step that leaves the table alone deletes no row.
LEMMA StoreStays ==
  ASSUME OrderInv, UNCHANGED store
  PROVE  RowsFit' /\ Limits' /\ StoreShrinks
<1>1. inbound' = inbound /\ order' = order
  BY DEF store
<1>2. RowsFit'
  BY <1>1 DEF OrderInv, RowsFit, Stored
<1>3. Limits'
  BY <1>1 DEF OrderInv, Limits, Pending
<1>4. StoreShrinks
  BY <1>1 DEF StoreShrinks, Stored, Pending, Quarantined
<1> QED
  BY <1>2, <1>3, <1>4

-----------------------------------------------------------------------------
(* What a poller does by itself.                                           *)

\* A poller that finished its event awaits none.
LEMMA LoopFits ==
  ASSUME IInv, OrderInv, NEW p \in Pollers, poller[p].pc # "off", Loop(p), running' = running
  PROVE  PollersFit
<1>1. /\ poller'[p].pc \in {"off", "idle"}
      /\ \A q \in Pollers : q # p => poller'[q] = poller[q]
  BY LoopMoves DEF IInv, TypeInv
<1>2. sent \in Nat /\ \A q \in Pollers : poller[q].ts \in 0..sent + 1
  BY DEF OrderInv, Positions
<1>3. /\ poller'[p].ts \in 0..sent + 1
      /\ poller'[p].pc # "off" /\ ~poller'[p].aborted => ~poller[p].aborted
  <2>1. CASE poller[p].aborted
    <3>1. poller'[p] = Off
      BY <2>1 DEF Loop, IInv, TypeInv, PollersTyped
    <3> QED
      BY <1>2, <3>1 DEF Off, None
  <2>2. CASE ~poller[p].aborted
    <3>1. poller'[p] = [poller[p] EXCEPT !.pc = "idle", !.event = None]
      BY <2>2 DEF Loop, IInv, TypeInv, PollersTyped
    <3>2. poller[p] \in PollerState
      BY DEF IInv, TypeInv, PollersTyped
    <3>3. poller'[p].ts = poller[p].ts
      BY <3>1, <3>2 DEF PollerState
    <3> QED
      BY <1>2, <2>2, <3>3
  <2> QED
    BY <2>1, <2>2
<1>4. ASSUME NEW q \in Pollers, q # p
      PROVE  /\ poller'[q].ts \in 0..sent + 1
             /\ Waits(q)' => Waits(q) /\ poller'[q].event = poller[q].event
             /\ poller'[q].pc # "off" /\ ~poller'[q].aborted => running' = q
             /\ poller'[q].pc = "polling" /\ ~poller'[q].aborted =>
                  poller[q].pc = "polling" /\ ~poller[q].aborted
  BY <1>1, <1>2, <1>4 DEF OrderInv, Single, Waits
<1>5. ~Waits(p)' /\ poller'[p].pc # "polling"
  BY <1>1 DEF Waits
<1>6. poller'[p].pc # "off" /\ ~poller'[p].aborted => running' = p
  BY <1>3 DEF OrderInv, Single
<1> QED
  BY <1>3, <1>4, <1>5, <1>6 DEF PollersFit

\* p has just taken up e, or had taken it up before.
TakesUp(p, e) ==
  \/ Waits(p) /\ poller[p].event = e
  \/ e <= sent /\ InLine(e)

\* A poller that goes on waiting waits on an event that was in line.
LEMMA AwaitFits ==
  ASSUME IInv, OrderInv, NEW p \in Pollers, poller[p].pc # "off", NEW e \in Events,
         NEW pc \in {"delaying", "naming", "queued", "handling", "answering"},
         Await(p, pc, e), TakesUp(p, e), running' = running
  PROVE  PollersFit
<1>1. /\ poller'[p].pc = pc /\ poller'[p].event = e
      /\ poller'[p].ts = poller[p].ts /\ poller'[p].aborted = poller[p].aborted
      /\ \A q \in Pollers : q # p => poller'[q] = poller[q]
  BY DEF Await, IInv, TypeInv, PollersTyped, PollerState
<1>2. \A q \in Pollers : poller[q].ts \in 0..sent + 1
  BY DEF OrderInv, Positions
<1>3. ASSUME NEW q \in Pollers, q # p
      PROVE  /\ poller'[q].ts \in 0..sent + 1
             /\ Waits(q)' => Waits(q) /\ poller'[q].event = poller[q].event
             /\ poller'[q].pc # "off" /\ ~poller'[q].aborted => running' = q
             /\ poller'[q].pc = "polling" /\ ~poller'[q].aborted =>
                  poller[q].pc = "polling" /\ ~poller[q].aborted
  BY <1>1, <1>2, <1>3 DEF OrderInv, Single, Waits
<1>4. /\ poller'[p].ts \in 0..sent + 1
      /\ poller'[p].pc # "polling"
      /\ ~poller'[p].aborted => running' = p
  BY <1>1, <1>2 DEF OrderInv, Single
<1>5. \/ Waits(p) /\ poller'[p].event = poller[p].event
      \/ poller'[p].event <= sent /\ InLine(poller'[p].event)
  BY <1>1 DEF TakesUp
<1> QED
  BY <1>3, <1>4, <1>5 DEF PollersFit

-----------------------------------------------------------------------------
(* The steps.                                                              *)

\* Completing an event keeps the order.
LEMMA HandledOrder ==
  ASSUME IInv, IInv', OrderInv, DropsNone, HistoryKept, NEW p \in Pollers, NEW e \in Events,
         poller[p].pc # "off", Handled(p, e), UNCHANGED <<running, sent>>
  PROVE  OrderInv'
<1>1. CompleteInboundEvent(e) /\ Loop(p) /\ running' = running /\ sent' = sent
  BY DEF Handled
<1>2. RowsFit' /\ Limits' /\ StoreShrinks
  BY <1>1, CompleteShrinks
<1>3. PollersFit
  BY <1>1, LoopFits
<1> QED
  BY <1>1, <1>2, <1>3, OrderKept

\* So does a failure, which excuses what it takes away.
LEMMA FailedOrder ==
  ASSUME IInv, IInv', OrderInv, DropsNone, HistoryKept, NEW p \in Pollers, NEW e \in Events,
         poller[p].pc # "off", Failed(p, e), UNCHANGED <<running, sent>>
  PROVE  OrderInv'
<1>1. Loop(p) /\ running' = running /\ sent' = sent
  BY DEF Failed
<1>2. RowsFit' /\ Limits' /\ StoreShrinks
  BY FailedShrinks
<1>3. PollersFit
  BY <1>1, LoopFits
<1> QED
  BY <1>1, <1>2, <1>3, OrderKept

\* So does waiting on an event that is in line.
LEMMA AwaitOrder ==
  ASSUME IInv, IInv', OrderInv, DropsNone, HistoryKept, NEW p \in Pollers, NEW e \in Events,
         poller[p].pc # "off",
         NEW pc \in {"delaying", "naming", "queued", "handling", "answering"},
         Await(p, pc, e), TakesUp(p, e), UNCHANGED <<store, running, sent>>
  PROVE  OrderInv'
<1>1. running' = running /\ sent' = sent
  OBVIOUS
<1>2. RowsFit' /\ Limits' /\ StoreShrinks
  BY StoreStays
<1>3. PollersFit
  BY <1>1, AwaitFits
<1> QED
  BY <1>1, <1>2, <1>3, OrderKept

\* No decision is taken back, and no completed claim.
LEMMA SameHistory ==
  ASSUME UNCHANGED <<processed, ruling>>
  PROVE  HistoryKept
BY DEF HistoryKept

\* Routing an event that is in line keeps the order.
LEMMA RouteOrder ==
  ASSUME IInv, IInv', OrderInv, DropsNone, NEW p \in Pollers, NEW e \in Events,
         poller[p].pc # "off", Route(p, e), TakesUp(p, e), UNCHANGED <<running, sent>>
  PROVE  OrderInv'
<1>1. Kind[e] \in Kinds
  BY VkInboxAssumption
<1>2. CASE Kind[e] = "other"
  BY <1>2, SameHistory, HandledOrder DEF Route
<1>3. CASE Kind[e] = "invalid"
  BY <1>3, SameHistory, FailedOrder DEF Route
<1>4. CASE Kind[e] = "attachment"
  BY <1>4, SameHistory, AwaitOrder DEF Route
<1>5. CASE Kind[e] = "menu"
  <2>1. CASE CanClaim(e)
    <3>1. /\ processed' = [processed EXCEPT ![e] = "processing"] /\ ruling' = ruling
          /\ Await(p, "answering", e) /\ UNCHANGED store
      BY <1>5, <2>1 DEF Route
    <3>2. HistoryKept
      BY <2>1, <3>1 DEF HistoryKept, CanClaim, IInv, TypeInv
    <3> QED
      BY <3>1, <3>2, AwaitOrder
  <2>2. CASE ~CanClaim(e)
    BY <1>5, <2>2, SameHistory, HandledOrder DEF Route
  <2> QED
    BY <2>1, <2>2
<1>6. CASE Kind[e] = "message"
  <2>1. CASE Await(p, "naming", e) /\ UNCHANGED <<store, processed, ruling>>
    BY <2>1, SameHistory, AwaitOrder
  <2>2. CASE /\ ruling' = [ruling EXCEPT ![e] = "declined"]
             /\ Handled(p, e) /\ processed' = processed
    <3>1. HistoryKept
      BY <2>2 DEF HistoryKept, IInv, TypeInv, HistoryTyped
    <3> QED
      BY <2>2, <3>1, HandledOrder
  <2> QED
    BY <1>6, <2>1, <2>2 DEF Route
<1> QED
  BY <1>1, <1>2, <1>3, <1>4, <1>5, <1>6 DEF Kinds

\* Whatever is stored before the first pending event is in quarantine.
LEMMA NextIsInLine ==
  ASSUME IInv, OrderInv, NEW e \in Events, IsNext(e)
  PROVE  InLine(e) /\ e <= sent
<1>1. PICK i \in DOMAIN order :
        /\ order[i] = e /\ Pending(e)
        /\ \A j \in 1..i-1 : ~Pending(order[j])
  BY DEF IsNext, First
<1>2. /\ order \in Seq(Events) /\ DOMAIN order = 1..Len(order) /\ Len(order) \in Nat
      /\ \A j, k \in 1..Len(order) : order[j] = order[k] => j = k
  BY DEF OrderInv, RowsFit, IsInjective
<1>3. \A j \in 1..Len(order) : Stored(order[j])
  BY <1>2 DEF OrderInv, RowsFit, ToSet
<1>4. ASSUME NEW f \in Events, Precedes(order, f, e)
      PROVE  Quarantined(f)
  <2>1. PICK j, k \in 1..Len(order) : j < k /\ order[j] = f /\ order[k] = e
    BY <1>4 DEF Precedes
  <2>2. k = i
    BY <1>1, <1>2, <2>1
  <2>3. j \in 1..i - 1
    BY <1>2, <2>1, <2>2
  <2>4. ~Pending(f)
    BY <1>1, <2>1, <2>3
  <2>5. Stored(f)
    BY <1>3, <2>1
  <2>6. inbound[f].status \in {"absent", "pending", "quarantined"}
    BY DEF IInv, TypeInv, StoreTyped, InboundRow
  <2> QED
    BY <2>4, <2>5, <2>6 DEF Stored, Pending, Quarantined
<1>5. e <= sent
  BY <1>1, <1>2, <1>3 DEF OrderInv, Positions
<1> QED
  BY <1>4, <1>5 DEF InLine, Excused

\* The next event is the first of the table that is pending, so in line.
LEMMA NextEventOrder ==
  ASSUME IInv, IInv', OrderInv, DropsNone, NEW p \in Pollers, NextEvent(p)
  PROVE  OrderInv'
<1>1. PICK e \in Events :
        /\ IsNext(e)
        /\ \/ Route(p, e)
           \/ Await(p, "delaying", e) /\ UNCHANGED <<store, processed, ruling>>
  BY DEF NextEvent
<1>2. poller[p].pc # "off" /\ UNCHANGED <<running, sent>>
  BY DEF NextEvent
<1>3. TakesUp(p, e)
  BY <1>1, NextIsInLine DEF TakesUp
<1>4. CASE Route(p, e)
  BY <1>2, <1>3, <1>4, RouteOrder
<1>5. CASE Await(p, "delaying", e) /\ UNCHANGED <<store, processed, ruling>>
  BY <1>2, <1>3, <1>5, SameHistory, AwaitOrder
<1> QED
  BY <1>1, <1>4, <1>5

\* An event that is retried is in line again.
LEMMA DelayEndsOrder ==
  ASSUME IInv, IInv', OrderInv, DropsNone, NEW p \in Pollers, DelayEnds(p)
  PROVE  OrderInv'
<1>1. /\ poller[p].pc # "off" /\ UNCHANGED <<running, sent>>
      /\ poller[p].event \in Events /\ TakesUp(p, poller[p].event)
  BY DEF DelayEnds, IInv, OnEvents, TakesUp, Waits
<1>2. CASE poller[p].aborted
  <2>1. Loop(p) /\ UNCHANGED store /\ HistoryKept /\ running' = running /\ sent' = sent
    BY <1>1, <1>2, SameHistory DEF DelayEnds
  <2>2. RowsFit' /\ Limits' /\ StoreShrinks
    BY <2>1, StoreStays
  <2>3. PollersFit
    BY <1>1, <2>1, LoopFits
  <2> QED
    BY <2>1, <2>2, <2>3, OrderKept
<1>3. CASE ~poller[p].aborted
  BY <1>1, <1>3, RouteOrder DEF DelayEnds
<1> QED
  BY <1>2, <1>3

\* Entering the queue of a client changes no row.
LEMMA NameAnsweredOrder ==
  ASSUME IInv, IInv', OrderInv, DropsNone, NEW p \in Pollers, NameAnswered(p)
  PROVE  OrderInv'
<1>1. /\ poller[p].pc # "off" /\ UNCHANGED <<running, sent>>
      /\ poller[p].event \in Events /\ TakesUp(p, poller[p].event)
      /\ HistoryKept
  BY SameHistory DEF NameAnswered, IInv, OnEvents, TakesUp, Waits
<1>2. CASE Await(p, "queued", poller[p].event) /\ UNCHANGED store
  BY <1>1, <1>2, AwaitOrder
<1>3. CASE Failed(p, poller[p].event)
  BY <1>1, <1>3, FailedOrder
<1> QED
  BY <1>2, <1>3 DEF NameAnswered

\* Taking the turn ends with the claim, or with a row of an event settled.
LEMMA TakeTurnOrder ==
  ASSUME IInv, IInv', OrderInv, DropsNone, NEW p \in Pollers, TakeTurn(p)
  PROVE  OrderInv'
<1>1. /\ poller[p].pc # "off" /\ UNCHANGED <<running, sent>>
      /\ poller[p].event \in Events /\ TakesUp(p, poller[p].event)
  BY DEF TakeTurn, IInv, OnEvents, TakesUp, Waits
<1>2. CASE CanClaim(poller[p].event)
  <2>1. /\ processed' = [processed EXCEPT ![poller[p].event] = "processing"]
        /\ Await(p, "handling", poller[p].event) /\ UNCHANGED <<store, ruling>>
    BY <1>2 DEF TakeTurn
  <2>2. HistoryKept
    BY <1>1, <1>2, <2>1 DEF HistoryKept, CanClaim, IInv, TypeInv
  <2> QED
    BY <1>1, <2>1, <2>2, AwaitOrder
<1>3. CASE ~CanClaim(poller[p].event)
  <2>1. Handled(p, poller[p].event) /\ UNCHANGED <<processed, ruling>>
    BY <1>3 DEF TakeTurn
  <2> QED
    BY <1>1, <2>1, SameHistory, HandledOrder
<1> QED
  BY <1>2, <1>3

\* The claim that is released was not completed.
LEMMA SettlesOrder ==
  ASSUME IInv, IInv', OrderInv, DropsNone, NEW p \in Pollers, Settles(p)
  PROVE  OrderInv'
<1>1. PICK e : e = poller[p].event
  OBVIOUS
<1>2. /\ poller[p].pc # "off" /\ UNCHANGED <<running, sent, ruling>>
      /\ e \in Events /\ Works(p, e)
  BY <1>1 DEF Settles, HandlingSucceeds, HandlingFails, IInv, OnEvents, Works
<1>3. CASE HandlingSucceeds(p)
  <2>1. /\ Handled(p, e)
        /\ processed' = IF Kind[e] = "attachment" THEN processed
                        ELSE [processed EXCEPT ![e] = "completed"]
    BY <1>1, <1>3 DEF HandlingSucceeds
  <2>2. HistoryKept
    BY <1>2, <2>1 DEF HistoryKept, IInv, TypeInv
  <2> QED
    BY <1>2, <2>1, <2>2, HandledOrder
<1>4. CASE HandlingFails(p)
  <2>1. /\ Failed(p, e)
        /\ processed' = IF Kind[e] = "attachment" THEN processed
                        ELSE [processed EXCEPT ![e] = "none"]
    BY <1>1, <1>4 DEF HandlingFails
  <2>2. Kind[e] # "attachment" => processed[e] = "processing"
    BY <1>2 DEF IInv, Claims
  <2>3. HistoryKept
    BY <1>2, <2>1, <2>2 DEF HistoryKept, IInv, TypeInv
  <2> QED
    BY <1>2, <2>1, <2>3, FailedOrder
<1> QED
  BY <1>3, <1>4 DEF Settles

\* When nothing is next, nothing is pending.
LEMMA NonePending ==
  ASSUME OrderInv, ~\E e \in Events : IsNext(e)
  PROVE  \A f \in Events : ~Pending(f)
<1> SUFFICES ASSUME NEW f \in Events, Pending(f) PROVE FALSE
  OBVIOUS
<1>1. order \in Seq(Events) /\ DOMAIN order = 1..Len(order) /\ Len(order) \in Nat
  BY DEF OrderInv, RowsFit
<1>2. PICK T : T = {i \in 1..Len(order) : Pending(order[i])}
  OBVIOUS
<1>3. f \in ToSet(order)
  BY DEF OrderInv, RowsFit, Stored, Pending
<1>4. T # {} /\ T \in SUBSET Nat
  BY <1>1, <1>2, <1>3 DEF ToSet
<1>5. PICK i \in T : \A j \in T : i <= j
  BY <1>4, HasLeast
<1>6. i \in 1..Len(order) /\ Pending(order[i])
  BY <1>2, <1>5
<1>7. ASSUME NEW j \in 1..i - 1, Pending(order[j])
      PROVE  FALSE
  <2>1. j \in 1..Len(order)
    BY <1>1, <1>6
  <2>2. i <= j
    BY <1>2, <1>5, <1>7, <2>1
  <2> QED
    BY <1>1, <1>6, <2>2
<1>8. IsNext(order[i])
  BY <1>1, <1>6, <1>7 DEF IsNext, First
<1>9. order[i] \in Events
  BY <1>1, <1>6
<1> QED
  BY <1>8, <1>9

\* A poll begins when nothing is pending, and only the poller that is running
\* gets an answer.
LEMMA PollOrder ==
  ASSUME IInv, IInv', OrderInv, DropsNone, NEW p \in Pollers,
         LongPoll(p) \/ NewPosition(p) \/ PollAborted(p) \/ Start(p)
  PROVE  OrderInv'
<1>1. UNCHANGED store /\ HistoryKept /\ sent' = sent
  BY SameHistory DEF LongPoll, NewPosition, PollAborted, Start
<1>2. RowsFit' /\ Limits' /\ StoreShrinks
  BY <1>1, StoreStays
<1>3. poller \in [Pollers -> PollerState] /\ poller[p] \in PollerState
  BY DEF IInv, TypeInv, PollersTyped
<1>4. sent \in Nat /\ \A q \in Pollers : poller[q].ts \in 0..sent + 1
  BY DEF OrderInv, Positions
<1>5. \A q \in Pollers : q # p => poller'[q] = poller[q]
  BY <1>3 DEF LongPoll, NewPosition, PollAborted, Start
<1>6. /\ poller'[p].ts \in 0..sent + 1
      /\ poller'[p].pc \in {"off", "idle", "polling"}
      /\ poller'[p].pc # "off" /\ ~poller'[p].aborted => running' = p
      /\ poller'[p].pc = "polling" => \A f \in Events : ~Pending(f)
  <2>1. CASE LongPoll(p)
    <3>1. poller'[p].ts = poller[p].ts /\ poller'[p].pc = "polling"
          /\ poller'[p].aborted = poller[p].aborted
          /\ poller[p].pc = "idle" /\ running' = running
      BY <1>3, <2>1 DEF LongPoll, PollerState
    <3>2. \A f \in Events : ~Pending(f)
      BY <2>1, NonePending DEF LongPoll
    <3> QED
      BY <1>4, <3>1, <3>2 DEF OrderInv, Single
  <2>2. CASE NewPosition(p)
    <3>1. PICK ts \in 1..sent + 1 : poller' = [poller EXCEPT ![p].pc = "idle", ![p].ts = ts]
      BY <2>2 DEF NewPosition
    <3>2. poller'[p].ts = ts /\ poller'[p].pc = "idle" /\ poller'[p].aborted = poller[p].aborted
      BY <1>3, <3>1 DEF PollerState
    <3>3. poller[p].pc = "polling" /\ running' = running
      BY <2>2 DEF NewPosition
    <3> QED
      BY <1>4, <3>2, <3>3 DEF OrderInv, Single
  <2>3. CASE PollAborted(p)
    <3>1. poller'[p] = Off
      BY <1>3, <2>3 DEF PollAborted
    <3> QED
      BY <1>4, <3>1 DEF Off, None
  <2>4. CASE Start(p)
    <3>1. poller'[p] = [Off EXCEPT !.pc = "idle"] /\ running' = p
      BY <1>3, <2>4 DEF Start
    <3> QED
      BY <1>4, <3>1 DEF Off, None
  <2> QED
    BY <2>1, <2>2, <2>3, <2>4
<1>7. running' = running \/ running = None
  BY DEF LongPoll, NewPosition, PollAborted, Start
<1>8. ASSUME NEW q \in Pollers, q # p
      PROVE  /\ poller'[q].ts \in 0..sent + 1
             /\ Waits(q)' => Waits(q) /\ poller'[q].event = poller[q].event
             /\ poller'[q].pc # "off" /\ ~poller'[q].aborted => running' = q
             /\ poller'[q].pc = "polling" /\ ~poller'[q].aborted =>
                  poller[q].pc = "polling" /\ ~poller[q].aborted
  <2>1. poller'[q] = poller[q]
    BY <1>5, <1>8
  <2>2. q # None
    BY VkInboxAssumption
  <2>3. poller[q].pc # "off" /\ ~poller[q].aborted => running = q
    BY DEF OrderInv, Single
  <2> QED
    BY <1>4, <1>7, <2>1, <2>2, <2>3 DEF Waits
<1>9. ~Waits(p)'
  BY <1>6 DEF Waits
<1>10. PollersFit
  BY <1>6, <1>8, <1>9 DEF PollersFit
<1> QED
  BY <1>1, <1>2, <1>10, OrderKept

\* Stop leaves the rows, and no poller takes up an event.
LEMMA StopOrder ==
  ASSUME IInv, IInv', OrderInv, DropsNone, Stop
  PROVE  OrderInv'
<1>0. PICK r : r = running
  OBVIOUS
<1>1. UNCHANGED store /\ HistoryKept /\ sent' = sent /\ r = running /\ r \in Pollers
  BY <1>0, SameHistory DEF Stop, IInv, TypeInv
<1>2. RowsFit' /\ Limits' /\ StoreShrinks
  BY <1>1, StoreStays
<1>3. poller \in [Pollers -> PollerState] /\ poller[r] \in PollerState
  BY <1>1 DEF IInv, TypeInv, PollersTyped
<1>4. sent \in Nat /\ \A q \in Pollers : poller[q].ts \in 0..sent + 1
  BY DEF OrderInv, Positions
<1>5. \A q \in Pollers : q # r => poller'[q] = poller[q]
  BY <1>1, <1>3 DEF Stop
<1>6. /\ poller'[r].ts \in 0..sent + 1
      /\ poller'[r].pc = "off" \/ poller'[r].aborted
      /\ Waits(r)' => Waits(r) /\ poller'[r].event = poller[r].event
  <2>1. CASE poller[r].pc = "idle"
    <3>1. poller'[r] = Off
      BY <1>1, <1>3, <2>1 DEF Stop
    <3> QED
      BY <1>4, <3>1 DEF Off, None, Waits
  <2>2. CASE poller[r].pc # "idle"
    <3>1. poller'[r] = [poller[r] EXCEPT !.aborted = TRUE]
      BY <1>1, <1>3, <2>2 DEF Stop
    <3>2. /\ poller'[r].aborted = TRUE /\ poller'[r].ts = poller[r].ts
          /\ poller'[r].pc = poller[r].pc
          /\ poller'[r].event = poller[r].event
      BY <1>3, <3>1 DEF PollerState
    <3> QED
      BY <1>1, <1>4, <3>2 DEF Waits
  <2> QED
    BY <2>1, <2>2
<1>7. ASSUME NEW q \in Pollers, q # r
      PROVE  /\ poller'[q].ts \in 0..sent + 1
             /\ Waits(q)' => Waits(q) /\ poller'[q].event = poller[q].event
             /\ poller'[q].pc = "off" \/ poller'[q].aborted
  BY <1>1, <1>4, <1>5, <1>7 DEF OrderInv, Single, Waits
<1>8. PollersFit
  BY <1>6, <1>7 DEF PollersFit
<1> QED
  BY <1>1, <1>2, <1>8, OrderKept

\* Where no poller moves, the events awaited stay.
LEMMA PollersStay ==
  ASSUME OrderInv, UNCHANGED <<poller, running>>
  PROVE  PollersFit
<1>1. \A q \in Pollers : poller'[q] = poller[q] /\ poller[q].ts \in 0..sent + 1
  BY DEF OrderInv, Positions
<1> QED
  BY <1>1 DEF PollersFit, OrderInv, Single, Waits

\* An administrator's decision on an event excuses it.
LEMMA ResolutionOrder ==
  ASSUME IInv, IInv', OrderInv, DropsNone, NEW e \in Events,
         RetryQuarantined(e) \/ SkipQuarantined(e)
  PROVE  OrderInv'
<1>1. UNCHANGED <<poller, running, processed, sent>>
  BY DEF RetryQuarantined, SkipQuarantined
<1>2. PollersFit
  BY <1>1, PollersStay
<1>3. PICK r \in {"retried", "skipped"} : ruling' = [ruling EXCEPT ![e] = r]
  BY DEF RetryQuarantined, SkipQuarantined
<1>4. HistoryKept /\ ruling'[e] # "none"
  BY <1>1, <1>3 DEF HistoryKept, IInv, TypeInv, HistoryTyped
<1>5. RowsFit' /\ Limits' /\ StoreShrinks
  <2>1. CASE SkipQuarantined(e)
    BY <2>1, CompleteShrinks DEF SkipQuarantined
  <2>2. CASE RetryQuarantined(e)
    <3>1. /\ order' = order /\ Quarantined(e)
          /\ inbound'[e].status = "pending" /\ inbound'[e].attempts = 0
          /\ \A f \in Events : f # e => inbound'[f] = inbound[f]
      BY <2>2 DEF RetryQuarantined, IInv, TypeInv, StoreTyped
    <3>2. RowsFit'
      BY <3>1 DEF OrderInv, RowsFit, Stored, Quarantined
    <3>3. Limits'
      BY <3>1, VkInboxAssumption DEF OrderInv, Limits, Pending
    <3>4. StoreShrinks
      BY <1>4, <3>1 DEF StoreShrinks, Stored, Pending, Quarantined
    <3> QED
      BY <3>2, <3>3, <3>4
  <2> QED
    BY <2>1, <2>2
<1> QED
  BY <1>1, <1>2, <1>4, <1>5, OrderKept

\* The pause touches no row.
LEMMA IdleOrder ==
  ASSUME IInv, IInv', OrderInv, DropsNone, SetPaused \/ UNCHANGED vars
  PROVE  OrderInv'
<1>1. UNCHANGED <<poller, running>> /\ UNCHANGED store /\ sent' = sent
      /\ UNCHANGED <<processed, ruling>>
  BY DEF SetPaused, vars
<1> QED
  BY <1>1, PollersStay, StoreStays, SameHistory, OrderKept

\* A claim that was completed outlives a crash, and nobody polls after it.
LEMMA RestartOrder ==
  ASSUME IInv, IInv', OrderInv, DropsNone, CrashAndRestart
  PROVE  OrderInv'
<1>1. PICK p \in Pollers \cup {None} :
        /\ running' = p
        /\ poller' = [q \in Pollers |-> IF q = p THEN [Off EXCEPT !.pc = "idle"]
                                        ELSE Off]
  BY DEF CrashAndRestart
<1>2. UNCHANGED store /\ sent' = sent /\ HistoryKept
  BY DEF CrashAndRestart, ReleaseInterruptedEvents, HistoryKept
<1>3. sent \in Nat
  BY DEF OrderInv, Positions
<1>4. ASSUME NEW q \in Pollers
      PROVE  /\ poller'[q].ts = 0 /\ poller'[q].pc \in {"off", "idle"}
             /\ poller'[q].pc = "idle" => running' = q
  BY <1>1 DEF Off, None
<1>5. PollersFit
  BY <1>3, <1>4 DEF PollersFit, Waits
<1> QED
  BY <1>2, <1>5, StoreStays, OrderKept

-----------------------------------------------------------------------------
\* A batch is stored behind rows that are all excused, in the order of the log;
\* an event that was stored before and is stored again comes after new ones
\* only if these are later in the log.
LEMMA PersistOrder ==
  ASSUME IInv, IInv', OrderInv, NEW p \in Pollers, PersistUpdates(p)
  PROVE  OrderInv'
<1>1. PICK ts : ts = poller[p].ts
  OBVIOUS
<1>2. PICK last \in sent..MaxEvents :
        /\ EnqueueInboundEvents(ts..last)
        /\ poller' = [poller EXCEPT ![p].pc = "idle", ![p].ts = last + 1]
        /\ sent' = last
  BY <1>1 DEF PersistUpdates
<1>3. /\ poller[p].pc = "polling" /\ ~poller[p].aborted
      /\ UNCHANGED <<processed, running, ruling>>
  BY DEF PersistUpdates
<1>4. sent \in Nat /\ MaxEvents \in Nat /\ sent <= MaxEvents /\ ts \in 1..sent + 1
  BY <1>1, VkInboxAssumption DEF PersistUpdates, OrderInv, Positions, None
<1>5. last \in Nat /\ sent <= last /\ last <= MaxEvents
  BY <1>4
<1>6. PICK new : new = {e \in ts..last : ~Stored(e)}
  OBVIOUS
<1>7. new \in SUBSET Events
  <2>1. \A e \in ts..last : e \in 1..MaxEvents
    BY <1>4, <1>5
  <2> QED
    BY <1>6, <2>1 DEF Events
<1>8. PICK rows \in [1..Cardinality(new) -> new] :
        /\ \A i, j \in DOMAIN rows : i < j => rows[i] < rows[j]
        /\ order' = order \o rows
  BY <1>2, <1>6 DEF EnqueueInboundEvents
<1>9. inbound' = [e \in Events |-> IF e \in new THEN [status |-> "pending", attempts |-> 0]
                                   ELSE inbound[e]]
  BY <1>2, <1>6 DEF EnqueueInboundEvents
<1>10. /\ \A e \in new : inbound'[e].status = "pending" /\ inbound'[e].attempts = 0
       /\ \A e \in Events : e \notin new => inbound'[e] = inbound[e]
  BY <1>7, <1>9
<1>11. /\ order \in Seq(Events) /\ IsInjective(order)
       /\ ToSet(order) = {e \in Events : Stored(e)} /\ new \cap ToSet(order) = {}
  BY <1>6 DEF OrderInv, RowsFit
<1>12. /\ order' \in Seq(Events) /\ IsInjective(order')
       /\ ToSet(order') = ToSet(order) \cup new
       /\ \A f, g : Precedes(order', f, g) =>
            \/ Precedes(order, f, g)
            \/ f \in ToSet(order) /\ g \in new
            \/ f \in new /\ g \in new /\ f < g
  BY <1>7, <1>8, <1>11, Enqueued
<1>13. /\ \A e \in Events : Stored(e)' <=> Stored(e) \/ e \in new
       /\ \A e \in Events : Quarantined(e) => Quarantined(e)'
  <2>1. \A e \in Events : Quarantined(e) => e \notin new
    BY <1>6 DEF Quarantined, Stored
  <2> QED
    BY <1>10, <2>1 DEF Stored, Quarantined
<1>14. poller \in [Pollers -> PollerState]
  BY DEF IInv, TypeInv, PollersTyped
<1>15. /\ poller'[p].pc = "idle" /\ poller'[p].ts = last + 1
       /\ poller'[p].aborted = poller[p].aborted
       /\ \A q \in Pollers : q # p => poller'[q] = poller[q]
  BY <1>2, <1>14 DEF PollerState
<1>16. running = p
  BY <1>3 DEF OrderInv, Single
<1>17. RowsFit'
  BY <1>7, <1>11, <1>12, <1>13 DEF RowsFit
<1>18. Limits'
  BY <1>10, VkInboxAssumption DEF OrderInv, Limits, Pending
<1>19. Positions'
  <2>1. sent' \in 0..MaxEvents
    BY <1>2, <1>5
  <2>2. ASSUME NEW q \in Pollers
        PROVE  poller'[q].ts \in 0..sent' + 1 /\ (Waits(q)' => poller'[q].event <= sent')
    <3>1. CASE q = p
      BY <1>2, <1>5, <1>15, <3>1 DEF Waits
    <3>2. CASE q # p
      <4>1. poller[q].ts \in 0..sent + 1 /\ (Waits(q) => poller[q].event <= sent)
        BY DEF OrderInv, Positions
      <4>2. Waits(q) => poller[q].event \in Int
        BY <1>4 DEF IInv, OnEvents, Waits, Events
      <4>3. PICK t : t = poller[q].ts
        OBVIOUS
      <4>4. t \in 0..sent' + 1
        <5>1. t \in 0..sent + 1
          BY <4>1, <4>3
        <5> QED
          BY <1>2, <1>4, <1>5, <5>1
      <4>5. PICK e : e = poller[q].event
        OBVIOUS
      <4>6. Waits(q) => e <= sent'
        <5>1. Waits(q) => e \in Int /\ e <= sent
          BY <4>1, <4>2, <4>5
        <5> QED
          BY <1>2, <1>4, <1>5, <5>1
      <4>7. poller'[q] = poller[q]
        BY <1>15, <3>2
      <4> QED
        BY <4>3, <4>4, <4>5, <4>6, <4>7 DEF Waits
    <3> QED
      BY <3>1, <3>2
  <2>3. ASSUME NEW e \in Events, Stored(e)'
        PROVE  e <= sent'
    <3>1. e \in Int
      BY <1>4 DEF Events
    <3>2. CASE e \in new
      BY <1>2, <1>5, <1>6, <3>2
    <3>3. CASE Stored(e)
      <4>1. e <= sent
        BY <3>3 DEF OrderInv, Positions
      <4> QED
        BY <1>2, <1>4, <1>5, <3>1, <4>1
    <3> QED
      BY <1>13, <2>3, <3>2, <3>3
  <2> QED
    BY <2>1, <2>2, <2>3 DEF Positions
<1>20. Single'
  BY <1>3, <1>15, <1>16 DEF OrderInv, Single
<1>21. Quiet'
  BY <1>15, <1>16 DEF OrderInv, Single, Quiet
<1>22. Seen'
  <2> SUFFICES ASSUME NEW f \in Events, f <= last, IsMessage(f), ~Stored(f)'
               PROVE  processed'[f] = "completed" \/ ruling'[f] # "none"
    BY <1>2 DEF Seen, IsMessage
  <2>1. ~Stored(f) /\ f \notin new
    BY <1>13
  <2>2. f \notin ts..last
    BY <1>6, <2>1
  <2>3. f <= sent
    BY <1>4, <1>5, <2>2 DEF Events
  <2> QED
    BY <1>3, <2>1, <2>3 DEF OrderInv, Seen
<1>23. NoneOvertakes'
  <2> SUFFICES ASSUME NEW q \in Pollers, Waits(q)', NEW f \in Events, IsMessage(f),
                      Precedes(order', f, poller'[q].event)
               PROVE  Excused(f)'
    BY DEF NoneOvertakes, InLine, IsMessage
  <2>1. q # p
    BY <1>15 DEF Waits
  <2>2. PICK e : e = poller[q].event
    OBVIOUS
  <2>3. Waits(q) /\ poller'[q].event = e
    BY <1>15, <2>1, <2>2 DEF Waits
  <2>4. e <= sent /\ InLine(e) /\ e \in Events
    BY <2>2, <2>3 DEF OrderInv, Positions, NoneOvertakes, IInv, OnEvents, Waits
  <2>5. Excused(f)
    <3>1. CASE Precedes(order, f, e)
      BY <2>4, <3>1 DEF InLine
    <3>2. CASE f \in ToSet(order) /\ e \in new
      <4>1. Stored(f)
        BY <1>11, <3>2
      <4>2. Pending(f) => ruling[f] # "none"
        BY <1>3 DEF OrderInv, Quiet
      <4>3. Pending(f) \/ Quarantined(f)
        BY <4>1 DEF Stored, Pending, Quarantined, IInv, TypeInv, StoreTyped, InboundRow
      <4> QED
        BY <4>2, <4>3 DEF Excused
    <3>3. CASE f \in new /\ e \in new /\ f < e
      <4>1. ~Stored(f)
        BY <1>6, <3>3
      <4>2. f \in Int /\ e \in Int
        BY <1>4, <2>4 DEF Events
      <4>3. f <= sent
        BY <1>4, <2>4, <3>3, <4>2
      <4> QED
        BY <4>1, <4>3 DEF OrderInv, Seen, Excused
    <3> QED
      BY <1>12, <2>3, <3>1, <3>2, <3>3
  <2> QED
    BY <1>3, <1>13, <2>5 DEF Excused
<1> QED
  BY <1>17, <1>18, <1>19, <1>20, <1>21, <1>22, <1>23 DEF OrderInv

\* Every step keeps the order.
LEMMA Step_OrderInv ==
  ASSUME IInv, OrderInv, [Next]_vars
  PROVE  OrderInv'
<1>1. IInv' /\ DropsNone
  BY Step_IInv, StepDropsNone
<1>2. ASSUME NEW p \in Pollers,
             \/ NextEvent(p) \/ DelayEnds(p) \/ NameAnswered(p) \/ TakeTurn(p)
             \/ Settles(p)
             \/ LongPoll(p) \/ NewPosition(p) \/ PersistUpdates(p)
             \/ PollAborted(p) \/ Start(p)
      PROVE  OrderInv'
  BY <1>1, <1>2, NextEventOrder, DelayEndsOrder, NameAnsweredOrder, TakeTurnOrder,
     SettlesOrder, PollOrder, PersistOrder
<1>3. CASE Stop
  BY <1>1, <1>3, StopOrder
<1>4. ASSUME NEW e \in Events, RetryQuarantined(e) \/ SkipQuarantined(e)
      PROVE  OrderInv'
  BY <1>1, <1>4, ResolutionOrder
<1>5. CASE SetPaused \/ UNCHANGED vars
  BY <1>1, <1>5, IdleOrder
<1>6. CASE CrashAndRestart
  BY <1>1, <1>6, RestartOrder
<1> QED
  BY <1>2, <1>3, <1>4, <1>5, <1>6 DEF Next

\* Both invariants hold in every behaviour.
LEMMA OrderInvariance == Spec => [](IInv /\ OrderInv)
<1>1. (IInv /\ OrderInv) /\ [Next]_vars => (IInv /\ OrderInv)'
  BY Step_IInv, Step_OrderInv
<1> QED
  BY <1>1, Init_IInv, Init_OrderInv, PTL DEF Spec

\* The rows keep their types and limits and are listed once each.
THEOREM TypeOKAlways == Spec => []TypeOK
<1>1. ASSUME IInv, OrderInv
      PROVE  TypeOK
  <2>1. MaxEvents \in Nat /\ MaxEventAttempts \in Nat
    BY VkInboxAssumption
  <2>2. inbound \in [Events -> [status: {"absent", "pending", "quarantined"},
                                attempts: 0..MaxEventAttempts]]
    <3>1. inbound \in [Events -> InboundRow]
      BY <1>1 DEF IInv, TypeInv, StoreTyped
    <3>2. ASSUME NEW e \in Events
          PROVE  inbound[e] \in [status: {"absent", "pending", "quarantined"},
                                 attempts: 0..MaxEventAttempts]
      <4>1. inbound[e] \in InboundRow /\ inbound[e].attempts <= MaxEventAttempts
        BY <1>1, <3>1 DEF OrderInv, Limits
      <4>2. inbound[e].attempts \in Nat
        BY <4>1 DEF InboundRow
      <4>3. inbound[e].attempts \in 0..MaxEventAttempts
        BY <2>1, <4>1, <4>2
      <4> QED
        BY <4>1, <4>3 DEF InboundRow
    <3> QED
      BY <3>1, <3>2
  <2>3. poller \in [Pollers -> [pc: {"off", "idle", "delaying", "naming", "queued",
                                     "handling", "answering", "polling"},
                                event: Events \cup {None},
                                ts: 0..MaxEvents + 1, aborted: BOOLEAN]]
    <3>1. poller \in [Pollers -> PollerState]
      BY <1>1 DEF IInv, TypeInv, PollersTyped
    <3>2. ASSUME NEW p \in Pollers
          PROVE  poller[p].ts \in 0..MaxEvents + 1
      <4>1. poller[p].ts \in 0..sent + 1 /\ sent \in 0..MaxEvents
        BY <1>1 DEF OrderInv, Positions
      <4> QED
        BY <2>1, <4>1
    <3> QED
      BY <3>1, <3>2 DEF PollerState
  <2> QED
    BY <1>1, <2>2, <2>3 DEF TypeOK, OrderInv, RowsFit, IInv, TypeInv, TurnsTyped, HistoryTyped
<1> QED
  BY <1>1, OrderInvariance, PTL

\* Only a poller whose turn it is claims a message.
LEMMA ClaimedInTurn ==
  ASSUME IInv, [Next]_vars, NEW e \in Events, IsMessage(e),
         processed[e] = "none", processed'[e] = "processing"
  PROVE  \E p \in Pollers : poller[p].pc = "queued" /\ poller[p].event = e
<1> SUFFICES ASSUME \A p \in Pollers : ~TakeTurn(p) \/ poller[p].event # e
             PROVE  FALSE
  BY DEF TakeTurn
<1>1. ASSUME NEW p \in Pollers, NEW f \in Events, Route(p, f)
      PROVE  FALSE
  <2>1. Kind[f] \in Kinds
    BY VkInboxAssumption
  <2>2. \/ processed' = processed
        \/ Kind[f] = "menu" /\ processed' = [processed EXCEPT ![f] = "processing"]
    BY <1>1, <2>1 DEF Route, Kinds
  <2> QED
    BY <2>2 DEF IInv, TypeInv, IsMessage
<1>2. ASSUME NEW p \in Pollers, NextEvent(p) \/ DelayEnds(p)
      PROVE  FALSE
  BY <1>1, <1>2 DEF NextEvent, DelayEnds, IInv, OnEvents
<1>3. ASSUME NEW p \in Pollers, TakeTurn(p)
      PROVE  FALSE
  <2>1. poller[p].event # e
    BY <1>3
  <2> QED
    BY <1>3, <2>1 DEF TakeTurn, IInv, TypeInv
<1>4. ASSUME NEW p \in Pollers, Settles(p)
      PROVE  FALSE
  <2>1. PICK outcome \in {"completed", "none"} :
          \/ processed' = processed
          \/ processed' = [processed EXCEPT ![poller[p].event] = outcome]
    BY <1>4 DEF Settles, HandlingSucceeds, HandlingFails
  <2> QED
    BY <2>1 DEF IInv, TypeInv
<1>5. processed' # processed
  OBVIOUS
<1>6. ~CrashAndRestart
  BY DEF CrashAndRestart, ReleaseInterruptedEvents
<1> QED
  BY <1>2, <1>3, <1>4, <1>5, <1>6
     DEF Next, NameAnswered, LongPoll, NewPosition, PersistUpdates, PollAborted, Start, Stop,
         RetryQuarantined, SkipQuarantined, SetPaused, vars

\* A message is taken up behind those of its client that were stored before it,
\* for any number of pollers, positions VK hands out again, and restarts.
THEOREM InOrderAlways == Spec => InOrder
<1>1. ASSUME IInv, OrderInv, [Next]_vars,
             NEW e \in Events, NEW f \in Events,
             IsMessage(e), processed[e] = "none", processed'[e] = "processing",
             IsMessage(f),
             \E i, j \in 1..Len(order) : i < j /\ order[i] = f /\ order[j] = e
      PROVE  processed[f] = "completed" \/ Quarantined(f) \/ ruling[f] # "none"
  <2>1. PICK p \in Pollers : poller[p].pc = "queued" /\ poller[p].event = e
    BY <1>1, ClaimedInTurn
  <2>2. InLine(e)
    BY <1>1, <2>1 DEF OrderInv, NoneOvertakes, Waits
  <2>3. Precedes(order, f, e)
    BY <1>1 DEF Precedes
  <2> QED
    BY <1>1, <2>2, <2>3 DEF InLine, Excused
<1> DEFINE Ordered ==
      \A e, f \in Events :
         /\ IsMessage(e) /\ processed[e] = "none" /\ processed'[e] = "processing"
         /\ IsMessage(f) /\ Conversation[e] = Conversation[f]
         /\ \E i, j \in 1..Len(order) : i < j /\ order[i] = f /\ order[j] = e
         => \/ processed[f] = "completed" \/ Quarantined(f)
            \/ ruling[f] # "none"
<1>2. IInv /\ OrderInv /\ [Next]_vars => Ordered
  BY <1>1
<1>3. Ordered <=> 
      \A e, f \in Events :
         /\ IsMessage(e) /\ processed[e] = "none" /\ processed'[e] = "processing"
         /\ IsMessage(f) /\ Conversation[e] = Conversation[f]
         /\ \E i, j \in 1..Len(order) : i < j /\ order[i] = f /\ order[j] = e
         => \/ processed[f] = "completed" \/ Quarantined(f)
            \/ ruling[f] # "none"
  OBVIOUS
<1> HIDE DEF Ordered
<1> QED
  BY <1>2, <1>3, OrderInvariance, PTL DEF Spec, InOrder
=============================================================================
