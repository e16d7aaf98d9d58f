---------------------------- MODULE ServiceProofs ----------------------------
(***************************************************************************)
(* Proofs about Service and its smaller parts, ServiceControl, Operations, *)
(* ApiClients, ClientMenu and WebInbox, for all instances.  A step of      *)
(* Service is a step of one part and leaves the variables of the others    *)
(* alone, so that the invariants proved part by part hold side by side.    *)
(***************************************************************************)
EXTENDS Service, ContentManagementProofs, FiniteSetTheorems, SequenceTheorems, TLAPS

(***************************************************************************)
(* ServiceControl, for any number of orders in progress.                   *)
(*                                                                         *)
(* Between the write and its answer the file is one order ahead of memory, *)
(* and only the first order of the queue can be there (FirstIsWritten);    *)
(* a restart in between therefore moves the one field of that order.       *)
(***************************************************************************)
-----------------------------------------------------------------------------
ModesOfAll == [Fields -> Modes]

Order == [field: Fields, mode: Modes, pc: {"queued", "written"}, next: ModesOfAll]

ControlTyped ==
  /\ controlFile \in ModesOfAll /\ control \in ModesOfAll /\ ordered \in ModesOfAll
  /\ orders \in Seq(Order)
  /\ doubtful \subseteq Fields

Written == orders # <<>> /\ orders[1].pc = "written"

FirstIsWritten ==
  /\ \A i \in 1..Len(orders) : orders[i].pc = "written" => i = 1
  /\ Written => controlFile = orders[1].next /\ orders[1].next = Change(orders[1])

KeptInMemory == \A f \in Fields \ doubtful : control[f] = ordered[f]

KeptInFile ==
  \A f \in Fields \ doubtful :
    controlFile[f] = ordered[f] \/ (Written /\ orders[1].field = f)

ControlInv == ControlTyped /\ FirstIsWritten /\ KeptInMemory /\ KeptInFile

-----------------------------------------------------------------------------
\* Both records start equal, with no order.
LEMMA ControlInit_Inv == ControlInit => ControlInv
<1> SUFFICES ASSUME ControlInit PROVE ControlInv
  OBVIOUS
<1>1. AllActive \in ModesOfAll
  BY DEF AllActive, ModesOfAll, Modes
<1>2. ControlTyped /\ KeptInMemory /\ KeptInFile
  BY <1>1 DEF ControlInit, ControlTyped, KeptInMemory, KeptInFile
<1>3. FirstIsWritten
  BY DEF ControlInit, FirstIsWritten, Written
<1> QED
  BY <1>2, <1>3 DEF ControlInv

\* An order changes one field of the state it is carried out on.
LEMMA ChangeFacts ==
  ASSUME ControlTyped, NEW o \in Order
  PROVE  /\ Change(o) \in ModesOfAll
         /\ Change(o)[o.field] = o.mode
         /\ \A f \in Fields \ {o.field} : Change(o)[f] = control[f]
BY DEF ControlTyped, Order, Change, ModesOfAll

\* The first order leaves the queue: the next one is not written yet.
LEMMA Leaves ==
  ASSUME ControlTyped, FirstIsWritten, orders # <<>>, orders' = Tail(orders)
  PROVE  orders' \in Seq(Order) /\ ~Written' /\ orders[1] \in Order
         /\ \A i \in 1..Len(orders') : orders'[i].pc # "written"
<1>1. /\ Tail(orders) \in Seq(Order)
      /\ Len(Tail(orders)) = Len(orders) - 1
      /\ \A i \in 1..Len(Tail(orders)) : Tail(orders)[i] = orders[i + 1]
  BY HeadTailProperties DEF ControlTyped
<1>2. Len(orders) \in Nat \ {0}
  BY EmptySeq DEF ControlTyped
<1>3. orders[1] \in Order
  BY <1>2 DEF ControlTyped
<1>4. \A i \in 1..Len(orders') : orders'[i].pc # "written"
  BY <1>1, <1>2 DEF FirstIsWritten
<1>5. ~Written'
  <2> SUFFICES ASSUME orders' # <<>> PROVE orders'[1].pc # "written"
    BY DEF Written
  <2>1. Len(Tail(orders)) \in Nat \ {0}
    BY <1>1, EmptySeq
  <2>2. 1 \in 1..Len(orders')
    BY <2>1
  <2> QED
    BY <1>4, <2>2
<1> QED
  BY <1>1, <1>3, <1>4, <1>5

\* Placing an order adds it to the list.
LEMMA PlaceStep ==
  ASSUME ControlInv, NEW f \in Fields, NEW m \in Modes, PlaceOrder(f, m)
  PROVE  ControlInv'
<1> DEFINE o == [field |-> f, mode |-> m, pc |-> "queued", next |-> AllActive]
<1>1. /\ orders' = Append(orders, o)
      /\ UNCHANGED <<controlFile, control, ordered, doubtful>>
  BY DEF PlaceOrder
<1>2. o \in Order /\ o.pc = "queued"
  BY DEF Order, AllActive, ModesOfAll, Modes
<1> HIDE DEF o
<1>3. /\ orders' \in Seq(Order) /\ orders' # <<>>
      /\ Len(orders') = Len(orders) + 1 /\ Len(orders) \in Nat
      /\ \A i \in 1..Len(orders) : orders'[i] = orders[i]
      /\ orders'[Len(orders) + 1] = o
  BY <1>1, <1>2 DEF ControlInv, ControlTyped
<1>4. ControlTyped'
  BY <1>1, <1>3 DEF ControlInv, ControlTyped
<1>5. CASE orders = <<>>
  <2>1. ~Written /\ ~Written'
    BY <1>2, <1>3, <1>5 DEF Written
  <2>2. FirstIsWritten'
    BY <1>2, <1>3, <1>5, <2>1 DEF FirstIsWritten
  <2>3. KeptInMemory' /\ KeptInFile'
    BY <1>1, <2>1 DEF ControlInv, KeptInMemory, KeptInFile
  <2> QED
    BY <1>4, <2>2, <2>3 DEF ControlInv
<1>6. CASE orders # <<>>
  <2>1. Len(orders) >= 1
    BY <1>6, EmptySeq DEF ControlInv, ControlTyped
  <2>2. orders'[1] = orders[1] /\ Written' = Written
    BY <1>3, <1>6, <2>1 DEF Written
  <2>3. \A i \in 1..Len(orders') : orders'[i].pc = "written" => i = 1
    BY <1>2, <1>3 DEF ControlInv, FirstIsWritten
  <2>4. FirstIsWritten'
    BY <1>1, <2>2, <2>3 DEF ControlInv, FirstIsWritten, Change
  <2>5. KeptInMemory' /\ KeptInFile'
    BY <1>1, <2>2 DEF ControlInv, KeptInMemory, KeptInFile
  <2> QED
    BY <1>4, <2>4, <2>5 DEF ControlInv
<1> QED
  BY <1>5, <1>6

\* Writing the control file brings it ahead of the running modes.
LEMMA WriteControlStep ==
  ASSUME ControlInv, WriteControl
  PROVE  ControlInv'
<1>1. /\ orders # <<>> /\ orders[1].pc = "queued"
      /\ controlFile' = Change(orders[1])
      /\ orders' = [orders EXCEPT ![1].pc = "written", ![1].next = controlFile']
      /\ UNCHANGED <<control, ordered, doubtful>>
  BY DEF WriteControl
<1>2. Len(orders) \in Nat \ {0} /\ orders[1] \in Order
  BY <1>1, EmptySeq DEF ControlInv, ControlTyped
<1>3. controlFile' \in ModesOfAll
  BY <1>1, <1>2, ChangeFacts DEF ControlInv
<1>a. PICK o : o = [orders[1] EXCEPT !.pc = "written", !.next = controlFile']
  OBVIOUS
<1>4. o \in Order /\ o.pc = "written" /\ o.next = controlFile'
      /\ o.field = orders[1].field /\ o.mode = orders[1].mode
  BY <1>2, <1>3, <1>a DEF Order
<1>5. orders' = [orders EXCEPT ![1] = o]
  BY <1>1, <1>2, <1>a DEF ControlInv, ControlTyped
<1>6. /\ orders' \in Seq(Order) /\ Len(orders') = Len(orders)
      /\ \A i \in 1..Len(orders) : orders'[i] = IF i = 1 THEN o ELSE orders[i]
  BY <1>2, <1>4, <1>5, ExceptSeq DEF ControlInv, ControlTyped
<1>7. ControlTyped'
  BY <1>1, <1>3, <1>6 DEF ControlInv, ControlTyped
<1>8. orders' # <<>> /\ orders'[1] = o /\ Written'
  BY <1>2, <1>4, <1>6, EmptySeq DEF Written
<1>9. FirstIsWritten'
  <2>1. \A i \in 1..Len(orders') : orders'[i].pc = "written" => i = 1
    BY <1>6 DEF ControlInv, FirstIsWritten
  <2>2. o.next = Change(o)'
    BY <1>1, <1>4 DEF Change
  <2> QED
    BY <1>4, <1>8, <2>1, <2>2 DEF FirstIsWritten, Change
<1>10. KeptInMemory'
  BY <1>1 DEF ControlInv, KeptInMemory
<1>11. KeptInFile'
  BY <1>1, <1>2, <1>4, <1>8, <1>10, ChangeFacts
     DEF ControlInv, ControlTyped, KeptInFile, KeptInMemory
<1> QED
  BY <1>7, <1>9, <1>10, <1>11 DEF ControlInv

\* An order that fails before its write changes nothing but the list.
LEMMA OrderFailsStep ==
  ASSUME ControlInv, OrderFails
  PROVE  ControlInv'
<1>1. /\ orders # <<>> /\ orders[1].pc = "queued" /\ orders' = Tail(orders)
      /\ UNCHANGED <<controlFile, control, ordered, doubtful>>
  BY DEF OrderFails
<1>2. ~Written
  BY <1>1 DEF Written
<1>3. /\ orders' \in Seq(Order) /\ ~Written'
      /\ \A i \in 1..Len(orders') : orders'[i].pc # "written"
  BY <1>1, Leaves DEF ControlInv
<1> QED
  BY <1>1, <1>2, <1>3
     DEF ControlInv, ControlTyped, FirstIsWritten, KeptInMemory, KeptInFile

\* A finished order brings the running modes level with the file.
LEMMA OrderDoneStep ==
  ASSUME ControlInv, OrderDone
  PROVE  ControlInv'
<1> DEFINE o == orders[1]
<1>1. /\ orders # <<>> /\ o.pc = "written" /\ orders' = Tail(orders)
      /\ control' = o.next /\ UNCHANGED controlFile
      /\ ordered' = [ordered EXCEPT ![o.field] = o.mode]
      /\ doubtful' = doubtful \ {o.field}
  BY DEF OrderDone
<1>2. /\ orders' \in Seq(Order) /\ ~Written' /\ o \in Order
      /\ \A i \in 1..Len(orders') : orders'[i].pc # "written"
  BY <1>1, Leaves DEF ControlInv
<1>3. controlFile = o.next /\ o.next = Change(o)
  BY <1>1 DEF ControlInv, FirstIsWritten, Written
<1>4. o.field \in Fields /\ o.mode \in Modes /\ o.next \in ModesOfAll
  BY <1>2 DEF Order
<1>5. ControlTyped'
  BY <1>1, <1>2, <1>4 DEF ControlInv, ControlTyped, ModesOfAll
<1>6. FirstIsWritten'
  BY <1>2 DEF FirstIsWritten
<1>7. KeptInMemory'
  <2> SUFFICES ASSUME NEW f \in Fields \ doubtful' PROVE control'[f] = ordered'[f]
    BY DEF KeptInMemory
  <2>1. CASE f = o.field
    BY <1>1, <1>2, <1>3, <1>4, <2>1, ChangeFacts
       DEF ControlInv, ControlTyped, ModesOfAll
  <2>2. CASE f # o.field
    <3>1. control'[f] = control[f]
      BY <1>1, <1>2, <1>3, <2>2, ChangeFacts DEF ControlInv
    <3>2. ordered'[f] = ordered[f]
      BY <1>1, <2>2 DEF ControlInv, ControlTyped, ModesOfAll
    <3> QED
      BY <1>1, <2>2, <3>1, <3>2 DEF ControlInv, KeptInMemory
  <2> QED
    BY <2>1, <2>2
<1>8. KeptInFile'
  BY <1>1, <1>3, <1>7 DEF KeptInMemory, KeptInFile
<1> QED
  BY <1>5, <1>6, <1>7, <1>8 DEF ControlInv

\* An order that fails after its write leaves the file ahead, and says so.
LEMMA OrderFailsLateStep ==
  ASSUME ControlInv, OrderFailsLate
  PROVE  ControlInv'
<1> DEFINE o == orders[1]
<1>1. /\ orders # <<>> /\ orders' = Tail(orders)
      /\ doubtful' = doubtful \cup {o.field}
      /\ UNCHANGED <<controlFile, control, ordered>>
  BY DEF OrderFailsLate
<1>2. /\ orders' \in Seq(Order) /\ ~Written' /\ o \in Order
      /\ \A i \in 1..Len(orders') : orders'[i].pc # "written"
  BY <1>1, Leaves DEF ControlInv
<1>3. ControlTyped'
  BY <1>1, <1>2 DEF ControlInv, ControlTyped, Order
<1>4. FirstIsWritten'
  BY <1>2 DEF FirstIsWritten
<1>5. KeptInMemory' /\ KeptInFile'
  BY <1>1 DEF ControlInv, KeptInMemory, KeptInFile
<1> QED
  BY <1>3, <1>4, <1>5 DEF ControlInv

\* A restart takes the modes from the file and forgets the orders.
LEMMA RestartControlStep ==
  ASSUME ControlInv, RestartControl
  PROVE  ControlInv'
<1> DEFINE unheard == {orders[i].field :
                         i \in {j \in DOMAIN orders : orders[j].pc = "written"}}
<1>1. /\ control' = controlFile /\ orders' = <<>>
      /\ doubtful' = doubtful \cup unheard
      /\ UNCHANGED <<controlFile, ordered>>
  BY DEF RestartControl
<1>2. orders \in Seq(Order) /\ DOMAIN orders = 1..Len(orders) /\ Len(orders) \in Nat
  BY DEF ControlInv, ControlTyped
<1>3. unheard \subseteq Fields
  <2>1. \A i \in DOMAIN orders : orders[i] \in Order
    BY <1>2, ElementOfSeq
  <2>2. \A o \in Order : o.field \in Fields
    BY DEF Order
  <2> QED
    BY <2>1, <2>2
<1>4. Written => orders[1].field \in unheard
  BY <1>2, EmptySeq DEF Written
<1> HIDE DEF unheard
<1>5. ControlTyped' /\ ~Written'
  BY <1>1, <1>3 DEF ControlInv, ControlTyped, Written
<1>6. FirstIsWritten'
  BY <1>1, <1>5 DEF FirstIsWritten
<1>7. KeptInMemory' /\ KeptInFile'
  BY <1>1, <1>4 DEF ControlInv, KeptInMemory, KeptInFile
<1> QED
  BY <1>5, <1>6, <1>7 DEF ControlInv

\* Every step of the component, a restart included, keeps the invariant.
LEMMA ControlStep ==
  ControlInv /\ [ControlNext \/ RestartControl]_controlVars => ControlInv'
<1> SUFFICES ASSUME ControlInv, [ControlNext \/ RestartControl]_controlVars
             PROVE  ControlInv'
  OBVIOUS
<1>1. CASE ControlNext
  BY <1>1, PlaceStep, WriteControlStep, OrderFailsStep, OrderDoneStep,
     OrderFailsLateStep DEF ControlNext
<1>2. CASE RestartControl
  BY <1>2, RestartControlStep
<1>3. CASE UNCHANGED controlVars
  BY <1>3 DEF controlVars, ControlInv, ControlTyped, FirstIsWritten, KeptInMemory,
              KeptInFile, Written, Change
<1> QED
  BY <1>1, <1>2, <1>3

\* The invariant contains the property.
LEMMA ControlInv_Kept == ControlInv => OrdersAreKept
BY DEF ControlInv, KeptInMemory, KeptInFile, Written, OrdersAreKept

(***************************************************************************)
(* Operations, for any channels and any age that counts as stale.          *)
(*                                                                         *)
(* /ready looks at what the monitors were told, the property at what the   *)
(* pollers do: AliveByReport says that a poller the reports take to run is *)
(* there, and that it was silent no longer than its last success is old.   *)
(***************************************************************************)
-----------------------------------------------------------------------------
PollAges == Ages(PollStaleAfter)
DeliveryAges == Ages(DeliveryStaleAfter)

FlagsTyped ==
  up \in BOOLEAN /\ incident \in BOOLEAN /\ halted \in BOOLEAN /\ unsent \in BOOLEAN

ChannelsTyped ==
  /\ channel \in [Watched -> [source: {"none", "local"}, connected: BOOLEAN]]
  /\ activity \in [Watched -> [succeeded: PollAges \cup {Never}, failing: BOOLEAN,
                               running: BOOLEAN]]
  /\ poller \in [Watched -> {"off", "works", "stuck"}]
  /\ silence \in [Watched -> PollAges]

WorkTyped ==
  /\ uptime \in PollAges
  /\ worker \in [running: BOOLEAN, active: DeliveryAges, does: {"works", "stuck"}]
  /\ oldest \in DeliveryAges \cup {Never}

OperationsTyped == FlagsTyped /\ ChannelsTyped /\ WorkTyped

AliveByReport ==
  \A k \in Watched :
    /\ up /\ RunsByReport(k) => poller[k] # "off"
    /\ activity[k].succeeded # Never => silence[k] <= activity[k].succeeded

MonitorInv ==
  /\ watch \in [state: {"unknown", "available", "unavailable"}, alertSent: BOOLEAN]
  /\ alarms \in [told: BOOLEAN, answered: 0..1, failed: BOOLEAN]
  /\ watch.state # "unavailable" => alarms = NoAlarms
  /\ ~watch.alertSent => alarms.answered = 0
  /\ OutageIsAlerted

OperationsInv == OperationsTyped /\ AliveByReport /\ MonitorInv

-----------------------------------------------------------------------------
(* Ages.                                                                   *)

\* Ages grow in order, and what is too old stays so.
LEMMA AgesGrow ==
  ASSUME NEW limit \in Nat
  PROVE  /\ 0 \in Ages(limit)
         /\ Ages(limit) \subseteq Nat /\ Never \notin Ages(limit)
         /\ \A a \in Ages(limit) : Older(a, limit) \in Ages(limit)
         /\ Older(Never, limit) = Never
         /\ \A a, b \in Ages(limit) : a <= b => Older(a, limit) <= Older(b, limit)
         /\ \A a, b \in Ages(limit) : a <= b /\ ~TooOld(b, limit) => ~TooOld(a, limit)
<1>1. Ages(limit) \subseteq Nat /\ Never \notin Ages(limit) /\ 0 \in Ages(limit)
  BY OperationsAssumption DEF Ages
<1>2. \A a \in Ages(limit) : Older(a, limit) \in Ages(limit)
  BY <1>1, OperationsAssumption DEF Ages, Older
<1>3. Older(Never, limit) = Never
  BY DEF Older
<1>4. \A a, b \in Ages(limit) : a <= b => Older(a, limit) <= Older(b, limit)
  BY <1>1, OperationsAssumption DEF Ages, Older
<1>5. \A a, b \in Ages(limit) : a <= b /\ ~TooOld(b, limit) => ~TooOld(a, limit)
  BY <1>1, OperationsAssumption DEF Ages, TooOld
<1> QED
  BY <1>1, <1>2, <1>3, <1>4, <1>5

\* The same of the ages of polls.
LEMMA PollAgeFacts ==
  /\ 0 \in PollAges /\ PollAges \subseteq Nat /\ Never \notin PollAges
  /\ \A a \in PollAges : Older(a, PollStaleAfter) \in PollAges
  /\ Older(Never, PollStaleAfter) = Never
  /\ \A a, b \in PollAges :
       a <= b => Older(a, PollStaleAfter) <= Older(b, PollStaleAfter)
  /\ \A a, b \in PollAges :
       a <= b /\ ~TooOld(b, PollStaleAfter) => ~TooOld(a, PollStaleAfter)
BY AgesGrow, OperationsAssumption DEF PollAges

\* And of those of deliveries.
LEMMA DeliveryAgeFacts ==
  /\ 0 \in DeliveryAges /\ Never \notin DeliveryAges
  /\ \A a \in DeliveryAges : Older(a, DeliveryStaleAfter) \in DeliveryAges
  /\ Older(Never, DeliveryStaleAfter) = Never
BY AgesGrow, OperationsAssumption DEF DeliveryAges

-----------------------------------------------------------------------------
\* A service that has just started has heard from nobody.
LEMMA OperationsInit_Inv == OperationsInit => OperationsInv
<1> SUFFICES ASSUME OperationsInit PROVE OperationsInv
  OBVIOUS
<1>1. OperationsTyped
  BY PollAgeFacts, DeliveryAgeFacts
  DEF OperationsInit, OperationsTyped, FlagsTyped, ChannelsTyped, WorkTyped,
      NoActivity
<1>2. AliveByReport
  BY DEF OperationsInit, AliveByReport, NoActivity, RunsByReport
<1>3. MonitorInv
  BY DEF OperationsInit, MonitorInv, OutageIsAlerted, NoAlarms
<1> QED
  BY <1>1, <1>2, <1>3 DEF OperationsInv

\* The monitor's variables change only with a check.
LEMMA MonitorStep ==
  ASSUME MonitorInv, OperationsNext
  PROVE  MonitorInv'
<1>1. CASE UNCHANGED monitor
  BY <1>1 DEF monitor, MonitorInv, OutageIsAlerted
<1>2. CASE CheckSucceeds \/ MonitorRestarts
  <2>1. /\ alarms' = NoAlarms
        /\ watch'.alertSent = FALSE /\ watch'.state \in {"available", "unknown"}
        /\ watch' = [state |-> watch'.state, alertSent |-> FALSE]
    BY <1>2 DEF CheckSucceeds, MonitorRestarts
  <2>2. NoAlarms \in [told: BOOLEAN, answered: 0..1, failed: BOOLEAN]
        /\ NoAlarms.answered = 0
    BY DEF NoAlarms
  <2> QED
    BY <2>1, <2>2 DEF MonitorInv, OutageIsAlerted
<1>3. CASE CheckFails
  <2>1. CASE watch.state = "unavailable" /\ watch.alertSent
    BY <1>1, <1>3, <2>1 DEF CheckFails
  <2>2. CASE ~(watch.state = "unavailable" /\ watch.alertSent)
    <3>1. PICK fate \in Fates :
            /\ SendAlert(fate)
            /\ watch' = [state |-> "unavailable", alertSent |-> fate = "accepted"]
      BY <1>3, <2>2 DEF CheckFails, AlertAccepted
    <3>2. alarms.answered = 0 /\ alarms.told \in BOOLEAN
      BY <2>2 DEF MonitorInv, NoAlarms
    <3>3. alarms' = [told |-> alarms.told \/ fate # "refused",
                     answered |-> IF fate = "accepted" THEN 1 ELSE 0,
                     failed |-> fate # "accepted"]
      BY <3>1, <3>2 DEF SendAlert
    <3>4. /\ alarms'.answered = IF fate = "accepted" THEN 1 ELSE 0
          /\ alarms'.failed = (fate # "accepted")
          /\ fate = "accepted" => alarms'.told
      BY <3>3
    <3>5. alarms' \in [told: BOOLEAN, answered: 0..1, failed: BOOLEAN]
      BY <3>2, <3>3
    <3>6. /\ watch' \in [state: {"unknown", "available", "unavailable"},
                         alertSent: BOOLEAN]
          /\ watch'.state = "unavailable"
          /\ watch'.alertSent = (fate = "accepted")
      BY <3>1
    <3>7. OutageIsAlerted'
      <4>1. CASE fate = "accepted"
        BY <3>4, <3>6, <4>1 DEF OutageIsAlerted
      <4>2. CASE fate # "accepted"
        <5>1. alarms'.failed /\ ~watch'.alertSent
          BY <3>4, <3>6, <4>2, Zenon
        <5>2. alarms'.answered = 0
          BY <3>4, <4>2
        <5> QED
          BY <5>1, <5>2 DEF OutageIsAlerted
      <4> QED
        BY <4>1, <4>2
    <3> QED
      BY <3>4, <3>5, <3>6, <3>7 DEF MonitorInv
  <2> QED
    BY <2>1, <2>2
<1> QED
  BY <1>1, <1>2, <1>3
  DEF OperationsNext, Connects, Disconnects, PollSucceeds, PollFails, PollerSticks,
      PollerDies, WorkerCycles, WorkerSticks, OldestChanges, FailuresChange,
      IncidentChanges, PauseChanges, TimePasses, Stops, StartsAgain

\* The flags keep their types.
LEMMA FlagsStep ==
  ASSUME FlagsTyped, OperationsNext
  PROVE  FlagsTyped'
<1>1. CASE UNCHANGED <<up, incident, halted, unsent>>
  BY <1>1, Zenon DEF FlagsTyped
<1>2. CASE IncidentChanges \/ PauseChanges \/ FailuresChange
  BY <1>2, Zenon DEF FlagsTyped, IncidentChanges, PauseChanges, FailuresChange
<1>3. CASE Stops \/ StartsAgain
  BY <1>3, Zenon DEF FlagsTyped, Stops, StartsAgain
<1> QED
  BY <1>1, <1>2, <1>3
  DEF OperationsNext, Connects, Disconnects, PollSucceeds, PollFails, PollerSticks,
      PollerDies, WorkerCycles, WorkerSticks, OldestChanges, TimePasses,
      CheckSucceeds, CheckFails, MonitorRestarts, process

\* The counts of unfinished work keep their types.
LEMMA WorkStep ==
  ASSUME WorkTyped, OperationsNext
  PROVE  WorkTyped'
<1>1. CASE UNCHANGED <<uptime, worker, oldest>>
  BY <1>1 DEF WorkTyped
<1>2. CASE WorkerCycles \/ WorkerSticks
  BY <1>2, DeliveryAgeFacts DEF WorkTyped, WorkerCycles, WorkerSticks
<1>3. CASE OldestChanges
  BY <1>3, DeliveryAgeFacts DEF WorkTyped, OldestChanges
<1>4. CASE TimePasses
  <2>1. /\ Older(oldest, DeliveryStaleAfter) \in DeliveryAges \cup {Never}
        /\ Older(uptime, PollStaleAfter) \in PollAges
        /\ Older(worker.active, DeliveryStaleAfter) \in DeliveryAges
    BY PollAgeFacts, DeliveryAgeFacts DEF WorkTyped
  <2> QED
    BY <1>4, <2>1 DEF WorkTyped, TimePasses
<1>5. CASE StartsAgain
  BY <1>5, PollAgeFacts, DeliveryAgeFacts DEF WorkTyped, StartsAgain
<1> QED
  BY <1>1, <1>2, <1>3, <1>4, <1>5
  DEF OperationsNext, Connects, Disconnects, PollSucceeds, PollFails, PollerSticks,
      PollerDies, IncidentChanges, PauseChanges, FailuresChange, Stops, CheckSucceeds,
      CheckFails, MonitorRestarts, process

\* The channels' records keep their types.
LEMMA ChannelsStep ==
  ASSUME ChannelsTyped, OperationsNext
  PROVE  ChannelsTyped'
<1>1. CASE UNCHANGED <<channel, activity, poller, silence>>
  BY <1>1 DEF ChannelsTyped
<1>2. ASSUME NEW k \in Watched, Connects(k) PROVE ChannelsTyped'
  BY <1>2, PollAgeFacts DEF ChannelsTyped, Connects
<1>3. ASSUME NEW k \in Watched, Disconnects(k) PROVE ChannelsTyped'
  <2>1. PICK s \in {"none", "local"} :
          channel' = [channel EXCEPT ![k] = [source |-> s, connected |-> FALSE]]
    BY <1>3 DEF Disconnects
  <2>2. channel' \in [Watched -> [source: {"none", "local"}, connected: BOOLEAN]]
    BY <2>1 DEF ChannelsTyped
  <2>3. /\ activity' = [activity EXCEPT ![k].running = FALSE]
        /\ poller' = [poller EXCEPT ![k] = "off"]
        /\ silence' = silence
    BY <1>3 DEF Disconnects
  <2> QED
    BY <2>2, <2>3 DEF ChannelsTyped
<1>4. ASSUME NEW k \in Watched, PollSucceeds(k) PROVE ChannelsTyped'
  BY <1>4, PollAgeFacts DEF ChannelsTyped, PollSucceeds, RecordPollSucceeded
<1>5. ASSUME NEW k \in Watched, PollFails(k) PROVE ChannelsTyped'
  <2>1. PICK f \in BOOLEAN :
          activity' = [activity EXCEPT ![k].failing = @ \/ f]
    BY <1>5 DEF PollFails, RecordPollFailed
  <2>2. activity' \in [Watched -> [succeeded: PollAges \cup {Never}, failing: BOOLEAN,
                                   running: BOOLEAN]]
    BY <2>1 DEF ChannelsTyped
  <2> QED
    BY <1>5, <2>2 DEF ChannelsTyped, PollFails
<1>6. ASSUME NEW k \in Watched, PollerSticks(k) PROVE ChannelsTyped'
  BY <1>6 DEF ChannelsTyped, PollerSticks
<1>7. ASSUME NEW k \in Watched, PollerDies(k) PROVE ChannelsTyped'
  BY <1>7 DEF ChannelsTyped, PollerDies
<1>8. CASE TimePasses
  <2>1. \A a \in PollAges \cup {Never} : Older(a, PollStaleAfter) \in PollAges \cup {Never}
    BY PollAgeFacts
  <2>2. activity' \in [Watched -> [succeeded: PollAges \cup {Never}, failing: BOOLEAN,
                                   running: BOOLEAN]]
    BY <1>8, <2>1 DEF ChannelsTyped, TimePasses
  <2>3. silence' \in [Watched -> PollAges]
    BY <1>8, PollAgeFacts DEF ChannelsTyped, TimePasses
  <2> QED
    BY <1>8, <2>2, <2>3 DEF ChannelsTyped, TimePasses
<1>9. CASE Stops
  BY <1>9 DEF ChannelsTyped, Stops
<1>10. CASE StartsAgain
  <2>1. activity' \in [Watched -> [succeeded: PollAges \cup {Never}, failing: BOOLEAN,
                                   running: BOOLEAN]]
    BY <1>10 DEF StartsAgain, NoActivity
  <2>2. PICK started \in SUBSET {k \in Watched : Configured(k)} :
          /\ channel' = [k \in Watched |-> [channel[k] EXCEPT !.connected = k \in started]]
          /\ poller' = [k \in Watched |-> IF k \in started THEN "works" ELSE "off"]
    BY <1>10 DEF StartsAgain
  <2>3. channel' \in [Watched -> [source: {"none", "local"}, connected: BOOLEAN]]
    <3>1. \A k \in Watched : (k \in started) \in BOOLEAN
      OBVIOUS
    <3>2. \A k \in Watched, c \in BOOLEAN :
            [channel[k] EXCEPT !.connected = c]
              \in [source: {"none", "local"}, connected: BOOLEAN]
      BY DEF ChannelsTyped
    <3> QED
      BY <2>2, <3>1, <3>2, Zenon
  <2>4. poller' \in [Watched -> {"off", "works", "stuck"}]
    BY <2>2
  <2>5. silence' \in [Watched -> PollAges]
    BY <1>10, PollAgeFacts DEF StartsAgain
  <2> QED
    BY <2>1, <2>3, <2>4, <2>5 DEF ChannelsTyped
<1> QED
  BY <1>1, <1>2, <1>3, <1>4, <1>5, <1>6, <1>7, <1>8, <1>9, <1>10
  DEF OperationsNext, WorkerCycles, WorkerSticks, OldestChanges, FailuresChange,
      IncidentChanges, PauseChanges, CheckSucceeds, CheckFails, MonitorRestarts, process

\* A channel counted alive has reported recently enough.
LEMMA AliveStep ==
  ASSUME ChannelsTyped, AliveByReport, OperationsNext
  PROVE  AliveByReport'
<1> USE PollAgeFacts DEF ChannelsTyped, AliveByReport, RunsByReport
<1>1. ASSUME NEW k \in Watched, Connects(k) PROVE AliveByReport'
  BY <1>1 DEF Connects
<1>2. ASSUME NEW k \in Watched, Disconnects(k) PROVE AliveByReport'
  BY <1>2 DEF Disconnects
<1>3. ASSUME NEW k \in Watched, PollSucceeds(k) PROVE AliveByReport'
  BY <1>3 DEF PollSucceeds, RecordPollSucceeded
<1>4. ASSUME NEW k \in Watched, PollFails(k) PROVE AliveByReport'
  BY <1>4 DEF PollFails, RecordPollFailed
<1>5. ASSUME NEW k \in Watched, PollerSticks(k) PROVE AliveByReport'
  BY <1>5 DEF PollerSticks
<1>10. ASSUME NEW k \in Watched, PollerDies(k) PROVE AliveByReport'
  BY <1>10 DEF PollerDies
<1>6. CASE UNCHANGED <<up, channel, activity, poller, silence>>
  BY <1>6
<1>7. CASE TimePasses
  <2>1. ASSUME NEW k \in Watched
        PROVE  (up /\ RunsByReport(k) => poller[k] # "off")'
    <3>1. activity'[k].running = activity[k].running
      BY <1>7 DEF TimePasses
    <3> QED
      BY <1>7, <3>1, Zenon DEF TimePasses
  <2>2. ASSUME NEW k \in Watched, activity'[k].succeeded # Never
        PROVE  silence'[k] <= activity'[k].succeeded
    <3>1. activity'[k].succeeded = Older(activity[k].succeeded, PollStaleAfter)
      BY <1>7 DEF TimePasses
    <3>2. activity[k].succeeded # Never
      BY <2>2, <3>1
    <3>3. activity[k].succeeded \in PollAges /\ silence[k] \in PollAges
      BY <3>2
    <3>4. silence[k] <= activity[k].succeeded
      BY <3>2
    <3>5. silence'[k] = Older(silence[k], PollStaleAfter)
      BY <1>7 DEF TimePasses
    <3>6. Older(silence[k], PollStaleAfter)
            <= Older(activity[k].succeeded, PollStaleAfter)
      BY <3>3, <3>4
    <3> QED
      BY <3>1, <3>5, <3>6, Zenon
  <2> QED
    BY <2>1, <2>2
<1>8. CASE Stops
  BY <1>8 DEF Stops
<1>9. CASE StartsAgain
  <2>1. PICK started \in SUBSET {k \in Watched : Configured(k)} :
          /\ channel' = [k \in Watched |-> [channel[k] EXCEPT !.connected = k \in started]]
          /\ poller' = [k \in Watched |-> IF k \in started THEN "works" ELSE "off"]
    BY <1>9 DEF StartsAgain
  <2>2. \A k \in Watched : channel'[k].connected => poller'[k] # "off"
    BY <2>1
  <2>3. \A k \in Watched : activity'[k].succeeded = Never
    BY <1>9 DEF StartsAgain, NoActivity
  <2> QED
    BY <2>2, <2>3
<1> QED
  BY <1>1, <1>2, <1>3, <1>4, <1>5, <1>6, <1>7, <1>8, <1>9, <1>10
  DEF OperationsNext, WorkerCycles, WorkerSticks, OldestChanges, FailuresChange,
      IncidentChanges, PauseChanges, CheckSucceeds, CheckFails, MonitorRestarts, process

\* Every step of the component keeps the invariant.
LEMMA OperationsStep ==
  OperationsInv /\ [OperationsNext]_operationsVars => OperationsInv'
<1> SUFFICES ASSUME OperationsInv, [OperationsNext]_operationsVars
             PROVE  OperationsInv'
  OBVIOUS
<1>1. CASE OperationsNext
  BY <1>1, MonitorStep, FlagsStep, WorkStep, ChannelsStep, AliveStep
  DEF OperationsInv, OperationsTyped
<1>2. CASE UNCHANGED operationsVars
  BY <1>2 DEF operationsVars, process, OperationsInv, OperationsTyped, FlagsTyped,
              ChannelsTyped, WorkTyped, AliveByReport, RunsByReport, MonitorInv,
              OutageIsAlerted, monitor
<1> QED
  BY <1>1, <1>2

-----------------------------------------------------------------------------
\* A channel that is reported as running or starting has a poller that was in
\* contact lately or is in its grace.
LEMMA ReportedMeansAlive ==
  ASSUME OperationsInv, up, NEW k \in Watched, Configured(k),
         ChannelState(k) \in {"not_configured", "running", "starting"}
  PROVE  /\ poller[k] # "off"
         /\ ~TooOld(silence[k], PollStaleAfter) \/ ~TooOld(uptime, PollStaleAfter)
<1>1. ~activity[k].failing /\ RunsByReport(k)
  BY DEF ChannelState
<1>2. poller[k] # "off"
  BY <1>1 DEF OperationsInv, AliveByReport
<1>3. CASE activity[k].succeeded = Never
  BY <1>1, <1>2, <1>3 DEF ChannelState
<1>4. CASE activity[k].succeeded # Never
  <2>1. ~TooOld(activity[k].succeeded, PollStaleAfter)
    BY <1>1, <1>4 DEF ChannelState
  <2>2. activity[k].succeeded \in PollAges /\ silence[k] \in PollAges
    BY <1>4 DEF OperationsInv, OperationsTyped, ChannelsTyped
  <2>3. silence[k] <= activity[k].succeeded
    BY <1>4 DEF OperationsInv, AliveByReport
  <2> QED
    BY <1>2, <2>1, <2>2, <2>3, PollAgeFacts
<1> QED
  BY <1>3, <1>4

\* The console and /ready are worked out apart from the same states.
LEMMA CalmMeansReady ==
  ~NeedsAttention => Ready
BY DEF NeedsAttention, Ready, DeliveriesAreReady

\* The invariant contains the property.
LEMMA OperationsInv_Ready == OperationsInv => ReadyMeansAlive
<1> SUFFICES ASSUME OperationsInv PROVE ReadyMeansAlive
  OBVIOUS
<1>1. ASSUME ReadyAnswers, NEW k \in Watched, Configured(k)
      PROVE  /\ poller[k] # "off"
             /\ ~TooOld(silence[k], PollStaleAfter) \/ ~TooOld(uptime, PollStaleAfter)
  BY <1>1, ReportedMeansAlive DEF ReadyAnswers, Ready
<1>2. ASSUME ReadyAnswers
      PROVE  /\ worker.running
             /\ worker.does = "works" \/ ~TooOld(worker.active, DeliveryStaleAfter)
  BY <1>2 DEF ReadyAnswers, Ready, DeliveriesAreReady, WorkerStalled
<1> QED
  BY <1>1, <1>2, CalmMeansReady DEF ReadyMeansAlive

(***************************************************************************)
(* ApiClients, for any number of attempts.                                 *)
(*                                                                         *)
(* Telegram acts at most once because a caller who may try again has no    *)
(* request on its way but the one he awaits (TelegramOnce); VK because all *)
(* requests of a job bear one random_id (Requests, VkOnce).                *)
(***************************************************************************)
-----------------------------------------------------------------------------
ApiTyped ==
  /\ method \in Methods
  /\ result \in {"none", "ok", "failed", "unknown"}
  /\ attempt \in Nat /\ effects \in Nat

JobRequests ==
  /\ \A q \in onItsWay : q.id = 1
  /\ call # NoCall => call.id = 1 /\ call \in onItsWay /\ result \in {"none", "failed"}

NoKeyboards ==
  method # "messages.send" =>
    /\ wantsKeyboard = FALSE
    /\ call.keyboard = FALSE

VkOnce ==
  method = "messages.send" =>
    /\ seen \subseteq {1}
    /\ effects = IF 1 \in seen THEN 1 ELSE 0

TelegramOnce ==
  HasUncertainSideEffect(method) =>
    /\ effects <= 1
    /\ \A q \in onItsWay : effects = 0 /\ onItsWay = {q}
    /\ result \in {"none", "failed"} => effects = 0 /\ onItsWay \subseteq {call}

OkIsDone == result = "ok" => effects >= 1

ApiInv ==
  ApiTyped /\ JobRequests /\ NoKeyboards /\ VkOnce /\ TelegramOnce /\ OkIsDone

-----------------------------------------------------------------------------
\* Before the first request the client waits for nothing.
LEMMA ApiInit_Inv == ApiInit => ApiInv
<1> SUFFICES ASSUME ApiInit PROVE ApiInv
  OBVIOUS
<1>1. /\ method \in Methods
      /\ attempt = 0 /\ call = NoCall /\ result = "none"
      /\ onItsWay = {} /\ seen = {} /\ effects = 0
  BY DEF ApiInit
<1>2. ApiTyped /\ OkIsDone
  BY <1>1 DEF ApiTyped, OkIsDone
<1>3. JobRequests /\ VkOnce /\ TelegramOnce
  BY <1>1 DEF JobRequests, VkOnce, TelegramOnce
<1>4. NoKeyboards
  BY <1>1 DEF ApiInit, NoKeyboards, NoCall, Vk
<1> QED
  BY <1>2, <1>3, <1>4 DEF ApiInv

\* What an answer may make of the result.
LEMMA Outcomes ==
  ASSUME ApiTyped
  PROVE  /\ Outcome("result") = "ok"
         /\ Outcome("refusal") = "failed"
         /\ \A b \in Bodies \cup {"nothing"} :
              Outcome(b) = IF HasUncertainSideEffect(method) THEN "unknown" ELSE "failed"
BY DEF Outcome, Bodies, InvalidResult, Unanswered

\* Sending a request puts it on its way.
LEMMA TryStep ==
  ASSUME ApiInv, Try
  PROVE  ApiInv'
<1> DEFINE new == [attempt |-> attempt + 1, id |-> RandomId, keyboard |-> wantsKeyboard]
<1>1. /\ call = NoCall /\ result \in {"none", "failed"}
      /\ call' = new /\ onItsWay' = onItsWay \cup {new}
      /\ attempt' = attempt + 1
      /\ UNCHANGED <<method, wantsKeyboard, result, seen, effects>>
  BY DEF Try, Awaiting, Sends
<1>2. new.id = 1 /\ new # NoCall /\ new.keyboard = wantsKeyboard
  BY DEF RandomId, NoCall
<1> HIDE DEF new
<1>3. ApiTyped' /\ VkOnce' /\ OkIsDone'
  BY <1>1 DEF ApiInv, ApiTyped, VkOnce, OkIsDone
<1>4. JobRequests'
  BY <1>1, <1>2 DEF ApiInv, JobRequests
<1>5. NoKeyboards'
  BY <1>1, <1>2 DEF ApiInv, NoKeyboards
<1>6. TelegramOnce'
  <2> SUFFICES ASSUME HasUncertainSideEffect(method) PROVE TelegramOnce'
    BY <1>1 DEF TelegramOnce
  <2>1. NoCall \notin onItsWay
    BY DEF ApiInv, JobRequests, NoCall
  <2>2. onItsWay = {} /\ effects = 0
    BY <1>1, <2>1 DEF ApiInv, TelegramOnce
  <2> QED
    BY <1>1, <2>2 DEF TelegramOnce
<1> QED
  BY <1>3, <1>4, <1>5, <1>6 DEF ApiInv

\* When the connection breaks, the request may still be performed.
LEMMA BreakStep ==
  ASSUME ApiInv, ConnectionBreaks
  PROVE  ApiInv'
<1>1. /\ call # NoCall /\ call' = NoCall
      /\ result' = IF HasUncertainSideEffect(method) THEN "unknown" ELSE "failed"
      /\ UNCHANGED <<method, wantsKeyboard, attempt, onItsWay, seen, effects>>
  BY Outcomes DEF ConnectionBreaks, Answered, Tell, Awaiting, ApiInv
<1>2. ApiTyped' /\ VkOnce' /\ OkIsDone'
  BY <1>1 DEF ApiInv, ApiTyped, VkOnce, OkIsDone
<1>3. JobRequests' /\ NoKeyboards'
  BY <1>1 DEF ApiInv, JobRequests, NoKeyboards, NoCall
<1>4. TelegramOnce'
  BY <1>1 DEF ApiInv, TelegramOnce
<1> QED
  BY <1>2, <1>3, <1>4 DEF ApiInv

\* A refused keyboard makes the client repeat the request without it.
LEMMA KeyboardStep ==
  ASSUME ApiInv, SendWithoutKeyboard
  PROVE  ApiInv'
<1> DEFINE again == [call EXCEPT !.keyboard = FALSE]
<1>1. /\ call \in onItsWay /\ call.keyboard
      /\ call' = again /\ onItsWay' = (onItsWay \ {call}) \cup {again}
      /\ UNCHANGED <<method, wantsKeyboard, attempt, result, seen, effects>>
  BY DEF SendWithoutKeyboard
<1>2. call.id = 1 /\ call # NoCall
  BY <1>1 DEF ApiInv, JobRequests, NoCall
<1>3. again.id = call.id
  OBVIOUS
<1>4. method = "messages.send"
  BY <1>1 DEF ApiInv, NoKeyboards
<1> HIDE DEF again
<1>5. ApiTyped' /\ VkOnce' /\ OkIsDone'
  BY <1>1 DEF ApiInv, ApiTyped, VkOnce, OkIsDone
<1>6. JobRequests'
  BY <1>1, <1>2, <1>3 DEF ApiInv, JobRequests
<1>7. NoKeyboards' /\ TelegramOnce'
  BY <1>1, <1>4 DEF NoKeyboards, TelegramOnce, HasUncertainSideEffect
<1> QED
  BY <1>5, <1>6, <1>7 DEF ApiInv

\* The caller hears of the request he awaits, and of no other.
LEMMA Heard ==
  ASSUME ApiInv, NEW req \in onItsWay, NEW answers, Answer(req, answers)
  PROVE  /\ UNCHANGED <<method, wantsKeyboard, attempt>>
         /\ \/ /\ req = call /\ call' = NoCall
               /\ \E answer \in answers : result' = Outcome(answer)
            \/ req # call /\ UNCHANGED <<call, result>>
BY DEF Answer, Answered, Tell, exchanges

\* The service performs a request on its way and may answer.
LEMMA ActsStep ==
  ASSUME ApiInv, NEW req \in onItsWay, Acts(req)
  PROVE  ApiInv'
<1>1. /\ onItsWay' = onItsWay \ {req}
      /\ seen' = seen \cup {req.id}
      /\ effects' = IF Vk /\ req.id \in seen THEN effects ELSE effects + 1
      /\ Answer(req, {"result", "nothing"} \cup Bodies)
  BY DEF Acts
<1>2. UNCHANGED <<method, wantsKeyboard, attempt>>
  BY <1>1, Heard
<1>3. \/ /\ req = call /\ call' = NoCall
         /\ result' \in {"ok", IF HasUncertainSideEffect(method) THEN "unknown" ELSE "failed"}
      \/ req # call /\ UNCHANGED <<call, result>>
  <2>1. CASE req # call
    BY <1>1, <2>1, Heard
  <2>2. CASE req = call
    <3>1. PICK answer \in {"result", "nothing"} \cup Bodies : result' = Outcome(answer)
      BY <1>1, <2>2, Heard
    <3>2. call' = NoCall
      BY <1>1, <2>2, Heard
    <3> QED
      BY <2>2, <3>1, <3>2, Outcomes DEF ApiInv
  <2> QED
    BY <2>1, <2>2
<1>4. req.id = 1
  BY DEF ApiInv, JobRequests
<1>5. ApiTyped'
  BY <1>1, <1>2, <1>3 DEF ApiInv, ApiTyped
<1>6. JobRequests'
  BY <1>1, <1>3, <1>2 DEF ApiInv, JobRequests
<1>7. NoKeyboards'
  BY <1>2, <1>3 DEF ApiInv, NoKeyboards, NoCall
<1>8. VkOnce'
  BY <1>1, <1>2, <1>4 DEF ApiInv, VkOnce, Vk
<1>9. TelegramOnce'
  <2> SUFFICES ASSUME HasUncertainSideEffect(method) PROVE TelegramOnce'
    BY <1>2 DEF TelegramOnce
  <2>1. effects = 0 /\ onItsWay = {req}
    BY DEF ApiInv, TelegramOnce
  <2>2. effects' = 1 /\ onItsWay' = {}
    BY <1>1, <2>1 DEF HasUncertainSideEffect, Vk
  <2>3. result' \notin {"none", "failed"}
    <3>1. CASE req = call
      BY <1>3, <3>1
    <3>2. CASE req # call
      BY <1>3, <3>2 DEF ApiInv, TelegramOnce, ApiTyped
    <3> QED
      BY <3>1, <3>2
  <2> QED
    BY <2>2, <2>3 DEF TelegramOnce
<1>10. OkIsDone'
  BY <1>1, <1>3, <1>4 DEF ApiInv, ApiTyped, OkIsDone, VkOnce, Vk
<1> QED
  BY <1>5, <1>6, <1>7, <1>8, <1>9, <1>10 DEF ApiInv

\* The service refuses a request on its way without performing it.
LEMMA RefusesStep ==
  ASSUME ApiInv, NEW req \in onItsWay, Refuses(req)
  PROVE  ApiInv'
<1>1. /\ onItsWay' = onItsWay \ {req}
      /\ UNCHANGED <<seen, effects>>
  BY DEF Refuses
<1>a. PICK answers :
         /\ answers = {"refusal", "nothing", "invalid JSON", "an invalid response"}
         /\ Answer(req, answers)
  BY DEF Refuses
<1>2. UNCHANGED <<method, wantsKeyboard, attempt>>
  BY <1>a, Heard
<1>3. \/ req = call /\ call' = NoCall /\ result' \in {"failed", "unknown"}
      \/ req # call /\ UNCHANGED <<call, result>>
  <2>1. CASE req # call
    BY <1>a, <2>1, Heard
  <2>2. CASE req = call
    <3>1. PICK answer \in answers : result' = Outcome(answer)
      BY <1>a, <2>2, Heard
    <3>2. call' = NoCall
      BY <1>a, <2>2, Heard
    <3> QED
      BY <1>a, <2>2, <3>1, <3>2, Outcomes DEF ApiInv, Bodies
  <2> QED
    BY <2>1, <2>2
<1>4. ApiTyped' /\ VkOnce' /\ OkIsDone'
  BY <1>1, <1>2, <1>3 DEF ApiInv, ApiTyped, VkOnce, OkIsDone
<1>5. JobRequests'
  BY <1>1, <1>3 DEF ApiInv, JobRequests
<1>5a. NoKeyboards'
  BY <1>2, <1>3 DEF ApiInv, NoKeyboards, NoCall
<1>6. TelegramOnce'
  BY <1>1, <1>2, <1>3 DEF ApiInv, TelegramOnce
<1> QED
  BY <1>4, <1>5, <1>5a, <1>6 DEF ApiInv

\* A request that never arrives is not performed.
LEMMA LostStep ==
  ASSUME ApiInv, NEW req \in onItsWay, IsLost(req)
  PROVE  ApiInv'
<1>1. /\ req # call /\ onItsWay' = onItsWay \ {req}
      /\ UNCHANGED <<method, wantsKeyboard, attempt, call, result, seen, effects>>
  BY DEF IsLost, exchanges
<1>2. ApiTyped' /\ VkOnce' /\ OkIsDone'
  BY <1>1 DEF ApiInv, ApiTyped, VkOnce, OkIsDone
<1>3. JobRequests' /\ NoKeyboards'
  BY <1>1 DEF ApiInv, JobRequests, NoKeyboards
<1>4. TelegramOnce'
  BY <1>1 DEF ApiInv, TelegramOnce
<1> QED
  BY <1>2, <1>3, <1>4 DEF ApiInv

\* The next job starts with nothing tried.
LEMMA NextJobStep ==
  ASSUME ApiInv, NextJob
  PROVE  ApiInv'
<1>1. /\ call = NoCall /\ onItsWay = {} /\ UNCHANGED <<call, onItsWay>>
      /\ method' \in Methods
      /\ attempt' = 0 /\ result' = "none" /\ seen' = {} /\ effects' = 0
  BY DEF NextJob, Awaiting
<1>2. ApiTyped' /\ OkIsDone'
  BY <1>1 DEF ApiTyped, OkIsDone
<1>3. JobRequests' /\ VkOnce' /\ TelegramOnce'
  BY <1>1 DEF JobRequests, VkOnce, TelegramOnce
<1>4. NoKeyboards'
  <2> SUFFICES ASSUME method' # "messages.send"
               PROVE  wantsKeyboard' = FALSE /\ call'.keyboard = FALSE
    BY DEF NoKeyboards
  <2>1. wantsKeyboard' \in {FALSE}
    BY DEF NextJob
  <2> QED
    BY <1>1, <2>1 DEF NoCall
<1> QED
  BY <1>2, <1>3, <1>4 DEF ApiInv

\* Every step of the client keeps the invariant.
LEMMA ApiStep ==
  ApiInv /\ [ApiNext]_apiVars => ApiInv'
<1> SUFFICES ASSUME ApiInv, [ApiNext]_apiVars PROVE ApiInv'
  OBVIOUS
<1>1. CASE ApiNext
  BY <1>1, NextJobStep, TryStep, BreakStep, KeyboardStep, ActsStep, RefusesStep,
     LostStep DEF ApiNext
<1>2. CASE UNCHANGED apiVars
  BY <1>2 DEF apiVars, exchanges, ApiInv, ApiTyped, JobRequests, NoKeyboards, VkOnce,
              TelegramOnce, OkIsDone
<1> QED
  BY <1>1, <1>2

\* The invariant contains the property.
LEMMA ApiInv_Undone == ApiInv => FailedMeansUndone
BY DEF ApiInv, ApiTyped, Methods, VkOnce, TelegramOnce, OkIsDone, FailedMeansUndone,
       HasUncertainSideEffect

-----------------------------------------------------------------------------
(***************************************************************************)
(* ClientMenu, for any sections and labels.                                *)
(*                                                                         *)
(* A keyboard outlives the information it was made from: what it offers is *)
(* a fixed section, a section that was not taken off since, one that was,  *)
(* or the button of a menu that still knows it (Offered).  The same goes   *)
(* for a keyboard on its way and for a button that was pressed.            *)
(***************************************************************************)
-----------------------------------------------------------------------------
AllTexts == Reserved \cup Labels \cup {"question"}

Message ==
  [pc: {"none", "arrived", "closing", "sending"}, text: AllTexts,
   pressed: BOOLEAN, shown: BOOLEAN, long: BOOLEAN, keyboard: SUBSET AllTexts]

InformationFits(c) ==
  /\ c.filled \subseteq Sections /\ c.visible \subseteq Sections
  /\ c.custom \subseteq Labels /\ c.custom \cap Reserved = {} /\ c.long = {}

MenuTyped ==
  /\ messenger \in {"telegram", "vk"} /\ intake \in BOOLEAN
  /\ conversation \in {"none", "active", "closed"}
  /\ InformationFits(information)
  /\ message \in Message

\* Buttons the client may have before him.
Offered ==
  Sections \cup information.custom \cup dropped \cup {"handoff"}
  \cup (IF messenger = "telegram" THEN {"new question"} ELSE {})

MenuInv ==
  /\ MenuTyped
  /\ keyboard \subseteq Offered /\ message.keyboard \subseteq Offered
  /\ message.pressed => message.text \in Offered
  /\ ~message.long
  /\ passed \subseteq dropped

-----------------------------------------------------------------------------
\* No keyboard was sent yet.
LEMMA MenuInit_Inv == MenuInit => MenuInv
<1> SUFFICES ASSUME MenuInit PROVE MenuInv
  OBVIOUS
<1>1. NoMessage \in Message /\ ~NoMessage.long /\ ~NoMessage.pressed /\ NoMessage.keyboard = {}
  BY DEF NoMessage, Message, AllTexts
<1>2. MenuTyped
  BY <1>1 DEF MenuInit, MenuTyped, InformationFits
<1> QED
  BY <1>1, <1>2 DEF MenuInit, MenuInv

\* The keyboards that are made offer what may be offered.
LEMMA KeyboardsOffer ==
  ASSUME MenuTyped, NEW b \in BOOLEAN, NEW p \in BOOLEAN
  PROVE  /\ messenger = "telegram" => TelegramKeyboard(b, p) \subseteq Offered
         /\ VkKeyboard(p) \subseteq Offered
         /\ MenuKeyboard \subseteq Offered
         /\ MenuKeyboard \subseteq AllTexts
<1>1. SectionButtons \subseteq Offered /\ SectionButtons \subseteq AllTexts
  BY DEF MenuTyped, InformationFits, SectionButtons, InformationButtons, Offered, AllTexts, Reserved
<1>2. \A c, q \in BOOLEAN : messenger = "telegram" => TelegramKeyboard(c, q) \subseteq Offered
  BY <1>1 DEF TelegramKeyboard, Offered
<1>3. \A q \in BOOLEAN : VkKeyboard(q) \subseteq Offered
  BY <1>1 DEF VkKeyboard, Offered
<1>4. Engaged \in BOOLEAN /\ Paused \in BOOLEAN /\ intake \in BOOLEAN
  BY DEF MenuTyped, Engaged, Paused
<1>5. MenuKeyboard \subseteq Offered
  BY <1>2, <1>3, <1>4 DEF MenuKeyboard, MenuTyped
<1>6. MenuKeyboard \subseteq AllTexts
  BY <1>1 DEF MenuKeyboard, TelegramKeyboard, VkKeyboard, AllTexts, Reserved
<1> QED
  BY <1>2, <1>3, <1>5, <1>6

\* A button is left to the operators only if its section was taken off.
LEMMA ButtonsAreAnswered ==
  ASSUME MenuTyped, NEW t \in Offered, Menu(t) = "none"
  PROVE  t \in dropped
<1>1. ASSUME t \notin dropped
      PROVE  FALSE
  <2>1. \/ t \in Sections \cup information.custom
        \/ t = "handoff" \/ (t = "new question" /\ messenger = "telegram")
    BY <1>1 DEF Offered
  <2>2. Available(t) => Resolve(t)
    BY DEF Available, Resolve, InformationButtons, MenuTyped, InformationFits
  <2>3. Resolve(t) \/ t = "handoff" \/ (t = "new question" /\ messenger = "telegram")
    BY <2>1 DEF Resolve
  <2>4. CASE messenger = "telegram"
    <3>1. TelegramMenu(t) = "none"
      BY <2>4 DEF Menu
    <3>2. CASE Resolve(t) /\ (~Paused \/ Available(t))
      BY <3>1, <3>2 DEF TelegramMenu
    <3>3. CASE Paused /\ ~Available(t)
      BY <3>1, <3>3 DEF TelegramMenu
    <3>4. CASE ~Paused /\ ~Resolve(t)
      BY <2>3, <3>1, <3>4 DEF TelegramMenu
    <3> QED
      BY <2>2, <3>2, <3>3, <3>4
  <2>5. CASE messenger = "vk"
    <3>1. CASE Paused /\ ~Available(t)
      BY <2>5, <3>1 DEF Menu
    <3>2. CASE ~(Paused /\ ~Available(t))
      <4>1. VkMenu(t) = "none"
        BY <2>5, <3>2 DEF Menu
      <4> QED
        BY <2>3, <2>5, <4>1 DEF VkMenu
    <3> QED
      BY <3>1, <3>2
  <2> QED
    BY <2>4, <2>5 DEF MenuTyped
<1> QED
  BY <1>1

\* The information changes: what is taken off is remembered.
LEMMA ReplaceStep ==
  ASSUME MenuInv, NEW c \in Contents, Replace(c)
  PROVE  MenuInv'
<1>1. /\ information' = c /\ dropped' = dropped \cup (information.custom \ c.custom)
      /\ UNCHANGED <<messenger, intake, conversation, keyboard, message, passed>>
      /\ HasValidCustomSections(c) /\ HasValidResponses(c)
  BY DEF Replace, IsValid
<1>2. InformationFits(c)
  BY <1>1 DEF Contents, InformationFits, HasValidCustomSections, HasValidResponses
<1>3. MenuTyped'
  BY <1>1, <1>2 DEF MenuInv, MenuTyped
<1>4. Offered \subseteq Offered'
  BY <1>1 DEF Offered
<1> QED
  BY <1>1, <1>3, <1>4 DEF MenuInv

\* A message like the one before, or a new one.
LEMMA MessageStep ==
  ASSUME MenuInv, message' \in Message, UNCHANGED <<messenger, information, dropped>>,
         intake' \in BOOLEAN, conversation' \in {"none", "active", "closed"},
         keyboard' \subseteq Offered, message'.keyboard \subseteq Offered,
         message'.pressed => message'.text \in Offered, ~message'.long, passed' \subseteq dropped
  PROVE  MenuInv'
<1>1. Offered' = Offered
  BY DEF Offered
<1>2. MenuTyped'
  BY DEF MenuInv, MenuTyped
<1> QED
  BY <1>1, <1>2 DEF MenuInv

\* There is no message, and so no button pressed.
LEMMA NoMessageFits ==
  /\ NoMessage \in Message /\ ~NoMessage.pressed /\ ~NoMessage.long /\ NoMessage.keyboard = {}
BY DEF NoMessage, Message, AllTexts

\* A message that arrives is a text or a button the client has before him.
LEMMA ArrivedFits ==
  ASSUME NEW t \in AllTexts, NEW pressed \in BOOLEAN, NEW shown \in BOOLEAN
  PROVE  LET m == [NoMessage EXCEPT !.pc = "arrived", !.text = t,
                                    !.pressed = pressed, !.shown = shown]
         IN  /\ m \in Message /\ m.text = t /\ m.pressed = pressed
             /\ ~m.long /\ m.keyboard = {}
BY NoMessageFits DEF Message

\* A client presses or writes.
LEMMA ClientStep ==
  ASSUME MenuInv, Write \/ \E t \in Reserved \cup Labels : Press(t)
  PROVE  MenuInv'
<1>1. /\ UNCHANGED <<messenger, information, intake, conversation, keyboard, dropped, passed>>
  BY DEF Write, Press, setting, history
<1>2. CASE Write
  <2>1. PICK t \in {"question", "command"} :
          message' = [NoMessage EXCEPT !.pc = "arrived", !.text = t]
    BY <1>2 DEF Write
  <2>2. t \in AllTexts
    BY <2>1 DEF AllTexts, Reserved
  <2>3. message' \in Message /\ ~message'.pressed /\ ~message'.long /\ message'.keyboard = {}
    BY <2>1, <2>2, NoMessageFits DEF Message
  <2> QED
    BY <1>1, <2>3, MessageStep DEF MenuInv, MenuTyped
<1>3. ASSUME NEW t \in Reserved \cup Labels, Press(t)
      PROVE  MenuInv'
  <2>1. message' = [NoMessage EXCEPT !.pc = "arrived", !.text = t, !.pressed = TRUE] /\ t \in keyboard
    BY <1>3 DEF Press
  <2>2. t \in AllTexts /\ t \in Offered
    BY <2>1 DEF AllTexts, MenuInv
  <2>3. message' \in Message /\ message'.text = t /\ ~message'.long /\ message'.keyboard = {}
    BY <2>1, <2>2, NoMessageFits DEF Message
  <2> QED
    BY <1>1, <2>2, <2>3, MessageStep DEF MenuInv, MenuTyped
<1> QED
  BY <1>2, <1>3

\* The message is taken up: answered by the menu, or passed to the operators.
LEMMA HandleStep ==
  ASSUME MenuInv, Handle
  PROVE  MenuInv'
<1> DEFINE answer == Menu(message.text)
<1>1. UNCHANGED <<messenger, information, intake, keyboard, dropped>>
  BY DEF Handle, setting
<1>2. /\ message \in Message /\ message.text \in AllTexts /\ intake \in BOOLEAN
      /\ conversation \in {"none", "active", "closed"}
  BY DEF MenuInv, MenuTyped, Message
<1>3. CASE answer = "none" /\ HandOver
  <2>1. message.pressed => message.text \in dropped
    BY <1>3, ButtonsAreAnswered DEF MenuInv
  <2>2. /\ conversation' = "active" /\ message' = NoMessage
        /\ passed' = passed \cup {t \in {message.text} : message.pressed}
    BY <1>3 DEF HandOver
  <2>3. passed' \subseteq dropped
    BY <2>1, <2>2 DEF MenuInv
  <2> QED
    BY <1>1, <1>2, <2>2, <2>3, NoMessageFits, MessageStep DEF MenuInv
<1>4. CASE CompleteWithoutResponse
  <2>1. message' = NoMessage /\ UNCHANGED <<conversation, passed>>
    BY <1>4 DEF CompleteWithoutResponse
  <2> QED
    BY <1>1, <1>2, <2>1, NoMessageFits, MessageStep DEF MenuInv
<1>5. ASSUME NEW pc \in {"closing", "sending"}, NEW long, long = FALSE, Claim(pc, long)
      PROVE  MenuInv'
  <2>1. message' = [message EXCEPT !.pc = pc, !.keyboard = MenuKeyboard, !.long = long]
        /\ UNCHANGED <<conversation, passed>>
    BY <1>5 DEF Claim
  <2>2. MenuKeyboard \subseteq Offered /\ MenuKeyboard \subseteq AllTexts
    BY KeyboardsOffer, <1>2 DEF MenuInv
  <2>3. /\ message' \in Message /\ message'.keyboard = MenuKeyboard
        /\ message'.pressed = message.pressed /\ message'.text = message.text
        /\ ~message'.long
    BY <1>2, <1>5, <2>1, <2>2 DEF Message
  <2> QED
    BY <1>1, <1>2, <2>1, <2>2, <2>3, MessageStep DEF MenuInv
<1>6. (answer = "information" /\ message.text \in information.long) = FALSE
  BY DEF MenuInv, MenuTyped, InformationFits
<1>7. \/ answer = "none" /\ HandOver
      \/ CompleteWithoutResponse
      \/ Claim("closing", FALSE)
      \/ Claim("sending", answer = "information" /\ message.text \in information.long)
  BY DEF Handle
<1> QED
  BY <1>3, <1>4, <1>5, <1>6, <1>7

\* The answer arrives with the keyboard that was made for it.
LEMMA AnswerStep ==
  ASSUME MenuInv, \/ TopicClosed \/ AnswerSent \/ AnswerUnanswered \/ AnswerFails \/ SkipMessage
  PROVE  MenuInv'
<1>1. UNCHANGED <<messenger, information, intake, dropped, passed>>
  BY DEF TopicClosed, AnswerSent, AnswerUnanswered, AnswerFails, SkipMessage, Show, setting, history
<1>2. /\ message \in Message /\ message.text \in AllTexts /\ intake \in BOOLEAN
      /\ message.shown \in BOOLEAN /\ message.pressed \in BOOLEAN
      /\ conversation \in {"none", "active", "closed"}
  BY DEF MenuInv, MenuTyped, Message
<1>3. CASE TopicClosed
  <2>1. /\ message' = [message EXCEPT !.pc = "sending"] /\ conversation' = "closed"
        /\ keyboard' = keyboard
    BY <1>3 DEF TopicClosed
  <2>2. /\ message' \in Message /\ message'.keyboard = message.keyboard
        /\ message'.pressed = message.pressed /\ message'.text = message.text
        /\ message'.long = message.long
    BY <1>2, <2>1 DEF Message
  <2> QED
    BY <1>1, <1>2, <2>1, <2>2, MessageStep DEF MenuInv
<1>4. ASSUME Show
      PROVE  keyboard' \subseteq Offered /\ conversation' = conversation
  BY <1>4 DEF Show, MenuInv
<1>5. ASSUME NEW s \in BOOLEAN, Again(s), keyboard' \subseteq Offered, conversation' = conversation
      PROVE  MenuInv'
  <2>1. (message.shown \/ s) \in BOOLEAN
    OBVIOUS
  <2>2. message' = [NoMessage EXCEPT !.pc = "arrived", !.text = message.text,
                               !.pressed = message.pressed, !.shown = message.shown \/ s]
    BY <1>5 DEF Again
  <2>3. /\ message' \in Message /\ message'.text = message.text
        /\ message'.pressed = message.pressed /\ ~message'.long /\ message'.keyboard = {}
    BY <1>2, <2>1, <2>2, ArrivedFits
  <2> QED
    BY <1>1, <1>2, <1>5, <2>3, MessageStep DEF MenuInv
<1>6. CASE AnswerSent
  BY <1>1, <1>2, <1>4, <1>6, NoMessageFits, MessageStep DEF AnswerSent, MenuInv
<1>7. CASE AnswerUnanswered
  BY <1>4, <1>5, <1>7 DEF AnswerUnanswered
<1>8. CASE AnswerFails
  BY <1>5, <1>8 DEF AnswerFails, MenuInv
<1>9. CASE SkipMessage
  <2>1. message' = NoMessage /\ UNCHANGED <<conversation, keyboard>>
    BY <1>9 DEF SkipMessage
  <2> QED
    BY <1>1, <1>2, <2>1, NoMessageFits, MessageStep DEF MenuInv
<1> QED
  BY <1>3, <1>6, <1>7, <1>8, <1>9

\* Deliveries, a closed conversation and a paused intake offer nothing new.
LEMMA SurroundingsStep ==
  ASSUME MenuInv, TelegramDelivers \/ VkDelivers \/ OperatorCloses \/ IntakeChanges
  PROVE  MenuInv'
<1>1. UNCHANGED <<messenger, information, message, dropped, passed>>
  BY DEF TelegramDelivers, VkDelivers, OperatorCloses, IntakeChanges, setting, history
<1>2. message \in Message /\ intake' \in BOOLEAN /\ conversation' \in {"none", "active", "closed"}
  BY DEF MenuInv, MenuTyped, TelegramDelivers, VkDelivers, OperatorCloses, IntakeChanges, setting
<1>3. keyboard' \subseteq Offered
  BY KeyboardsOffer DEF MenuInv, TelegramDelivers, VkDelivers, OperatorCloses, IntakeChanges
<1> QED
  BY <1>1, <1>2, <1>3, MessageStep DEF MenuInv

\* Every step of the menu keeps its invariant.
LEMMA MenuStep ==
  ASSUME MenuInv, [MenuNext]_menuVars
  PROVE  MenuInv'
<1>1. CASE UNCHANGED menuVars
  BY <1>1, MessageStep DEF menuVars, setting, history, MenuInv, MenuTyped
<1>2. CASE MenuNext
  BY <1>2, ReplaceStep, ClientStep, HandleStep, AnswerStep, SurroundingsStep DEF MenuNext
<1> QED
  BY <1>1, <1>2

-----------------------------------------------------------------------------
(***************************************************************************)
(* WebInbox, for any requests, texts and any number of keys and reads.     *)
(*                                                                         *)
(* The counters of the history are sizes of sets nobody keeps: of the      *)
(* attempts a key was drawn for, and of those whose success the page has   *)
(* heard of.  RepliesFit says how the page, the wire and the tables relate *)
(* to two such sets, and the invariant that there are some.  For reads it  *)
(* is that the overtaken ones come first, and that the last one, unless it *)
(* was overtaken, is of the request selected.                              *)
(***************************************************************************)
-----------------------------------------------------------------------------
Attempts == [thread: Threads, text: Texts, key: 1..MaxKeys]
ReadRow == [thread: Threads, overtaken: BOOLEAN]
Desks == [listed: SUBSET Threads, selected: Threads \cup {Nobody},
          shown: Threads \cup {Nobody}, failed: Attempts \cup {Nobody}]
Counters == [Threads -> [Texts -> Nat]]

InboxTyped ==
  /\ completed \subseteq Attempts /\ stored \in Seq(Attempts)
  /\ desk \in Desks /\ exchange \in Attempts \cup {Nobody} /\ lastKey \in Nat
  /\ wire \subseteq Attempts
  /\ reads \in Seq(ReadRow) /\ tangled \in BOOLEAN
  /\ wanted \in Counters /\ late \in Counters /\ saved \in Counters
  /\ owed \in [Threads -> [Texts -> BOOLEAN]]

\* Every reply meant and every late attempt at one has a key of its own.
Sendings == [t \in Threads |-> [text \in Texts |-> wanted[t][text] + late[t][text]]]

IsOwed(a) == owed[a.thread][a.text]
IsPlain(a) == a.text \notin Closing \cup Reopening
IsStored(s, a) == \E i \in 1..Len(s) : s[i] = a
Of(S, t, text) == {a \in S : a.thread = t /\ a.text = text}
Counts(c, S) == \A t \in Threads, text \in Texts : c[t][text] = Cardinality(Of(S, t, text))

\* drawn: attempts a key was drawn for; heard: those the page knows to be saved.
KeysFit(drawn, heard) ==
  /\ drawn \subseteq Attempts /\ IsFiniteSet(drawn)
  /\ \A a \in drawn : a.key <= lastKey
  /\ wire \subseteq drawn /\ heard \subseteq drawn
  /\ Counts(Sendings, drawn) /\ Counts(saved, heard)

PageFits(drawn, heard) ==
  /\ exchange \in drawn \cup {Nobody} /\ exchange \notin heard
  /\ desk.failed \in drawn \cup {Nobody} /\ desk.failed \notin heard
  /\ failedLast = desk.failed
  /\ exchange # Nobody => IsOwed(exchange)
  /\ desk.failed # Nobody => IsOwed(desk.failed)

StoreFits(drawn, heard) ==
  /\ \A i \in 1..Len(stored) : stored[i] \in drawn /\ IsPlain(stored[i])
  /\ \A i, j \in 1..Len(stored) : stored[i] = stored[j] => i = j
  /\ \A a \in completed \cup heard : IsPlain(a) => IsStored(stored, a)

RepliesFit(drawn, heard) ==
  KeysFit(drawn, heard) /\ PageFits(drawn, heard) /\ StoreFits(drawn, heard)

ReadsFit ==
  /\ \A i, j \in 1..Len(reads) : i < j /\ reads[j].overtaken => reads[i].overtaken
  /\ focus = "reads" /\ desk.selected # Nobody =>
       IF reads = <<>> \/ reads[Len(reads)].overtaken
       THEN tangled \/ desk.shown = desk.selected
       ELSE reads[Len(reads)].thread = desk.selected

RepliesInv == \E drawn, heard \in SUBSET Attempts : RepliesFit(drawn, heard)

WebInv == InboxTyped /\ ReadsFit /\ RepliesInv

-----------------------------------------------------------------------------
\* One attempt more.
LEMMA OneMore ==
  ASSUME NEW S, IsFiniteSet(S), NEW a \in Attempts, a \notin S, NEW c \in Counters, NEW d \in Counters,
         Counts(c, S),
         d = [c EXCEPT ![a.thread][a.text] = @ + 1]
  PROVE  IsFiniteSet(S \cup {a}) /\ Counts(d, S \cup {a})
<1>1. IsFiniteSet(S \cup {a})
  BY FS_AddElement
<1>2. a.thread \in Threads /\ a.text \in Texts
  BY DEF Attempts
<1>3. ASSUME NEW t \in Threads, NEW text \in Texts
      PROVE  d[t][text] = Cardinality(Of(S \cup {a}, t, text))
  <2>1. IsFiniteSet(Of(S, t, text)) /\ a \notin Of(S, t, text)
    BY FS_Subset DEF Of
  <2>2. c[t][text] = Cardinality(Of(S, t, text))
    BY DEF Counts
  <2>3. CASE a.thread = t /\ a.text = text
    <3>1. Of(S \cup {a}, t, text) = Of(S, t, text) \cup {a}
      BY <2>3 DEF Of
    <3>2. Cardinality(Of(S, t, text) \cup {a}) = Cardinality(Of(S, t, text)) + 1
      BY <2>1, FS_AddElement
    <3>3. d[t][text] = c[t][text] + 1
      BY <2>3 DEF Counters
    <3> QED
      BY <2>2, <3>1, <3>2, <3>3
  <2>4. CASE ~(a.thread = t /\ a.text = text)
    <3>1. Of(S \cup {a}, t, text) = Of(S, t, text)
      BY <2>4 DEF Of
    <3>2. d[t][text] = c[t][text]
      BY <1>2, <2>4 DEF Counters
    <3> QED
      BY <2>2, <3>1, <3>2
  <2> QED
    BY <2>3, <2>4
<1> QED
  BY <1>1, <1>3 DEF Counts

\* Storing an attempt adds it, if it is not there.
LEMMA Stores ==
  ASSUME stored \in Seq(Attempts), NEW a \in Attempts,
         \A i, j \in 1..Len(stored) : stored[i] = stored[j] => i = j
  PROVE  LET s == Store(a) IN
         /\ s \in Seq(Attempts)
         /\ \A i \in 1..Len(s) : s[i] = a \/ IsStored(stored, s[i])
         /\ \A i, j \in 1..Len(s) : s[i] = s[j] => i = j
         /\ IsStored(s, a)
         /\ \A b : IsStored(stored, b) => IsStored(s, b)
<1>1. CASE IsStored(stored, a)
  BY <1>1 DEF Store, IsStored
<1>2. CASE ~IsStored(stored, a)
  <2> DEFINE s == Append(stored, a)
  <2>1. /\ s \in Seq(Attempts) /\ Len(s) = Len(stored) + 1 /\ Len(stored) \in Nat
        /\ \A i \in 1..Len(stored) : s[i] = stored[i]
        /\ s[Len(stored) + 1] = a
    BY AppendProperties
  <2>2. Store(a) = s
    BY <1>2 DEF Store, IsStored
  <2> HIDE DEF s
  <2>3. \A i \in 1..Len(s) : i \in 1..Len(stored) \/ i = Len(stored) + 1
    BY <2>1
  <2>4. \A i \in 1..Len(s) : s[i] = a \/ IsStored(stored, s[i])
    BY <2>1, <2>3 DEF IsStored
  <2>5. \A i, j \in 1..Len(s) : s[i] = s[j] => i = j
    BY <1>2, <2>1, <2>3 DEF IsStored
  <2>6. IsStored(s, a) /\ \A b : IsStored(stored, b) => IsStored(s, b)
    BY <2>1 DEF IsStored
  <2> QED
    BY <2>1, <2>2, <2>4, <2>5, <2>6
<1> QED
  BY <1>1, <1>2

-----------------------------------------------------------------------------
\* What is stored of a reply was drawn, and what the page heard of is stored:
\* the positions in the table map into the one set, the other into the positions.
LEMMA WebInv_Meant == InboxTyped /\ RepliesInv => RepliesAreMeant
<1> SUFFICES ASSUME InboxTyped, RepliesInv, NEW t \in Threads, NEW text \in Texts
             PROVE  LET copies == Cardinality({i \in 1..Len(stored) :
                                 stored[i].thread = t /\ stored[i].text = text})
                    IN  /\ IF text \in Closing \cup Reopening THEN copies = 0
                           ELSE saved[t][text] <= copies
                        /\ copies <= wanted[t][text] + late[t][text]
  BY DEF RepliesAreMeant
<1> DEFINE I == {i \in 1..Len(stored) : stored[i].thread = t /\ stored[i].text = text}
<1>1. PICK drawn, heard \in SUBSET Attempts : RepliesFit(drawn, heard)
  BY DEF RepliesInv
<1>2. /\ wanted[t][text] + late[t][text] = Cardinality(Of(drawn, t, text))
      /\ saved[t][text] = Cardinality(Of(heard, t, text))
      /\ IsFiniteSet(Of(drawn, t, text))
  BY <1>1, FS_Subset DEF RepliesFit, KeysFit, Counts, Of, Sendings
<1>3. IsFiniteSet(I)
  <2>1. Len(stored) \in Nat
    BY DEF InboxTyped
  <2>2. IsFiniteSet(1..Len(stored))
    BY <2>1, FS_Interval
  <2> QED
    BY <2>2, FS_Subset
<1>4. Cardinality(I) <= Cardinality(Of(drawn, t, text))
  <2> DEFINE f == [i \in I |-> stored[i]]
  <2>1. f \in [I -> Of(drawn, t, text)]
    BY <1>1 DEF RepliesFit, StoreFits, Of
  <2>2. \A i, j \in I : f[i] = f[j] => i = j
    BY <1>1 DEF RepliesFit, StoreFits
  <2>3. f \in Injection(I, Of(drawn, t, text))
    BY <2>1, <2>2 DEF Injection, IsInjective
  <2> QED
    BY <1>2, <2>3, FS_Injection
<1>5. ASSUME text \notin Closing \cup Reopening
      PROVE  Cardinality(Of(heard, t, text)) <= Cardinality(I)
  <2> DEFINE g == [a \in Of(heard, t, text) |-> CHOOSE i \in 1..Len(stored) : stored[i] = a]
  <2>1. ASSUME NEW a \in Of(heard, t, text)
        PROVE  g[a] \in I /\ stored[g[a]] = a
    <3>1. IsStored(stored, a) /\ a.thread = t /\ a.text = text
      BY <1>1, <1>5 DEF RepliesFit, StoreFits, Of, IsPlain
    <3>2. g[a] \in 1..Len(stored) /\ stored[g[a]] = a
      BY <3>1 DEF IsStored
    <3> QED
      BY <3>1, <3>2
  <2>2. g \in [Of(heard, t, text) -> I]
    BY <2>1
  <2>3. \A a, b \in Of(heard, t, text) : g[a] = g[b] => a = b
    BY <2>1
  <2> HIDE DEF g, I
  <2>4. g \in Injection(Of(heard, t, text), I)
    BY <2>2, <2>3 DEF Injection, IsInjective
  <2> QED
    BY <1>3, <2>4, FS_Injection
<1>6. ASSUME text \in Closing \cup Reopening
      PROVE  Cardinality(I) = 0
  <2>1. I = {}
    BY <1>1, <1>6 DEF RepliesFit, StoreFits, IsPlain
  <2> QED
    BY <2>1, FS_EmptySet
<1> QED
  BY <1>2, <1>4, <1>5, <1>6

\* The invariant says what the property does, and how.
LEMMA WebInv_Honest == WebInv => DeskIsHonest
<1>1. WebInv => RepliesAreMeant
  BY WebInv_Meant DEF WebInv
<1>2. ReadsFit => MessagesFit
  BY DEF ReadsFit, MessagesFit
<1> QED
  BY <1>1, <1>2 DEF WebInv, DeskIsHonest

\* No key is drawn and nothing read.
LEMMA InboxInit_Inv == InboxInit => WebInv
<1> SUFFICES ASSUME InboxInit PROVE WebInv
  OBVIOUS
<1>1. InboxTyped
  <2>1. desk \in Desks
    <3>1. desk = NewDesk
      BY DEF InboxInit
    <3>2. {} \in SUBSET Threads /\ Nobody \in Threads \cup {Nobody} /\ Nobody \in Attempts \cup {Nobody}
      OBVIOUS
    <3>3. NewDesk \in Desks
      BY <3>2 DEF NewDesk, Desks
    <3> QED
      BY <3>1, <3>3
  <2>2. stored \in Seq(Attempts) /\ reads \in Seq(ReadRow)
    BY EmptySeq DEF InboxInit
  <2>3. /\ wanted \in Counters /\ late \in Counters /\ saved \in Counters
        /\ owed \in [Threads -> [Texts -> BOOLEAN]]
    BY DEF InboxInit, Counters
  <2>4. /\ completed \subseteq Attempts /\ exchange \in Attempts \cup {Nobody} /\ lastKey \in Nat
        /\ wire \subseteq Attempts /\ tangled \in BOOLEAN
    BY DEF InboxInit
  <2> QED
    BY <2>1, <2>2, <2>3, <2>4 DEF InboxTyped
<1>2. ReadsFit
  BY DEF InboxInit, ReadsFit, NewDesk
<1>3. RepliesFit({}, {})
  <2>1. IsFiniteSet({}) /\ Cardinality({}) = 0
    BY FS_EmptySet
  <2>2. \A t, text : Of({}, t, text) = {}
    BY DEF Of
  <2>3. Counts(Sendings, {}) /\ Counts(saved, {})
    <3>1. \A t \in Threads, text \in Texts : Sendings[t][text] = 0 /\ saved[t][text] = 0
      BY DEF InboxInit, Sendings
    <3> QED
      BY <2>1, <2>2, <3>1 DEF Counts
  <2> QED
    BY <2>1, <2>3 DEF InboxInit, RepliesFit, KeysFit, PageFits, StoreFits, NewDesk
<1> QED
  BY <1>1, <1>2, <1>3 DEF WebInv, RepliesInv

\* Steps that leave the replies alone,
LEMMA RepliesKept ==
  ASSUME RepliesInv, UNCHANGED <<store, network, replies>>, desk'.failed = desk.failed
  PROVE  RepliesInv'
<1>1. PICK drawn, heard \in SUBSET Attempts : RepliesFit(drawn, heard)
  BY DEF RepliesInv
<1>2. RepliesFit(drawn, heard)'
  <2>1. KeysFit(drawn, heard)'
    BY <1>1 DEF RepliesFit, KeysFit, Counts, Sendings, network, replies
  <2>2. PageFits(drawn, heard)'
    BY <1>1 DEF RepliesFit, PageFits, IsOwed, network, replies
  <2>3. StoreFits(drawn, heard)'
    BY <1>1 DEF RepliesFit, StoreFits, IsStored, IsPlain, store
  <2> QED
    BY <2>1, <2>2, <2>3 DEF RepliesFit
<1> QED
  BY <1>1, <1>2 DEF RepliesInv

\* and steps that leave the reads alone.
LEMMA ReadsKept ==
  ASSUME ReadsFit, UNCHANGED <<focus, reading>>, desk'.shown = desk.shown,
         desk'.selected = desk.selected
  PROVE  ReadsFit'
BY DEF ReadsFit, reading

\* The messages of the request selected are asked for.
LEMMA ReadAsked ==
  ASSUME InboxTyped, ReadsFit, NEW t \in Threads \cup {Nobody}, ReadMessages(t),
         UNCHANGED focus, tangled' = tangled, desk'.selected = t,
         desk' \in Desks
  PROVE  ReadsFit' /\ reads' \in Seq(ReadRow)
<1>1. CASE t = Nobody \/ focus = "replies"
  BY <1>1 DEF ReadMessages, ReadsFit, InboxTyped
<1>2. CASE ~(t = Nobody \/ focus = "replies")
  <2> DEFINE row == [thread |-> t, overtaken |-> FALSE]
  <2>1. reads' = Append(reads, row) /\ row \in ReadRow /\ reads \in Seq(ReadRow)
    BY <1>2 DEF ReadMessages, InboxTyped, ReadRow
  <2>2. row.thread = t /\ row.overtaken = FALSE
    OBVIOUS
  <2> HIDE DEF row
  <2>3. /\ reads' \in Seq(ReadRow) /\ reads' # <<>> /\ Len(reads') = Len(reads) + 1
        /\ Len(reads) \in Nat
        /\ \A i \in 1..Len(reads) : reads'[i] = reads[i]
        /\ reads'[Len(reads) + 1] = row
    BY <2>1, AppendProperties
  <2>4. ASSUME NEW i \in 1..Len(reads'), NEW j \in 1..Len(reads'), i < j, reads'[j].overtaken
        PROVE  reads'[i].overtaken
    <3>1. j # Len(reads) + 1
      BY <2>2, <2>3, <2>4
    <3>2. i \in 1..Len(reads) /\ j \in 1..Len(reads)
      BY <2>3, <2>4, <3>1
    <3> QED
      BY <2>3, <2>4, <3>2 DEF ReadsFit
  <2> QED
    BY <2>2, <2>3, <2>4 DEF ReadsFit
<1> QED
  BY <1>1, <1>2

\* The reads left when one is answered.
LEMMA OthersAre ==
  ASSUME InboxTyped, NEW i \in 1..Len(reads)
  PROVE  /\ Others(i) \in Seq(ReadRow) /\ Len(Others(i)) = Len(reads) - 1 /\ Len(reads) \in Nat
         /\ \A j \in 1..i - 1 : Others(i)[j].overtaken
         /\ \A j \in i..Len(reads) - 1 : Others(i)[j] = reads[j + 1]
<1> DEFINE first == [j \in 1..i - 1 |-> [reads[j] EXCEPT !.overtaken = TRUE]]
           rest == SubSeq(reads, i + 1, Len(reads))
<1>1. Len(reads) \in Nat /\ i \in Nat /\ i >= 1 /\ i <= Len(reads) /\ reads \in Seq(ReadRow)
  BY DEF InboxTyped
<1>2. \A j \in 1..Len(reads) : reads[j] \in ReadRow
  BY <1>1
<1>3. first \in Seq(ReadRow) /\ Len(first) = i - 1 /\ \A j \in 1..i - 1 : first[j].overtaken
  <2>1. \A j \in 1..i - 1 : [reads[j] EXCEPT !.overtaken = TRUE] \in ReadRow
    <3>1. \A row \in ReadRow : [row EXCEPT !.overtaken = TRUE] \in ReadRow
      BY DEF ReadRow
    <3> QED
      BY <1>1, <1>2, <3>1
  <2>2. first \in [1..i - 1 -> ReadRow] /\ i - 1 \in Nat
    BY <1>1, <2>1
  <2>3. \A row \in ReadRow : [row EXCEPT !.overtaken = TRUE].overtaken
    BY DEF ReadRow
  <2>4. ASSUME NEW j \in 1..i - 1
        PROVE  first[j].overtaken
    <3>1. first[j] = [reads[j] EXCEPT !.overtaken = TRUE]
      OBVIOUS
    <3>2. reads[j] \in ReadRow
      BY <1>1, <1>2
    <3> HIDE DEF first
    <3> QED
      BY <2>3, <3>1, <3>2
  <2> HIDE DEF first
  <2> QED
    BY <2>2, <2>4
<1>4. /\ rest \in Seq(ReadRow) /\ Len(rest) = Len(reads) - i
      /\ \A j \in 1..Len(reads) - i : rest[j] = reads[i + j]
  <2>1. \A j \in i + 1..Len(reads) : reads[j] \in ReadRow
    BY <1>1, <1>2
  <2>2. i + 1 \in Int /\ Len(reads) \in Int
    BY <1>1
  <2>3. /\ rest \in Seq(ReadRow)
        /\ Len(rest) = IF i + 1 <= Len(reads) THEN Len(reads) - (i + 1) + 1 ELSE 0
        /\ \A j \in 1..Len(reads) - (i + 1) + 1 : rest[j] = reads[i + 1 + j - 1]
    BY <2>1, <2>2, SubSeqProperties
  <2> HIDE DEF rest
  <2>4. Len(rest) = Len(reads) - i
    BY <1>1, <2>3
  <2>5. ASSUME NEW j \in 1..Len(reads) - i
        PROVE  rest[j] = reads[i + j]
    <3>1. j \in 1..Len(reads) - (i + 1) + 1 /\ i + 1 + j - 1 = i + j
      BY <1>1
    <3> QED
      BY <2>3, <3>1
  <2> QED
    BY <2>3, <2>4, <2>5
<1>5. Others(i) = first \o rest
  BY DEF Others
<1> HIDE DEF first, rest
<1>6. /\ first \o rest \in Seq(ReadRow)
      /\ Len(first \o rest) = Len(first) + Len(rest)
      /\ \A j \in 1..Len(first) + Len(rest) :
           (first \o rest)[j] = IF j <= Len(first) THEN first[j] ELSE rest[j - Len(first)]
  BY <1>3, <1>4, ConcatProperties
<1>7. Len(Others(i)) = Len(reads) - 1
  BY <1>1, <1>3, <1>4, <1>5, <1>6
<1>8. ASSUME NEW j \in 1..i - 1
      PROVE  Others(i)[j].overtaken
  <2>1. j \in 1..Len(first) + Len(rest) /\ j <= Len(first)
    BY <1>1, <1>3, <1>4
  <2>2. (first \o rest)[j] = first[j]
    BY <1>6, <2>1
  <2> QED
    BY <1>3, <1>5, <2>2
<1>9. ASSUME NEW j \in i..Len(reads) - 1
      PROVE  Others(i)[j] = reads[j + 1]
  <2>1. j \in 1..Len(first) + Len(rest) /\ ~(j <= Len(first))
    BY <1>1, <1>3, <1>4
  <2>2. (first \o rest)[j] = rest[j - Len(first)]
    BY <1>6, <2>1
  <2>3. j - Len(first) = j - i + 1 /\ j - i + 1 \in 1..Len(reads) - i /\ i + (j - i + 1) = j + 1
    BY <1>1, <1>3
  <2>4. rest[j - i + 1] = reads[i + (j - i + 1)]
    BY <1>4, <2>3
  <2> QED
    BY <1>5, <2>2, <2>3, <2>4
<1> QED
  BY <1>1, <1>5, <1>6, <1>7, <1>8, <1>9

-----------------------------------------------------------------------------
\* The list is read: what is selected stays or is moved to a request listed.
LEMMA InboxRefresh == ASSUME WebInv, Refresh PROVE WebInv'
<1> USE DEF WebInv
<1>1. PICK t \in Threads \cup {Nobody} :
        /\ desk' = [desk EXCEPT !.listed = Listed, !.selected = t,
                                !.shown = IF t = Nobody THEN Nobody ELSE @]
        /\ ReadMessages(t)
        /\ UNCHANGED <<focus, thread, store, network, tangled, replies>>
  <2>1. desk \in Desks
    BY DEF InboxTyped
  <2>2. \A t \in IF desk.selected \in Listed THEN {desk.selected}
                 ELSE IF Listed = {} THEN {Nobody} ELSE Listed : t \in Threads \cup {Nobody}
    BY DEF Listed
  <2> QED
    BY <2>2 DEF Refresh
<1>2. desk \in Desks /\ Listed \subseteq Threads
  BY DEF InboxTyped, Listed
<1>3. desk' \in Desks /\ desk'.selected = t /\ desk'.failed = desk.failed
  BY <1>1, <1>2 DEF Desks
<1>4. ReadsFit' /\ reads' \in Seq(ReadRow)
  BY <1>1, <1>3, ReadAsked
<1>5. RepliesInv'
  BY <1>1, <1>3, RepliesKept
<1>6. InboxTyped'
  BY <1>1, <1>3, <1>4 DEF InboxTyped, store, network, replies
<1> QED
  BY <1>4, <1>5, <1>6

\* The messages of the request that is selected are asked for.
LEMMA InboxSelectThread == ASSUME WebInv, NEW t \in Threads, SelectThread(t) PROVE WebInv'
<1> USE DEF WebInv
<1>1. /\ desk' = [desk EXCEPT !.selected = t]
      /\ ReadMessages(t)
      /\ UNCHANGED <<focus, thread, store, network, tangled, replies>>
  BY DEF SelectThread, Select
<1>2. desk \in Desks
  BY DEF InboxTyped
<1>3. desk' \in Desks /\ desk'.selected = t /\ desk'.failed = desk.failed
  BY <1>1, <1>2 DEF Desks
<1>4. ReadsFit' /\ reads' \in Seq(ReadRow)
  BY <1>1, <1>3, ReadAsked
<1>5. RepliesInv'
  BY <1>1, <1>3, RepliesKept
<1>6. InboxTyped'
  BY <1>1, <1>3, <1>4 DEF InboxTyped, store, network, replies
<1> QED
  BY <1>4, <1>5, <1>6

-----------------------------------------------------------------------------
\* A read that ends leaves the overtaken ones first; the last that is left, if
\* it was overtaken before, is later than the one that ends.
LEMMA ReadEnds ==
  ASSUME WebInv, NEW i \in 1..Len(reads), reads' = Others(i),
         focus' = focus, desk'.selected = desk.selected,
         \/ tangled' = reads[i].overtaken /\ desk'.shown = MessagesOf(i)
         \/ tangled' = (tangled \/ ~reads[i].overtaken) /\ desk'.shown = desk.shown
  PROVE  ReadsFit' /\ reads' \in Seq(ReadRow) /\ tangled' \in BOOLEAN
<1> USE DEF WebInv
<1>1. /\ reads' \in Seq(ReadRow) /\ Len(reads') = Len(reads) - 1 /\ Len(reads) \in Nat
      /\ \A j \in 1..i - 1 : reads'[j].overtaken
      /\ \A j \in i..Len(reads) - 1 : reads'[j] = reads[j + 1]
      /\ i \in Nat /\ 1 <= i /\ i <= Len(reads)
  <2>1. /\ Others(i) \in Seq(ReadRow) /\ Len(Others(i)) = Len(reads) - 1 /\ Len(reads) \in Nat
        /\ \A j \in 1..i - 1 : Others(i)[j].overtaken
        /\ \A j \in i..Len(reads) - 1 : Others(i)[j] = reads[j + 1]
    BY OthersAre
  <2>2. i \in Nat /\ 1 <= i /\ i <= Len(reads)
    BY <2>1
  <2> QED
    BY <2>1, <2>2
<1>2. reads[i] \in ReadRow /\ reads[i].overtaken \in BOOLEAN /\ tangled \in BOOLEAN
      /\ reads # <<>>
  <2>1. reads \in Seq(ReadRow) /\ tangled \in BOOLEAN
    BY DEF InboxTyped
  <2>2. reads[i] \in ReadRow
    BY <2>1
  <2>3. reads[i].overtaken \in BOOLEAN
    BY <2>2 DEF ReadRow
  <2>4. reads # <<>>
    BY <1>1, EmptySeq
  <2> QED
    BY <2>1, <2>2, <2>3, <2>4
<1>3. tangled' \in BOOLEAN
  BY <1>2
<1>4. ASSUME NEW j \in 1..Len(reads'), NEW k \in 1..Len(reads'), j < k, reads'[k].overtaken
      PROVE  reads'[j].overtaken
  <2>1. CASE j <= i - 1
    BY <1>1, <2>1
  <2>2. CASE ~(j <= i - 1)
    <3>1. j \in i..Len(reads) - 1 /\ k \in i..Len(reads) - 1
      BY <1>1, <1>4, <2>2
    <3>2. reads'[j] = reads[j + 1] /\ reads'[k] = reads[k + 1]
      BY <1>1, <3>1
    <3>3. j + 1 \in 1..Len(reads) /\ k + 1 \in 1..Len(reads) /\ j + 1 < k + 1
      BY <1>1, <1>4, <3>1
    <3> QED
      BY <1>4, <3>2, <3>3 DEF ReadsFit
  <2> QED
    BY <2>1, <2>2
<1>5. ASSUME focus = "reads", desk.selected # Nobody
      PROVE  IF reads' = <<>> \/ reads'[Len(reads')].overtaken
             THEN tangled' \/ desk'.shown = desk.selected
             ELSE reads'[Len(reads')].thread = desk.selected
  <2>1. IF reads[Len(reads)].overtaken
        THEN tangled \/ desk.shown = desk.selected
        ELSE reads[Len(reads)].thread = desk.selected
    BY <1>2, <1>5 DEF ReadsFit
  <2>2. CASE i = Len(reads)
    <3>1. reads' = <<>> \/ reads'[Len(reads')].overtaken
      <4>1. CASE i = 1
        BY <1>1, <2>2, <4>1, EmptySeq
      <4>2. CASE i # 1
        <5>1. Len(reads') \in 1..i - 1
          BY <1>1, <2>2, <4>2
        <5> QED
          BY <1>1, <5>1
      <4> QED
        BY <4>1, <4>2
    <3>2. tangled' \/ desk'.shown = desk.selected
      BY <1>2, <2>1, <2>2 DEF MessagesOf
    <3> QED
      BY <3>1, <3>2
  <2>3. CASE i # Len(reads)
    <3>1. Len(reads) - 1 \in i..Len(reads) - 1 /\ Len(reads) - 1 + 1 = Len(reads)
      BY <1>1, <2>3
    <3>2. reads'[Len(reads')] = reads[Len(reads)] /\ reads' # <<>>
      BY <1>1, <3>1
    <3>3. reads[Len(reads)].overtaken => reads[i].overtaken
      <4>1. i < Len(reads) /\ Len(reads) \in 1..Len(reads)
        BY <1>1, <2>3
      <4> QED
        BY <4>1 DEF ReadsFit
    <3>4. reads[Len(reads)].overtaken => tangled' \/ desk'.shown = desk.selected
      BY <1>2, <2>1, <3>3
    <3> QED
      BY <2>1, <3>2, <3>4
  <2> QED
    BY <2>2, <2>3
<1>6. ReadsFit'
  BY <1>4, <1>5 DEF ReadsFit
<1> QED
  BY <1>1, <1>3, <1>6

\* The answer shown is of the request selected, or was overtaken.
LEMMA InboxMessagesRead == ASSUME WebInv, MessagesRead PROVE WebInv'
<1> USE DEF WebInv
<1>1. PICK i \in 1..Len(reads) :
        /\ reads' = Others(i)
        /\ desk' = [desk EXCEPT !.shown = MessagesOf(i)]
        /\ tangled' = reads[i].overtaken
        /\ UNCHANGED <<focus, thread, store, network, replies>>
  BY DEF MessagesRead
<1>2. desk \in Desks /\ MessagesOf(i) \in Threads
  <2>1. desk \in Desks /\ reads \in Seq(ReadRow)
    BY DEF InboxTyped
  <2>2. reads[i] \in ReadRow
    BY <2>1
  <2>3. reads[i].thread \in Threads
    BY <2>2 DEF ReadRow
  <2> QED
    BY <2>1, <2>3 DEF MessagesOf
<1>3. /\ desk' \in Desks /\ desk'.selected = desk.selected /\ desk'.failed = desk.failed
      /\ desk'.shown = MessagesOf(i)
  BY <1>1, <1>2 DEF Desks
<1>4. ReadsFit' /\ reads' \in Seq(ReadRow) /\ tangled' \in BOOLEAN
  BY <1>1, <1>3, ReadEnds
<1>5. RepliesInv'
  BY <1>1, <1>3, RepliesKept
<1>6. InboxTyped'
  BY <1>1, <1>3, <1>4 DEF InboxTyped, store, network, replies
<1> QED
  BY <1>4, <1>5, <1>6

\* An error leaves the messages shown as they were.
LEMMA InboxReadFails == ASSUME WebInv, ReadFails PROVE WebInv'
<1> USE DEF WebInv
<1>1. PICK i \in 1..Len(reads) :
        /\ reads' = Others(i)
        /\ tangled' = (tangled \/ ~reads[i].overtaken)
        /\ UNCHANGED <<focus, thread, store, desk, network, replies>>
  BY DEF ReadFails
<1>2. ReadsFit' /\ reads' \in Seq(ReadRow) /\ tangled' \in BOOLEAN
  BY <1>1, ReadEnds
<1>3. RepliesInv'
  BY <1>1, RepliesKept
<1>4. InboxTyped'
  BY <1>1, <1>2 DEF InboxTyped, store, network, replies
<1> QED
  BY <1>2, <1>3, <1>4

-----------------------------------------------------------------------------
\* A request that opens changes neither the page nor the tables,
LEMMA InboxOpenThread == ASSUME WebInv, NEW t \in Threads, OpenThread(t) PROVE WebInv'
<1>1. UNCHANGED <<focus, store, desk, network, reading, replies>>
  BY DEF OpenThread
<1>2. ReadsFit'
  BY <1>1, ReadsKept DEF WebInv
<1>3. RepliesInv'
  BY <1>1, RepliesKept DEF WebInv
<1>4. InboxTyped'
  BY <1>1 DEF WebInv, InboxTyped, store, network, replies, reading
<1> QED
  BY <1>2, <1>3, <1>4 DEF WebInv

\* nor does one that is closed.
LEMMA InboxCloseThread == ASSUME WebInv, NEW t \in Threads, CloseThread(t) PROVE WebInv'
<1>1. UNCHANGED <<focus, store, desk, network, reading, replies>>
  BY DEF CloseThread
<1>2. ReadsFit'
  BY <1>1, ReadsKept DEF WebInv
<1>3. RepliesInv'
  BY <1>1, RepliesKept DEF WebInv
<1>4. InboxTyped'
  BY <1>1 DEF WebInv, InboxTyped, store, network, replies, reading
<1> QED
  BY <1>2, <1>3, <1>4 DEF WebInv

\* A page loaded anew has nothing selected, no read and no reply of its own.
LEMMA InboxReload == ASSUME WebInv, Reload PROVE WebInv'
<1> USE DEF WebInv
<1>1. PICK drawn, heard \in SUBSET Attempts : RepliesFit(drawn, heard)
  BY DEF RepliesInv
<1>2. desk' = NewDesk /\ NewDesk \in Desks
  BY DEF Reload, NewDesk, Desks
<1>3. ReadsFit'
  BY DEF Reload, ReadsFit, NewDesk
<1>4. Nobody \notin heard
  BY WebInboxAssumption DEF Attempts
<1>5. PageFits(drawn, heard)'
  BY <1>4 DEF Reload, NewDesk, PageFits
<1>6. KeysFit(drawn, heard)' /\ StoreFits(drawn, heard)'
  BY <1>1 DEF Reload, RepliesFit, KeysFit, StoreFits, Counts, Sendings, IsStored, IsPlain, store
<1>7. RepliesInv'
  BY <1>1, <1>5, <1>6 DEF RepliesInv, RepliesFit
<1>8. InboxTyped'
  BY <1>2, EmptySeq DEF Reload, InboxTyped, store
<1> QED
  BY <1>3, <1>7, <1>8

-----------------------------------------------------------------------------
\* A reply meant, or a late attempt at one, is one sending more.
LEMMA OneSent ==
  ASSUME wanted \in Counters, late \in Counters, NEW t \in Threads, NEW text \in Texts,
         \/ wanted' = [wanted EXCEPT ![t][text] = @ + 1] /\ late' = late
         \/ late' = [late EXCEPT ![t][text] = @ + 1] /\ wanted' = wanted
  PROVE  /\ wanted' \in Counters /\ late' \in Counters
         /\ Sendings \in Counters /\ Sendings' \in Counters
         /\ Sendings' = [Sendings EXCEPT ![t][text] = @ + 1]
<1>1. wanted' \in Counters /\ late' \in Counters
  <2>1. \A c \in Counters : [c EXCEPT ![t][text] = @ + 1] \in Counters
    BY DEF Counters
  <2> QED
    BY <2>1
<1>2. \A c, d \in Counters :
        [u \in Threads |-> [x \in Texts |-> c[u][x] + d[u][x]]] \in Counters
  BY DEF Counters
<1>3. Sendings \in Counters /\ Sendings' \in Counters
  BY <1>1, <1>2 DEF Sendings
<1>4. \A u \in Threads, x \in Texts :
        Sendings'[u][x] = IF u = t /\ x = text THEN Sendings[u][x] + 1 ELSE Sendings[u][x]
  <2>1. ASSUME NEW u \in Threads, NEW x \in Texts
        PROVE  /\ Sendings[u][x] = wanted[u][x] + late[u][x]
               /\ Sendings'[u][x] = wanted'[u][x] + late'[u][x]
    BY DEF Sendings
  <2>2. ASSUME NEW u \in Threads, NEW x \in Texts
        PROVE  /\ wanted[u][x] \in Nat /\ late[u][x] \in Nat
               /\ wanted'[u][x] + late'[u][x] =
                    IF u = t /\ x = text THEN wanted[u][x] + late[u][x] + 1
                    ELSE wanted[u][x] + late[u][x]
    <3>1. /\ wanted[u][x] \in Nat /\ late[u][x] \in Nat
          /\ wanted'[u][x] \in Nat /\ late'[u][x] \in Nat
      BY <1>1 DEF Counters
    <3>2. \A c \in Counters :
            [c EXCEPT ![t][text] = @ + 1][u][x] =
              IF u = t /\ x = text THEN c[u][x] + 1 ELSE c[u][x]
      BY DEF Counters
    <3>3. CASE wanted' = [wanted EXCEPT ![t][text] = @ + 1] /\ late' = late
      BY <3>1, <3>2, <3>3
    <3>4. CASE late' = [late EXCEPT ![t][text] = @ + 1] /\ wanted' = wanted
      BY <3>1, <3>2, <3>4
    <3> QED
      BY <3>3, <3>4
  <2> QED
    BY <2>1, <2>2
<1> QED
  BY <1>1, <1>3, <1>4 DEF Counters

\* A new key is greater than the keys drawn, and one that is sent again was drawn.
LEMMA InboxReply == ASSUME WebInv, NEW text \in Texts, Reply(text) PROVE WebInv'
<1> USE DEF WebInv
<1>1. PICK t : t = desk.selected
  OBVIOUS
<1>2. PICK a : a = Attempt(t, text)
  OBVIOUS
<1>3. /\ t # Nobody /\ exchange = Nobody
      /\ a.key <= MaxKeys /\ exchange' = a /\ wire' = wire \cup {a}
      /\ lastKey' = IF a.key > lastKey THEN a.key ELSE lastKey
      /\ owed' = [owed EXCEPT ![t][text] = TRUE]
      /\ UNCHANGED <<focus, thread, store, desk, reading, failedLast, saved>>
  BY <1>1, <1>2 DEF Reply
<1>0. \/ ~owed[t][text] /\ wanted' = [wanted EXCEPT ![t][text] = @ + 1] /\ late' = late
      \/ /\ owed[t][text] /\ ~Same(failedLast, t, text)
         /\ late' = [late EXCEPT ![t][text] = @ + 1] /\ wanted' = wanted
      \/ /\ owed[t][text] /\ Same(failedLast, t, text)
         /\ wanted' = wanted /\ late' = late
  BY <1>1 DEF Reply
<1>4. PICK drawn, heard \in SUBSET Attempts : RepliesFit(drawn, heard)
  BY DEF RepliesInv
<1>5. t \in Threads
  BY <1>1, <1>3 DEF InboxTyped, Desks
<1>6. /\ lastKey \in Nat /\ wanted \in Counters /\ late \in Counters
      /\ owed \in [Threads -> [Texts -> BOOLEAN]]
      /\ desk.failed \in Attempts \cup {Nobody}
  BY DEF InboxTyped, Desks
<1>11. /\ owed' \in [Threads -> [Texts -> BOOLEAN]] /\ owed'[t][text]
       /\ \A b \in Attempts : IsOwed(b) => IsOwed(b)'
  BY <1>3, <1>5, <1>6 DEF IsOwed, Attempts
<1>7. UNCHANGED <<completed, stored, desk, reads, tangled, failedLast, saved, focus>>
  BY <1>3 DEF store, reading
<1>8. StoreFits(drawn, heard)'
  BY <1>4, <1>7 DEF RepliesFit, StoreFits, IsStored, IsPlain
<1>9. CASE Same(desk.failed, t, text)
  <2>1. a = desk.failed /\ a # Nobody
    BY <1>2, <1>9 DEF Attempt, Same
  <2>2. a \in drawn /\ a \notin heard /\ failedLast = desk.failed /\ a \in Attempts
    BY <1>4, <1>6, <2>1 DEF RepliesFit, PageFits
  <2>3. a.key <= lastKey /\ a.key \in Nat
    BY <1>4, <2>2 DEF RepliesFit, KeysFit, Attempts
  <2>4. lastKey' = lastKey
    BY <1>3, <1>6, <2>3
  <2>5. wanted' = wanted /\ late' = late
    <3>1. owed[t][text]
      BY <1>4, <1>9, <2>1 DEF RepliesFit, PageFits, IsOwed, Same
    <3> QED
      BY <1>0, <1>9, <2>2, <3>1
  <2>6. KeysFit(drawn, heard)'
    BY <1>3, <1>4, <1>7, <2>2, <2>4, <2>5 DEF RepliesFit, KeysFit, Counts, Sendings
  <2>7. PageFits(drawn, heard)'
    <3>1. IsOwed(a)'
      BY <1>11, <2>2, <2>1, <1>4 DEF RepliesFit, PageFits
    <3> QED
      BY <1>3, <1>4, <1>7, <2>1, <2>2, <3>1 DEF RepliesFit, PageFits
  <2>8. RepliesInv'
    BY <1>8, <2>6, <2>7 DEF RepliesInv, RepliesFit
  <2>9. InboxTyped'
    BY <1>3, <1>6, <1>7, <1>11, <2>2, <2>4, <2>5 DEF InboxTyped
  <2> QED
    BY <1>7, <2>8, <2>9 DEF ReadsFit
<1>10. CASE ~Same(desk.failed, t, text)
  <2>1. a = [thread |-> t, text |-> text, key |-> lastKey + 1]
    BY <1>2, <1>10 DEF Attempt, NewAttempt
  <2>2. a.key = lastKey + 1 /\ a.thread = t /\ a.text = text /\ lastKey + 1 \in 1..MaxKeys
    BY <1>3, <1>6, <2>1, WebInboxAssumption
  <2>3. a \in Attempts
    BY <1>5, <2>1, <2>2 DEF Attempts
  <2>4. a \notin drawn
    BY <1>4, <1>6, <2>2 DEF RepliesFit, KeysFit
  <2>5. lastKey' = lastKey + 1
    BY <1>3, <1>6, <2>2
  <2>6. ~Same(failedLast, t, text)
    BY <1>4, <1>10 DEF RepliesFit, PageFits
  <2>7. wanted' \in Counters /\ late' \in Counters
        /\ Sendings \in Counters /\ Sendings' \in Counters
        /\ Sendings' = [Sendings EXCEPT ![a.thread][a.text] = @ + 1]
    BY <1>0, <1>5, <1>6, <2>2, <2>6, OneSent
  <2>9. IsFiniteSet(drawn \cup {a}) /\ Counts(Sendings', drawn \cup {a})
    <3>1. IsFiniteSet(drawn) /\ Counts(Sendings, drawn)
      BY <1>4 DEF RepliesFit, KeysFit
    <3> QED
      BY <2>3, <2>4, <2>7, <3>1, OneMore
  <2>10. KeysFit(drawn \cup {a}, heard)'
    <3>1. \A b \in drawn \cup {a} : b.key <= lastKey'
      <4>1. \A b \in drawn : b.key <= lastKey /\ b.key \in Nat
        BY <1>4 DEF RepliesFit, KeysFit, Attempts
      <4> QED
        BY <1>6, <2>2, <2>5, <4>1
    <3>2. /\ drawn \cup {a} \subseteq Attempts /\ wire' \subseteq drawn \cup {a}
          /\ heard \subseteq drawn \cup {a} /\ Counts(saved', heard)
      BY <1>3, <1>4, <1>7, <2>3 DEF RepliesFit, KeysFit
    <3> QED
      BY <2>9, <3>1, <3>2 DEF KeysFit, Counts
  <2>11. PageFits(drawn \cup {a}, heard)'
    <3>1. a \notin heard
      BY <1>4, <2>4 DEF RepliesFit, KeysFit
    <3>2. IsOwed(a)'
      BY <1>11, <2>2 DEF IsOwed
    <3>3. desk.failed # Nobody => IsOwed(desk.failed)'
      BY <1>4, <1>6, <1>7, <1>11 DEF RepliesFit, PageFits, IsOwed
    <3> QED
      BY <1>3, <1>4, <1>7, <3>1, <3>2, <3>3 DEF RepliesFit, PageFits
  <2>12. StoreFits(drawn \cup {a}, heard)'
    BY <1>8 DEF StoreFits
  <2>13. RepliesInv'
    <3>1. drawn \cup {a} \in SUBSET Attempts
      BY <2>3
    <3> QED
      BY <2>10, <2>11, <2>12, <3>1 DEF RepliesInv, RepliesFit
  <2>14. InboxTyped'
    BY <1>3, <1>6, <1>7, <1>11, <2>3, <2>5, <2>7 DEF InboxTyped
  <2> QED
    BY <1>7, <2>13, <2>14 DEF ReadsFit
<1> QED
  BY <1>9, <1>10

-----------------------------------------------------------------------------
\* The deliveries after a reply is handled, or not, when the process stops.
LEMMA StoredOnce ==
  ASSUME InboxTyped, NEW drawn, drawn \subseteq Attempts, NEW heard, NEW a \in drawn,
         StoreFits(drawn, heard), HandleReply(a) \/ stored' = stored
  PROVE  /\ stored' \in Seq(Attempts)
         /\ \A i \in 1..Len(stored') : stored'[i] \in drawn /\ IsPlain(stored'[i])
         /\ \A i, j \in 1..Len(stored') : stored'[i] = stored'[j] => i = j
         /\ \A b : IsStored(stored, b) => IsStored(stored', b)
         /\ HandleReply(a) /\ IsPlain(a) => IsStored(stored', a)
<1>1. stored \in Seq(Attempts) /\ a \in Attempts
  BY DEF InboxTyped
<1>2. /\ \A i, j \in 1..Len(stored) : stored[i] = stored[j] => i = j
      /\ \A i \in 1..Len(stored) : stored[i] \in drawn /\ IsPlain(stored[i])
  BY DEF StoreFits
<1>3. CASE stored' = stored /\ ~(HandleReply(a) /\ IsPlain(a))
  BY <1>1, <1>2, <1>3, Zenon
<1>4. CASE HandleReply(a) /\ IsPlain(a)
  <2>1. stored' = Store(a)
    BY <1>4 DEF HandleReply, IsPlain
  <2>2. /\ stored' \in Seq(Attempts)
        /\ \A i \in 1..Len(stored') : stored'[i] = a \/ IsStored(stored, stored'[i])
        /\ \A i, j \in 1..Len(stored') : stored'[i] = stored'[j] => i = j
        /\ IsStored(stored', a)
        /\ \A b : IsStored(stored, b) => IsStored(stored', b)
    BY <1>1, <1>2, <2>1, Stores
  <2>3. ASSUME NEW i \in 1..Len(stored')
        PROVE  stored'[i] \in drawn /\ IsPlain(stored'[i])
    BY <1>2, <1>4, <2>2 DEF IsStored
  <2> QED
    BY <2>2, <2>3
<1>5. HandleReply(a) /\ ~IsPlain(a) => stored' = stored
  BY DEF HandleReply, IsPlain
<1> QED
  BY <1>3, <1>4, <1>5

\* A reply that is served is stored once, whether it was stored before or not.
LEMMA ServedOnce ==
  ASSUME InboxTyped, NEW drawn, drawn \subseteq Attempts, NEW heard, NEW a \in drawn,
         StoreFits(drawn, heard), Serve(a)
  PROVE  /\ StoreFits(drawn, heard \cup {a})'
         /\ stored' \in Seq(Attempts) /\ completed' \subseteq Attempts
<1>1. stored \in Seq(Attempts) /\ a \in Attempts /\ completed \subseteq Attempts
  BY DEF InboxTyped
<1>2. CASE a \in completed
  <2>1. stored' = stored /\ completed' = completed
    BY <1>2 DEF Serve, store
  <2> QED
    BY <1>1, <1>2, <2>1 DEF StoreFits, IsStored, IsPlain
<1>3. CASE a \notin completed
  <2>1. HandleReply(a) /\ completed' = completed \cup {a}
    BY <1>3 DEF Serve
  <2>2. /\ stored' \in Seq(Attempts)
        /\ \A i \in 1..Len(stored') : stored'[i] \in drawn /\ IsPlain(stored'[i])
        /\ \A i, j \in 1..Len(stored') : stored'[i] = stored'[j] => i = j
        /\ \A b : IsStored(stored, b) => IsStored(stored', b)
        /\ IsPlain(a) => IsStored(stored', a)
    BY <2>1, StoredOnce
  <2>3. \A b \in completed \cup heard : IsPlain(b) => IsStored(stored, b)
    BY DEF StoreFits
  <2>4. \A b \in completed' \cup (heard \cup {a}) : IsPlain(b) => IsStored(stored', b)
    BY <2>1, <2>2, <2>3
  <2> QED
    BY <1>1, <2>1, <2>2, <2>4 DEF StoreFits, IsStored, IsPlain
<1> QED
  BY <1>2, <1>3

\* Fewer replies on the wire, and the page hears of none or of a failure.
LEMMA NotHeard ==
  ASSUME InboxTyped, NEW drawn \in SUBSET Attempts, NEW heard \in SUBSET Attempts,
         KeysFit(drawn, heard), PageFits(drawn, heard),
         wire' \subseteq wire, UNCHANGED <<lastKey, wanted, late>>,
         Unheard \/ (exchange # Nobody /\ ReplyFails(exchange))
  PROVE  /\ KeysFit(drawn, heard)' /\ PageFits(drawn, heard)'
         /\ wire' \subseteq Attempts /\ exchange' \in Attempts \cup {Nobody}
         /\ desk' \in Desks /\ saved' \in Counters
         /\ owed' \in [Threads -> [Texts -> BOOLEAN]]
         /\ desk'.shown = desk.shown /\ desk'.selected = desk.selected
<1>1. /\ saved' = saved /\ saved \in Counters /\ desk \in Desks
      /\ owed' = owed /\ owed \in [Threads -> [Texts -> BOOLEAN]]
  BY DEF Unheard, ReplyFails, InboxTyped
<1>2. KeysFit(drawn, heard)' /\ wire' \subseteq Attempts
  BY <1>1 DEF KeysFit, Counts, Sendings, InboxTyped
<1>3. CASE Unheard
  BY <1>1, <1>2, <1>3 DEF Unheard, PageFits, IsOwed, InboxTyped
<1>4. CASE exchange # Nobody /\ ReplyFails(exchange)
  <2>1. exchange \in Attempts /\ exchange \in drawn /\ exchange \notin heard
    BY <1>4 DEF InboxTyped, PageFits
  <2>2. exchange' = Nobody /\ desk' = [desk EXCEPT !.failed = exchange] /\ failedLast' = exchange
    BY <1>4 DEF ReplyFails
  <2>3. /\ desk' \in Desks /\ desk'.failed = exchange
        /\ desk'.shown = desk.shown /\ desk'.selected = desk.selected
    BY <1>1, <2>1, <2>2 DEF Desks
  <2>4. Nobody \notin heard
    BY WebInboxAssumption DEF Attempts
  <2>5. PageFits(drawn, heard)'
    BY <1>1, <1>4, <2>1, <2>2, <2>3, <2>4 DEF PageFits, IsOwed
  <2> QED
    BY <1>1, <1>2, <2>2, <2>3, <2>5
<1> QED
  BY <1>3, <1>4

\* Neither who is awaited nor which request is selected is a matter of reads.
LEMMA Assembled ==
  ASSUME WebInv, UNCHANGED <<focus, reading>>, lastKey' = lastKey, wanted' = wanted, late' = late,
         NEW drawn \in SUBSET Attempts, NEW heard \in SUBSET Attempts,
         KeysFit(drawn, heard)', PageFits(drawn, heard)', StoreFits(drawn, heard)',
         completed' \subseteq Attempts, stored' \in Seq(Attempts),
         wire' \subseteq Attempts, exchange' \in Attempts \cup {Nobody},
         desk' \in Desks, saved' \in Counters,
         owed' \in [Threads -> [Texts -> BOOLEAN]],
         desk'.shown = desk.shown, desk'.selected = desk.selected
  PROVE  WebInv'
<1>1. RepliesInv'
  BY DEF RepliesInv, RepliesFit
<1>2. ReadsFit'
  BY ReadsKept DEF WebInv
<1>3. InboxTyped'
  BY DEF WebInv, InboxTyped, reading
<1> QED
  BY <1>1, <1>2, <1>3 DEF WebInv

\* Whom the page awaits was drawn and not heard of; now it may be heard of.
LEMMA InboxReplyServed == ASSUME WebInv, NEW a \in wire, ReplyServed(a) PROVE WebInv'
<1>1. PICK drawn, heard \in SUBSET Attempts : RepliesFit(drawn, heard)
  BY DEF WebInv, RepliesInv
<1>2. InboxTyped /\ KeysFit(drawn, heard) /\ PageFits(drawn, heard) /\ StoreFits(drawn, heard)
  BY <1>1 DEF WebInv, RepliesFit
<1>3. /\ wire' = wire \ {a} /\ Serve(a)
      /\ IF exchange = a THEN Saved(a) \/ ReplyFails(a) ELSE Unheard
      /\ UNCHANGED <<focus, reading, lastKey, wanted, late>>
  BY DEF ReplyServed
<1>4. a \in drawn /\ a \in Attempts /\ a # Nobody
  BY <1>2, WebInboxAssumption DEF KeysFit, Attempts
<1>5. /\ StoreFits(drawn, heard \cup {a})'
      /\ stored' \in Seq(Attempts) /\ completed' \subseteq Attempts
  BY <1>2, <1>3, <1>4, ServedOnce
<1>6. CASE exchange = a /\ Saved(a)
  <2>1. /\ exchange' = Nobody /\ desk' = [desk EXCEPT !.failed = Nobody] /\ failedLast' = Nobody
        /\ saved' = [saved EXCEPT ![a.thread][a.text] = @ + 1]
        /\ owed' = [owed EXCEPT ![a.thread][a.text] = FALSE]
    BY <1>6 DEF Saved
  <2>2. /\ a \notin heard /\ desk \in Desks /\ saved \in Counters
        /\ owed \in [Threads -> [Texts -> BOOLEAN]]
    BY <1>2, <1>6 DEF PageFits, InboxTyped
  <2>3. /\ desk' \in Desks /\ desk'.failed = Nobody
        /\ desk'.shown = desk.shown /\ desk'.selected = desk.selected
    BY <2>1, <2>2 DEF Desks
  <2>4. saved' \in Counters /\ owed' \in [Threads -> [Texts -> BOOLEAN]]
    BY <1>4, <2>1, <2>2 DEF Counters, Attempts
  <2>5. IsFiniteSet(heard) /\ Counts(saved, heard) /\ heard \subseteq drawn
    BY <1>2, FS_Subset DEF KeysFit
  <2>6. Counts(saved', heard \cup {a})
    BY <1>4, <2>1, <2>2, <2>4, <2>5, OneMore
  <2>7. KeysFit(drawn, heard \cup {a})'
    BY <1>2, <1>3, <1>4, <2>6 DEF KeysFit, Counts, Sendings
  <2>8. Nobody \notin heard \cup {a}
    BY <1>4, WebInboxAssumption DEF Attempts
  <2>9. PageFits(drawn, heard \cup {a})'
    BY <2>1, <2>3, <2>8 DEF PageFits
  <2>10. wire' \subseteq Attempts /\ exchange' \in Attempts \cup {Nobody}
    BY <1>2, <1>3, <2>1 DEF InboxTyped
  <2>11. heard \cup {a} \in SUBSET Attempts
    BY <1>4
  <2> QED
    BY <1>3, <1>5, <2>3, <2>4, <2>7, <2>9, <2>10, <2>11, Assembled
<1>7. CASE Unheard \/ (exchange # Nobody /\ ReplyFails(exchange))
  <2>1. /\ KeysFit(drawn, heard)' /\ PageFits(drawn, heard)'
        /\ wire' \subseteq Attempts /\ exchange' \in Attempts \cup {Nobody}
        /\ desk' \in Desks /\ saved' \in Counters
        /\ owed' \in [Threads -> [Texts -> BOOLEAN]]
        /\ desk'.shown = desk.shown /\ desk'.selected = desk.selected
    <3>1. wire' \subseteq wire
      BY <1>3
    <3> QED
      BY <1>2, <1>3, <1>7, <3>1, NotHeard
  <2>2. StoreFits(drawn, heard)'
    BY <1>5 DEF StoreFits
  <2> QED
    BY <1>3, <1>5, <2>1, <2>2, Assembled
<1> QED
  BY <1>3, <1>4, <1>6, <1>7

\* A reply that is refused or lost leaves the tables as they are,
LEMMA InboxReplyRefused == ASSUME WebInv, NEW a \in wire, ReplyRefused(a) PROVE WebInv'
<1>1. PICK drawn, heard \in SUBSET Attempts : RepliesFit(drawn, heard)
  BY DEF WebInv, RepliesInv
<1>2. InboxTyped /\ KeysFit(drawn, heard) /\ PageFits(drawn, heard) /\ StoreFits(drawn, heard)
  BY <1>1 DEF WebInv, RepliesFit
<1>3. a # Nobody
  BY <1>2, WebInboxAssumption DEF InboxTyped, Attempts
<1>4. /\ wire' \subseteq wire /\ (Unheard \/ (exchange # Nobody /\ ReplyFails(exchange)))
      /\ UNCHANGED <<focus, reading, lastKey, wanted, late, completed, stored>>
  BY <1>3 DEF ReplyRefused, store
<1>5. /\ KeysFit(drawn, heard)' /\ PageFits(drawn, heard)'
      /\ wire' \subseteq Attempts /\ exchange' \in Attempts \cup {Nobody}
      /\ desk' \in Desks /\ saved' \in Counters
      /\ owed' \in [Threads -> [Texts -> BOOLEAN]]
      /\ desk'.shown = desk.shown /\ desk'.selected = desk.selected
  BY <1>2, <1>4, NotHeard
<1>6. StoreFits(drawn, heard)' /\ completed' \subseteq Attempts /\ stored' \in Seq(Attempts)
  BY <1>2, <1>4 DEF StoreFits, IsStored, IsPlain, InboxTyped
<1> QED
  BY <1>4, <1>5, <1>6, Assembled

\* as does one that is given up, which may still be served.
LEMMA InboxAnswerGivenUp == ASSUME WebInv, AnswerGivenUp PROVE WebInv'
<1>1. PICK drawn, heard \in SUBSET Attempts : RepliesFit(drawn, heard)
  BY DEF WebInv, RepliesInv
<1>2. InboxTyped /\ KeysFit(drawn, heard) /\ PageFits(drawn, heard) /\ StoreFits(drawn, heard)
  BY <1>1 DEF WebInv, RepliesFit
<1>4. /\ wire' \subseteq wire /\ (exchange # Nobody /\ ReplyFails(exchange))
      /\ UNCHANGED <<focus, reading, lastKey, wanted, late, completed, stored>>
  BY DEF AnswerGivenUp, store
<1>5. /\ KeysFit(drawn, heard)' /\ PageFits(drawn, heard)'
      /\ wire' \subseteq Attempts /\ exchange' \in Attempts \cup {Nobody}
      /\ desk' \in Desks /\ saved' \in Counters
      /\ owed' \in [Threads -> [Texts -> BOOLEAN]]
      /\ desk'.shown = desk.shown /\ desk'.selected = desk.selected
  BY <1>2, <1>4, NotHeard
<1>6. StoreFits(drawn, heard)' /\ completed' \subseteq Attempts /\ stored' \in Seq(Attempts)
  BY <1>2, <1>4 DEF StoreFits, IsStored, IsPlain, InboxTyped
<1> QED
  BY <1>4, <1>5, <1>6, Assembled

\* A stop leaves the claim of a reply that may be stored.
LEMMA InboxStops == ASSUME WebInv, NEW a \in wire, StopsWhileServing(a) PROVE WebInv'
<1>1. PICK drawn, heard \in SUBSET Attempts : RepliesFit(drawn, heard)
  BY DEF WebInv, RepliesInv
<1>2. InboxTyped /\ KeysFit(drawn, heard) /\ PageFits(drawn, heard) /\ StoreFits(drawn, heard)
  BY <1>1 DEF WebInv, RepliesFit
<1>3. a \in drawn
  BY <1>2 DEF KeysFit
<1>4. /\ wire' \subseteq wire /\ (Unheard \/ (exchange # Nobody /\ ReplyFails(exchange)))
      /\ UNCHANGED <<focus, reading, lastKey, wanted, late, completed>>
      /\ HandleReply(a) \/ stored' = stored
  BY DEF StopsWhileServing
<1>5. /\ KeysFit(drawn, heard)' /\ PageFits(drawn, heard)'
      /\ wire' \subseteq Attempts /\ exchange' \in Attempts \cup {Nobody}
      /\ desk' \in Desks /\ saved' \in Counters
      /\ owed' \in [Threads -> [Texts -> BOOLEAN]]
      /\ desk'.shown = desk.shown /\ desk'.selected = desk.selected
  BY <1>2, <1>4, NotHeard
<1>6. StoreFits(drawn, heard)' /\ stored' \in Seq(Attempts)
  <2>1. /\ stored' \in Seq(Attempts)
        /\ \A i \in 1..Len(stored') : stored'[i] \in drawn /\ IsPlain(stored'[i])
        /\ \A i, j \in 1..Len(stored') : stored'[i] = stored'[j] => i = j
        /\ \A b : IsStored(stored, b) => IsStored(stored', b)
    <3>1. drawn \subseteq Attempts
      OBVIOUS
    <3> QED
      BY <1>2, <1>3, <1>4, <3>1, StoredOnce
  <2>2. \A b \in completed' \cup heard : IsPlain(b) => IsStored(stored', b)
    BY <1>2, <1>4, <2>1 DEF StoreFits
  <2> QED
    BY <2>1, <2>2 DEF StoreFits, IsStored, IsPlain
<1>7. completed' \subseteq Attempts
  BY <1>2, <1>4 DEF InboxTyped
<1> QED
  BY <1>4, <1>5, <1>6, <1>7, Assembled

\* A step of another part leaves the inbox alone.
LEMMA InboxUnchanged == ASSUME WebInv, UNCHANGED inboxVars PROVE WebInv'
<1>1. UNCHANGED <<focus, store, desk, network, reading, replies>>
  BY DEF inboxVars
<1>2. ReadsFit'
  BY <1>1, ReadsKept DEF WebInv
<1>3. RepliesInv'
  BY <1>1, RepliesKept DEF WebInv
<1>4. InboxTyped'
  BY <1>1 DEF WebInv, InboxTyped, store, network, replies, reading
<1> QED
  BY <1>2, <1>3, <1>4 DEF WebInv

\* Every step of the inbox keeps its invariant.
LEMMA InboxStep == ASSUME WebInv, [InboxNext]_inboxVars PROVE WebInv'
<1>1. CASE Refresh
  BY <1>1, InboxRefresh
<1>2. CASE MessagesRead
  BY <1>2, InboxMessagesRead
<1>3. CASE ReadFails
  BY <1>3, InboxReadFails
<1>4. CASE AnswerGivenUp
  BY <1>4, InboxAnswerGivenUp
<1>5. CASE Reload
  BY <1>5, InboxReload
<1>6. CASE \E t \in Threads : SelectThread(t) \/ OpenThread(t) \/ CloseThread(t)
  BY <1>6, InboxSelectThread, InboxOpenThread, InboxCloseThread
<1>7. CASE \E text \in Texts : Reply(text)
  BY <1>7, InboxReply
<1>8. CASE \E a \in wire : ReplyServed(a) \/ ReplyRefused(a) \/ StopsWhileServing(a)
  BY <1>8, InboxReplyServed, InboxReplyRefused, InboxStops
<1>9. CASE UNCHANGED inboxVars
  BY <1>9, InboxUnchanged
<1> QED
  BY <1>1, <1>2, <1>3, <1>4, <1>5, <1>6, <1>7, <1>8, <1>9 DEF InboxNext

(***************************************************************************)
(* Service: the parts side by side.                                        *)
(***************************************************************************)
-----------------------------------------------------------------------------
ServiceInv ==
  ContentInv /\ ControlInv /\ OperationsInv /\ ApiInv /\ MenuInv /\ WebInv

\* The parts' invariants hold when the service starts.
LEMMA ServiceInit_Inv == Init => ServiceInv
BY ContentInit_Inv, ControlInit_Inv, OperationsInit_Inv, ApiInit_Inv, MenuInit_Inv,
   InboxInit_Inv
   DEF Init, ServiceInv

\* Each part does a step of its own or none.
LEMMA PartsStep ==
  ASSUME [Next]_vars
  PROVE  /\ [ContentNext \/ RestartContent]_contentVars
         /\ [ControlNext \/ RestartControl]_controlVars
         /\ [OperationsNext]_operationsVars
         /\ [ApiNext]_apiVars
         /\ [MenuNext]_menuVars
         /\ [InboxNext]_inboxVars
<1>1. CASE UNCHANGED vars
  BY <1>1 DEF vars
<1>2. CASE Next
  BY <1>2 DEF Next
<1> QED
  BY <1>1, <1>2

\* Every step of the service keeps them, and content changes only as its component does.
LEMMA ServiceStep ==
  ASSUME ServiceInv, [Next]_vars
  PROVE  ServiceInv' /\ [SeenOrLoaded]_contentVars
<1>1. ContentInv' /\ SeenOrLoaded
  BY PartsStep, ContentStep DEF ServiceInv
<1>2. ControlInv' /\ OperationsInv' /\ ApiInv'
  BY PartsStep, ControlStep, OperationsStep, ApiStep DEF ServiceInv
<1>3. MenuInv' /\ WebInv'
  BY PartsStep, MenuStep, InboxStep DEF ServiceInv
<1> QED
  BY <1>1, <1>2, <1>3 DEF ServiceInv

\* The parts' invariants hold in every reachable state of the service.
LEMMA ServiceInvariant == Spec => []ServiceInv
<1>1. ServiceInv /\ [Next]_vars => ServiceInv'
  BY ServiceStep
<1> QED
  BY ServiceInit_Inv, <1>1, PTL DEF Spec

-----------------------------------------------------------------------------
\* What a restart brings back is what was answered with success: the document
\* clients are shown and the pauses (FileContentSettingsStore, ServiceControl-
\* Service), for any number of orders and jobs in progress.
THEOREM RestartKeepsStateHolds == Spec => []RestartKeepsState
<1>1. ServiceInv => RestartKeepsState
  BY ContentInv_Kept, ControlInv_Kept DEF ServiceInv, RestartKeepsState
<1> QED
  BY ServiceInvariant, <1>1, PTL

\* Clients are never shown a text that replaced one its author had not seen
\* (assertVersion and the versions tabs keep with their drafts).
THEOREM NothingOverwrittenUnseenHolds == Spec => NothingOverwrittenUnseen
<1>1. ServiceInv /\ [Next]_vars => [SeenOrLoaded]_contentVars
  BY ServiceStep
<1> QED
  BY ServiceInvariant, <1>1, PTL DEF Spec, NothingOverwrittenUnseen, SeenOrLoaded

\* No tab loses what its user typed unless he agreed (the shell's guard and the
\* recovered drafts), whatever expires, breaks or is answered late.
THEOREM DraftIsKeptHolds == Spec => []DraftIsKept
<1>1. ServiceInv => DraftIsKept
  BY ContentInv_Kept DEF ServiceInv
<1> QED
  BY ServiceInvariant, <1>1, PTL

\* The service that answers /ready with 200 has live pollers and a live worker
\* (operationsAreReady over what the monitors were told).
THEOREM ReadyMeansAliveHolds == Spec => []ReadyMeansAlive
<1>1. ServiceInv => ReadyMeansAlive
  BY OperationsInv_Ready DEF ServiceInv
<1> QED
  BY ServiceInvariant, <1>1, PTL

\* The availability monitor knows whether the owner was told of this outage.
THEOREM OutageIsAlertedHolds == Spec => []OutageIsAlerted
<1>1. ServiceInv => OutageIsAlerted
  BY DEF ServiceInv, OperationsInv, MonitorInv
<1> QED
  BY ServiceInvariant, <1>1, PTL

\* Whoever repeats what the clients of Telegram and VK report as failed does
\* nothing twice, however often he tries and whatever arrives late.
THEOREM FailedMeansUndoneHolds == Spec => []FailedMeansUndone
<1>1. ServiceInv => FailedMeansUndone
  BY ApiInv_Undone DEF ServiceInv
<1> QED
  BY ServiceInvariant, <1>1, PTL

\* A button a client has before him is answered by the menu, and never reaches
\* the operators as a message, as long as its section is in the information
\* (the menus of Telegram and VK, whatever is edited between two messages).
THEOREM ButtonsKeepWorkingHolds == Spec => []ButtonsKeepWorking
<1>1. ServiceInv => ButtonsKeepWorking
  BY DEF ServiceInv, MenuInv, ButtonsKeepWorking
<1> QED
  BY ServiceInvariant, <1>1, PTL

\* A reply is stored as often as the page of the web inbox was told so and no
\* more often than the operator meant it, and the messages shown are those of
\* the request answered, for any number of keys and reads (the page's attempts,
\* handoffEventId and the delivery keys of OperatorInboxService).
THEOREM DeskIsHonestHolds == Spec => []DeskIsHonest
<1>1. ServiceInv => DeskIsHonest
  BY WebInv_Honest DEF ServiceInv
<1> QED
  BY ServiceInvariant, <1>1, PTL
=============================================================================
