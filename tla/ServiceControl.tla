---------------------------- MODULE ServiceControl ----------------------------
(***************************************************************************)
(* Pausing and resuming: ServiceControlService carries out the orders of   *)
(* several administrators one at a time, each on the state the one before  *)
(* left, and keeps the state in a file.                                    *)
(*                                                                         *)
(* DeliveryQueue, VkInbox and Operations take the modes as changing at any *)
(* time; here is how they change and what a restart makes of them.         *)
(* Definitions marked "slip" are wrong variants of the definition that     *)
(* follows them; no specification uses them.                               *)
(***************************************************************************)
EXTENDS Naturals, Sequences

CONSTANT MaxOrders  \* bound: orders in progress at once

ASSUME ServiceControlAssumption == MaxOrders \in Nat

Fields == {"telegram", "vk", "delivery"}
Modes == {"active", "paused"}

VARIABLES
  controlFile,  \* the modes in the file
  control,      \* the modes in memory, which the pollers and the worker obey
  orders,       \* the service's queue, the first of it being carried out
  ordered,      \* history: the mode each field was given by the last answered order
  doubtful      \* history: fields whose last order was not answered with success

controlVars == <<controlFile, control, orders, ordered, doubtful>>

AllActive == [f \in Fields |-> "active"]

\* An administrator asks for a mode.
PlaceOrder(f, m) ==
  /\ Len(orders) < MaxOrders
  /\ orders' = Append(orders, [field |-> f, mode |-> m, pc |-> "queued",
                               next |-> AllActive])
  /\ UNCHANGED <<controlFile, control, ordered, doubtful>>

\* slip: the other fields are not carried over.
ChangeAlone(o) == [AllActive EXCEPT ![o.field] = o.mode]

\* The state an order leads to, from the present one.
Change(o) == [control EXCEPT ![o.field] = o.mode]

\* The first order up to the end of the write: the new file is in its place.
WriteControl ==
  /\ orders # <<>> /\ orders[1].pc = "queued"
  /\ controlFile' = Change(orders[1])
  /\ orders' = [orders EXCEPT ![1].pc = "written", ![1].next = controlFile']
  /\ UNCHANGED <<control, ordered, doubtful>>

\* The file cannot be written.
OrderFails ==
  /\ orders # <<>> /\ orders[1].pc = "queued"
  /\ orders' = Tail(orders)
  /\ UNCHANGED <<controlFile, control, ordered, doubtful>>

OrderDone ==
  /\ orders # <<>> /\ orders[1].pc = "written"
  /\ control' = orders[1].next
  /\ ordered' = [ordered EXCEPT ![orders[1].field] = orders[1].mode]
  /\ doubtful' = doubtful \ {orders[1].field}
  /\ orders' = Tail(orders)
  /\ UNCHANGED controlFile

\* chmod fails after the file was replaced: memory keeps the old state.
OrderFailsLate ==
  /\ orders # <<>> /\ orders[1].pc = "written"
  /\ doubtful' = doubtful \cup {orders[1].field}
  /\ orders' = Tail(orders)
  /\ UNCHANGED <<controlFile, control, ordered>>

\* The file's state is loaded; the service does not start without reading it.
RestartControl ==
  /\ control' = controlFile
  /\ doubtful' = doubtful \cup
       {orders[i].field : i \in {j \in DOMAIN orders : orders[j].pc = "written"}}
  /\ orders' = <<>>
  /\ UNCHANGED <<controlFile, ordered>>

ControlInit ==
  /\ controlFile = AllActive /\ control = AllActive
  /\ orders = <<>>
  /\ ordered = AllActive /\ doubtful = {}

ControlNext ==
  \/ \E f \in Fields, m \in Modes : PlaceOrder(f, m)
  \/ WriteControl \/ OrderFails \/ OrderDone \/ OrderFailsLate

-----------------------------------------------------------------------------
\* "Restores a paused channel after a service restart": a field stands as the
\* last answered order put it, in memory and in the file, whatever other fields
\* were changed since and however often the service was restarted.
OrdersAreKept ==
  \A f \in Fields \ doubtful :
    /\ control[f] = ordered[f]
    /\ \/ controlFile[f] = ordered[f]
       \/ orders # <<>> /\ orders[1].pc = "written" /\ orders[1].field = f
=============================================================================
