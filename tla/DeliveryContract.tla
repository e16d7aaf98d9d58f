-------------------------- MODULE DeliveryContract --------------------------
(***************************************************************************)
(* What the outbound queue promises for every operator reply, without the  *)
(* worker, the rows or the channels that keep the promise.                 *)
(*                                                                         *)
(*   - A client sees one copy of a reply, and one more only for each time  *)
(*     an operator vouched that an uncertain attempt was not received.     *)
(*   - A reply counts as delivered only when the client has a copy, or an  *)
(*     operator vouched that it has.                                       *)
(*   - A reply leaves "failed" and "unsure" only by an operator's hand.    *)
(***************************************************************************)
EXTENDS Naturals

CONSTANT Deliveries   \* the replies that may be queued

VARIABLES phase,      \* where each reply stands
          copies,     \* copies of the reply the client has received
          waivers     \* times an operator declared it "not received"

vars == <<phase, copies, waivers>>

Phases == {"unborn", "queued", "delivered", "failed", "unsure"}

Init ==
  /\ phase = [d \in Deliveries |-> "unborn"]
  /\ copies = [d \in Deliveries |-> 0]
  /\ waivers = [d \in Deliveries |-> 0]

Move(d, from, to) ==
  /\ phase[d] = from
  /\ phase' = [phase EXCEPT ![d] = to]

Submit(d) == Move(d, "unborn", "queued") /\ UNCHANGED <<copies, waivers>>

\* A copy reaches the client, now or long after the attempt that sent it.
Reach(d) ==
  /\ phase[d] # "unborn"
  /\ copies[d] <= waivers[d]
  /\ copies' = [copies EXCEPT ![d] = @ + 1]
  /\ UNCHANGED <<phase, waivers>>

Deliver(d) ==
  /\ copies[d] > 0
  /\ Move(d, "queued", "delivered")
  /\ UNCHANGED <<copies, waivers>>

GiveUp(d) ==
  /\ \/ Move(d, "queued", "failed")
     \/ Move(d, "queued", "unsure")
  /\ UNCHANGED <<copies, waivers>>

\* The operator's three remedies.
Retry(d) == Move(d, "failed", "queued") /\ UNCHANGED <<copies, waivers>>

VouchReceived(d) ==
  Move(d, "unsure", "delivered") /\ UNCHANGED <<copies, waivers>>

VouchNotReceived(d) ==
  /\ Move(d, "unsure", "queued")
  /\ waivers' = [waivers EXCEPT ![d] = @ + 1]
  /\ UNCHANGED copies

Next ==
  \E d \in Deliveries :
    \/ Submit(d) \/ Reach(d) \/ Deliver(d) \/ GiveUp(d)
    \/ Retry(d) \/ VouchReceived(d) \/ VouchNotReceived(d)

Spec == Init /\ [][Next]_vars
=============================================================================
