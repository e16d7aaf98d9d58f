------------------------------ MODULE MCVkInbox ------------------------------
(* Small instances of VkInbox for TLC.                                     *)
EXTENDS VkInbox, TLC

CONSTANTS alice, p1, p2

TwoMessages == [e \in Events |-> "message"]
OneClient == [e \in Events |-> alice]
AnsweredByBot == <<"attachment", "menu", "other">>
OnePoller == {p1}
TwoPollers == {p1, p2}
AnyPoller == Permutations(TwoPollers)
=============================================================================
