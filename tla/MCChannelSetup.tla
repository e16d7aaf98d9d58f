---------------------------- MODULE MCChannelSetup ----------------------------
(* A small instance of ChannelSetup for TLC.                               *)
EXTENDS ChannelSetup

CONSTANTS r1, r2, p1, p2

TwoRequests == {r1, r2}
TwoPollers == {p1, p2}
=============================================================================
