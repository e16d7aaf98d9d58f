------------------------------ MODULE MCHandoff ------------------------------
(* Small instances of Handoff for TLC.                                     *)
EXTENDS Handoff

CONSTANTS t1, v1

Tg == {t1}
Vk == {v1}

From(c) == [m \in Messages |-> c]
Takes(k) == [m \in Messages |-> k]

\* A VK client and operators who close and reopen.
Reopening ==
  [sender |-> From(v1), chunks |-> Takes(1), messages |-> 2, commands |-> 2,
   inputs |-> {"/close", "/reopen", "topicReopened"}]

\* A message of two parts, a crash and the request closed meanwhile.
TwoParts ==
  [sender |-> From(v1), chunks |-> Takes(2), messages |-> 1, commands |-> 1,
   inputs |-> {"/close", "topicClosed", "crash"}]

\* Two clients and an operator who replies.
TwoClients ==
  [sender |-> [m \in Messages |-> IF m = 1 THEN t1 ELSE v1], chunks |-> Takes(1),
   messages |-> 2, commands |-> 1, inputs |-> {"reply", "newQuestion"}]

\* A Telegram client while the channel is disconnected or the process stops.
Interrupted ==
  [sender |-> From(t1), chunks |-> Takes(1), messages |-> 2, commands |-> 1,
   inputs |-> {"topicClosed", "crash", "disconnect"}]

\* One message of one part, closed on the web.
ClosedOnTheWeb ==
  [sender |-> From(v1), chunks |-> Takes(1), messages |-> 1, commands |-> 0,
   inputs |-> {"/close"}]

Operators == {Reopening, TwoParts, TwoClients}
Interruptions == {Interrupted}
OnlyReopening == {Reopening}
OnlyClosedOnTheWeb == {ClosedOnTheWeb}
=============================================================================
