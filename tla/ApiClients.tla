------------------------------ MODULE ApiClients ------------------------------
(***************************************************************************)
(* One job done through TelegramApiClient or VkApiClient: a message to be  *)
(* sent, a topic to be created, reopened or closed.  The exchange may fail *)
(* anywhere, a request may be served after it was given up, and the caller *)
(* tries again as often as he is told that nothing was done.               *)
(*                                                                         *)
(* DeliveryQueue and Handoff take from here that a failure which is not    *)
(* reported as an unknown outcome may be tried again.  What Telegram and   *)
(* VK do is external: Telegram answers ok = false only when it has not     *)
(* acted, VK acts once on a random_id and repeats its answer.  Definitions *)
(* marked "slip" are wrong variants of the definition that follows them;   *)
(* no specification uses them.                                             *)
(***************************************************************************)
EXTENDS Naturals

CONSTANT MaxAttempts  \* bound: attempts of the caller

ASSUME ApiClientsAssumption == MaxAttempts \in Nat \ {0}

Methods == {"sendMessage", "createForumTopic", "reopenForumTopic",
            "closeForumTopic", "messages.send"}

Bodies == {"invalid JSON", "an invalid response", "an invalid result"}

VARIABLES
  method,        \* what is to be done
  wantsKeyboard, \* whether the caller wants a keyboard with it
  attempt,       \* the caller's attempts so far
  call,          \* the request whose answer is awaited
  result,        \* what the caller was told last
  onItsWay,      \* requests the messenger has not seen
  seen,          \* random_ids VK has acted on
  effects        \* history: how often the messenger has acted

exchanges == <<attempt, call, result>>
apiVars == <<method, wantsKeyboard, exchanges, onItsWay, seen, effects>>

Vk == method = "messages.send"

-----------------------------------------------------------------------------
(* What the clients make of an answer.                                     *)

\* slip: a message can be sent again.
OnlyTopicsAreUncertain(m) == m \in {"createForumTopic", "reopenForumTopic"}

\* To close a topic twice does no harm.
HasUncertainSideEffect(m) == m \in {"createForumTopic", "reopenForumTopic", "sendMessage"}

\* A request without an answer, and responseValidationError: only Telegram's
\* client tells an unknown outcome from a failure.
Unanswered == IF HasUncertainSideEffect(method) THEN "unknown" ELSE "failed"

\* slip: a body that cannot be read is taken for a refusal.
InvalidIsFailed(answer) == "failed"

InvalidResult(answer) == Unanswered

Outcome(answer) ==
  CASE answer = "result" -> "ok"
    [] answer = "refusal" -> "failed"
    [] answer = "nothing" -> Unanswered
    [] answer \in Bodies -> InvalidResult(answer)

\* slip: each attempt has a random_id of its own.
RandomIdOfAttempt == attempt + 1

\* createVkRandomId: the id of the delivery or of the event, whatever the attempt.
RandomId == 1

-----------------------------------------------------------------------------
(* The caller and the clients.                                             *)

NoCall == [attempt |-> 0, id |-> 0, keyboard |-> FALSE]
Awaiting == call # NoCall

Sends(request) == call' = request /\ onItsWay' = onItsWay \cup {request}

\* The job is begun, or tried again after a failure that is not unknown.
Try ==
  /\ ~Awaiting /\ result \in {"none", "failed"} /\ attempt < MaxAttempts
  /\ Sends([attempt |-> attempt + 1, id |-> RandomId, keyboard |-> wantsKeyboard])
  /\ attempt' = attempt + 1
  /\ UNCHANGED <<method, wantsKeyboard, result, seen, effects>>

Tell(outcome) == call' = NoCall /\ result' = outcome

Answered(answer) ==
  /\ Tell(Outcome(answer))
  /\ UNCHANGED <<method, wantsKeyboard, attempt>>

\* fetch or the reading of the body throws; what was sent may still arrive.
ConnectionBreaks ==
  /\ Awaiting
  /\ Answered("nothing")
  /\ UNCHANGED <<onItsWay, seen, effects>>

\* sendMessage's catch clause: VK does not know keyboards here.
SendWithoutKeyboard ==
  /\ call \in onItsWay /\ call.keyboard
  /\ LET again == [call EXCEPT !.keyboard = FALSE] IN
       /\ call' = again
       /\ onItsWay' = (onItsWay \ {call}) \cup {again}
  /\ UNCHANGED <<method, wantsKeyboard, attempt, result, seen, effects>>

-----------------------------------------------------------------------------
(* The messengers.                                                         *)

\* The answer reaches the client whole, damaged or not at all.
Answer(request, answers) ==
  IF request = call THEN \E answer \in answers : Answered(answer)
  ELSE UNCHANGED <<method, wantsKeyboard, exchanges>>

Acts(request) ==
  /\ onItsWay' = onItsWay \ {request}
  /\ seen' = seen \cup {request.id}
  /\ effects' = IF Vk /\ request.id \in seen THEN effects ELSE effects + 1
  /\ Answer(request, {"result", "nothing"} \cup Bodies)

Refuses(request) ==
  /\ onItsWay' = onItsWay \ {request}
  /\ Answer(request, {"refusal", "nothing", "invalid JSON", "an invalid response"})
  /\ UNCHANGED <<seen, effects>>

\* A request that was given up is lost.
IsLost(request) ==
  /\ request # call
  /\ onItsWay' = onItsWay \ {request}
  /\ UNCHANGED <<method, wantsKeyboard, exchanges, seen, effects>>

NextJob ==
  /\ ~Awaiting /\ onItsWay = {}
  /\ result \in {"ok", "unknown"} \/ attempt = MaxAttempts
  /\ method' \in Methods
  /\ wantsKeyboard' \in IF method' = "messages.send" THEN BOOLEAN ELSE {FALSE}
  /\ attempt' = 0 /\ result' = "none"
  /\ seen' = {} /\ effects' = 0
  /\ UNCHANGED <<call, onItsWay>>

ApiInit ==
  /\ method \in Methods
  /\ wantsKeyboard \in IF Vk THEN BOOLEAN ELSE {FALSE}
  /\ attempt = 0 /\ call = NoCall /\ result = "none"
  /\ onItsWay = {} /\ seen = {} /\ effects = 0

ApiNext ==
  \/ NextJob \/ Try \/ ConnectionBreaks \/ SendWithoutKeyboard
  \/ \E request \in onItsWay : Acts(request) \/ Refuses(request) \/ IsLost(request)

-----------------------------------------------------------------------------
\* Who tries again what "failed" does nothing twice, but to close a topic; and
\* Telegram's client says "failed" only of what was not done.  A success is one.
FailedMeansUndone ==
  /\ method # "closeForumTopic" => effects <= 1
  /\ method \notin {"closeForumTopic", "messages.send"} /\ result = "failed"
       => effects = 0
  /\ result = "ok" => effects >= 1
=============================================================================
