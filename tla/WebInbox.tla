------------------------------- MODULE WebInbox -------------------------------
(***************************************************************************)
(* The web inbox as an operator uses it: the page that lists the requests  *)
(* held on the web, shows the messages of one and sends replies, and the   *)
(* routes and OperatorInboxService behind it.                              *)
(*                                                                         *)
(* An answer may be lost, a request may be served after the page has given *)
(* it up, and the process may stop between the statements that serve a     *)
(* reply.  What Handoff makes of a reply is taken from there: an event is  *)
(* handled once, its delivery stored under a key of its own.               *)
(*                                                                         *)
(* Replies and reads of messages share only the selection: a behaviour has *)
(* one or the other, whichever focus says.  Definitions marked "slip" are  *)
(* wrong variants of the definition that follows them; no specification    *)
(* uses them.                                                              *)
(***************************************************************************)
EXTENDS Naturals, Sequences, FiniteSets

CONSTANTS
  Threads,   \* requests held on the web
  Texts,     \* replies an operator writes
  Writes(_), \* bound: those he may write in each request
  Closing,   \* those that begin with /close
  Reopening, \* those that begin with /reopen
  Nobody,    \* no request, no attempt
  MaxKeys,   \* bound: idempotency keys drawn
  MaxReads   \* bound: reads of messages in progress

ASSUME WebInboxAssumption ==
  /\ Nobody \notin Threads
  /\ Nobody \notin [thread: Threads, text: Texts, key: 1..MaxKeys]
  /\ Closing \cap Reopening = {}
  /\ MaxKeys \in Nat /\ MaxReads \in Nat

VARIABLES
  focus,      \* bound: what the behaviour has, "replies" or "reads"
  thread,     \* the status of each request
  completed,  \* the web events in processed_events that are completed
  stored,     \* the deliveries stored
  desk,       \* the page
  exchange,   \* the reply whose answer the page awaits
  lastKey,    \* the last idempotency key drawn
  wire,       \* replies on their way that nobody awaits
  reads,      \* the reads of messages in progress, in this order
  tangled,    \* history: the last answer was an error or came too late
  failedLast, \* history: what failed, if no reply ended since on this page
  owed,       \* history: the operator sent it and has not seen it saved
  wanted,     \* history: how often he meant a reply to be sent
  late,       \* history: how often he sent an owed one again after another reply
              \* had ended, or on a page loaded anew
  saved       \* history: how often the page said it was saved

store == <<completed, stored>>
network == <<exchange, lastKey, wire>>
reading == <<reads, tangled>>
replies == <<failedLast, owed, wanted, late, saved>>
inboxVars == <<focus, thread, store, desk, network, reading, replies>>

-----------------------------------------------------------------------------
(* OperatorInboxService and what it calls, served in one step.             *)

\* slip: every delivery is stored under a new key.
StoreAlways(a) == Append(stored, a)

\* The delivery is stored unless its key is known.
Store(a) ==
  IF \E i \in 1..Len(stored) : stored[i] = a THEN stored ELSE Append(stored, a)

\* handleOperatorMessage: a text that begins with a command is obeyed and not
\* stored; to reopen a request that is active changes nothing.
HandleReply(a) ==
  \/ /\ a.text \in Closing
     /\ thread' = [thread EXCEPT ![a.thread] = "closed"]
     /\ UNCHANGED stored
  \/ a.text \in Reopening /\ UNCHANGED <<thread, stored>>
  \/ /\ a.text \notin Closing \cup Reopening
     /\ stored' = Store(a)
     /\ UNCHANGED thread

\* The event is claimed, handled and completed; a completed one has no effect.
Serve(a) ==
  IF a \in completed THEN UNCHANGED <<thread, store>>
  ELSE HandleReply(a) /\ completed' = completed \cup {a}

\* requireActiveRequest.
Accepts(a) == thread[a.thread] = "active"

-----------------------------------------------------------------------------
(* The page.                                                               *)

NewDesk == [listed |-> {}, selected |-> Nobody, shown |-> Nobody, failed |-> Nobody]

\* refreshMessages: nothing is read for no request.
ReadMessages(t) ==
  IF t = Nobody \/ focus = "replies" THEN UNCHANGED reads
  ELSE /\ Len(reads) < MaxReads
       /\ reads' = Append(reads, [thread |-> t, overtaken |-> FALSE])

\* findActiveWebOperatorRequests.
Listed == {t \in Threads : thread[t] = "active"}

\* The list is read; the selection moves if its request is gone.
Refresh ==
  \E t \in IF desk.selected \in Listed THEN {desk.selected}
           ELSE IF Listed = {} THEN {Nobody} ELSE Listed :
    /\ desk' = [desk EXCEPT !.listed = Listed, !.selected = t,
                            !.shown = IF t = Nobody THEN Nobody ELSE @]
    /\ ReadMessages(t)
    /\ UNCHANGED <<focus, thread, store, network, tangled, replies>>

\* slip: the messages are not read.
SelectOnly(t) == desk' = [desk EXCEPT !.selected = t] /\ UNCHANGED reads

Select(t) == desk' = [desk EXCEPT !.selected = t] /\ ReadMessages(t)

SelectThread(t) ==
  /\ t \in desk.listed
  /\ Select(t)
  /\ UNCHANGED <<focus, thread, store, network, tangled, replies>>

\* History: the reads before it are overtaken by the one that is answered.
Others(i) ==
  [j \in 1..i - 1 |-> [reads[j] EXCEPT !.overtaken = TRUE]]
    \o SubSeq(reads, i + 1, Len(reads))

\* findConversationMessages: messages are told apart by their request.
MessagesOf(i) == reads[i].thread

\* The answers come in any order, and each is shown.
MessagesRead ==
  \E i \in 1..Len(reads) :
    /\ reads' = Others(i)
    /\ desk' = [desk EXCEPT !.shown = MessagesOf(i)]
    /\ tangled' = reads[i].overtaken
    /\ UNCHANGED <<focus, thread, store, network, replies>>

ReadFails ==
  \E i \in 1..Len(reads) :
    /\ reads' = Others(i)
    /\ tangled' = (tangled \/ ~reads[i].overtaken)
    /\ UNCHANGED <<focus, thread, store, desk, network, replies>>

Same(a, t, text) == a # Nobody /\ a.thread = t /\ a.text = text

NewAttempt(t, text) == [thread |-> t, text |-> text, key |-> lastKey + 1]

\* slip: every attempt has a new key.
FreshAttempt(t, text) == NewAttempt(t, text)

\* What failed last is sent again as it was.
Attempt(t, text) ==
  IF Same(desk.failed, t, text) THEN desk.failed ELSE NewAttempt(t, text)

Reply(text) ==
  LET t == desk.selected IN
  /\ focus = "replies" /\ t # Nobody /\ exchange = Nobody
  /\ text \in Writes(t)
  /\ LET a == Attempt(t, text) IN
       /\ a.key <= MaxKeys
       /\ exchange' = a
       /\ wire' = wire \cup {a}
       /\ lastKey' = IF a.key > lastKey THEN a.key ELSE lastKey
  /\ owed' = [owed EXCEPT ![t][text] = TRUE]
  /\ \/ ~owed[t][text] /\ wanted' = [wanted EXCEPT ![t][text] = @ + 1] /\ UNCHANGED late
     \/ /\ owed[t][text] /\ ~Same(failedLast, t, text)
        /\ late' = [late EXCEPT ![t][text] = @ + 1] /\ UNCHANGED wanted
     \/ owed[t][text] /\ Same(failedLast, t, text) /\ UNCHANGED <<wanted, late>>
  /\ UNCHANGED <<focus, thread, store, desk, reading, failedLast, saved>>

\* The page hears that the reply was saved, or of an error; or it does not hear.
Saved(a) ==
  /\ exchange' = Nobody
  /\ desk' = [desk EXCEPT !.failed = Nobody]
  /\ failedLast' = Nobody
  /\ owed' = [owed EXCEPT ![a.thread][a.text] = FALSE]
  /\ saved' = [saved EXCEPT ![a.thread][a.text] = @ + 1]

ReplyFails(a) ==
  /\ exchange' = Nobody
  /\ desk' = [desk EXCEPT !.failed = a]
  /\ failedLast' = a
  /\ UNCHANGED <<owed, saved>>

Unheard == UNCHANGED <<exchange, desk, failedLast, owed, saved>>

ReplyServed(a) ==
  /\ Accepts(a)
  /\ wire' = wire \ {a}
  /\ Serve(a)
  /\ IF exchange = a THEN Saved(a) \/ ReplyFails(a) ELSE Unheard
  /\ UNCHANGED <<focus, reading, lastKey, wanted, late>>

\* The request is closed, or the service says it cannot; or the reply is lost.
ReplyRefused(a) ==
  /\ wire' = wire \ {a}
  /\ IF exchange = a THEN ReplyFails(a) ELSE Unheard
  /\ UNCHANGED <<focus, thread, store, reading, lastKey, wanted, late>>

\* The connection breaks; the reply may still be served.
AnswerGivenUp ==
  /\ exchange # Nobody
  /\ ReplyFails(exchange)
  /\ UNCHANGED <<focus, thread, store, wire, reading, lastKey, wanted, late>>

\* The page is loaded anew and knows nothing of what failed.
Reload ==
  /\ desk' = NewDesk
  /\ exchange' = Nobody /\ failedLast' = Nobody
  /\ reads' = <<>> /\ tangled' = FALSE
  /\ UNCHANGED <<focus, thread, store, wire, lastKey, owed, wanted, late, saved>>

-----------------------------------------------------------------------------
(* The requests and the process.                                           *)

\* Handoff opens a request on the web or moves one there.
OpenThread(t) ==
  /\ thread[t] = "none"
  /\ thread' = [thread EXCEPT ![t] = "active"]
  /\ UNCHANGED <<focus, store, desk, network, reading, replies>>

\* closeRequest, by this operator or another one.
CloseThread(t) ==
  /\ thread[t] = "active"
  /\ thread' = [thread EXCEPT ![t] = "closed"]
  /\ UNCHANGED <<focus, store, desk, network, reading, replies>>

\* The process stops while it serves a reply: it is handled or not, and the claim
\* is released by the next start.
StopsWhileServing(a) ==
  /\ Accepts(a) /\ a \notin completed
  /\ wire' = {}
  /\ HandleReply(a) \/ UNCHANGED <<thread, stored>>
  /\ IF exchange # Nobody THEN ReplyFails(exchange) ELSE Unheard
  /\ UNCHANGED <<focus, completed, reading, lastKey, wanted, late>>

InboxInit ==
  /\ focus \in {"replies", "reads"}
  /\ thread = [t \in Threads |-> "none"]
  /\ completed = {} /\ stored = <<>>
  /\ desk = NewDesk /\ exchange = Nobody
  /\ lastKey = 0 /\ wire = {}
  /\ reads = <<>> /\ tangled = FALSE /\ failedLast = Nobody
  /\ owed = [t \in Threads |-> [x \in Texts |-> FALSE]]
  /\ wanted = [t \in Threads |-> [x \in Texts |-> 0]]
  /\ late = [t \in Threads |-> [x \in Texts |-> 0]]
  /\ saved = [t \in Threads |-> [x \in Texts |-> 0]]

InboxNext ==
  \/ Refresh \/ MessagesRead \/ ReadFails \/ AnswerGivenUp \/ Reload
  \/ \E t \in Threads : SelectThread(t) \/ OpenThread(t) \/ CloseThread(t)
  \/ \E text \in Texts : Reply(text)
  \/ \E a \in wire : ReplyServed(a) \/ ReplyRefused(a) \/ StopsWhileServing(a)

-----------------------------------------------------------------------------
\* A reply is stored as often as the page said so and no more often than the
\* operator meant it: to send a reply again because it failed does not mean it
\* twice, whether the first was served, is served late or was cut off by a stop.
\* Two exceptions: the page says of a command, too, that it was saved, but it is
\* obeyed and not stored; and a page that was loaded anew, or on which another
\* reply has ended since, takes a reply sent again for a new one, so that each
\* such attempt may add a copy.
RepliesAreMeant ==
  \A t \in Threads, text \in Texts :
    LET copies == Cardinality({i \in 1..Len(stored) :
                                 stored[i].thread = t /\ stored[i].text = text})
    IN  /\ IF text \in Closing \cup Reopening THEN copies = 0
           ELSE saved[t][text] <= copies
        /\ copies <= wanted[t][text] + late[t][text]

\* The messages an operator sees are those of the request he answers, once all
\* are read; unless the last answer was an error, or one that a later read had
\* overtaken: the page does not look whose messages came.
MessagesFit ==
  focus = "reads" /\ reads = <<>> /\ ~tangled /\ desk.selected # Nobody
    => desk.shown = desk.selected

DeskIsHonest == RepliesAreMeant /\ MessagesFit
=============================================================================
