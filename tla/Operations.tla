------------------------------ MODULE Operations ------------------------------
(***************************************************************************)
(* What the service says of itself, and who hears of it: the monitors of   *)
(* the pollers and of the delivery worker, the states OperationsMonitoring-*)
(* Service makes of them, /ready, and the availability monitor that asks   *)
(* for /ready from another host and alerts the owner.                      *)
(*                                                                         *)
(* Times are ages: how long ago the last successful poll was, and so on,   *)
(* counted up to one more than the age that matters, which is another for  *)
(* polls than for deliveries.  The pollers of both channels are watched    *)
(* alike; Watched names those of the instance.  Definitions marked "slip"  *)
(* are wrong variants of the definition that follows them; no              *)
(* specification uses them.                                                *)
(***************************************************************************)
EXTENDS Naturals

CONSTANTS
  Watched,             \* the channels
  PollStaleAfter,      \* the age after which a poll is too old
  DeliveryStaleAfter,  \* and a worker's cycle or a pending delivery
  Never                \* no such time yet

ASSUME OperationsAssumption ==
  PollStaleAfter \in Nat /\ DeliveryStaleAfter \in Nat /\ Never \notin Nat

Ages(limit) == 0..limit + 1
Older(a, limit) == IF a = Never \/ a > limit THEN a ELSE a + 1
TooOld(a, limit) == a # Never /\ a > limit

VARIABLES
  up,        \* whether the process answers HTTP
  uptime,    \* age of the process
  channel,   \* what the controller and the runtime say of each channel
  activity,  \* what the channel activity monitor was told
  poller,    \* what the poller really does
  worker,    \* the worker's monitor, and what it really does
  oldest,    \* age of the oldest pending delivery
  unsent,    \* there are failed deliveries
  incident,  \* an event in quarantine or an uncertain relay
  halted,    \* the delivery is paused
  watch,     \* the availability monitor
  silence,   \* history: age of the poller's last contact or of its start
  alarms     \* history: the alerts of the outage the monitor sees: whether one
             \* reached the owner, how many were answered with success, and
             \* whether the last failed

process == <<up, uptime, channel, activity, poller, worker, oldest, unsent,
             incident, halted, silence>>
monitor == <<watch, alarms>>
operationsVars == <<process, monitor>>

-----------------------------------------------------------------------------
(* The states the service reports.                                         *)

Configured(k) == channel[k].source # "none"

RunsByReport(k) == channel[k].connected /\ activity[k].running

\* resolveChannelState.  A channel that has not been polled yet is given time
\* from the start of the process.
ChannelState(k) ==
  CASE ~Configured(k) -> "not_configured"
    [] Configured(k) /\ activity[k].failing -> "poll_failed"
    [] Configured(k) /\ ~activity[k].failing /\ ~RunsByReport(k) -> "stopped"
    [] OTHER -> LET age == IF activity[k].succeeded = Never THEN uptime
                           ELSE activity[k].succeeded
                IN  IF TooOld(age, PollStaleAfter) THEN "poll_stale"
                    ELSE IF activity[k].succeeded = Never THEN "starting"
                    ELSE "running"

WorkerStalled == ~worker.running \/ TooOld(worker.active, DeliveryStaleAfter)

\* mapDeliveryStatus, and getStatus, where a pause hides all else.
DeliveryState ==
  CASE halted -> "paused"
    [] ~halted /\ WorkerStalled -> "stalled"
    [] OTHER -> IF TooOld(oldest, DeliveryStaleAfter) THEN "backlog"
                ELSE IF unsent THEN "failed" ELSE "healthy"

\* slip: a worker that is silent is not looked at while deliveries are paused.
ReadyByDeliveries == DeliveryState \notin {"backlog", "stalled"}

DeliveriesAreReady == ~WorkerStalled /\ DeliveryState \notin {"backlog", "stalled"}

\* operationsAreReady.
Ready ==
  /\ DeliveriesAreReady
  /\ ~incident
  /\ \A k \in Watched : ChannelState(k) \in {"not_configured", "running", "starting"}

\* getStatus: what the console shows as needing attention, worked out apart from
\* Ready.
NeedsAttention ==
  \/ DeliveryState \notin {"healthy", "paused"}
  \/ WorkerStalled
  \/ \E k \in Watched : ChannelState(k) \notin {"running", "starting"}
  \/ incident

\* HttpAvailabilityChecker.check: /ready answers in time, and with 200.
ReadyAnswers == up /\ Ready

-----------------------------------------------------------------------------
(* What happens to the channels, the worker and the process.               *)

\* runtime.start; what the monitor was told of an earlier poller stays.
Connects(k) ==
  /\ up /\ ~channel[k].connected
  /\ channel' = [channel EXCEPT ![k] = [source |-> "local", connected |-> TRUE]]
  /\ poller' = [poller EXCEPT ![k] = "works"]
  /\ activity' = [activity EXCEPT ![k].running = TRUE]
  /\ silence' = [silence EXCEPT ![k] = 0]
  /\ UNCHANGED <<up, uptime, worker, oldest, unsent, incident, halted,
                 monitor>>

\* runtime.stop, whose poller reports its end, and the settings are deleted, or
\* cannot be.
Disconnects(k) ==
  /\ up /\ Configured(k)
  /\ \E s \in {"none", "local"} :
       channel' = [channel EXCEPT ![k] = [source |-> s, connected |-> FALSE]]
  /\ poller' = [poller EXCEPT ![k] = "off"]
  /\ activity' = [activity EXCEPT ![k].running = FALSE]
  /\ UNCHANGED <<up, uptime, worker, oldest, unsent, incident, halted, silence,
                 monitor>>

\* recordPollSucceeded.
RecordPollSucceeded(k) ==
  activity' = [activity EXCEPT ![k].succeeded = 0, ![k].failing = FALSE]

\* recordPollFailed: a failure in the same millisecond as a success is not later.
RecordPollFailed(k) ==
  \E f \in {TRUE} \cup {b \in {FALSE} : activity[k].succeeded = 0} :
    activity' = [activity EXCEPT ![k].failing = @ \/ f]

PollSucceeds(k) ==
  /\ up /\ poller[k] = "works"
  /\ RecordPollSucceeded(k)
  /\ silence' = [silence EXCEPT ![k] = 0]
  /\ UNCHANGED <<up, uptime, channel, poller, worker, oldest, unsent, incident,
                 halted, monitor>>

PollFails(k) ==
  /\ up /\ poller[k] = "works"
  /\ RecordPollFailed(k)
  /\ UNCHANGED <<up, uptime, channel, poller, worker, oldest, unsent, incident,
                 halted, silence, monitor>>

\* The handling of an update does not come to its end.
PollerSticks(k) ==
  /\ up /\ poller[k] = "works"
  /\ poller' = [poller EXCEPT ![k] = "stuck"]
  /\ UNCHANGED <<up, uptime, channel, activity, worker, oldest, unsent,
                 incident, halted, silence, monitor>>

\* The poller ends with an exception; the runtime takes it to be connected.
PollerDies(k) ==
  /\ up /\ poller[k] = "works"
  /\ poller' = [poller EXCEPT ![k] = "off"]
  /\ activity' = [activity EXCEPT ![k].running = FALSE, ![k].failing = TRUE]
  /\ UNCHANGED <<up, uptime, channel, worker, oldest, unsent, incident, halted,
                 silence, monitor>>

\* A cycle of the worker ends; or the worker is stuck in a send; or it ends
\* with an exception, of which its monitor is told.
WorkerCycles ==
  /\ up /\ worker.does = "works"
  /\ worker' = [worker EXCEPT !.active = 0]
  /\ UNCHANGED <<up, uptime, channel, activity, poller, oldest, unsent,
                 incident, halted, silence, monitor>>

WorkerSticks ==
  /\ up /\ worker.does = "works"
  /\ \/ worker' = [worker EXCEPT !.does = "stuck"]
     \/ worker' = [worker EXCEPT !.does = "stuck", !.running = FALSE]
  /\ UNCHANGED <<up, uptime, channel, activity, poller, oldest, unsent,
                 incident, halted, silence, monitor>>

\* Deliveries become pending and are sent, fail and are dealt with; incidents
\* come and are resolved; an administrator pauses or resumes.
OldestChanges ==
  /\ up /\ oldest' = IF oldest = Never THEN 0 ELSE Never
  /\ UNCHANGED <<up, uptime, channel, activity, poller, worker, unsent,
                 incident, halted, silence, monitor>>

FailuresChange ==
  /\ up /\ unsent' = ~unsent
  /\ UNCHANGED <<up, uptime, channel, activity, poller, worker, oldest,
                 incident, halted, silence, monitor>>

IncidentChanges ==
  /\ up /\ incident' = ~incident
  /\ UNCHANGED <<up, uptime, channel, activity, poller, worker, oldest, unsent,
                 halted, silence, monitor>>

PauseChanges ==
  /\ up /\ halted' = ~halted
  /\ UNCHANGED <<up, uptime, channel, activity, poller, worker, oldest, unsent,
                 incident, silence, monitor>>

TimePasses ==
  /\ uptime' = Older(uptime, PollStaleAfter)
  /\ activity' = [k \in Watched |->
                    [activity[k] EXCEPT !.succeeded = Older(@, PollStaleAfter)]]
  /\ silence' = [k \in Watched |-> Older(silence[k], PollStaleAfter)]
  /\ worker' = [worker EXCEPT !.active = Older(@, DeliveryStaleAfter)]
  /\ oldest' = Older(oldest, DeliveryStaleAfter)
  /\ UNCHANGED <<up, channel, poller, unsent, incident, halted, monitor>>

NoActivity == [succeeded |-> Never, failing |-> FALSE, running |-> TRUE]

\* The process stops; and starts with fresh monitors, with the channels that
\* have settings, each of which may fail to start.
Stops ==
  /\ up /\ up' = FALSE
  /\ poller' = [k \in Watched |-> "off"]
  /\ UNCHANGED <<uptime, channel, activity, worker, oldest, unsent, incident,
                 halted, silence, monitor>>

StartsAgain ==
  /\ ~up /\ up' = TRUE
  /\ uptime' = 0
  /\ \E started \in SUBSET {k \in Watched : Configured(k)} :
       /\ channel' = [k \in Watched |-> [channel[k] EXCEPT !.connected = k \in started]]
       /\ poller' = [k \in Watched |-> IF k \in started THEN "works" ELSE "off"]
  /\ activity' = [k \in Watched |-> NoActivity]
  /\ silence' = [k \in Watched |-> 0]
  /\ worker' = [running |-> TRUE, active |-> 0, does |-> "works"]
  /\ UNCHANGED <<oldest, unsent, incident, halted, monitor>>

-----------------------------------------------------------------------------
(* The availability monitor.                                               *)

\* No outage, or none this monitor has seen.
NoAlarms == [told |-> FALSE, answered |-> 0, failed |-> FALSE]

\* send, with what becomes of an alert: the webhook answers that it accepted it;
\* or it accepted it and the answer was lost, or came after the timeout; or the
\* owner is not told.  Of the last two the code knows only that they failed.
Fates == {"accepted", "unheard", "refused"}

\* sendAlert, of an outage.
SendAlert(fate) ==
  alarms' = [told |-> alarms.told \/ fate # "refused",
             answered |-> IF fate = "accepted" THEN alarms.answered + 1
                          ELSE alarms.answered,
             failed |-> fate # "accepted"]

\* checkOnce, when /ready answered that all is well.  Whether the alert of the
\* recovery, sent when that of the outage was answered, was accepted does not
\* matter.
CheckSucceeds ==
  /\ ReadyAnswers
  /\ watch' = [state |-> "available", alertSent |-> FALSE]
  /\ alarms' = NoAlarms
  /\ UNCHANGED process

\* slip: an alert that failed counts as sent.
AlertCounts(fate) == TRUE

\* What is remembered of an outage alert.
AlertAccepted(fate) == fate = "accepted"

\* checkOnce, when /ready did not answer in time or not with 200: the outage is
\* alerted once, and again as long as the alert fails.
CheckFails ==
  /\ LET known == watch.state = "unavailable" /\ watch.alertSent IN
       IF known THEN UNCHANGED monitor
       ELSE \E fate \in Fates :
              /\ SendAlert(fate)
              /\ watch' = [state |-> "unavailable", alertSent |-> AlertAccepted(fate)]
  /\ UNCHANGED process

\* The monitor is a process of its own and keeps nothing on disk.
MonitorRestarts ==
  /\ watch' = [state |-> "unknown", alertSent |-> FALSE]
  /\ alarms' = NoAlarms
  /\ UNCHANGED process

OperationsInit ==
  /\ up = TRUE /\ uptime = 0
  /\ channel = [k \in Watched |-> [source |-> "none", connected |-> FALSE]]
  /\ activity = [k \in Watched |-> NoActivity]
  /\ poller = [k \in Watched |-> "off"]
  /\ worker = [running |-> TRUE, active |-> 0, does |-> "works"]
  /\ oldest = Never /\ unsent = FALSE /\ incident = FALSE /\ halted = FALSE
  /\ watch = [state |-> "unknown", alertSent |-> FALSE]
  /\ silence = [k \in Watched |-> 0]
  /\ alarms = NoAlarms

OperationsNext ==
  \/ \E k \in Watched : \/ Connects(k) \/ Disconnects(k) \/ PollSucceeds(k)
                        \/ PollFails(k) \/ PollerSticks(k) \/ PollerDies(k)
  \/ WorkerCycles \/ WorkerSticks
  \/ OldestChanges \/ FailuresChange \/ IncidentChanges \/ PauseChanges
  \/ TimePasses \/ Stops \/ StartsAgain
  \/ CheckSucceeds \/ CheckFails \/ MonitorRestarts

-----------------------------------------------------------------------------
\* "/ready returns 503 when a configured poller is failed, stopped, or stale
\* [and] when the delivery worker is stopped or stalled": the service that says
\* it is ready has a poller at each configured channel that was in contact
\* lately, or was given time to come up, and a worker that works, or was seen
\* to work lately; and a console that shows nothing to attend to is ready.
ReadyMeansAlive ==
  /\ ReadyAnswers =>
       /\ \A k \in Watched : Configured(k) =>
            /\ poller[k] # "off"
            /\ ~TooOld(silence[k], PollStaleAfter) \/ ~TooOld(uptime, PollStaleAfter)
       /\ worker.running
       /\ worker.does = "works" \/ ~TooOld(worker.active, DeliveryStaleAfter)
  /\ ~NeedsAttention => Ready

\* "Alerts once during an outage", "retries the outage alert when alert delivery
\* itself fails": the monitor falls silent over an outage only when the owner was
\* told of this one; it still owes the alert only after one that failed as far as
\* it could see; and no outage has two alerts that were answered with success.
\* (An alert accepted whose answer was lost is sent again, and so is that of an
\* outage during which the monitor restarts.)
OutageIsAlerted ==
  watch.state = "unavailable" =>
    /\ watch.alertSent => alarms.told
    /\ ~watch.alertSent => alarms.failed
    /\ alarms.answered <= 1
=============================================================================
