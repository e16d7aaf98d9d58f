----------------------------- MODULE ChannelSetup -----------------------------
(***************************************************************************)
(* Connecting and disconnecting the channels: the setup routes, the two    *)
(* setup controllers, the settings files and the runtimes, from startup on.*)
(*                                                                         *)
(* A request is served from one await to the next: verifying with Telegram *)
(* or VK, writing or deleting the settings file, waiting for the poller.   *)
(* Requests of several browser tabs, and the start attempts made at boot,  *)
(* interleave at these awaits; no lock is held over them.  Definitions     *)
(* marked "slip" are wrong variants of the definition that follows them;   *)
(* no specification uses them.                                             *)
(***************************************************************************)
EXTENDS Naturals

CONSTANTS
  Requests,  \* bound: HTTP requests in progress at once
  Pollers,   \* bound: pollers of a channel at once
  None

ASSUME ChannelSetupAssumption == None \notin Pollers

Channels == {"telegram", "vk"}

VARIABLES
  file,      \* whether the channel's settings file exists
  source,    \* the controller's source
  current,   \* the poller the runtime knows, None while it is not running
  poller,    \* what each poller does
  reported,  \* the activity monitor takes the channel's poller to run
  booting,   \* channels whose start at boot awaits an answer
  request,   \* what each HTTP request awaits
  hurried,   \* history: something was asked for while something was in flight
  ignored    \* history: a start ignored a settings file it could not read

settings == <<file, source>>
runtime == <<current, poller, reported>>
vars == <<settings, runtime, booting, request, hurried, ignored>>

Idle == [pc |-> "idle", channel |-> "vk", waits |-> None]

Running(k) == current[k] # None
InFlight == booting # {} \/ \E r \in Requests : request[r].pc # "idle"

Ask(r) == request[r].pc = "idle" /\ hurried' = (hurried \/ InFlight)
Go(r, pc) == request' = [request EXCEPT ![r].pc = pc]
End(r) == request' = [request EXCEPT ![r] = Idle]

\* slip: a channel that was stopped once is taken to be stopped for ever.
StaysStopped(k) == UNCHANGED reported

\* recordPollerStarted.
MarkStarted(k) == reported' = [reported EXCEPT ![k] = TRUE]

\* The end of runtime.start: a poller is started and becomes the runtime's,
\* whatever the runtime knew before.
StartPoller(k) ==
  \E p \in Pollers :
    /\ poller[k][p] = "off"
    /\ poller' = [poller EXCEPT ![k][p] = "working"]
    /\ current' = [current EXCEPT ![k] = p]
    /\ MarkStarted(k)

\* runtime.stop up to its await.
StopPoller(k) ==
  /\ poller' = IF Running(k)
               THEN [poller EXCEPT ![k][current[k]] = "aborted"] ELSE poller
  /\ current' = [current EXCEPT ![k] = None]

-----------------------------------------------------------------------------
(* Connecting.                                                             *)

\* assertMutable.
IsMutable(k) == source[k] # "environment" /\ ~Running(k)

\* The VK route demands that Telegram be connected.
TelegramAllows(k) == k = "vk" => Running("telegram")

Connect(r, k) ==
  /\ Ask(r)
  /\ TelegramAllows(k) /\ IsMutable(k)
  /\ request' = [request EXCEPT ![r] = [Idle EXCEPT !.pc = "verifying",
                                                    !.channel = k]]
  /\ UNCHANGED <<settings, runtime, booting, ignored>>

\* slip: VK starts without a second look, too.
CanStartAnyway(k) == TRUE

\* VkRuntime.start looks again after VK has answered; TelegramRuntime.start
\* looks only before Telegram is asked.
CanStart(k) == k = "vk" => ~Running(k)

\* verifySetup found a fault, or Telegram did not answer.
Refused(r) == End(r) /\ UNCHANGED runtime

Verified(r) ==
  /\ request[r].pc = "verifying"
  /\ \/ /\ CanStart(request[r].channel)
        /\ StartPoller(request[r].channel)
        /\ Go(r, "saving")
     \/ Refused(r)
  /\ UNCHANGED <<settings, booting, hurried, ignored>>

Saved(r) ==
  /\ request[r].pc = "saving"
  /\ file' = [file EXCEPT ![request[r].channel] = TRUE]
  /\ source' = [source EXCEPT ![request[r].channel] = "local"]
  /\ End(r)
  /\ UNCHANGED <<runtime, booting, hurried, ignored>>

\* The controller's catch clause stops the runtime's poller.
UndoStart(r) ==
  /\ StopPoller(request[r].channel)
  /\ request' = [request EXCEPT ![r].pc = "undoing",
                                ![r].waits = current[request[r].channel]]

\* The settings file could not be written.
SaveFails(r) ==
  /\ request[r].pc = "saving"
  /\ UndoStart(r)
  /\ UNCHANGED <<settings, reported, booting, hurried, ignored>>

-----------------------------------------------------------------------------
(* Disconnecting.                                                          *)

\* slip: VK does not matter.
VkIsIgnored(k) == TRUE

\* The Telegram route demands that VK be not configured.
VkAllows(k) == k = "telegram" => source["vk"] = "none"

\* slip: the settings are deleted while the poller still runs.
ForgetFirst(r, k) ==
  /\ request' = [request EXCEPT ![r] = [Idle EXCEPT !.pc = "clearing",
                                                    !.channel = k]]
  /\ UNCHANGED <<poller, current>>

\* The controller's disconnect up to its first await.
StopFirst(r, k) ==
  /\ StopPoller(k)
  /\ request' = [request EXCEPT ![r] = [pc |-> "stopping", channel |-> k,
                                        waits |-> current[k]]]

Disconnect(r, k) ==
  /\ Ask(r)
  /\ VkAllows(k) /\ source[k] = "local"
  /\ StopFirst(r, k)
  /\ UNCHANGED <<settings, reported, booting, ignored>>

\* The poller that was waited for has ended.
Stopped(r) ==
  /\ request[r].pc \in {"stopping", "undoing"} /\ request[r].waits = None
  /\ IF request[r].pc = "stopping" THEN Go(r, "clearing") ELSE End(r)
  /\ UNCHANGED <<settings, runtime, booting, hurried, ignored>>

Cleared(r) ==
  /\ request[r].pc = "clearing"
  /\ file' = [file EXCEPT ![request[r].channel] = FALSE]
  /\ source' = [source EXCEPT ![request[r].channel] = "none"]
  /\ End(r)
  /\ UNCHANGED <<runtime, booting, hurried, ignored>>

\* The file could not be deleted: it stays, and so does the source.
ClearFails(r) ==
  /\ request[r].pc = "clearing"
  /\ End(r)
  /\ UNCHANGED <<settings, runtime, booting, hurried, ignored>>

-----------------------------------------------------------------------------
(* Pollers, boot and restart.                                              *)

\* An aborted poller comes to its end and reports it, whoever runs meanwhile.
PollerEnds(k, p) ==
  /\ poller[k][p] = "aborted"
  /\ poller' = [poller EXCEPT ![k][p] = "off"]
  /\ reported' = [reported EXCEPT ![k] = FALSE]
  /\ request' = [r \in Requests |->
                   IF request[r].channel = k /\ request[r].waits = p
                   THEN [request[r] EXCEPT !.waits = None] ELSE request[r]]
  /\ UNCHANGED <<settings, current, booting, hurried, ignored>>

\* Telegram's start at boot is answered, with a poller or an error.
BootAnswered(k) ==
  /\ k \in booting
  /\ booting' = booting \ {k}
  /\ StartPoller(k) \/ UNCHANGED runtime
  /\ UNCHANGED <<settings, request, hurried, ignored>>

\* What the environment configures it configures again.  A settings file that
\* cannot be read, or is not valid, is logged and ignored: it stays.
SourcesAtBoot(k) ==
  IF source[k] = "environment" THEN {"environment"}
  ELSE IF file[k] THEN {"local", "none"}
  ELSE {"none"}

Ignores(k) == file[k] /\ source'[k] = "none"

\* HTTP is served and both channels are started: VK at once, Telegram when it
\* has answered.
CrashAndRestart ==
  /\ source' \in [Channels -> {"none", "local", "environment"}]
  /\ \A k \in Channels : source'[k] \in SourcesAtBoot(k)
  /\ ignored' = (ignored \/ \E k \in Channels : Ignores(k))
  /\ booting' = {k \in {"telegram"} : source'[k] # "none"}
  /\ \E p \in Pollers :
       /\ current' = [k \in Channels |->
                        IF k = "vk" /\ source'[k] # "none" THEN p ELSE None]
       /\ poller' = [k \in Channels |-> [q \in Pollers |->
                       IF current'[k] = q THEN "working" ELSE "off"]]
  /\ reported' = [k \in Channels |-> TRUE]
  /\ request' = [r \in Requests |-> Idle]
  /\ UNCHANGED <<file, hurried>>

\* A new installation.  VK configured by the environment comes with Telegram
\* configured so.
Init ==
  /\ file = [k \in Channels |-> FALSE]
  /\ source \in [Channels -> {"none", "environment"}]
  /\ source["vk"] # "none" => source["telegram"] # "none"
  /\ booting = {k \in {"telegram"} : source[k] # "none"}
  /\ current \in [Channels -> Pollers \cup {None}]
  /\ current["telegram"] = None
  /\ Running("vk") <=> source["vk"] # "none"
  /\ poller = [k \in Channels |-> [p \in Pollers |->
                 IF current[k] = p THEN "working" ELSE "off"]]
  /\ reported = [k \in Channels |-> TRUE]
  /\ request = [r \in Requests |-> Idle]
  /\ hurried = FALSE /\ ignored = FALSE

Next ==
  \/ \E r \in Requests :
       \/ \E k \in Channels : Connect(r, k) \/ Disconnect(r, k)
       \/ Verified(r) \/ Saved(r) \/ SaveFails(r)
       \/ Stopped(r) \/ Cleared(r) \/ ClearFails(r)
  \/ \E k \in Channels : BootAnswered(k) \/ \E p \in Pollers : PollerEnds(k, p)
  \/ CrashAndRestart

Spec == Init /\ [][Next]_vars

-----------------------------------------------------------------------------
\* VK is neither configured nor running while Telegram is neither.
VkHasTelegram ==
  source["vk"] # "none" \/ Running("vk")
    => source["telegram"] # "none" \/ Running("telegram")

\* "VK must be disconnected before Telegram. [...] The backend enforces this
\* order": no request brings VK to stand alone.  A start does that can read one
\* channel's settings file and not the other's, and what is asked for after it.
OrderIsEnforced == ~ignored => VkHasTelegram

\* The order holds when owners ask for one thing at a time, whatever verification,
\* saving, stopping or deleting fails and wherever the service crashes.
VkNeedsTelegram == ~hurried => OrderIsEnforced

AtMostOneWorks(k) ==
  \A p, q \in Pollers : poller[k][p] = "working" /\ poller[k][q] = "working" => p = q

\* "Telegram is already connected": a channel never has two pollers at work, VK
\* whatever requests overlap, Telegram when owners ask for one thing at a time;
\* and the one that a runtime knows does work.
OnePoller ==
  /\ AtMostOneWorks("vk") /\ (~hurried => AtMostOneWorks("telegram"))
  /\ \A k \in Channels : Running(k) => poller[k][current[k]] = "working"

\* "/ready returns 503 when a configured poller is stopped": of owners who ask
\* for one thing at a time, a configured channel whose poller works is not taken
\* to be stopped; once nothing is in flight, a channel that runs can be
\* disconnected, and one that was connected is connected again by the next start
\* that can read its settings.
RunningIsKnown ==
  ~hurried =>
    \A k \in Channels : Running(k) =>
      /\ source[k] # "none" => reported[k]
      /\ ~InFlight => source[k] # "none" /\ (source[k] = "local" => file[k])

\* "A disconnect stops the channel before deleting its local settings": unless
\* somebody was in a hurry, no poller works for a channel whose settings go.
StopsBeforeForgetting(k) ==
  ~hurried /\ file[k] /\ ~file'[k] => \A p \in Pollers : poller[k][p] # "working"

\* "Environment-managed connections cannot be disconnected": whatever requests
\* overlap, they are not replaced by local settings and not stopped.
EnvironmentIsKept(k) ==
  source[k] = "environment" =>
    /\ source'[k] = "environment" /\ ~file'[k]
    /\ \A p \in Pollers : poller'[k][p] # "aborted"

\* No step does away with settings a channel still works with.
SettingsOutlivePollers ==
  [][\A k \in Channels : StopsBeforeForgetting(k) /\ EnvironmentIsKept(k)]_vars
=============================================================================
