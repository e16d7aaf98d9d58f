------------------------- MODULE ChannelSetupProofs -------------------------
(***************************************************************************)
(* Proofs about ChannelSetup, for any number of requests and pollers.      *)
(*                                                                         *)
(* The routes hold no lock over their awaits, so the invariant has two     *)
(* parts.  Lasting holds whatever requests overlap; Calm holds as long as  *)
(* each was made when nothing was in flight (~hurried), and says for each  *)
(* place a request or the boot may stand at what they rely on when they go *)
(* on.                                                                     *)
(***************************************************************************)
EXTENDS ChannelSetup, TLAPS

-----------------------------------------------------------------------------
(* The inductive invariant.                                                *)

Waiting == Pollers \cup {None}

Serving == [pc: {"idle", "verifying", "saving", "undoing", "stopping", "clearing"},
            channel: Channels, waits: Waiting]

SetupTyped ==
  /\ file \in [Channels -> BOOLEAN]
  /\ source \in [Channels -> {"none", "environment", "local"}]
  /\ current \in [Channels -> Waiting]
  /\ poller \in [Channels -> [Pollers -> {"off", "working", "aborted"}]]
  /\ reported \in [Channels -> BOOLEAN]
  /\ booting \in SUBSET {"telegram"}
  /\ request \in [Requests -> Serving]
  /\ hurried \in BOOLEAN
  /\ ignored \in BOOLEAN

Busy(r) == request[r].pc # "idle"
Serves(r, k, pcs) == request[r].channel = k /\ request[r].pc \in pcs

\* The poller that works is the one the runtime knows.
WorkingIsCurrent(k) == \A p \in Pollers : poller[k][p] = "working" => current[k] = p

\* The settings file and the source agree, but for a file that a start ignored.
FileFits(k) ==
  /\ source[k] = "local" => file[k]
  /\ source[k] = "environment" => ~file[k]
  /\ ~ignored /\ file[k] => source[k] = "local"

\* What no overlap of requests can undo: the settings file and the source agree,
\* a poller the runtime knows works, VK's looks twice, and nobody serves a request
\* about a channel the environment configures.
Lasting ==
  /\ \A k \in Channels :
       /\ FileFits(k)
       /\ Running(k) => poller[k][current[k]] = "working"
       /\ source[k] = "environment" =>
            /\ \A p \in Pollers : poller[k][p] # "aborted"
            /\ \A r \in Requests : Busy(r) => request[r].channel # k
  /\ WorkingIsCurrent("vk")

\* What holds as long as owners ask for one thing at a time.
OneAtATime ==
  /\ \A r, s \in Requests : Busy(r) /\ Busy(s) => r = s
  /\ booting # {} => \A r \in Requests : ~Busy(r)

BootFits == booting # {} => ~Running("telegram") /\ source["telegram"] # "none"

VkFollowsTelegram ==
  ~ignored /\ (source["vk"] # "none" \/ Running("vk")) => source["telegram"] # "none"

RunningFits ==
  \A k \in Channels : Running(k) =>
    /\ reported[k]
    /\ source[k] # "none" \/ \E r \in Requests : Serves(r, k, {"saving"})

AbortedIsAwaited ==
  \A k \in Channels, p \in Pollers : poller[k][p] = "aborted" =>
    \E r \in Requests : Serves(r, k, {"stopping", "undoing"}) /\ request[r].waits = p

RequestFits(r) ==
  LET k == request[r].channel IN
  /\ request[r].pc = "verifying" =>
       ~Running(k) /\ (k = "vk" => source["telegram"] # "none")
  /\ request[r].pc = "saving" => Running(k)
  /\ request[r].pc \in {"stopping", "undoing", "clearing"} => ~Running(k)
  /\ request[r].pc \in {"stopping", "clearing"} /\ k = "telegram" =>
       source["vk"] = "none" /\ ~Running("vk")

Calm ==
  /\ OneAtATime /\ WorkingIsCurrent("telegram") /\ BootFits /\ VkFollowsTelegram
  /\ RunningFits /\ AbortedIsAwaited
  /\ \A r \in Requests : RequestFits(r)

SetupInv == SetupTyped /\ Lasting /\ (~hurried => Calm)

\* A new installation.
LEMMA TypesInit == Init => SetupInv
<1> SUFFICES ASSUME Init PROVE SetupInv
  OBVIOUS
<1>1. SetupTyped
  BY DEF Init, SetupTyped, Waiting, Serving, Idle, Channels
<1>2. Lasting
  BY ChannelSetupAssumption DEF Init, Lasting, FileFits, WorkingIsCurrent, Running, Busy, Idle, Channels
<1>3. Calm
  BY ChannelSetupAssumption DEF Init, Calm, OneAtATime, WorkingIsCurrent, BootFits,
     VkFollowsTelegram, RunningFits, AbortedIsAwaited, RequestFits, Running, Busy, Idle, Channels
<1> QED
  BY <1>1, <1>2, <1>3 DEF SetupInv

\* A request to connect a channel is let in.
LEMMA ConnectFits ==
  ASSUME SetupInv, NEW r \in Requests, NEW k \in Channels, Connect(r, k)
  PROVE  SetupInv'
<1> DEFINE row == [Idle EXCEPT !.pc = "verifying", !.channel = k]
<1>1. SetupTyped /\ Lasting /\ (~hurried => Calm)
  BY DEF SetupInv
<1>2. /\ request' = [request EXCEPT ![r] = row] /\ UNCHANGED <<settings, runtime, booting, ignored>>
      /\ request[r].pc = "idle" /\ hurried' = (hurried \/ InFlight)
      /\ TelegramAllows(k) /\ IsMutable(k)
  BY DEF Connect, Ask
<1>3. row \in Serving /\ row.pc = "verifying" /\ row.channel = k
  BY DEF Idle, Serving, Channels, Waiting
<1> HIDE DEF row
<1>4. request' \in [Requests -> Serving] /\ request'[r] = row
      /\ \A s \in Requests \ {r} : request'[s] = request[s]
  BY <1>1, <1>2, <1>3 DEF SetupTyped
<1>5. SetupTyped'
  BY <1>1, <1>2, <1>4 DEF SetupTyped, settings, runtime, InFlight
<1>6. Lasting'
  BY <1>1, <1>2, <1>3, <1>4 DEF Lasting, FileFits, WorkingIsCurrent, Running, Busy, settings, runtime, IsMutable
<1>7. ASSUME ~hurried'
      PROVE  Calm'
  <2>1. Calm /\ booting = {} /\ \A s \in Requests : ~Busy(s)
    BY <1>1, <1>2, <1>7 DEF InFlight, Busy
  <2>2. OneAtATime' /\ (WorkingIsCurrent("telegram"))' /\ BootFits' /\ VkFollowsTelegram'
    BY <1>2, <1>4, <2>1 DEF OneAtATime, Busy, WorkingIsCurrent, BootFits, VkFollowsTelegram,
       Running, Calm, settings, runtime
  <2>3. RunningFits' /\ AbortedIsAwaited'
    BY <1>2, <1>4, <2>1 DEF RunningFits, AbortedIsAwaited, Serves, Busy, Running, Calm,
       settings, runtime
  <2>4. ASSUME NEW s \in Requests
        PROVE  RequestFits(s)'
    <3>1. CASE s = r
      BY <1>2, <1>3, <1>4, <2>1, <3>1 DEF RequestFits, Running, Calm, settings, runtime,
         TelegramAllows, IsMutable, VkFollowsTelegram, RunningFits, Serves, Busy, Channels
    <3>2. CASE s # r
      BY <1>2, <1>4, <2>1, <3>2 DEF RequestFits, Running, Calm, settings, runtime, Busy
    <3> QED
      BY <3>1, <3>2
  <2> QED
    BY <2>2, <2>3, <2>4 DEF Calm
<1> QED
  BY <1>5, <1>6, <1>7 DEF SetupInv

\* A row of `request` that is written, and the others.
LEMMA Answered ==
  ASSUME SetupTyped, NEW r \in Requests, NEW row \in Serving,
         request' = [request EXCEPT ![r] = row]
  PROVE  /\ request' \in [Requests -> Serving] /\ request'[r] = row
         /\ \A s \in Requests \ {r} : request'[s] = request[s]
BY DEF SetupTyped

\* A request goes on to its next await,
LEMMA Gone ==
  ASSUME SetupTyped, NEW r \in Requests,
         NEW pc \in {"idle", "verifying", "saving", "undoing", "stopping", "clearing"}, Go(r, pc)
  PROVE  /\ request' \in [Requests -> Serving]
         /\ request'[r].pc = pc /\ request'[r].channel = request[r].channel
         /\ request'[r].waits = request[r].waits
         /\ \A s \in Requests \ {r} : request'[s] = request[s]
<1> DEFINE row == [request[r] EXCEPT !.pc = pc]
<1>1. request[r] \in Serving
  BY DEF SetupTyped
<1>2. /\ row \in Serving /\ row.pc = pc /\ row.channel = request[r].channel
      /\ row.waits = request[r].waits
  BY <1>1 DEF Serving
<1>3. request' = [request EXCEPT ![r] = row]
  BY DEF Go
<1> HIDE DEF row
<1> QED
  BY <1>2, <1>3, Answered

\* or ends.
LEMMA GoneIdle ==
  ASSUME SetupTyped, NEW r \in Requests, End(r)
  PROVE  /\ request' \in [Requests -> Serving] /\ request'[r] = Idle
         /\ \A s \in Requests \ {r} : request'[s] = request[s]
         /\ Idle.pc = "idle"
<1>1. Idle \in Serving /\ Idle.pc = "idle"
  BY DEF Idle, Serving, Waiting, Channels
<1> QED
  BY <1>1, Answered DEF End

\* A poller that starts is the only one that works, unless another did.
LEMMA Started ==
  ASSUME SetupTyped, NEW k \in Channels, StartPoller(k)
  PROVE  /\ current' \in [Channels -> Waiting] /\ Running(k)'
         /\ poller' \in [Channels -> [Pollers -> {"off", "working", "aborted"}]]
         /\ reported' \in [Channels -> BOOLEAN] /\ reported'[k]
         /\ poller'[k][current'[k]] = "working"
         /\ \A p \in Pollers : current'[k] # p => poller'[k][p] = poller[k][p]
         /\ \A p \in Pollers : poller'[k][p] = "aborted" => poller[k][p] = "aborted"
         /\ \A j \in Channels \ {k} : /\ poller'[j] = poller[j] /\ current'[j] = current[j]
                                      /\ reported'[j] = reported[j]
<1>1. PICK p \in Pollers :
        /\ poller[k][p] = "off"
        /\ poller' = [poller EXCEPT ![k][p] = "working"]
        /\ current' = [current EXCEPT ![k] = p]
        /\ reported' = [reported EXCEPT ![k] = TRUE]
  BY DEF StartPoller, MarkStarted
<1>2. p # None
  BY ChannelSetupAssumption
<1> QED
  BY <1>1, <1>2 DEF SetupTyped, Waiting, Running

\* Telegram or VK has answered: a poller starts, or the request is refused.
LEMMA VerifiedFits ==
  ASSUME SetupInv, NEW r \in Requests, Verified(r)
  PROVE  SetupInv'
<1>1. SetupTyped /\ Lasting /\ (~hurried => Calm)
  BY DEF SetupInv
<1>k. PICK k \in Channels : k = request[r].channel
  BY <1>1 DEF SetupTyped, Serving
<1>2. request[r].pc = "verifying" /\ UNCHANGED <<settings, booting, hurried, ignored>> /\ Busy(r)
  BY DEF Verified, Busy
<1>3. source[k] # "environment"
  BY <1>1, <1>2, <1>k DEF Lasting
<1>4. CASE Refused(r)
  <2>1. End(r) /\ UNCHANGED runtime
    BY <1>4 DEF Refused
  <2>2. /\ request' \in [Requests -> Serving] /\ request'[r] = Idle /\ Idle.pc = "idle"
        /\ \A s \in Requests \ {r} : request'[s] = request[s]
    BY <1>1, <2>1, GoneIdle
  <2>3. SetupTyped'
    BY <1>1, <1>2, <2>1, <2>2 DEF SetupTyped, settings, runtime
  <2>4. Lasting'
    BY <1>1, <1>2, <2>1, <2>2 DEF Lasting, FileFits, WorkingIsCurrent, Running, Busy, settings, runtime
  <2>5. ASSUME ~hurried'
        PROVE  Calm'
    <3>1. Calm
      BY <1>1, <1>2, <2>5
    <3>2. OneAtATime' /\ (WorkingIsCurrent("telegram"))' /\ BootFits' /\ VkFollowsTelegram'
      BY <1>2, <2>1, <2>2, <3>1 DEF OneAtATime, Busy, WorkingIsCurrent, BootFits,
         VkFollowsTelegram, Running, Calm, settings, runtime
    <3>3. RunningFits' /\ AbortedIsAwaited'
      BY <1>2, <2>1, <2>2, <3>1 DEF RunningFits, AbortedIsAwaited, Serves, Running, Calm,
         settings, runtime
    <3>4. \A s \in Requests : RequestFits(s)'
      BY <1>2, <2>1, <2>2, <3>1 DEF RequestFits, Running, Calm, settings, runtime
    <3> QED
      BY <3>2, <3>3, <3>4 DEF Calm
  <2> QED
    BY <2>3, <2>4, <2>5 DEF SetupInv
<1>5. CASE CanStart(k) /\ StartPoller(k) /\ Go(r, "saving")
  <2>1. /\ request' \in [Requests -> Serving]
        /\ request'[r].pc = "saving" /\ request'[r].channel = k
        /\ request'[r].waits = request[r].waits
        /\ \A s \in Requests \ {r} : request'[s] = request[s]
    BY <1>1, <1>5, <1>k, Gone
  <2>2. /\ current' \in [Channels -> Waiting] /\ Running(k)'
        /\ poller' \in [Channels -> [Pollers -> {"off", "working", "aborted"}]]
        /\ reported' \in [Channels -> BOOLEAN] /\ reported'[k]
        /\ poller'[k][current'[k]] = "working"
        /\ \A p \in Pollers : current'[k] # p => poller'[k][p] = poller[k][p]
        /\ \A p \in Pollers : poller'[k][p] = "aborted" => poller[k][p] = "aborted"
        /\ \A j \in Channels \ {k} : /\ poller'[j] = poller[j] /\ current'[j] = current[j]
                                     /\ reported'[j] = reported[j]
    BY <1>1, <1>5, Started
  <2>3. SetupTyped'
    BY <1>1, <1>2, <2>1, <2>2 DEF SetupTyped, settings
  <2>4. ~Running(k) /\ WorkingIsCurrent(k) => (WorkingIsCurrent(k))'
    BY <2>2, <1>1, ChannelSetupAssumption DEF Running, WorkingIsCurrent
  <2>5. Lasting'
    <3>1. (WorkingIsCurrent("vk"))'
      BY <1>1, <1>5, <2>2, <2>4 DEF Lasting, CanStart, WorkingIsCurrent, Channels
    <3>2. ASSUME NEW j \in Channels
          PROVE  /\ FileFits(j)'
                 /\ Running(j)' => poller'[j][current'[j]] = "working"
                 /\ source'[j] = "environment" =>
                      /\ \A p \in Pollers : poller'[j][p] # "aborted"
                      /\ \A s \in Requests : Busy(s)' => request'[s].channel # j
      <4>1. CASE j = k
        BY <1>1, <1>2, <1>3, <1>k, <2>1, <2>2, <4>1 DEF Lasting, FileFits, settings
      <4>2. CASE j # k
        <5>1. FileFits(j)'
          BY <1>1, <1>2 DEF Lasting, FileFits, settings
        <5>2. Running(j)' => poller'[j][current'[j]] = "working"
          BY <1>1, <2>2, <4>2 DEF Lasting, Running
        <5>3. ASSUME source'[j] = "environment"
              PROVE  /\ \A p \in Pollers : poller'[j][p] # "aborted"
                     /\ \A s \in Requests : Busy(s)' => request'[s].channel # j
          <6>1. source[j] = "environment"
            BY <1>2, <5>3 DEF settings
          <6>2. \A p \in Pollers : poller'[j][p] # "aborted"
            BY <1>1, <2>2, <4>2, <6>1 DEF Lasting
          <6>3. \A s \in Requests : Busy(s) => request[s].channel # j
            BY <1>1, <6>1 DEF Lasting
          <6>4. request'[r].channel = request[r].channel /\ Busy(r)
            BY <1>2, <1>k, <2>1
          <6> QED
            BY <2>1, <6>2, <6>3, <6>4 DEF Busy
        <5> QED
          BY <5>1, <5>2, <5>3
      <4> QED
        BY <4>1, <4>2
    <3> QED
      BY <3>1, <3>2 DEF Lasting
  <2>6. ASSUME ~hurried'
        PROVE  Calm'
    <3>1. Calm /\ ~Running(k) /\ (k = "vk" => source["telegram"] # "none") /\ booting = {}
      BY <1>1, <1>2, <1>k, <2>6 DEF Calm, RequestFits, OneAtATime
    <3>2. OneAtATime' /\ BootFits'
      BY <1>2, <2>1, <3>1 DEF OneAtATime, Busy, BootFits, Calm
    <3>3. (WorkingIsCurrent("telegram"))'
      BY <2>2, <2>4, <3>1 DEF WorkingIsCurrent, Calm, Channels
    <3>4. VkFollowsTelegram'
      BY <1>2, <2>2, <3>1 DEF VkFollowsTelegram, Running, Calm, Channels, settings
    <3>5. RunningFits'
      <4>1. ASSUME NEW j \in Channels, Running(j)'
            PROVE  reported'[j] /\ (source'[j] # "none"
                                     \/ \E s \in Requests : (Serves(s, j, {"saving"}))')
        <5>1. CASE j = k
          BY <2>1, <2>2, <5>1 DEF Serves
        <5>2. CASE j # k
          <6>1. Running(j)
            BY <2>2, <4>1, <5>2 DEF Running
          <6>2. /\ reported[j]
                /\ source[j] # "none" \/ \E s \in Requests : Serves(s, j, {"saving"})
            BY <3>1, <6>1 DEF Calm, RunningFits
          <6>3. \A s \in Requests : Serves(s, j, {"saving"}) => (Serves(s, j, {"saving"}))'
            BY <1>2, <2>1 DEF Serves
          <6> QED
            BY <1>2, <2>2, <5>2, <6>2, <6>3 DEF settings
        <5> QED
          BY <5>1, <5>2
      <4> QED
        BY <4>1 DEF RunningFits
    <3>6. AbortedIsAwaited'
      <4>1. ASSUME NEW j \in Channels, NEW p \in Pollers, poller'[j][p] = "aborted"
            PROVE  \E s \in Requests : (Serves(s, j, {"stopping", "undoing"}))' /\ request'[s].waits = p
        <5>1. poller[j][p] = "aborted"
          BY <2>2, <4>1
        <5>2. PICK s \in Requests : Serves(s, j, {"stopping", "undoing"}) /\ request[s].waits = p
          BY <3>1, <5>1 DEF Calm, AbortedIsAwaited
        <5>3. request'[s] = request[s]
          BY <1>2, <2>1, <5>2 DEF Serves
        <5> QED
          BY <5>2, <5>3 DEF Serves
      <4> QED
        BY <4>1 DEF AbortedIsAwaited
    <3>7. ASSUME NEW s \in Requests
          PROVE  RequestFits(s)'
      <4>1. CASE s = r
        BY <2>1, <2>2, <4>1 DEF RequestFits
      <4>2. CASE s # r
        <5>1. request'[s].pc = "idle"
          BY <1>2, <2>1, <3>1, <4>2 DEF Calm, OneAtATime, Busy
        <5> QED
          BY <5>1 DEF RequestFits
      <4> QED
        BY <4>1, <4>2
    <3> QED
      BY <3>2, <3>3, <3>4, <3>5, <3>6, <3>7 DEF Calm
  <2> QED
    BY <2>3, <2>5, <2>6 DEF SetupInv
<1> QED
  BY <1>4, <1>5, <1>k DEF Verified

\* While owners ask for one thing at a time, the request served is the only one.
LEMMA OnlyOne ==
  ASSUME Calm, NEW r \in Requests, Busy(r)
  PROVE  booting = {} /\ \A s \in Requests \ {r} : request[s].pc = "idle"
BY DEF Calm, OneAtATime, Busy

\* The end of a request, when nothing else changed.
LEMMA RequestEnds ==
  ASSUME SetupInv, NEW r \in Requests, Busy(r), End(r), UNCHANGED hurried,
         UNCHANGED <<settings, runtime, booting, ignored>>,
         ~hurried => RunningFits' /\ AbortedIsAwaited'
  PROVE  SetupInv'
<1>1. SetupTyped /\ Lasting /\ (~hurried => Calm)
  BY DEF SetupInv
<1>2. /\ request' \in [Requests -> Serving] /\ request'[r] = Idle /\ Idle.pc = "idle"
      /\ \A s \in Requests \ {r} : request'[s] = request[s]
  BY <1>1, GoneIdle
<1>3. SetupTyped'
  BY <1>1, <1>2 DEF SetupTyped, settings, runtime
<1>4. Lasting'
  BY <1>1, <1>2 DEF Lasting, FileFits, WorkingIsCurrent, Running, Busy, settings, runtime
<1>5. ASSUME ~hurried'
      PROVE  Calm'
  <2>1. Calm /\ RunningFits' /\ AbortedIsAwaited'
    BY <1>1, <1>5
  <2>2. OneAtATime' /\ (WorkingIsCurrent("telegram"))' /\ BootFits' /\ VkFollowsTelegram'
    BY <1>2, <2>1 DEF OneAtATime, Busy, WorkingIsCurrent, BootFits,
       VkFollowsTelegram, Running, Calm, settings, runtime
  <2>3. \A s \in Requests : RequestFits(s)'
    BY <1>2, <2>1 DEF RequestFits, Running, Calm, settings, runtime
  <2> QED
    BY <2>1, <2>2, <2>3 DEF Calm
<1> QED
  BY <1>3, <1>4, <1>5 DEF SetupInv

\* The settings file could not be deleted.
LEMMA ClearFailsFits ==
  ASSUME SetupInv, NEW r \in Requests, ClearFails(r)
  PROVE  SetupInv'
<1>1. /\ request[r].pc = "clearing" /\ Busy(r) /\ End(r)
      /\ UNCHANGED <<settings, runtime, booting, hurried, ignored>>
  BY DEF ClearFails, Busy
<1>2. SetupTyped /\ (~hurried => Calm)
  BY DEF SetupInv
<1>3. /\ request'[r].pc = "idle" /\ \A s \in Requests \ {r} : request'[s] = request[s]
  BY <1>1, <1>2, GoneIdle
<1>4. \A s \in Requests, k \in Channels, pcs \in {{"saving"}, {"stopping", "undoing"}} :
        Serves(s, k, pcs) => (Serves(s, k, pcs))' /\ request'[s].waits = request[s].waits
  BY <1>1, <1>3 DEF Serves
<1>5. ~hurried => RunningFits' /\ AbortedIsAwaited'
  BY <1>1, <1>2, <1>4 DEF Calm, RunningFits, AbortedIsAwaited, Running, settings, runtime
<1> QED
  BY <1>1, <1>5, RequestEnds

\* The poller a request waited for has ended.
LEMMA StoppedFits ==
  ASSUME SetupInv, NEW r \in Requests, Stopped(r)
  PROVE  SetupInv'
<1>1. /\ request[r].pc \in {"stopping", "undoing"} /\ Busy(r) /\ request[r].waits = None
      /\ UNCHANGED <<settings, runtime, booting, hurried, ignored>>
  BY DEF Stopped, Busy
<1>2. SetupTyped /\ Lasting /\ (~hurried => Calm)
  BY DEF SetupInv
<1>3. ASSUME ~hurried
      PROVE  \A k \in Channels, p \in Pollers : poller[k][p] # "aborted"
  <2>1. ASSUME NEW k \in Channels, NEW p \in Pollers, poller[k][p] = "aborted"
        PROVE  FALSE
    <3>1. PICK s \in Requests : Serves(s, k, {"stopping", "undoing"}) /\ request[s].waits = p
      BY <1>2, <1>3, <2>1 DEF Calm, AbortedIsAwaited
    <3>2. s = r
      BY <1>1, <1>2, <1>3, <3>1, OnlyOne DEF Serves
    <3> QED
      BY <1>1, <3>1, <3>2, ChannelSetupAssumption
  <2> QED
    BY <2>1
<1>4. ASSUME \A s \in Requests \ {r} : request'[s] = request[s], ~hurried
      PROVE  RunningFits' /\ AbortedIsAwaited'
  <2>1. \A s \in Requests, k \in Channels : Serves(s, k, {"saving"}) => (Serves(s, k, {"saving"}))'
    BY <1>1, <1>4 DEF Serves
  <2>2. RunningFits'
    BY <1>1, <1>2, <1>4, <2>1 DEF Calm, RunningFits, Running, settings, runtime
  <2> QED
    BY <1>1, <1>3, <1>4, <2>2 DEF AbortedIsAwaited, runtime
<1>5. CASE End(r)
  BY <1>1, <1>2, <1>4, <1>5, GoneIdle, RequestEnds
<1>6. CASE request[r].pc = "stopping" /\ Go(r, "clearing")
  <2>1. /\ request' \in [Requests -> Serving]
        /\ request'[r].pc = "clearing" /\ request'[r].channel = request[r].channel
        /\ request'[r].waits = request[r].waits
        /\ \A s \in Requests \ {r} : request'[s] = request[s]
    BY <1>2, <1>6, Gone
  <2>2. SetupTyped'
    BY <1>1, <1>2, <2>1 DEF SetupTyped, settings, runtime
  <2>3. Lasting'
    BY <1>1, <1>2, <2>1 DEF Lasting, FileFits, WorkingIsCurrent, Running, Busy, settings, runtime
  <2>4. ASSUME ~hurried'
        PROVE  Calm'
    <3>1. Calm /\ RunningFits' /\ AbortedIsAwaited'
      BY <1>1, <1>2, <1>4, <2>1, <2>4
    <3>2. OneAtATime' /\ (WorkingIsCurrent("telegram"))' /\ BootFits' /\ VkFollowsTelegram'
      BY <1>1, <2>1, <3>1 DEF OneAtATime, Busy, WorkingIsCurrent, BootFits,
         VkFollowsTelegram, Running, Calm, settings, runtime
    <3>3. RequestFits(r)'
      BY <1>1, <1>6, <2>1, <3>1 DEF RequestFits, Running, Calm, settings, runtime
    <3>4. \A s \in Requests \ {r} : RequestFits(s)'
      BY <1>1, <2>1, <3>1 DEF RequestFits, Running, Calm, settings, runtime
    <3> QED
      BY <3>1, <3>2, <3>3, <3>4 DEF Calm
  <2> QED
    BY <2>2, <2>3, <2>4 DEF SetupInv
<1> QED
  BY <1>5, <1>6 DEF Stopped

\* The settings file is written,
LEMMA SavedFits ==
  ASSUME SetupInv, NEW r \in Requests, Saved(r)
  PROVE  SetupInv'
<1>1. SetupTyped /\ Lasting /\ (~hurried => Calm)
  BY DEF SetupInv
<1>2. PICK k \in Channels : k = request[r].channel
  BY <1>1 DEF SetupTyped, Serving
<1>3. /\ request[r].pc = "saving" /\ Busy(r) /\ End(r)
      /\ UNCHANGED <<runtime, booting, hurried, ignored>>
      /\ file' = [file EXCEPT ![k] = TRUE] /\ source' = [source EXCEPT ![k] = "local"]
  BY <1>2 DEF Saved, Busy
<1>4. /\ request' \in [Requests -> Serving] /\ request'[r] = Idle /\ Idle.pc = "idle"
      /\ \A s \in Requests \ {r} : request'[s] = request[s]
  BY <1>1, <1>3, GoneIdle
<1>5. SetupTyped'
  BY <1>1, <1>3, <1>4 DEF SetupTyped, runtime
<1>6. Lasting'
  <2>1. \A j \in Channels : FileFits(j)'
    BY <1>1, <1>3 DEF SetupTyped, Lasting, FileFits
  <2>2. ASSUME NEW j \in Channels, source'[j] = "environment"
        PROVE  source[j] = "environment"
    BY <1>1, <1>3, <2>2 DEF SetupTyped
  <2> QED
    BY <1>1, <1>3, <1>4, <2>1, <2>2 DEF Lasting, WorkingIsCurrent, Running, Busy, runtime
<1>7. ASSUME ~hurried'
      PROVE  Calm'
  <2>1. Calm
    BY <1>1, <1>3, <1>7
  <2>2. booting = {} /\ \A s \in Requests \ {r} : request[s].pc = "idle"
    BY <1>3, <2>1, OnlyOne
  <2>3. OneAtATime' /\ (WorkingIsCurrent("telegram"))' /\ BootFits'
    BY <1>3, <1>4, <2>1, <2>2 DEF OneAtATime, Busy, WorkingIsCurrent, BootFits, Calm, runtime
  <2>4. \A j \in Channels : /\ source'[j] = IF j = k THEN "local" ELSE source[j]
                            /\ current'[j] = current[j] /\ reported'[j] = reported[j]
    BY <1>1, <1>3 DEF SetupTyped, runtime
  <2>5. Running(k) /\ ignored' = ignored /\ (ignored \/ source["telegram"] # "none" \/ k = "telegram")
    BY <1>2, <1>3, <2>1 DEF Calm, RequestFits, VkFollowsTelegram, Channels
  <2>6. VkFollowsTelegram'
    BY <2>1, <2>4, <2>5 DEF Calm, VkFollowsTelegram, Running, Channels
  <2>7. RunningFits'
    <3>1. \A s \in Requests, j \in Channels : j # k /\ Serves(s, j, {"saving"}) => FALSE
      BY <1>2, <2>2 DEF Serves
    <3> QED
      BY <2>1, <2>4, <3>1 DEF Calm, RunningFits, Running
  <2>8. AbortedIsAwaited'
    <3>1. \A j \in Channels, p \in Pollers : poller[j][p] # "aborted"
      BY <1>3, <2>1, <2>2 DEF Calm, AbortedIsAwaited, Serves
    <3> QED
      BY <1>3, <3>1 DEF AbortedIsAwaited, runtime
  <2>9. \A s \in Requests : RequestFits(s)'
    BY <1>4, <2>2 DEF RequestFits
  <2> QED
    BY <2>3, <2>6, <2>7, <2>8, <2>9 DEF Calm
<1> QED
  BY <1>5, <1>6, <1>7 DEF SetupInv

\* and deleted.
LEMMA ClearedFits ==
  ASSUME SetupInv, NEW r \in Requests, Cleared(r)
  PROVE  SetupInv'
<1>1. SetupTyped /\ Lasting /\ (~hurried => Calm)
  BY DEF SetupInv
<1>2. PICK k \in Channels : k = request[r].channel
  BY <1>1 DEF SetupTyped, Serving
<1>3. /\ request[r].pc = "clearing" /\ Busy(r) /\ End(r)
      /\ UNCHANGED <<runtime, booting, hurried, ignored>>
      /\ file' = [file EXCEPT ![k] = FALSE] /\ source' = [source EXCEPT ![k] = "none"]
  BY <1>2 DEF Cleared, Busy
<1>4. /\ request' \in [Requests -> Serving] /\ request'[r] = Idle /\ Idle.pc = "idle"
      /\ \A s \in Requests \ {r} : request'[s] = request[s]
  BY <1>1, <1>3, GoneIdle
<1>5. SetupTyped'
  BY <1>1, <1>3, <1>4 DEF SetupTyped, runtime
<1>6. Lasting'
  <2>1. \A j \in Channels : FileFits(j)'
    BY <1>1, <1>3 DEF SetupTyped, Lasting, FileFits
  <2>2. ASSUME NEW j \in Channels, source'[j] = "environment"
        PROVE  source[j] = "environment"
    BY <1>1, <1>3, <2>2 DEF SetupTyped
  <2> QED
    BY <1>1, <1>3, <1>4, <2>1, <2>2 DEF Lasting, WorkingIsCurrent, Running, Busy, runtime
<1>7. ASSUME ~hurried'
      PROVE  Calm'
  <2>1. Calm
    BY <1>1, <1>3, <1>7
  <2>2. booting = {} /\ \A s \in Requests \ {r} : request[s].pc = "idle"
    BY <1>3, <2>1, OnlyOne
  <2>3. OneAtATime' /\ (WorkingIsCurrent("telegram"))' /\ BootFits'
    BY <1>3, <1>4, <2>1, <2>2 DEF OneAtATime, Busy, WorkingIsCurrent, BootFits, Calm, runtime
  <2>4. \A j \in Channels : /\ source'[j] = IF j = k THEN "none" ELSE source[j]
                            /\ current'[j] = current[j] /\ reported'[j] = reported[j]
    BY <1>1, <1>3 DEF SetupTyped, runtime
  <2>5. ~Running(k) /\ (k = "telegram" => source["vk"] = "none" /\ ~Running("vk"))
    BY <1>2, <1>3, <2>1 DEF Calm, RequestFits
  <2>6. VkFollowsTelegram'
    BY <2>1, <2>4, <2>5 DEF Calm, VkFollowsTelegram, Running, Channels
  <2>7. RunningFits'
    <3>1. \A s \in Requests, j \in Channels : Serves(s, j, {"saving"}) => FALSE
      BY <1>3, <2>2 DEF Serves
    <3> QED
      BY <2>1, <2>4, <2>5, <3>1 DEF Calm, RunningFits, Running
  <2>8. AbortedIsAwaited'
    <3>1. \A j \in Channels, p \in Pollers : poller[j][p] # "aborted"
      BY <1>3, <2>1, <2>2 DEF Calm, AbortedIsAwaited, Serves
    <3> QED
      BY <1>3, <3>1 DEF AbortedIsAwaited, runtime
  <2>9. \A s \in Requests : RequestFits(s)'
    BY <1>4, <2>2 DEF RequestFits
  <2> QED
    BY <2>3, <2>6, <2>7, <2>8, <2>9 DEF Calm
<1> QED
  BY <1>5, <1>6, <1>7 DEF SetupInv

\* The poller the runtime knew is told to stop; the runtime knows none.
LEMMA PollerStops ==
  ASSUME SetupTyped, Lasting, NEW k \in Channels, StopPoller(k)
  PROVE  /\ current' \in [Channels -> Waiting]
         /\ poller' \in [Channels -> [Pollers -> {"off", "working", "aborted"}]]
         /\ ~Running(k)'
         /\ WorkingIsCurrent(k) => \A p \in Pollers : poller'[k][p] # "working"
         /\ \A p \in Pollers :
              poller'[k][p] = "aborted" => poller[k][p] = "aborted" \/ current[k] = p
         /\ \A j \in Channels \ {k} : poller'[j] = poller[j] /\ current'[j] = current[j]
<1>1. /\ current \in [Channels -> Waiting]
      /\ poller \in [Channels -> [Pollers -> {"off", "working", "aborted"}]]
  BY DEF SetupTyped
<1>2. current' = [current EXCEPT ![k] = None]
  BY DEF StopPoller
<1>3. CASE Running(k)
  <2>1. poller' = [poller EXCEPT ![k][current[k]] = "aborted"] /\ current[k] \in Pollers
    BY <1>1, <1>3 DEF StopPoller, Running, Waiting
  <2> QED
    BY <1>1, <1>2, <2>1 DEF Running, WorkingIsCurrent, Waiting
<1>4. CASE ~Running(k)
  <2>1. poller' = poller
    BY <1>4 DEF StopPoller
  <2> QED
    BY <1>1, <1>2, <1>4, <2>1, ChannelSetupAssumption DEF Running, WorkingIsCurrent, Waiting
<1> QED
  BY <1>3, <1>4

\* Stopping on behalf of request r, whose row tells whom it waits for.
LEMMA StoppingFits ==
  ASSUME SetupInv, NEW r \in Requests, NEW k \in Channels, NEW pc \in {"stopping", "undoing"},
         NEW row \in Serving, row.pc = pc, row.channel = k, row.waits = current[k],
         StopPoller(k), request' = [request EXCEPT ![r] = row],
         source[k] # "environment",
         UNCHANGED <<settings, reported, booting, ignored>>, hurried' \in BOOLEAN,
         ~hurried' => /\ ~hurried /\ booting = {}
                      /\ \A s \in Requests \ {r} : request[s].pc = "idle"
                      /\ request[r].pc \in {"idle", "saving"}
                      /\ pc = "stopping" /\ k = "telegram" => source["vk"] = "none" /\ ~Running("vk")
                      /\ request[r].pc = "saving" => request[r].channel = k
  PROVE  SetupInv'
<1>1. SetupTyped /\ Lasting /\ (~hurried => Calm)
  BY DEF SetupInv
<1>2. /\ current' \in [Channels -> Waiting]
      /\ poller' \in [Channels -> [Pollers -> {"off", "working", "aborted"}]]
      /\ ~Running(k)'
      /\ WorkingIsCurrent(k) => \A p \in Pollers : poller'[k][p] # "working"
      /\ \A p \in Pollers :
           poller'[k][p] = "aborted" => poller[k][p] = "aborted" \/ current[k] = p
      /\ \A j \in Channels \ {k} : poller'[j] = poller[j] /\ current'[j] = current[j]
  BY <1>1, PollerStops
<1>3. /\ request' \in [Requests -> Serving]
      /\ request'[r].pc = pc /\ request'[r].channel = k /\ request'[r].waits = current[k]
      /\ \A s \in Requests \ {r} : request'[s] = request[s]
  BY <1>1, Answered
<1>4. SetupTyped'
  BY <1>1, <1>2, <1>3 DEF SetupTyped, settings
<1>5. Lasting'
  <2>1. (WorkingIsCurrent("vk"))'
    BY <1>1, <1>2 DEF Lasting, WorkingIsCurrent, Channels
  <2>2. ASSUME NEW j \in Channels
        PROVE  /\ FileFits(j)'
               /\ Running(j)' => poller'[j][current'[j]] = "working"
               /\ source'[j] = "environment" =>
                    /\ \A p \in Pollers : poller'[j][p] # "aborted"
                    /\ \A s \in Requests : Busy(s)' => request'[s].channel # j
    <3>1. CASE j = k
      BY <1>1, <1>2, <3>1 DEF Lasting, FileFits, settings
    <3>2. CASE j # k
      BY <1>1, <1>2, <1>3, <3>2 DEF Lasting, FileFits, settings, Running, Busy
    <3> QED
      BY <3>1, <3>2
  <2> QED
    BY <2>1, <2>2 DEF Lasting
<1>6. ASSUME ~hurried'
      PROVE  Calm'
  <2>1. Calm /\ booting = {} /\ \A s \in Requests \ {r} : request[s].pc = "idle"
    BY <1>1, <1>6
  <2>2. OneAtATime' /\ BootFits'
    BY <1>3, <2>1 DEF OneAtATime, Busy, BootFits
  <2>3. (WorkingIsCurrent("telegram"))'
    BY <1>2, <2>1 DEF Calm, WorkingIsCurrent, Channels
  <2>4. VkFollowsTelegram'
    BY <1>2, <2>1 DEF Calm, VkFollowsTelegram, Running, Channels, settings
  <2>5. RunningFits'
    <3>1. ASSUME NEW j \in Channels, Running(j)'
          PROVE  reported'[j] /\ source'[j] # "none"
      <4>1. j # k /\ Running(j)
        BY <1>2, <3>1 DEF Running
      <4>2. ~ \E s \in Requests : Serves(s, j, {"saving"})
        BY <1>6, <2>1, <4>1 DEF Serves
      <4> QED
        BY <2>1, <4>1, <4>2 DEF Calm, RunningFits, settings
    <3> QED
      BY <3>1 DEF RunningFits
  <2>6. AbortedIsAwaited'
    <3>1. ASSUME NEW j \in Channels, NEW p \in Pollers, poller'[j][p] = "aborted"
          PROVE  \E s \in Requests : (Serves(s, j, {"stopping", "undoing"}))' /\ request'[s].waits = p
      <4>1. poller[j][p] # "aborted"
        <5>1. ~ \E s \in Requests : Serves(s, j, {"stopping", "undoing"})
          BY <1>6, <2>1 DEF Serves
        <5> QED
          BY <2>1, <5>1 DEF Calm, AbortedIsAwaited
      <4>2. j = k /\ current[k] = p
        BY <1>2, <3>1, <4>1
      <4> QED
        BY <1>3, <4>2 DEF Serves
    <3> QED
      BY <3>1 DEF AbortedIsAwaited
  <2>7. RequestFits(r)'
    <3>1. pc = "stopping" /\ k = "telegram" => source["vk"] = "none" /\ ~Running("vk")
      BY <1>6
    <3> QED
      BY <1>2, <1>3, <3>1 DEF RequestFits, Running, settings, Channels
  <2>8. \A s \in Requests \ {r} : RequestFits(s)'
    BY <1>3, <2>1 DEF RequestFits
  <2> QED
    BY <2>2, <2>3, <2>4, <2>5, <2>6, <2>7, <2>8 DEF Calm
<1> QED
  BY <1>4, <1>5, <1>6 DEF SetupInv

\* The file could not be written: the poller just started is stopped.
LEMMA SaveFailsFits ==
  ASSUME SetupInv, NEW r \in Requests, SaveFails(r)
  PROVE  SetupInv'
<1>1. SetupTyped /\ Lasting /\ (~hurried => Calm)
  BY DEF SetupInv
<1>2. PICK k \in Channels : k = request[r].channel
  BY <1>1 DEF SetupTyped, Serving
<1>3. /\ request[r].pc = "saving" /\ Busy(r) /\ StopPoller(k)
      /\ request' = [request EXCEPT ![r].pc = "undoing", ![r].waits = current[k]]
      /\ UNCHANGED <<settings, reported, booting, hurried, ignored>>
  BY <1>2 DEF SaveFails, UndoStart, Busy
<1>4. PICK row \in Serving : /\ row.pc = "undoing" /\ row.channel = k /\ row.waits = current[k]
                            /\ request' = [request EXCEPT ![r] = row]
  <2> DEFINE row == [request[r] EXCEPT !.pc = "undoing", !.waits = current[k]]
  <2>1. request[r] \in Serving /\ request \in [Requests -> Serving] /\ current[k] \in Waiting
    BY <1>1 DEF SetupTyped
  <2>2. row \in Serving /\ row.pc = "undoing" /\ row.channel = k /\ row.waits = current[k]
    BY <1>2, <2>1 DEF Serving
  <2>3. request' = [request EXCEPT ![r] = row]
    BY <1>3
  <2> QED
    BY <2>2, <2>3
<1>5. source[k] # "environment"
  BY <1>1, <1>2, <1>3 DEF Lasting
<1>6. ~hurried => booting = {} /\ \A s \in Requests \ {r} : request[s].pc = "idle"
  BY <1>1, <1>3, OnlyOne
<1>7. hurried' \in BOOLEAN
  BY <1>1, <1>3 DEF SetupTyped
<1> QED
  BY <1>2, <1>3, <1>4, <1>5, <1>6, <1>7, StoppingFits

\* A request to disconnect a channel is let in.
LEMMA DisconnectFits ==
  ASSUME SetupInv, NEW r \in Requests, NEW k \in Channels, Disconnect(r, k)
  PROVE  SetupInv'
<1>1. SetupTyped /\ Lasting /\ (~hurried => Calm)
  BY DEF SetupInv
<1>2. /\ request[r].pc = "idle" /\ hurried' = (hurried \/ InFlight) /\ VkAllows(k)
      /\ source[k] = "local" /\ StopPoller(k)
      /\ request' = [request EXCEPT ![r] = [pc |-> "stopping", channel |-> k,
                                            waits |-> current[k]]]
      /\ UNCHANGED <<settings, reported, booting, ignored>>
  BY DEF Disconnect, Ask, StopFirst
<1>3. hurried' \in BOOLEAN
  BY <1>1, <1>2 DEF SetupTyped, InFlight
<1> DEFINE row == [pc |-> "stopping", channel |-> k, waits |-> current[k]]
<1>6. row \in Serving /\ row.pc = "stopping" /\ row.channel = k /\ row.waits = current[k]
  BY <1>1 DEF SetupTyped, Serving
<1>7. request' = [request EXCEPT ![r] = row]
  BY <1>2
<1> HIDE DEF row
<1>4. ~hurried' => /\ ~hurried /\ booting = {}
                   /\ \A s \in Requests \ {r} : request[s].pc = "idle"
  BY <1>2 DEF InFlight
<1>5. ASSUME ~hurried', k = "telegram"
      PROVE  source["vk"] = "none" /\ ~Running("vk")
  <2>1. source["vk"] = "none"
    BY <1>2, <1>5 DEF VkAllows
  <2>2. \A s \in Requests : ~Serves(s, "vk", {"saving"})
    BY <1>2, <1>4, <1>5 DEF Serves
  <2> QED
    BY <1>1, <1>4, <1>5, <2>1, <2>2 DEF Calm, RunningFits, Channels
<1> QED
  BY <1>2, <1>3, <1>4, <1>5, <1>6, <1>7, StoppingFits

\* The start of Telegram at boot is answered.
LEMMA BootAnsweredFits ==
  ASSUME SetupInv, NEW k \in Channels, BootAnswered(k)
  PROVE  SetupInv'
<1>1. SetupTyped /\ Lasting /\ (~hurried => Calm)
  BY DEF SetupInv
<1>2. /\ k \in booting /\ k = "telegram" /\ booting' = booting \ {k}
      /\ UNCHANGED <<settings, request, hurried, ignored>>
  BY <1>1 DEF BootAnswered, SetupTyped
<1>3. booting' = {}
  BY <1>1, <1>2 DEF SetupTyped
<1>4. /\ current' \in [Channels -> Waiting]
      /\ poller' \in [Channels -> [Pollers -> {"off", "working", "aborted"}]]
      /\ reported' \in [Channels -> BOOLEAN]
      /\ poller'["vk"] = poller["vk"] /\ current'["vk"] = current["vk"]
      /\ reported'["vk"] = reported["vk"]
      /\ Running("telegram")' => poller'["telegram"][current'["telegram"]] = "working"
      /\ \A p \in Pollers : poller'["telegram"][p] = "aborted" => poller["telegram"][p] = "aborted"
      /\ ~Running("telegram") /\ WorkingIsCurrent("telegram") => (WorkingIsCurrent("telegram"))'
      /\ ~Running("telegram") => (Running("telegram")' => reported'["telegram"])
  <2>1. CASE StartPoller(k)
    <3>1. /\ current' \in [Channels -> Waiting] /\ Running("telegram")'
          /\ poller' \in [Channels -> [Pollers -> {"off", "working", "aborted"}]]
          /\ reported' \in [Channels -> BOOLEAN] /\ reported'["telegram"]
          /\ poller'["telegram"][current'["telegram"]] = "working"
          /\ \A p \in Pollers : current'["telegram"] # p => poller'["telegram"][p] = poller["telegram"][p]
          /\ \A p \in Pollers : poller'["telegram"][p] = "aborted" => poller["telegram"][p] = "aborted"
          /\ \A j \in Channels \ {"telegram"} :
               /\ poller'[j] = poller[j] /\ current'[j] = current[j]
               /\ reported'[j] = reported[j]
      BY <1>1, <1>2, <2>1, Started
    <3>2. "vk" \in Channels \ {"telegram"}
      BY DEF Channels
    <3>3. ~Running("telegram") /\ WorkingIsCurrent("telegram") => (WorkingIsCurrent("telegram"))'
      BY <3>1, ChannelSetupAssumption DEF Running, WorkingIsCurrent
    <3> QED
      BY <3>1, <3>2, <3>3
  <2>2. CASE UNCHANGED runtime
    BY <1>1, <2>2 DEF runtime, SetupTyped, Lasting, Running, WorkingIsCurrent, Channels
  <2> QED
    BY <2>1, <2>2 DEF BootAnswered
<1>5. SetupTyped'
  BY <1>1, <1>2, <1>3, <1>4 DEF SetupTyped, settings
<1>6. Lasting'
  BY <1>1, <1>2, <1>4 DEF Lasting, FileFits, WorkingIsCurrent, Running, Busy, settings, Channels
<1>7. ASSUME ~hurried'
      PROVE  Calm'
  <2>1. /\ Calm /\ ~Running("telegram") /\ source["telegram"] # "none"
        /\ \A s \in Requests : request[s].pc = "idle"
    BY <1>1, <1>2, <1>7 DEF Calm, BootFits, OneAtATime, Busy
  <2>2. OneAtATime' /\ BootFits' /\ (WorkingIsCurrent("telegram"))' /\ VkFollowsTelegram'
    BY <1>2, <1>3, <1>4, <2>1 DEF OneAtATime, Busy, BootFits, VkFollowsTelegram, Calm, settings
  <2>3. RunningFits'
    <3>1. \A s \in Requests : ~Serves(s, "vk", {"saving"})
      BY <2>1 DEF Serves
    <3>2. Running("vk") => reported["vk"] /\ source["vk"] # "none"
      BY <2>1, <3>1 DEF Calm, RunningFits, Channels
    <3> QED
      BY <1>2, <1>4, <2>1, <3>2 DEF RunningFits, Running, settings, Channels
  <2>4. AbortedIsAwaited'
    <3>1. \A j \in Channels, p \in Pollers : poller[j][p] # "aborted"
      BY <2>1 DEF Calm, AbortedIsAwaited, Serves
    <3> QED
      BY <1>4, <3>1 DEF AbortedIsAwaited, Channels
  <2>5. \A s \in Requests : RequestFits(s)'
    BY <1>2, <2>1 DEF RequestFits
  <2> QED
    BY <2>2, <2>3, <2>4, <2>5 DEF Calm
<1> QED
  BY <1>5, <1>6, <1>7 DEF SetupInv

\* An aborted poller ends.
LEMMA PollerEndsFits ==
  ASSUME SetupInv, NEW k \in Channels, NEW p \in Pollers, PollerEnds(k, p)
  PROVE  SetupInv'
<1>1. SetupTyped /\ Lasting /\ (~hurried => Calm)
  BY DEF SetupInv
<1>2. /\ poller[k][p] = "aborted" /\ poller' = [poller EXCEPT ![k][p] = "off"]
      /\ reported' = [reported EXCEPT ![k] = FALSE]
      /\ UNCHANGED <<settings, current, booting, hurried, ignored>>
  BY DEF PollerEnds
<1>3. /\ request' \in [Requests -> Serving]
      /\ \A s \in Requests :
           /\ request'[s].pc = request[s].pc /\ request'[s].channel = request[s].channel
           /\ ~(request[s].channel = k /\ request[s].waits = p) =>
                request'[s].waits = request[s].waits
  <2>1. ASSUME NEW s \in Requests
        PROVE  LET row == [request[s] EXCEPT !.waits = None] IN
               row \in Serving /\ row.pc = request[s].pc /\ row.channel = request[s].channel
    <3>1. request[s] \in Serving
      BY <1>1 DEF SetupTyped
    <3> QED
      BY <3>1 DEF Serving, Waiting
  <2>2. \A s \in Requests : request[s] \in Serving
    BY <1>1 DEF SetupTyped
  <2>3. request' = [s \in Requests |->
                   IF request[s].channel = k /\ request[s].waits = p
                   THEN [request[s] EXCEPT !.waits = None] ELSE request[s]]
    BY DEF PollerEnds
  <2> QED
    BY <2>1, <2>2, <2>3
<1>4. /\ poller' \in [Channels -> [Pollers -> {"off", "working", "aborted"}]]
      /\ \A j \in Channels, q \in Pollers : ~(j = k /\ q = p) => poller'[j][q] = poller[j][q]
      /\ poller'[k][p] = "off"
      /\ reported' \in [Channels -> BOOLEAN] /\ \A j \in Channels \ {k} : reported'[j] = reported[j]
  BY <1>1, <1>2 DEF SetupTyped
<1>5. SetupTyped'
  BY <1>1, <1>2, <1>3, <1>4 DEF SetupTyped, settings
<1>6. Lasting'
  <2>1. (WorkingIsCurrent("vk"))'
    BY <1>1, <1>2, <1>4 DEF Lasting, WorkingIsCurrent, Channels
  <2>2. ASSUME NEW j \in Channels, Running(j)
        PROVE  poller'[j][current'[j]] = "working"
    <3>1. poller[j][current[j]] = "working" /\ current[j] \in Pollers
      BY <1>1, <2>2 DEF Lasting, SetupTyped, Waiting, Running
    <3> QED
      BY <1>2, <1>4, <3>1
  <2>3. ASSUME NEW j \in Channels
        PROVE  /\ FileFits(j)'
               /\ Running(j)' => poller'[j][current'[j]] = "working"
               /\ source'[j] = "environment" =>
                    /\ \A q \in Pollers : poller'[j][q] # "aborted"
                    /\ \A s \in Requests : Busy(s)' => request'[s].channel # j
    BY <1>1, <1>2, <1>3, <1>4, <2>2 DEF Lasting, FileFits, settings, Running, Busy
  <2> QED
    BY <2>1, <2>3 DEF Lasting
<1>7. ASSUME ~hurried'
      PROVE  Calm'
  <2>1. Calm
    BY <1>1, <1>2, <1>7
  <2>2. PICK r \in Requests : Serves(r, k, {"stopping", "undoing"}) /\ request[r].waits = p
    BY <1>2, <2>1 DEF Calm, AbortedIsAwaited
  <2>3. ~Running(k)
    BY <2>1, <2>2 DEF Calm, RequestFits, Serves
  <2>4. OneAtATime' /\ BootFits' /\ (WorkingIsCurrent("telegram"))' /\ VkFollowsTelegram'
    BY <1>2, <1>3, <1>4, <2>1 DEF Calm, OneAtATime, Busy, BootFits, WorkingIsCurrent,
       VkFollowsTelegram, Running, settings, Channels
  <2>5. RunningFits'
    BY <1>2, <1>3, <1>4, <2>1, <2>3 DEF Calm, RunningFits, Running, Serves, settings
  <2>6. AbortedIsAwaited'
    <3>1. ASSUME NEW j \in Channels, NEW q \in Pollers, poller'[j][q] = "aborted"
          PROVE  \E s \in Requests : (Serves(s, j, {"stopping", "undoing"}))' /\ request'[s].waits = q
      <4>1. ~(j = k /\ q = p) /\ poller[j][q] = "aborted"
        BY <1>4, <3>1
      <4>2. PICK s \in Requests : Serves(s, j, {"stopping", "undoing"}) /\ request[s].waits = q
        BY <2>1, <4>1 DEF Calm, AbortedIsAwaited
      <4>3. request'[s].waits = q
        BY <1>3, <4>1, <4>2 DEF Serves
      <4> QED
        BY <1>3, <4>2, <4>3 DEF Serves
    <3> QED
      BY <3>1 DEF AbortedIsAwaited
  <2>7. \A s \in Requests : RequestFits(s)'
    BY <1>2, <1>3, <2>1 DEF Calm, RequestFits, Running, settings
  <2> QED
    BY <2>4, <2>5, <2>6, <2>7 DEF Calm
<1> QED
  BY <1>5, <1>6, <1>7 DEF SetupInv

\* The process is restarted: source and file agree, so nothing is lost.
LEMMA RestartFits ==
  ASSUME SetupInv, CrashAndRestart
  PROVE  SetupInv'
<1>1. SetupTyped /\ Lasting /\ (~hurried => Calm)
  BY DEF SetupInv
<1>2. /\ source' \in [Channels -> {"none", "local", "environment"}]
      /\ \A k \in Channels : source'[k] \in SourcesAtBoot(k)
      /\ ignored' = (ignored \/ \E k \in Channels : Ignores(k))
      /\ booting' = {k \in {"telegram"} : source'[k] # "none"}
      /\ reported' = [k \in Channels |-> TRUE]
      /\ request' = [r \in Requests |-> Idle]
      /\ UNCHANGED <<file, hurried>>
  BY DEF CrashAndRestart
<1>3. PICK p \in Pollers :
        /\ current' = [k \in Channels |->
                         IF k = "vk" /\ source'[k] # "none" THEN p ELSE None]
        /\ poller' = [k \in Channels |-> [q \in Pollers |->
                        IF current'[k] = q THEN "working" ELSE "off"]]
  BY DEF CrashAndRestart
<1>4. \A k \in Channels : /\ FileFits(k)'
                          /\ source'[k] = "environment" => source[k] = "environment"
  <2> TAKE k \in Channels
  <2>1. FileFits(k) /\ file'[k] = file[k] /\ source[k] \in {"none", "local", "environment"}
    BY <1>1, <1>2 DEF Lasting, SetupTyped
  <2>2. ~ignored' => ~ignored /\ ~(file[k] /\ source'[k] = "none")
    BY <1>2 DEF Ignores
  <2> QED
    BY <1>2, <2>1, <2>2 DEF FileFits, SourcesAtBoot
<1>a. ASSUME ~ignored'
      PROVE  ~ignored /\ source' = source
  <2>1. ASSUME NEW k \in Channels
        PROVE  source'[k] = source[k]
    <3>1. FileFits(k) /\ source[k] \in {"none", "local", "environment"}
      BY <1>1 DEF Lasting, SetupTyped
    <3>2. ~ignored /\ ~(file[k] /\ source'[k] = "none")
      BY <1>2, <1>a DEF Ignores
    <3> QED
      BY <1>2, <3>1, <3>2 DEF FileFits, SourcesAtBoot
  <2> QED
    BY <1>1, <1>2, <1>a, <2>1 DEF SetupTyped
<1>b. ignored' \in BOOLEAN
  BY <1>1, <1>2 DEF SetupTyped
<1>5. Idle \in Serving /\ Idle.pc = "idle"
  BY DEF Idle, Serving, Waiting, Channels
<1>6. SetupTyped'
  BY <1>1, <1>2, <1>3, <1>b, <1>5 DEF SetupTyped, Waiting
<1>7. /\ p # None /\ \A q \in Pollers : q # None
      /\ "vk" \in Channels /\ "telegram" \in Channels /\ \A k \in Channels : k \in {"vk", "telegram"}
  BY ChannelSetupAssumption DEF Channels
<1>8. Lasting'
  BY <1>1, <1>2, <1>3, <1>4, <1>5, <1>7 DEF Lasting, FileFits, WorkingIsCurrent, Running, Busy
<1>9. ASSUME ~hurried'
      PROVE  Calm'
  <2>1. Calm
    BY <1>1, <1>2, <1>9
  <2>2. OneAtATime' /\ BootFits' /\ (WorkingIsCurrent("telegram"))'
    BY <1>2, <1>3, <1>5, <1>7 DEF OneAtATime, Busy, BootFits, Running, WorkingIsCurrent
  <2>3. VkFollowsTelegram'
    BY <1>3, <1>a, <1>7, <2>1 DEF VkFollowsTelegram, Running, Calm
  <2>4. RunningFits'
    BY <1>2, <1>3, <1>7 DEF RunningFits, Running
  <2>5. AbortedIsAwaited'
    BY <1>3, <1>7 DEF AbortedIsAwaited
  <2>6. \A r \in Requests : RequestFits(r)'
    BY <1>2, <1>5 DEF RequestFits
  <2> QED
    BY <2>2, <2>3, <2>4, <2>5, <2>6 DEF Calm
<1> QED
  BY <1>6, <1>8, <1>9 DEF SetupInv

\* Nothing changes.
LEMMA SetupStutterFits == SetupInv /\ UNCHANGED vars => SetupInv'
BY DEF SetupInv, SetupTyped, Lasting, FileFits, Calm, WorkingIsCurrent, Running, Busy, OneAtATime, BootFits,
   VkFollowsTelegram, RunningFits, AbortedIsAwaited, RequestFits, Serves, vars, settings, runtime

\* The invariant of connecting and disconnecting.
THEOREM SetupInvariant == Spec => []SetupInv
<1>1. SetupInv /\ [Next]_vars => SetupInv'
  BY ConnectFits, DisconnectFits, VerifiedFits, SavedFits, SaveFailsFits, StoppedFits,
     ClearedFits, ClearFailsFits, BootAnsweredFits, PollerEndsFits, RestartFits,
     SetupStutterFits DEF Next
<1> QED
  BY <1>1, TypesInit, PTL DEF Spec

\* VK never outlives Telegram while owners ask for one thing at a time, whatever
\* verification, saving, stopping or deleting fails and whenever the process is
\* restarted, unless a start could not read a settings file.
THEOREM VkNeedsTelegramAlways == Spec => []VkNeedsTelegram
<1>1. SetupInv => VkNeedsTelegram
  BY DEF SetupInv, Calm, VkFollowsTelegram, VkNeedsTelegram, OrderIsEnforced, VkHasTelegram
<1> QED
  BY <1>1, SetupInvariant, PTL

\* A channel never has two pollers at work; the poller the runtime knows works.
THEOREM OnePollerAlways == Spec => []OnePoller
<1>1. SetupInv => OnePoller
  BY DEF SetupInv, Lasting, Calm, WorkingIsCurrent, AtMostOneWorks, OnePoller
<1> QED
  BY <1>1, SetupInvariant, PTL

\* A channel whose poller works is known to work, and once nothing is in flight
\* its settings are those the next start reads.
THEOREM RunningIsKnownAlways == Spec => []RunningIsKnown
<1>1. ASSUME SetupInv, ~hurried, NEW k \in Channels, Running(k)
      PROVE  /\ source[k] # "none" => reported[k]
             /\ ~InFlight => source[k] # "none" /\ (source[k] = "local" => file[k])
  <2>1. reported[k] /\ (source[k] # "none" \/ \E r \in Requests : Serves(r, k, {"saving"}))
    BY <1>1 DEF SetupInv, Calm, RunningFits
  <2>2. ~InFlight => ~ \E r \in Requests : Serves(r, k, {"saving"})
    BY DEF InFlight, Serves
  <2>3. source[k] = "local" => file[k]
    BY <1>1 DEF SetupInv, Lasting, FileFits
  <2> QED
    BY <2>1, <2>2, <2>3
<1>2. SetupInv => RunningIsKnown
  BY <1>1 DEF RunningIsKnown
<1> QED
  BY <1>2, SetupInvariant, PTL

\* Only the request that stopped a channel's poller deletes its settings, and no
\* request touches what the environment configures.
THEOREM SettingsOutlivePollersAlways == Spec => SettingsOutlivePollers
<1>1. ASSUME SetupInv, SetupInv', Next, NEW k \in Channels
      PROVE  StopsBeforeForgetting(k) /\ EnvironmentIsKept(k)
  <2>1. SetupTyped /\ Lasting /\ Lasting' /\ (~hurried => Calm)
    BY <1>1 DEF SetupInv
  <2>2. ASSUME ~hurried, file[k], ~file'[k], NEW p \in Pollers, poller[k][p] = "working"
        PROVE  FALSE
    <3>1. PICK r \in Requests : Cleared(r)
      <4>1. ~ UNCHANGED file
        BY <2>2
      <4>2. ASSUME NEW r \in Requests, Saved(r)
            PROVE  FALSE
        BY <2>1, <2>2, <4>2 DEF Saved, SetupTyped
      <4> QED
        BY <1>1, <4>1, <4>2 DEF Next, Connect, Disconnect, Verified, SaveFails, Stopped, ClearFails,
           BootAnswered, PollerEnds, CrashAndRestart, settings
    <3>2. request[r].pc = "clearing" /\ request[r].channel = k
      BY <2>1, <2>2, <3>1 DEF Cleared, SetupTyped
    <3>3. ~Running(k)
      BY <2>1, <2>2, <3>2 DEF Calm, RequestFits
    <3>4. current[k] = p
      BY <2>1, <2>2 DEF Calm, Lasting, WorkingIsCurrent, Channels
    <3> QED
      BY <3>3, <3>4, ChannelSetupAssumption DEF Running
  <2>3. ASSUME source[k] = "environment"
        PROVE  source'[k] = "environment"
    <3>1. CASE CrashAndRestart
      BY <2>3, <3>1 DEF CrashAndRestart, SourcesAtBoot
    <3>2. ASSUME NEW r \in Requests, Saved(r) \/ Cleared(r)
          PROVE  source'[k] = "environment"
      <4>1. request[r].channel # k
        BY <2>1, <2>3, <3>2 DEF Lasting, Busy, Saved, Cleared
      <4> QED
        BY <2>1, <2>3, <3>2, <4>1 DEF Saved, Cleared, SetupTyped
    <3>3. CASE UNCHANGED source
      BY <2>3, <3>3
    <3> QED
      BY <1>1, <3>1, <3>2, <3>3 DEF Next, Connect, Disconnect, Verified, SaveFails, Stopped,
         ClearFails, BootAnswered, PollerEnds, settings
  <2>4. EnvironmentIsKept(k)
    BY <2>1, <2>3 DEF EnvironmentIsKept, Lasting, FileFits
  <2> QED
    BY <2>2, <2>4 DEF StopsBeforeForgetting
<1>2. ASSUME SetupInv, SetupInv', [Next]_vars
      PROVE  [\A k \in Channels : StopsBeforeForgetting(k) /\ EnvironmentIsKept(k)]_vars
  BY <1>1, <1>2
<1>3. Spec => [][\A k \in Channels : StopsBeforeForgetting(k) /\ EnvironmentIsKept(k)]_vars
  BY <1>2, SetupInvariant, PTL DEF Spec
<1> QED
  BY <1>3 DEF SettingsOutlivePollers
=============================================================================
