# A formal model of Inbox Point

Inbox Point (`src/`) relays client conversations from Telegram and VK to operators, in
Telegram forum topics or in a web inbox, and delivers their replies. It is one Node process
over one SQLite database: every SQLite call is synchronous, so the program interleaves only
where it awaits the network or a file. The models here take a step to be what runs between two
awaits. Paths below are relative to `src/src/` unless they start with `src/`.

## 1. Inventory

| Component | State it keeps | Operations | What makes it correct |
|---|---|---|---|
| Delivery queue (`core/application/delivery-worker.ts`, `delivery-failure-policy.ts`, the `deliveries` table) | one row per reply: status, claim, attempts, due time, uncertain flag, alert flag; the worker's list of the cycle | enqueue, claim, send, record outcome, alert, retry, confirm received or not, recover at startup | a reply reaches the client once unless an operator vouched for a repeat; order within a conversation; bounded retries; every failure is reported; nothing blocks for ever |
| Handoff (`core/application/handoff-service.ts`) | `support_requests`, `conversation_messages`, `processed_events` | client message, operator reply, `/close`, `/reopen`, topic closed and reopened | one active request and one place per conversation; nothing handled is lost; redelivered updates are harmless |
| Operator inboxes (`switchable-operator-inbox.ts`, `emergency-operator-inbox.ts`, `infrastructure/telegram/telegram-topics-inbox.ts`) | the registered Telegram inbox, `operator_actions` | open, relay in parts, close, reopen, fall back to the web | no part is relayed twice; the client is told "sent" only when it is true |
| Uncertain relays (`operator-action-incident-service.ts`) | rows in `outcome_unknown` | confirm, move to web | each incident can be resolved |
| Web inbox (`modules/operator-inbox`, its page in the frontend) | requests on `web:` topics; in the page the selection, the draft and its idempotency key | list, read messages, reply, close | a reply that is sent again is not delivered twice; what is shown belongs to what is answered |
| Telegram polling (`telegram-poller.ts`, `telegram-update-router.ts`, `telegram-client-menu.ts`) | in-memory offset | route, new question | no update is skipped or repeated with effect |
| VK polling (`vk-poller.ts`, `vk-update-router.ts`, `inbound_events`) | stored events with attempts, long-poll position | store, route, retry, quarantine, retry or skip by an operator | no stored message is dropped; a poison event does not block the others; order per conversation |
| Client menus (`client-information.ts`, `telegram-client-menu.ts`, `vk-client-menu.ts`) | the catalog in memory, a keyboard at each client | answer a section, start or leave a conversation | a button a client was once sent keeps its meaning |
| Channel setup (`*-setup-controller.ts`, `*-runtime.ts`) | settings files, `source`, running pollers | connect, disconnect, start at boot | one poller per channel; settings match the runtime; VK never without Telegram |
| API clients (`telegram-api-client.ts`, `vk-api-client.ts`) | none; an exchange in flight | call, validate the answer | "failed" is said only of what may be repeated |
| Content management (`modules/content-management`, its page in the frontend) | a private JSON file with its history, the catalog in memory; in a tab a draft, its version and its copy in `sessionStorage` | load, edit, save, restore, leave, log out | no draft is lost, none overwrites a text its author had not seen, a restart that can read them shows the same texts |
| Service control (`modules/service-control`) | a private JSON file, the modes in memory, the update queue | pause and resume intake and delivery | file and memory agree; no order undoes another |
| Monitoring (`modules/operations-monitoring`, `availability-monitor.ts`) | what the pollers and the worker reported; alert state | `/ready`, status, alert | what it reports is the state; an outage is alerted, and not again once that is known |
| Retention, snapshots, restore (`sqlite-retention.ts`, `service-snapshot.ts`) | old rows, directories with manifests | purge, back up, seal, verify, publish, delete expired, restore | nothing unfinished is deleted; what is to be forgotten is, in copies too; a published copy is whole until it expires |
| Sessions, HTTP, frontend | sessions in memory | login, logout, expiry, transport | modelled where the editor and the inbox page meet them |

How they interact. The pollers call the menus and the handoff; the handoff writes requests,
asks the switchable inbox to open or relay, and queues acknowledgements and replies. The worker
drains the queue through the channels the runtimes registered. The menus answer from the
catalog that content management replaces; pollers and worker obey the modes of service control.
Owner and web operators act over HTTP at any await of the others. The backup job is a process of its own
over the same files; the availability monitor runs on another host and sees only `/ready`. A
restart runs the three recovery statements of `sqlite-startup-recovery.ts`. The hard parts are
the awaits (state read before, used after), answers that never come, crashes between a request
and its record, redelivered updates, and writes that fail after they took effect;
`PROJECT.json` lists each at its line.

## 2. Modules

| Module | Models | Reads like |
|---|---|---|
| `DeliveryContract` | what the queue promises per reply, without worker or rows | abstract specification |
| `DeliveryQueue` | the table, the worker, the channels, operators, crashes | detailed specification, `INSTANCE DeliveryContract` |
| `Handoff` | both pollers, handoff, inboxes, incidents, web inbox | specification |
| `VkInbox` | stored VK events, overlapping pollers, retries, quarantine, claims and the per-client task queue | specification |
| `ChannelSetup` | connect and disconnect requests, settings files, runtimes, boot | specification |
| `Snapshots` | retention, the backup job, rotation, restore | specification |
| `ContentManagement`, `ClientMenu`, `WebInbox`, `ServiceControl`, `Operations`, `ApiClients` | one smaller part each | state and actions of a part |
| `Service` | the six parts together | composition |
| `DeliveryQueueProofs`, `HandoffProofs`, `VkInboxProofs`, `ChannelSetupProofs`, `SnapshotsProofs` | invariants and theorems of the module named | proofs |
| `HandoffOutcomeProofs` | what becomes of a message and who is told: two more invariants of `Handoff` and their theorems | proofs |
| `ContentManagementProofs`, `ServiceProofs` | the invariant of content management; those of the five other parts and the theorems about `Service` | proofs |
| `MC*` | model values and small functions for TLC | |

Definitions marked "slip" are plausible mistakes, used only to show that a property notices
them. Variables marked "history" are not in the program; properties are stated with them.

### DeliveryQueue

`deliveries` is the table; times are kept as whether they have come (`due`, `alertDue`). `pc`
says where the worker awaits: `sending` inside `channel.send`, `alerting` inside
`notifyDeliveryFailure`, `idle` between cycles, `dead` after an exception left `run()`.
`batch` and `listed` are the list it read at the start of the cycle, which may be stale.
Telegram shows every accepted request (`received` grows), VK drops a repeated `random_id`.
`orphans` are requests nobody awaits any more; they may be accepted at any later time.
`denied`, `requeues` and `alerted` are history. The writes that may throw are
`completeDelivery` (rolled back), the failure records and the alert marks; any of them ends the
worker except where the code catches it.

### Handoff

`db` holds the tables as the step sees them; `stream[h]` is what arrived for poller `h` with
each update's `processed_events` status, `taken[h]` and `confirmed[h]` the poller's position and
the one the messenger has been told. `task[h]` is the await the poller is in: opening a topic,
relaying a part, closing, reopening, resetting, answering. Actions end an await in each way
Telegram can end it: accepted, refused, unanswered. A request number is its creation order.

`RelayChunks` goes through the parts of a message as `executeAction` does. A part that was sent,
or is uncertain, is passed over. One an operator has resolved is neither sent again nor passed:
confirming it gives it the status `sent` but no message number
(`sqlite-support-repository.ts:1268`), so it can be neither answered from the table nor claimed
(`telegram-topics-inbox.ts:169`, `178`), and the relay goes to the web inbox, request and all,
like one Telegram refused. Therefore the model keeps `confirmed` apart from `sent`.

A scenario, chosen by the initial state, says who writes which message, how many Telegram
messages its relay takes, how much may arrive and what may happen besides: this keeps several
small environments in one specification. Those of `MCHandoff` are `Reopening` (commands and topic
events against the awaits of a VK client's messages), `TwoParts` (a message in two parts, a crash, a
closing), `TwoClients` (both messengers, replies, new questions), `Interrupted` (crashes,
disconnections, topic events) and `ClosedOnTheWeb`.

Simplifications, each an argument about the code: the emergency inbox's awaits settle as
microtasks, so the fallback is part of the step. `OperatorConversationUnavailable` never
leaves the switchable inbox, which falls back to the web first, so the branch of
`processClientMessage` that closes and reopens (handoff-service.ts:76) is not reachable in the
composed program. With one serial poller per channel `KeyedTaskQueue` never makes a caller
wait. VK's quarantine and pollers of one channel that overlap are `VkInbox`'s; here a VK
update is tried until it succeeds. `VkInbox` in turn takes what the handoff does with a message
as one await that succeeds or throws.
Whether a forum topic is open in Telegram is not tracked: the program never reads it. `copies`
counts requests Telegram did not refuse, an upper bound on the messages in the topic.

### VkInbox

`inbound` and `order` are the `inbound_events` table: the row of each event and the order of
`ORDER BY received_at, rowid`. `processed` is `processed_events`. `poller[p]` is the await a
poller is in: `delaying` until the next attempt, `naming` the client, `queued` in the
`KeyedTaskQueue` (`turns`), `handling` a message, `answering` a menu text or an attachment,
`polling` VK. `running` is the poller the runtime knows; a poller that was stopped goes on with
the event it routes, so it overlaps with the next one. `sent` is how much of its log VK has
handed out; `relayed` and `ruling` are history.

A poller that finds an event claimed deletes its row (`vk-update-router.ts` returns, and
`processPendingEvent` completes the event). That is sound only because messages of a
client pass the task queue, which the handoff shares between pollers: whoever has the turn finds
the claim released or completed. Menu answers do not pass it; see section 4.

Assumed: VK may go back to an earlier position and send events again, but what it never sends
is not counted; `received_at` follows insertion; an event delayed for its next attempt may become
due at any time. An aborted poller whose event fails leaves its row as it is, so that failure is
not counted as an attempt.

### ChannelSetup

`file` and `source` are the settings files and the controllers' source, `current` the poller a
runtime knows, `poller` what each poller does, `reported` whether the activity monitor takes it to
run, `booting` the channels whose start at boot is in progress. `request[r]` is the await an HTTP
request is in: `verifying` with the messenger, `saving`, `undoing` a start whose settings
could not be saved, `stopping`, `clearing`. No lock is held across them. An aborted poller comes
to its end later and reports it (`PollerEnds`), whoever runs meanwhile; one that dies unaborted is
`Operations`' `PollerDies`. `hurried` is history: something
was asked for while something else, the start at boot included, was in flight. A start logs a settings
file that it cannot read and ignores it: the channel then has the source `none` and the file stays
(`SourcesAtBoot`); `ignored` is history of that.

Simplified: a settings file is written as a whole or not at all (a `chmod` that fails after the
rename is modelled for the other two files, below); the environment is the same at every
restart, and one that configures VK configures Telegram; the order of a graceful shutdown is not
modelled.

### ContentManagement

The document is the settings file (the content and the history of revisions), `catalog` the copy
clients are shown. A tab (`page`, `request`, `recovery`) is `AdminShell` with the workspace: it
loads, edits, saves or restores, is sent to the login page when its session is gone, keeps its
draft in `sessionStorage` until it is mounted again, and asks its user before it is left. `jobs`
is `updateQueue`: one job is served at a time, checked against the version it was sent with when
it is its turn (`WriteDocument`), and done when the file is written (`JobDone`). The rename may
succeed and the `chmod` behind it fail (`JobFailsLate`): the file then holds a text that memory
does not, which `unsure` records. A start that cannot read the file, or finds it invalid,
ignores it and shows what a new installation shows (`LoadsAtBoot`); the file stays. A save reads
it again: as long as it cannot be read saves are refused, afterwards they replace its content.
The version of a content is a hash in the code and the content itself here. Which contents are
accepted is `ClientMenu`'s.

### ClientMenu

`information` abstracts a content to what the menus tell apart: which sections have a text, are
visible, are the administrators' own, or are too long to be sent. `keyboard` is what the client has
before him, which stays until the next message brings another. `Handle` decides as
`TelegramClientMenu` and `VkClientMenu` do, from the text, the intake pause and the request;
the answer is then awaited, during which content, pause and request may change.

### WebInbox

`desk` is the page: the requests listed, the one selected, whose messages are shown, and the
reply that failed, whose idempotency key is kept for the next attempt. A reply that begins with
`/close` or `/reopen` is obeyed and not stored, and answered like any other (`HandleReply`);
reopening a request that is active changes nothing. `owed` says which replies the operator sent
and has not seen saved; sending one of them again is one wish, counted in `wanted` once. The
page recognises it only as the last thing that failed: behind another reply, or after a reload,
it gets a new key, which `late` counts. `wire` holds replies the page has given up and the
server may still serve. `Serve` is the claim of the event, what it is to do and the completion;
the process may stop between them (`StopsWhileServing`). `reads` are reads of messages in
progress. Replies and reads share only the selection, so `focus` restricts a behaviour to one of
them.

### ServiceControl

`orders` is the queue of updates; each is computed from the modes the one before left, written
(`WriteControl`) and then obeyed (`OrderDone`), or refused before or after the file was
replaced. The service does not start when it cannot read this file, so a restart is one that
could. `DeliveryQueue`, `VkInbox`, `ClientMenu` and `Operations` take the modes as changing at
any time.

### Operations

Times are ages, counted to one more than the age that matters: `PollStaleAfter` for polls (120
seconds in the code), `DeliveryStaleAfter` for the worker's cycles and the oldest delivery (300
seconds). `activity` and `worker` are what the monitors were told, `poller` and `worker.does`
what is really so; both drift apart when a poller hangs or the worker sticks. `ChannelState`,
`DeliveryState`, `Ready` and `NeedsAttention` are the functions of `OperationsMonitoringService`
and its mappers. `watch` is the availability monitor, a process of its own that may restart at
any time and then knows nothing. Of an alert it learns only whether the sending succeeded, while
the webhook may have accepted one whose answer was lost or late (`Fates`); `alarms` is history
of what the owner was told. Pollers of one channel that overlap are left to `ChannelSetup`.

### ApiClients

One job at a time (a message, a topic to create, reopen or close) and the attempts its caller makes
as long as he is told "failed". A request may be acted on while it is awaited, after it was given
up, or never; the answer may be a result, a refusal, unreadable, or none. `DeliveryQueue` and
`Handoff` rely on what is shown here: an ordinary failure may be repeated. VK's client tries
once more without a keyboard when VK refuses one, under the same `random_id`.

### Service

The six parts share the process and no variable, so a behaviour of `Service` exercises one of
them, chosen by its initial state; a product of the six would add states and no behaviour of a
part. What they say of one another (modes, contents, channels) enters each part as a change that
may come at any time.

### Snapshots

`db` is what the live database holds of each request, `dirs` the snapshot directories in the
order of their creation, `job` the step of the backup job: it creates a `.tmp` directory, backs
up the database, copies the settings files, writes the manifest, verifies, renames, and deletes
what has expired. It runs beside the service and may die at each step, a recursive deletion
included, which then leaves what is `Remains` of a directory: any of its files, under its name.
One that lost its manifest expires by its age, counted anew from the change. The service purges
while it runs and may be down for days; a restore replaces the data of a stopped service.
`Scenarios` says which disturbances may come together: `reopen` a closed request, `acknowledge`
on a closed one, `interrupt` a job, `restore`. Times are whole days.

## 3. Runs

| Run | Instance | What it shows |
|---|---|---|
| `delivery_order` | 1 Telegram conversation, 2 replies, 1 requeue, 2 attempts; fair | `AtMostOnce`, `NoOvertaking`, `RetriesAreBounded`, `NotifiedMeansReported`, and `EventuallySettled`, `EventuallyReported` |
| `delivery_failures` | a Telegram and a VK conversation, 1 reply, 2 requeues, SQLite may throw | `TypeOK`, `SafeToRetry`, `SentMeansReceived`, `AttemptIsAwaited`, `ImplementsContract` |
| `handoff_operators` | scenarios `Reopening`, `TwoParts`, `TwoClients`; 2 messages, 2 requests, 2 topics | `HandledInOnePlace`, `RelayedOnce`, `AcknowledgementIsHonest`, `TopicIsPrivate`, `NothingLost` |
| `handoff_liveness` | scenario `Interrupted`; fair | `CompletedIsFinal`, `EventuallyHandled` |
| `vk_overlap` | 2 messages of a client, 2 pollers, 2 attempts | `HandledOnce`, `ClaimIsHeld`, `NoMessageDropped`, `InOrder` |
| `vk_liveness` | an attachment, a menu text and an ignored event, 1 poller, 2 attempts; fair | `TypeOK`, `EventuallyLeavesQueue` |
| `setup_requests` | 2 requests, 2 pollers per channel, each environment | `VkNeedsTelegram`, `OnePoller`, `RunningIsKnown`, `SettingsOutlivePollers` |
| `snapshots` | 1 request, 4 days, content kept for 2, 2 directories, one kind of disturbance in a behaviour; deletions cut off are interruptions | `TypeOK`, `ContentIsForgotten`, `SealedIsWhole`, `NewestIsKept` |
| `service_parts` | see below | `DraftIsKept`, `NothingOverwrittenUnseen` (content), `RestartKeepsState` (content, control), `ButtonsKeepWorking` (menu), `DeskIsHonest` (inbox), `ReadyMeansAlive`, `OutageIsAlerted` (operations), `FailedMeansUndone` (api) |
| `handoff_stuck_incident` | finding | violates `IncidentsCanBeResolved` |
| `handoff_older_reopened` | finding | violates `OlderStaysClosed` |
| `setup_vk_alone` | finding | violates `OrderIsEnforced` |

Bounds. Two replies are the least with an order; one requeue and two attempts reach every branch
of the failure policy; the batch and alert limits (25 and 10 in the code) exceed the number of
rows, as they do in normal use. Crashes are unbounded in every run that has them, as are pauses
and channel changes. For the handoff, two messages and two requests give a reused topic and an
older request beside a newer one, two parts give a partial relay, one or two commands race with
each await. For VK, two events of one client are the least that can be in the wrong order, two
pollers the least that overlap, two attempts the least with a retry before quarantine; crashes,
reconnections, resends, pauses and operators' retries are unbounded. For the setup, two requests
overlap in every way two can; restarts are unbounded. For snapshots, two directories are the
least of which the older can be deleted too early, four days let a content kept for two be
closed, copied, purged and its copy expire; two kinds of disturbances in one behaviour are left
to the proofs. In `service_parts`: two tabs whose users have one text each to save beside the
initial one overwrite and recover each other's drafts, two revisions with a history of one reach
its limit, two jobs or orders wait for each other; a stale age of 0 for polls and of 1 for
deliveries distinguishes the two limits, for one channel, since channels do not touch; two
requests on the web with a reply and a command each, three keys and two reads in progress give a
retry of a reply after another and an overtaken read; one fixed section and two labels, one of
which is a reserved word; three attempts of a call. Deadlock is not checked where inputs run out
and nothing else may happen (`handoff_operators`, `snapshots`, and the two findings of the
handoff).

Fairness. The worker's loop, a send and an alert each end (the HTTP client aborts a silent
exchange) and clocks advance: weak fairness. An alert that is attempted for ever succeeds in the
end: strong fairness, since it may fail in between. `EventuallySettled` further assumes that
delivery stays unpaused with its channels registered. For the handoff, pollers get on with each
update in spite of crashes and failures (strong fairness for each position), and a channel that
is disconnected is connected again. Nothing is assumed of what Telegram answers. A typed
`/close` whose handling always fails blocks its serial poller for ever, so `handoff_liveness`
closes topics by their events only.

For VK, each step of a poller is strongly fair: HTTP exchanges time out, delays end, the loop is
never idle, and a crash in between only postpones them. `EventuallyLeavesQueue` further assumes
that VK stays connected from some time on and operators stop retrying: an operator who retries
a poisonous event for ever does starve the events behind it.

The parts of `Service` and `Snapshots` have safety and action properties only. Their promises
that something happens (a purge on the next day, an alert on the next check) depend on timers
that are part of the deployment, and are stated instead as what must hold once the timer has
fired.

`AcknowledgementIsHonest` asks nothing of a request that was reopened beside a newer one: there
the acknowledgement of the newer request is not the one of the reopened, a consequence of the
second finding.

## 4. Findings

`handoff_stuck_incident`: the answer to a topic creation is lost, the request continues in the
web inbox, an operator closes it there; now its incident can be neither confirmed (only relays
can) nor moved (the request is closed), although the project's README promises manual
resolution for uncertain outcomes. `handoff_older_reopened`: `/reopen` checks that no newer
request exists, awaits Telegram, and reopens; a message and its `/close` in between leave the
older request active beside the newer one, which a test says stays closed. `setup_vk_alone`: the
VK route checks once that Telegram is connected, before it awaits VK; Telegram is disconnected
meanwhile, and VK runs without it, although the project's README says the backend enforces the order.

Limits met while modelling, which no document of the repository excludes outright:

- Properties of `ChannelSetup` hold, in part, only for owners who ask for one thing at a time, and fail
  without `~hurried`. `OnePoller`: two connects of Telegram pass `telegram-runtime.ts:69` before
  either is verified, and the first poller can no longer be stopped (VK's part holds always).
  `SettingsOutlivePollers`: a start comes in between `runtime.stop` and `settingsStore.clear`
  (`telegram-setup-controller.ts:76-77`). `RunningIsKnown`: the end of a stopped poller
  (`telegram-runtime.ts:118`, `vk-runtime.ts:91`) marks the channel as stopped although its
  successor runs, and `/ready` answers 503 until a restart; and a settings file deleted under a
  start that comes in between leaves a channel that cannot be disconnected.
- A start that cannot read Telegram's settings file but VK's runs VK alone, although nobody was
  in a hurry (`main.ts:134-163`); `OrderIsEnforced` speaks of requests and excepts it
  (`ignored`).
- `keeps Telegram ownership when the operator confirms receipt`
  (`src/tests/unit/core/application/operator-action-incident-service.test.ts:28`) is true of the
  confirmation itself. When the process crashed during the relay and its update is redelivered
  after the operator has confirmed, the request moves to the web inbox all the same, and its
  client's next messages with it (`IsResolved` in `RelayChunks`). Nothing is lost or sent twice,
  which is what the properties of `Handoff` ask.
- With two VK pollers, a menu answer that the older one is sending lets the newer one delete
  the row (`vk-client-menu.ts:61`); if sending fails, the client gets no answer.
- A message being routed when the intake is paused is still handed over: the pause is read
  before the client's name is awaited (`vk-update-router.ts:58`).
- A Telegram update whose routing always throws holds up all behind it
  (`telegram-poller.ts:44`): there is no quarantine as VK has it.
- A file whose `chmod` fails after the rename answers with an error and takes effect at the next
  restart (`local-state-file.ts:88`); `unsure` and `doubtful` except it from `RestartKeepsState`.
- A start that finds the content file unreadable shows clients no texts, and once the file can
  be read again a save of an administrator, based on what is shown, replaces the text in it
  (`main.ts:128-132`): `unsure` excepts the start from `RestartKeepsState`, and
  `NothingOverwrittenUnseen` names it.
- A deletion cut off after it took a snapshot's manifest leaves content that stays for another
  retention, counted from then (`service-snapshot.ts:178`, `376`). `ContentIsForgotten` promises
  the day for directories with their manifest, and of the others that they go a retention after
  their last change.
- An alert that the webhook accepted without its answer being heard is sent again, and so is that
  of an outage during which the monitor restarts. `OutageIsAlerted` bounds the alerts that were
  answered with success.
- In the web inbox a reply that begins with `/close` or `/reopen` is called saved and reaches
  nobody. A failed reply that is sent again behind another reply or after a reload goes out under a
  new key, and twice if the first was stored (`late` in `DeskIsHonest`).
- A failed reply whose request is in the web inbox is marked as reported though no alert was sent
  (`switchable-operator-inbox.ts:51`); `NotifiedMeansReported` counts that as accepted.
- A button of an own section that was renamed or removed since reaches the operators as a question;
  `ButtonsKeepWorking` excepts what was taken off the menu.
- A worker that ended by an exception leaves its claimed row to the next restart:
  `AttemptIsAwaited` excepts it, and `ReadyMeansAlive` says that `/ready` tells.
- The inbox page shows the messages of whichever read is answered last, without looking whose
  they are: `MessagesFit` excepts a read that a later one has overtaken.
- When a logout fails after the user agreed to lose his draft, the shell no longer guards that draft
  until it is clean or loaded again (`agreed`).
- On the console a channel that is not configured counts as needing attention although `/ready`
  answers 200; hence `ReadyMeansAlive` says that a quiet console is ready, and not the converse.

## 5. Proofs

Each theorem is proved from the assumptions its module states about its constants, for every value
of them: any number of clients, replies, topics, requests, pollers, tabs or days. A property that a
run checks on a small instance is the formula the theorem states.

### DeliveryQueue

`[]TypeOK`, `[]AtMostOnce`, `[]SafeToRetry`, `[]SentMeansReceived`, `[]AttemptIsAwaited`,
`[]RetriesAreBounded`, `[]NotifiedMeansReported`, `[]NoOvertaking`, and `ImplementsContract`, from
`ConversationsAssumption` and `BoundsAssumption`.

`AtMostOnce` is not inductive: what a client may still see is what it has seen plus the orphans
plus the request being awaited, and how much of that is covered depends on the row. `IInv` says
of each Telegram reply how many copies are accounted for in each phase (queued, claimed, failed,
uncertain, sent), of each VK reply that it was seen at most once, and that a claimed row is the
one awaited. `QueueInv` adds what order, retries and reports rest on: the list the worker read
may be old, but a listed row that is still to be tried is queued, with the attempts it was
listed with (`ListHolds`, without which `RetriesAreBounded` would not last: the policy counts
from the list), at most one row is claimed, a queued row does not count as reported, rows are
inserted in order, and no request for a reply was made or is about to be made while an earlier
one of its conversation is queued, unless an operator put that one back (`InTurn`).

For the refinement every step is shown to be of one of three kinds: it rests, moves one
reply from one phase to another, or the client accepts one (`Rested`, `Moved`, `Accepted`). Each
kind is then a step of `DeliveryContract` for that reply, or a stutter.

### Handoff

`[]RelayedOnce`, `[]HandledInOnePlace`, `[]TopicIsPrivate`, `[]AcknowledgementIsHonest`,
`CompletedIsFinal` and `NothingLost`, and the invariants `[]HandoffInv`, `[]OutcomesInv` and
`[]ToldInv` they follow from, from `HandoffAssumption`, for every environment a scenario may
describe, not those of `MCHandoff` only.

The properties are about tables; what keeps them true is where the pollers stand. `SendingIsAwaited`
and `TaskFits` put the rows that are being sent and the awaits of the pollers in correspondence: a
row in `sending` is awaited by the poller that claimed the message's update, so an answer is
counted once, and a crash, which has no poller awaiting, finds each such row to be made uncertain.
`OneActive` gives one place per client. Whose a topic is the tables do not
always tell: its requests may have moved to the web inbox since, and topics are reused. `HandoffInv`
says that there is an assignment of owners to topics that requests, actions, replies and awaits agree
with (`TopicsFit`); a new topic extends it, nothing else changes it. `CompletedIsFinal` needs
that a client's messages come to one poller, once each (`UpdatesFit`).

`NothingLost` asks what became of a message's chunks, which are sent one await at a time while
operators resolve the uncertain ones and move requests. `OutcomesInv`, proved above `HandoffInv`
in `HandoffOutcomeProofs`, says that all chunks of a message have rows or none
(`ChunksTogether`), that a chunk is abandoned only where its request went to the web inbox
(`AbandonedInWeb`), that a request whose opening did not succeed relays nothing (`OpeningsFit`),
that who was told has a reason (`AckedHonestly`, the first half of `AcknowledgementIsHonest`),
and of a relay that is awaited that the chunks before it were sent, or `lost` remembers that one
was not (`ChunksFit`). A relay that meets a confirmed chunk goes to the web inbox, with its
message (`TakenToWeb`). When the last chunk is answered, these say that the message was sent, is
uncertain, or is in the web inbox. `lost` may speak of a chunk that was abandoned since: the
invariant allows for it.

The first half of `AcknowledgementIsHonest` is `AckedHonestly`. The second, that a client whose
message is done with was told, fails only much later than the step that goes wrong: any message
of a request may be done with while another one, the first, is still to be answered for.
`ToldInv` names who is to do that. The client of a latest request was told (`Told`:
acknowledged, or an initial relay is uncertain), or nothing but the message that opened it was
relayed (`OnItsWay`), and the update of that message is the next one of its poller
(`OpenerIsNext`), so that no later message can be done with before it. The poller then stays
with that request as long as no older one of the client takes his messages. Older requests do
become active again (`OlderStaysClosed` is false), but only where the client was told about the
latest one or its opening is still awaited, which is the poller's own business (`OlderActive`,
`OlderReopening`, `OlderRelayed`). It rests on updates being done with in order, whatever was
confirmed, redelivered or released by a crash (`UpdatesInOrder`), and on a request that a web
operator closed during its opening having no topic to go on in (`ClosedIsTold`).

### VkInbox

`[]TypeOK`, `[]HandledOnce`, `[]ClaimIsHeld`, `NoMessageDropped` and `InOrder`, from
`VkInboxAssumption`.

`IInv` says that a claim in progress belongs to one poller at work on its event (`Claims`) and
that a poller which handles a message has its client's turn (`HaveTurn`). From the two follows
`UnclaimableIsCompleted`, the step `NoMessageDropped` turns on: whoever has the turn and is refused
the claim finds the event completed, and may delete the row.

`InOrder` looks at the moment of the claim, but what decides it is an invariant of the time
before: an event a poller waits on has only excused messages stored before it (`NoneOvertakes`;
excused is completed, in quarantine, or subject of a ruling). A poller starts from the first
pending event, so this holds when it takes one up. It lasts although rows are deleted and stored
again by a poller that overlaps, because rows are added only by the poller that was not stopped
(`Single`), which found nothing pending before it asked VK for more (`Quiet`), and because every
message up to the position VK has sent was stored once, and is settled if its row is gone
(`Seen`). The theorem is stronger than the property in that it does not use that the two
messages are of one client.

### ChannelSetup

`[]VkNeedsTelegram`, `[]OnePoller`, `[]RunningIsKnown`, `SettingsOutlivePollers`, and the
invariant `[]SetupInv`, from `ChannelSetupAssumption`. The routes hold no lock over their
awaits, so the invariant has two parts. `Lasting` survives any overlap: a local source has its
file and, unless a start ignored one, a file its source (`FileFits`), the poller a runtime knows
works, VK's runtime looks twice and therefore has one poller, nobody serves a request about a
channel of the environment. `Calm` holds as long as nobody was in a hurry (`~hurried`), and says
for each place a request or the start at boot may stand at what it relies on when it goes on.

### Service

`[]RestartKeepsState`, `NothingOverwrittenUnseen`, `[]DraftIsKept`, `[]ReadyMeansAlive`,
`[]OutageIsAlerted`, `[]FailedMeansUndone`, `[]ButtonsKeepWorking` and `[]DeskIsHonest`, from the
parts' assumptions. A step of `Service` is a step of one part (`PartsStep`), so the parts' invariants
hold side by side:

- `ContentInv`. The file is ahead of the catalog only between the write of a job and its answer,
  and only by the first job of the queue, which was checked against the present catalog: without
  this a restart would seem to bring back anything, and an answered job to overwrite anything.
  Versions travel with drafts, on the page and in the recovery (`VersionFits`), so a base is
  never younger than the text its author saw. A draft that is not saved is guarded by the shell,
  or its user agreed to lose it (`DraftInv`): without it an unguarded way out of the page would
  lose text.
- `ControlInv`. Likewise the file is at most one order ahead of memory; a restart then moves the
  one field of that order, and no other order can be half-done (`FirstIsWritten`).
- `OperationsInv`. `/ready` looks at reports, the property at pollers; `AliveByReport` relates
  them: a poller reported to run is there, and was silent no longer than its last success is old. For
  the availability monitor, none of its alerts was answered as long as it owes one (`MonitorInv`).
- `ApiInv`. A caller who may try again has nothing on its way but the request he awaits
  (`TelegramOnce`), and all requests of a VK job bear one `random_id` (`VkOnce`).
- `MenuInv`. A keyboard outlives the information it was made from: each of its buttons, on its
  way, before the client or pressed, is of a fixed section, of an own section that is there or
  was taken off since, or one the menus always know (`Offered`).
- `WebInv`. How often a text was wanted and how often its success was heard are sizes of sets
  nobody keeps; `RepliesInv` says that there are two sets of attempts, one within the other,
  that the counters, the page's key, the wire and the stored replies agree with (`RepliesFit`);
  of a command none is stored. The reads in progress that were overtaken come first, and the
  last one, unless overtaken, is of the request selected (`ReadsFit`).

### Snapshots

`[]TypeOK`, `SealedIsWhole`, `NewestIsKept` and `[]ContentIsForgotten`, from
`SnapshotsAssumption`, for disturbances in any combination. `SnapshotsInv` says what the steps
of a job so far have done to its directory (`Progress`), that a job's directory is the newest
(`NoneIsNewer`, which needs that paths are numbered as they are created). That sealed
directories are whole is no invariant: one that has expired may lose its files in any order. A
job that deletes has finished its own, which is whole and newer than what it deletes. `Careful`
sums up what a step may do to a directory; the two action properties follow from it.

`ContentIsForgotten` speaks of the day a request was finished and of what a directory holds,
which no field relates: a request may be reopened, finished again or restored after the copy was
made. `ForgetInv` relates them through the days: the day a request was last finished (`done`)
never goes back, so no row, in the database or a copy, says a later one (`DoneFits`,
`CopiesFit`), and a copy that holds the content of an unfinished request was made before that
request was finished. The manifest counts from the oldest finished row that has content
(`ExpiryFits`), so a directory expires no later than the retention of any of them, and what a
rotation leaves expires after its day (`Outlives`). A job's own directory is exempt until it is
published; it is no older than the last rotation (`JobStarted`).

### Only model-checked

What is out of this prover's reach: liveness under fairness (`EventuallySettled`,
`EventuallyReported`, `EventuallyHandled`, `EventuallyLeavesQueue`), ENABLED, and facts that
need induction over data. For that reason the models use no RECURSIVE operator, and delete and
append rows by operators of which the provers can be told everything (`Without`,
`EnqueueInboundEvents`).

## 6. Not modelled

Texts, splitting and formatting; schema migrations, which run once at startup; parsing of the
configuration; the limit on login attempts, origins, headers and static assets; the schemas of
the messengers' answers and the transport with its proxies; pages that only show what they read;
checksums, file modes and path checks of snapshots, and the off-site copy made from one; the
order of a graceful shutdown; what a reopened topic looks like in Telegram; the limit of fifty
requests listed on the web.

Not modelled although they have state: a snapshot that is restored brings back replies that were
pending when it was taken, and they are sent again; the database remembers nothing of it and the
program promises nothing. A typed `/close` has no age check, unlike a topic event, so a
redelivered one may close a newer request in the same topic. A crash between the two statements of
`OperatorActionIncidentService.confirmReceived` loses an acknowledgement; both are one step
here.

## 7. Plan

Done: all modules of section 2 and the proofs of section 5, which cover every safety property the runs
check. Next, where the code is finer than the model: the two statements of
`OperatorActionIncidentService.confirmReceived` as two steps, with a crash between them and what
`AcknowledgementIsHonest` then still says.
