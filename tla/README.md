# ClawMini in TLA+

ClawMini manages a fleet of machines that run the OpenClaw gateway.  A Go server
(`cmd/server`, `internal/server`) keeps its state in one SQLite database and talks
to browsers over HTTP and a WebSocket, and to an agent on every machine
(`cmd/client`, `internal/client`) over another WebSocket.  The web interface is in
`web/`.

These modules state what the server, its agents, its database and the web
interface promise each other, check that on small instances with TLC, and prove most of it for every
instance with TLAPS.  Paths below are relative to the repository's root.

Run the tools in this directory: `tlc -config <run>.cfg <MC module>.tla` and
`tlapm <module>_proofs.tla`.  `PROJECT.json` lists the runs, the lines of code each
definition stands for, the mutants and the hazards.

## 1. Inventory

### The parts and how they interact

```
 browser --HTTP--> handlers (cmd/server) --> stores (internal/server) --> SQLite
    ^                  |  dispatch                 ^   1 connection,
    |                  v                           |   foreign keys on
    +--WebSocket---- Hub ----- results, heartbeats-+
                      |  one goroutine, one ping loop per connection
                  WebSocket
                      |
                   agent: reader goroutine --cmdCh--> main loop --> executor
```

| Component | State | Operations | What is hard | What makes it correct |
|---|---|---|---|---|
| **Command dispatch** (`main.go` handleExec, `im_config.go` dispatchAndWaitCommand, `command.go`) | rows of `commands`: status, exit code | create, dispatch, mark sent, mark failed, complete, expire, poll | the dispatcher, the janitor, the polling loop and the device's answer write the same row, none looks at its status first (but the janitor) | a command runs at most once; an answer stays; a caller is not told something the row later denies; every caller gets a reply |
| **Device hub** (`hub.go`) | `deviceWS`: one session per device | register, add, remove, disconnect, look up, write, ping | a lookup is used after the lock is released; sessions replace each other; a failed write unregisters but does not close | an entry belongs to a session that is served; a served, open session is the one registered; dead ones leave |
| **Agent** (`connection.go`, `executor.go`) | one connection, one command read, one running | dial, register, read, execute, answer, heartbeat, reconnect | the reader blocks on an unbuffered channel while a command runs; answers are sent once | commands run one at a time, on the device they are meant for |
| **Registration** (`hub.go` registerDeviceMetadata, `join_token.go`, `device.go`, `user_store.go`) | rows of `join_tokens`, `devices`, `device_status`, `user_devices` | issue, consume, expire and delete a token, upsert, bind, unbind, heartbeat, delete | five statements per registration, with deletions in between; a token is spent before the device is known | a token is for one device; who is online is bound; no row refers to one that is gone; a known device gets in again |
| **Users and roles** (`users.go`, `user_access.go`, `user_store.go`, `auth.go`) | rows of `users` | create, promote, demote, delete, default admin | load, count and write are three statements | an administrator remains; deleted accounts stay deleted |
| **Browser feed** (`hub.go` HandleBrowserWS, broadcastForDevice; `RealtimeContext.tsx`) | browser sessions with their user; the page's device list | snapshot, event, reconnect, merge, list fetched beside it | several goroutines write to one browser; snapshot against events; "online" is computed when the row is read | one socket or one timer; a feed comes back; what is shown follows the device |
| **Jobs** (`im_config.go`, `im_config_job_store.go`, `install_openclaw.go`, `linger.go`) | rows of `im_config_jobs`; a goroutine each | create, run the steps one by one, fall back, fail, collect old jobs | a job lives in a goroutine and in a row; a command that was given up on is run later; restart; the collector deletes by age | a success has been configured and is not taken back; after the newest success the gateway runs with its credentials; every row is closed in the end |
| **Batch jobs** (`batch.go`, `batch_job_store.go`) | `batch_jobs`, `batch_job_items` | create, run one goroutine per device, sum up | counters are computed from the items; job and items are read in two statements | what is shown as ended agrees with the devices |
| **Web: session** (`AuthContext.tsx`, `client.ts`, `App.tsx`) | token, user, browser storage | log in, reload, fetch the user, log out, change the password, 401 | answers meant for an earlier session | token, user and storage agree; the loading screen goes away |
| **Web: wizard** (`IMConfigPage.tsx`) | step, state of configuration and verification, refs of the flow | start, poll, retry, leave, switch platform, verify | a flow outlives the visit that began it; the ref that cancels is shared | success is earned; a visit is decided by its own flow; nothing runs for ever |
| **Web: device page** (`DeviceDetailPage.tsx`) | polled status and logs, an installation job | poll, act, read again, install, follow | effects that run anew while a command is under way | one chain of polls; the display catches up; an installation comes to its end |
| **Web: lists and editor** (seven pages and cards) | a list, requests for it, a text being edited | load, filter, change, load again, open, save | overlapping requests answered in any order | one's own changes are shown; a file gets its own text |
| **Background loops** (`hub.go`, `audit_log_store.go`, `im_config_job_store.go` Start/Stop) | running flag, two channels | start, tick, stop | Start and Stop called at the same time or twice | no channel is closed twice, no caller of Stop waits for ever, at most one loop runs |
| **Whitelist, redaction** (`whitelist.go`, `redact.go`) | none | pure functions | word-list matching, flags with values | nothing outside the list passes; what is redacted is never stored |
| **Login rate limiter** (`main.go`) | attempts per address | allow | the edge of the window | at most n attempts in a window |
| **Schema migrations** (`schema.go`) | version per schema | apply in order, in a transaction | failure half way, run again | a version is applied once, in order |
| Audit log, model and embedding providers, workspace files, configuration, wire types, rendering | tables without interaction, or none | – | – | – |

### The process structure

Every HTTP request and every WebSocket has a goroutine.  The database has a single
connection (`SetMaxOpenConns(1)`, `device.go:61`), so a statement or a transaction
is atomic, and *nothing larger is*: between two statements of a handler any other
goroutine may run, and does so in the models.  The hub's map has a lock which no
caller holds across a write to a socket or a statement.

In a browser there is one thread, but every `await`, timer and event handler is a
point where others run; an effect runs anew when what it depends on changes, and
its cleanup can cancel timers and not requests.  In the models a request is
therefore at least two steps, sent and taken in, with the server's answer between
them, and what a handler does up to its next `await` is one step.

The hazards this leads to are listed in `PROJECT.json`, each at its line and with
the properties that would notice it.  Those without a property say why there is none.

## 2. Modules

| Module | About | Abstract specification, composition | Checked by | Proved |
|---|---|---|---|---|
| `CommandDispatch` | commands between server and device | implements `CommandRecord` | `dispatch_*`, `answer_lost` | its safety properties, the refinement |
| `AdminRoles` | accounts, last administrator | – | `admin_roles`, `last_admin_lost` | all its invariants |
| `Registration` | tokens, rows, bindings | – | `registration`, `reconnect_refused` | all its invariants |
| `ConfigJobs` | configuration and installation jobs | implements `JobPromise` | `im_jobs` | its invariants, the safety part of the refinement |
| `ImWizard` | the wizard's page | over `JobPromise` | `web_console`, `false_success` | its invariants, that only its own flows decide |
| `WizardOnJobs` | the wizard's page on the jobs and the device | composes `ConfigJobs` and `ImWizard`, implements `ImWizard` | `wizard_on_jobs` | the refinement, what a success means on the device |
| `InstallCard` | the installation card | over `JobPromise` | `web_console` | its invariants |
| `WebSession`, `DeviceFeed`, `StatusPoller`, `BatchRun`, `ListPages`, `FileEditor` | the other parts of the web interface, with the server's side of them | – | `web_console`, `offline_never_shown` | their invariants |
| `WebConsole` | the parts side by side | composes the eight of the web interface | `web_console` | that the invariants of its parts hold side by side |

`ConfigJobs` and the two pages that poll jobs meet in `JobPromise`: the first keeps it,
the others rely on nothing else.  `WizardOnJobs` puts the wizard's page on the jobs
themselves and shows that it cannot tell the difference.  In the same way
`CommandRecord` is what the commands table promises to its readers.

Theorems are in modules of their own: `CommandDispatch_proofs` and
`CommandDispatch_refinement`, `AdminRoles_proofs`, `Registration_proofs`,
`ConfigJobs_proofs`, `ImWizard_proofs`, `WizardOnJobs_proofs`, `WebConsole_proofs`.
`tlapm` does not see the theorems of a module that is an INSTANCE; therefore
`WebConsole_proofs` extends `ImWizard_proofs`, and `WizardOnJobs_proofs`, where the
wizard is an instance, extends `ConfigJobs_proofs` and proves of the page what it needs.

What is left, in the order of its worth: the safety half of the other liveness
properties (of every dispatcher, session and device that waits, what it waits for, as
`WaitsAreAttended` says it of the pages); the agent's timing (reader, pings, heartbeats
and long commands in discrete time, as a refinement of `Stalled`); Start and Stop of
the background loops; the whitelist, the rate limiter and the migrations against
reference definitions.

## 3. CommandDispatch

One module, since its threads meet in every step: a dispatcher per command, a
`serveDevice` goroutine per connection, the janitor, DELETE handlers, agents.

### State

| Variable | Code |
|---|---|
| `devices`, `row` | tables `devices`, `commands`; `row[c].answered` is "exit_code is set" |
| `pc`, `picked`, `outcome` | program counter of handleExec or dispatchAndWaitCommand, the session that `getDevice` returned, the reply |
| `hub` | `Hub.deviceWS` |
| `owner`, `serve`, `alive` | a connection: its device, where its `serveDevice` stands, which of server end, client end, network and server's write side work |
| `down`, `up`, `hand` | commands and results on the wire; the result read and not stored yet |
| `cli`, `held`, `exec` | the agent's connection, the command its reader offers on `cmdCh`, the one being executed |
| `runs` | executions (history) |
| `del`, `crashes` | where the DELETE handler of a device stands, with the session it has got from the hub; restarts |

### Actions

| Actions | Code |
|---|---|
| `Create`, `Lookup`, `WriteOk`, `WriteError`, `MarkSent`, `MarkSentFails`, `ReportOffline` | `CommandStore.Create`, then `Hub.DispatchCommand` (`hub.go:471`) statement by statement, then `MarkFailed` and the reply 409 |
| `PollDone`, `PollExpired`, `ReportTimeout` | the polling loop of `dispatchAndWaitCommand` (`im_config.go:506`); reading the status and marking the command failed are two steps |
| `Expire` | `FailExpiredSent`, called by the janitor |
| `Dial`, `Register`, `Refuse`, `AddDevice`, `ReadResult`, `StoreResult`, `ReadError`, `EndServe`, `PingFails` | `runOnce` up to its register message; `serveDevice` with its deferred calls, `handleDeviceMessage`, the ping loop |
| `CutWire` | the network |
| `FindSession`, `TakeOut`, `CloseTakenOut`, `DeleteRow` | handleDeleteDevice: `getDevice`, `removeDevice` and `Close` of DisconnectDevice (`hub.go:493`), each of which lets go of the lock; then the row, whose foreign keys delete the commands |
| `ReadCommand`, `Execute`, `SendResult`, `Hangup`, `Restart` | the agent |
| `Crash` | the server process |

Time is not counted: a deadline may pass in any state in which it runs.  The
properties that hold do so for every setting of the timeouts; what depends on
their order of size is not modelled.  A registration is accepted or
refused at will; `Registration` says when.

### The abstract specification

`CommandRecord` is what the table promises its readers: a record is queued, may be
sent, ends as completed or failed; `completed` means the command has run; until
its dispatcher is done a status may be overwritten, and afterwards an answer stays
and a failure ends by a real answer only; a record may be deleted at any time and
does not come back.  `KeepsPromise` is `CommandRecord` under the mapping at the
end of `CommandDispatch`, where a row that is not there is `absent` before `Create`
and `deleted` after it.

### Runs

| Run | Instance | Shows |
|---|---|---|
| `dispatch_answers` | 2 devices, 2 connections, 2 commands for one of the devices, one of them waited for | `AtMostOnce`, `AnswerOnlyIfRun`, `OfflineMeansNeverRun`, `VerdictCompletedStands`, `AnswersArriveOnce`, `HubEntryIsServed`, `ServedSessionIsInHub`, `RightDevice`, `SettledAnswerIsFinal`, `OnlyAnAnswerRevives` |
| `dispatch_liveness` | 1 device, 2 connections, 1 waited command, UPDATEs that fail, 1 crash, `FairSpec` | `TypeOK`, `KeepsPromise`, `SentIsResolved`, `CallerReturns`, `DeadSessionIsDropped` |
| `answer_lost` (violation) | 1 connection, 1 command | `AnswerIsFinal` fails, see below |

*Bounds.*  Two connections of a device give every overlap of an old and a new
session; in `dispatch_answers` they may also be of two devices, so that the commands'
device can lose its session while the other one has its own.  The other device is
not deleted there and keeps its network (`QuietNeighbour`).  Two commands give a command in the reader's hand
while another runs, which is what stalls an agent, and two rows for one janitor
statement.  One crash gives a state before and a state after it.  The safety properties
are proved for all bounds as well.  All runs say `CHECK_DEADLOCK FALSE`: commands and
connections are used once, so every behaviour stops when they are used up.

*Symmetry* is over connections only, and only in runs without liveness.

*Fairness* (`FairSpec`) is weak and is given to what the code schedules itself:
a dispatcher that can go on does (a write ends by its 10 s deadline, the polling
loop by its own); a served session goes on (its reads end by the 70 s deadline,
kept alive by pings every 30 s); the janitor's ticker fires while the process
lives.  None is given to agents, to the network, to the operator, or to
registering: before its register message a connection has no read deadline
(`hub.go:266`).  `Stalled` is the one case in which a healthy connection is dropped
by the server: the agent executes while its reader waits to hand over the next
command, and then no pong is sent.  With the single command of `dispatch_liveness` it does not
happen: what that run shows of `DeadSessionIsDropped` is about broken connections, half
open ones, and sessions that were replaced or taken out by a DELETE.

### Findings

* `answer_lost`: `DispatchCommand` writes to the device first and calls `MarkSent`
  afterwards (`hub.go:480`), without a look at the status.  A device that answers in
  between has its `completed` replaced by `sent`, and the janitor or the polling
  loop makes it `failed`.  `docs/test-cases.md:166` has the answer as a terminal
  state.  What does hold is `SettledAnswerIsFinal`: once the dispatcher is done,
  answers stay.
* Not a run: `Complete` (`command.go:127`) does not look at the status either, so a
  late answer turns a command that was reported as timed out into `completed`.  That
  failures end in no other way is `OnlyAnAnswerRevives`.
* Not a run, but a reason for an assumption: if `MarkSent` fails, the caller is told
  "device offline" although the command is on its way and will be executed.
  `OfflineMeansNeverRun` is therefore checked and proved with `DBFaults = FALSE`.

### Proofs (`CommandDispatch_proofs`, `CommandDispatch_refinement`)

For any sets of commands, devices and connections, any target function, any number
of crashes, under `ConstantsOK` alone.  The invariant is built in layers, each
inductive given those before it:

1. `Typed`: `TypeOK` and `OwnerKnown` (a session past "free" has an owner).
   (`TypeCorrect`)
2. `HubInv`: `HubEntryIsServed` and `ServedSessionIsInHub`, which are inductive
   together.  Between `removeDevice` and `Close` of a DELETE a served and open session is
   not in the hub; the invariant says that this is the only case (`BeingDisconnected`).  (`HubEntriesServed`, `ServedSessionsReachable`)
3. `AnswerInv`: `AnswerOnlyIfRun` with `ResultsWereRun` (a result on the wire, in
   hand or being executed is of a command that was run), without which the first is
   not inductive.  (`AnswersAreReal`)
4. `TransitInv`: a command not sent yet is nowhere and has not run, and one that was
   sent is in at most one place before it is executed, so it runs once.
   (`ExecutedAtMostOnce`)
5. `RouteInv`: a session keeps the device that dialled it (`OwnerStays`), and what a
   dispatcher has picked, what is queued on a session and what an agent has dialled
   belong to the right one.  (`CommandsReachTheirDevice`; the lookup needs `HubInv`)
6. `RowInv`: the position of a dispatcher bounds the status of its row (before the
   write it is queued at most; after it queued, completed or absent; a verdict of
   completed or offline agrees with the row).  (`CompletedVerdictsStand`,
   `OfflineIsFinal` under `~DBFaults`)
7. From the conjunction `DispatchInv` and the lemma `StatusSteps` (which changes of
   status a step can make) the step properties follow (`SettledAnswersStay`,
   `FailuresReviveByAnswer`).
8. `RecordPromiseKept`: initial states map to initial states, and by lemmas on the
   actions that write a row each step maps to a step of `CommandRecord` or a stutter.

9. `ArrivalInv`: `AnswersArriveOnce` with the same said of the executor.  A result on
   its way is of the device that its session is of (`RouteInv`), unique, and not
   stored; `up` and `hand` are one line in which it moves up.  What is about to be executed
   has not run (`TransitInv`), so no answer to it is under way (`AnswerInv`).  Most
   steps only lose answers (`ArrivalFrame`); the others are shown one by one.
   (`AnswersComeOnce`)

Model-checked only: `SentIsResolved`, `CallerReturns` and `DeadSessionIsDropped`, since
fairness and ENABLED are out of the prover's reach.

## 4. AdminRoles

`role[u]` is the row of an account (`unborn` before, `gone` after it exists), `req[q]`
one request an administrator has sent, with its place in the handler.  `Begin` is
AuthMiddleware with AdminOnly (the role is read from the database for every
request, `auth.go:121`) and the test that nobody deletes himself; `NotFound` and
`Load` are `GetUserByID`; `Count` is `CountAdmins`; `Write` is the one statement
that changes the table, a no-op on a row that has gone; `Fail` is any statement
that fails and any conflict of names; `Restart` ends all requests and runs
`EnsureDefaultAdmin`.  Passwords and tokens of sessions are left out, as they share
no state with roles.

| Run | Instance | Shows |
|---|---|---|
| `admin_roles` | 4 accounts, 3 requests at once | `AdminLostOnlyByOverlap`, `DeletedStaysDeleted` |
| `last_admin_lost` (violation) | 2 accounts, 2 requests | `AdminRemains` fails |

Two requests make a race and a third one may promote, create or fail in between;
four accounts allow two to be lost while others come.  Accounts are never reused,
so the run stops when all are gone (`CHECK_DEADLOCK FALSE`).  Accounts and requests
are symmetric.

*Finding.*  Both handlers promise that the last administrator stays
(`users.go:164`, `users.go:232`), and tests hold them to it, one request at a time.
Two at once both count two administrators and both go ahead.  If accounts are left,
`EnsureDefaultAdmin` adds none: the state outlives restarts.

*Proof* (`AdminRoles_proofs`).  `AdminLostOnlyByOverlap` is the promise the code keeps:
an administrator remains as long as no two removals were under way at once,
whatever else goes on.  It is not inductive, as a checked removal writes without a
further look.  `RolesInv` adds that at most one removal is under way
(`LoneRemoval`) and that, once it may write, there is an administrator other than
its account (`ReadyLeavesOne`): at the count there were two, or the account was
none when it was loaded, and a promotion since then only adds.

## 5. Registration

`users`, `devices`, `reported` (device_status), `bound` (user_devices) are the keys of
their tables, `token[t]` a row of join_tokens, `reg[d]` the connection of a device
while `serveDevice` registers it and has it in the hub, `req[q]` a request of an
administrator.  `reg[d].revoked` is history: somebody has taken away the binding by
which `d` was registered.

| Actions | Code |
|---|---|
| `DeviceToken`, `Consume`, `RefuseToken` | `resolveRegistrationUser`, `ValidateAndConsume` (one transaction) |
| `Upsert`, `RegFindUser`, `RegFindDevice`, `RegBind` | `UpsertDevice`; the three statements of `BindDevice`, where a conflict is no error and a violated foreign key is |
| `AddDevice` | `hub.go:297`, once registerDeviceMetadata has returned (`hub.go:283`), without another look at the tables |
| `Drop`, `Heartbeat` | the connection ends, or the server; `UpdateHeartbeat`, also by a session that is being closed |
| `Begin`, `ReqFindUser`, `ReqFindDevice`, `ReqBind`, `Issue` | handleBindUserDevice, handleCreateJoinToken |
| `ReqFindDoomed`, `Disconnect`, `DeleteDeviceRow` | handleDeleteDevice: GetDevice, DisconnectDevice, the row; a session that joins the hub in between stays |
| `DeleteToken`, `Expire`, `Unbind`, `DeleteUserRow`, `Fail` | one statement each; time; an error or a crash |

| Run | Instance | Shows |
|---|---|---|
| `registration` | 2 users, 2 devices, 1 token (and the device token), 1 request at a time | `NoDanglingRows`, `OneDevicePerToken`, `OnlineMeansBound` |
| `reconnect_refused` (violation) | 1 user, 1 device, 1 token | `ReconnectIsAccepted` fails |

Two devices compete for the token; one request of several statements runs beside
them, while the requests of one statement (unbinding, deleting users and tokens)
need no slot and come at any point.  Users are deleted once and tokens issued once
(`CHECK_DEADLOCK FALSE`).  A device has one connection at a time here; what several
do to the hub is in `CommandDispatch`.

*Finding.*  A used token is refused to everybody, also to the device that used it
(`join_token.go:135`).  The unit written by the install script starts the agent with
that token for good (`main.go:710-712`), and the agent registers with it after each
lost connection, so it stays out after its first one; `docs/test-cases.md:317` has it
come back without manual intervention.  A failure between `Consume` and `RegBind`
has the same effect before the device was ever online.

*Proof* (`Registration_proofs`).  `TypeOK`, `NoDanglingRows` and `OneDevicePerToken` are
inductive together: rows go in under foreign keys and out with a cascade, and
whoever is let in by a token found it fresh, so that nobody was in by it before.
`NoDanglingRows` is about user_devices and device_status; join_tokens has its
user and device as plain columns, which may name rows that are gone.  `OnlineMeansBound` is inductive beside the type
invariant (`OnlineDevicesBound`): who is registered by a user's token was bound by the very
statement that registered him (`RegBind`, or the conflict it ignores), and whatever takes
a binding away (`Withdraw`, in `Unbind`, `DeleteUserRow`, `DeleteDeviceRow`) marks
who is registered by it.  The property cannot do without `revoked`: nothing looks at the
binding of a session after `registerDeviceMetadata`, so an unbinding or a deletion
leaves a device in the hub that is no longer bound.  The one assumption is that `None`
is no user, device or token.

## 6. ConfigJobs and JobPromise

A job is a row of `im_config_jobs`, which pages poll, and a goroutine that has the
device run one command after the other.  `ConfigJobs` has both, for the two channels and
for the installation of OpenClaw (which uses the same table), and the device.

| Variable | Code |
|---|---|
| `row` | status of the job; "open" is queued or running, "none" is a 404 |
| `runner` | the goroutine: where it stands and at which step; the steps' order with its substitutes is `FirstStep`, `AfterSuccess`, `AfterFailure`, `AfterError` |
| `queue` | commands sent and not yet run; those of a job that gave up stay in it |
| `conf`, `live`, `installed` | on the device: whose credentials the file holds, whose the gateway runs with, at which places OpenClaw is found (the PATH of a login shell, `$HOME/.openclaw/bin`) |
| `ran`, `newest`, `shared` | history: what the device has run well for a job, the last job of a platform, jobs that were at work at the same time |

`Create` is the handler; `StepBegins`, `GiveUp` and `JobEnds` are runConfigureStep,
the deadline of dispatchAndWaitCommand and the final status; `Collect` is the GC (rows of 24
hours, which no living goroutine has); `Execute` is the agent, whose answer is taken
in by the goroutine that waits for it, or lost.  A command may fail at any time (the
agent kills it when its time is over); a probe goes well only if OpenClaw is at the
place it looks at, and the installation script leaves OpenClaw anywhere or nowhere,
whatever it reports.  `GiveUp` has two outcomes: the goroutine's own deadline is an
error and ends the job; but the janitor may have marked the command failed before (30 s
after its timeout, for a 20-second probe 50 s after it was sent, while the goroutine
waits 60 s), and then the job goes on as after a failure, to the next probe or to the
installer, with the unanswered command still in the queue.  `LoseQueue` is a connection that
breaks; `Crash` ends the goroutines and keeps the rows.  Errors of `Update` are ignored by
the code; with `LostWrites` the model lets each one fail.

`JobPromise` is what a reader of the row may rely on: a job is stored once, is
reported a success only if the device ran every command of the configuration, its
end is reported once and not taken back, and it does not stay open for ever.
`KeepsPromise` is the refinement.

| Run | Instance | Shows |
|---|---|---|
| `im_jobs` | 2 jobs, any platforms, lost UPDATEs, 1 crash, `FairSpec` | `SuccessMeansConfigured`, `JobsMoveForward`, `KeepsPromise` |
| `wizard_on_jobs` | 2 jobs for Feishu, 1 flow, 2 visits | `RefinesWizard`, `SuccessIsLive` |

*Bounds.*  Two jobs give the old one whose commands are still on their way and the
new one; and two that overlap, for which `SuccessMeansConfigured` promises nothing,
as nothing in the code keeps them apart: both may be told success while the gateway
runs with the id of one and the secret of the other.  One crash leaves a row
open without a goroutine.  Jobs are used once, so the run may stop.

*Fairness*: goroutines of the server go on (each wait has a deadline), and the
collector runs.  Nothing is assumed of the device.  That an open row closes also
after a crash rests on the collector alone, a day later.

*Proofs* (`ConfigJobs_proofs`), for any number of jobs and crashes, from
`JobConstants` alone.  `JobsInv` is `TypeOK` with `Progress`: a job at a step has had
the device run what comes before it, and a success all of it.  From it follow
`JobsTyped` and, step by step, `JobsKeepPromise` (the safety part of the refinement).
`SuccessIsConfigured` needs `NewestInv` as well: the newest job of a platform, if it
was always alone, is the only one that sends commands for it, so what earlier jobs
left in the queue is in front of its own commands (`Order`); as the queue is run in
order, they are gone when the first of its own was answered, and what the file and the
gateway hold after that is its own (`Configuring`).  A broken connection only empties
the queue.

`JobsGoForward` is the safety half of "a job does not stay open": `MovesLeft` counts
how often a goroutine may still move, at most fourteen times, and every move of it,
whatever failed, was given up (in either way) or was lost, makes it less.  That the goroutine does move,
and that a row left open by a crash is collected, is fairness; this part of
`KeepsPromise` is checked only.

### The page on the jobs (`WizardOnJobs`)

`ComposedNext` is a step of the jobs and the device (`JobsAlone`, which covers requests
of other pages and users), a step of the page and its user (`PageAlone`), or the one
step of both, the handler of the page's request (`Asked`).  The page reads `row`
where it reads JobPromise's `status` otherwise.

* `RefinesWizard`: this system implements `ImWizard`, so that what is said of the wizard
  over `JobPromise` (section 7) holds of it on the real jobs.  That other pages have
  jobs stored at any time is why `ImWizard` has `OthersJob`.
* `SuccessIsLive` goes from the page to the device: in the step in which the page comes
  to show success, a job that its own component asked for is reported as a success, and
  the gateway runs with both of its credentials, unless a newer job of the platform
  was stored or another one was at work at the same time.

*Bounds.*  In the run OpenClaw is in the PATH of the device and both jobs are for Feishu
(`OnlyFeishu`), the platform whose two credentials are set by two commands and whose
plugin has a substitute; jobs of different platforms share neither credentials nor
`newest`.  No UPDATE is lost in it and the server is not restarted.  `im_jobs` has all
of that, and the theorems have no such restriction.  What the run is for is the page and two jobs in
every order.  Two jobs let the page's own be followed or preceded by another one; two
visits let the flow of the first meet the second.  Jobs are symmetric.

*Proofs* (`WizardOnJobs_proofs`), for any number of jobs, flows, visits and crashes and
with lost UPDATEs.  `ComposedJobs` drops the page, so the invariants of `ConfigJobs`
hold.  `PageSeesPromise` takes every step to a step of `ImWizard` by way of the lemmas
behind `JobsKeepPromise`.  `PageTellsOfTheDevice` adds `FlowInv`: the visits
that are over have been aborted, a flow that began at the shown URL is one of the mounted
component, and a flow polls a job whose platform is a channel and, if it is of the shown
URL, one that its component asked for.  With it the success that a poll reads is of such a job (`SuccessIsPolled`), and
`SuccessIsConfigured` says what that means on the device.

## 7. The web interface

`WebConsole` puts eight modules side by side, each with the variables of its own and
the part of the server it talks to.  The parts share no state in the code beyond
what their modules have, so a behaviour of `WebConsole` is one of a single part
(`part`), the others stand still: one run checks them all, and nothing is said
about their interleaving, which would add nothing.

| Module | State | Actions and their code |
|---|---|---|
| `ImWizard` | the page's state (`page`), `flow`: each call of runConfigureFlow, `visit`: which URL is shown, and since when the component is mounted; `cancelled`, `aborted`: the components whose `cancelledRef` is set, the AbortControllers that have aborted; `twice`: two flows of the component at once (history) | `StartFlow`, `PostHandled`, `PostAnswered`, `Polled`, `PollNotFound`, `FlowFails`, `FlowCutOff`: the flow, `await` by `await`, which stops if its signal or the ref says so (`Stopped`); `Draw`, `GoTo`, `SubmitCredential`, `BackToCredentials`, `Retry`, `LeavePage`, `SwitchPlatform`: buttons and effects; `VerifyRound`, `VerifyTimesOut`, `RetryVerify` |
| `InstallCard` | the card's job, the timer or request for the next poll | `StartInstall`, `InstallStored`, `InstallAnswered`, `InstallRefused`; `Tick`, `PollFound`, `PollTaken`, `PollBreaks`; `ShowCard`, `HideCard` |
| `WebSession` | `stored`, `token`, `user`, calls of fetchMe, requests of pages | `SubmitLogin`, `LoginAnswered`, `LoginFails`, `MeAnswered`, `MeUnauthorized`, `MeFails`, `Logout`, `Reload`, `PageAsks`, `PageAnswered`, `SubmitPassword`, `PasswordChanged`, `PasswordRefused`, `Expire` |
| `DeviceFeed` | the device, the events about it not yet written, the wire, the provider's socket, timer and list | `DeviceConnects`, `Heartbeat`, `DeviceDrops`, `OldDrops`, `Age`; `WriteEvent`, `WriteOld`, `Admit`, `Refuse`, `ReadSnapshot`, `WriteSnapshot`, `CutOff`; `Mount`, `Unmount`, `Opened`, `Closed`, `Reconnect`, `Receive`, `AskRefresh`, `EndRefresh` |
| `StatusPoller` | one card, its timer, its read, its action; the gateway and the last report | `PollEffect` (the effect, run anew by whatever changes its dependencies), `TimerFires`, `PressRead`, `ReadRuns`, `ReadEnds`, `ReadFails`; `StartAction`, `ActionRuns`, `ActionEnds`, `ActionFails`; `Collect`, `Reported` |
| `BatchRun` | the job, its items, the goroutine of each device; the dialog's view and its poll | `StartBatch`, `Launch`, `ItemRuns`, `CommandEnds`, `ItemEnds`, `Verdict`, `ServerDies`; `AskJob`, `GetJobRow`, `GetItems`, `TakeJob`, `PollFails`, `CloseDialog` |
| `ListPages` | which page it is, what it asks for, shows and has requested; the change under way and whether its handler takes the device for online; `owed`: a change was not followed by a load, and none came since (history) | `PressRefresh`, `OnlineFlips`, `DeviceReports`, `AskFor`, `AnswerLoad`, `TakeLoad`, `LoadFails`, `SubmitChange`, `Apply`, `Changed`, `ChangeFails`; the nine pages and cards are records of what they can do |
| `FileEditor` | the modal, its text, the reads and the save under way | `OpenEditor`, `FileRead`, `FileNotRead`, `Cancel`, `Save`, `Saved`, `NotSaved` |

### Runs

| Run | Instance | Shows |
|---|---|---|
| `web_console` | wizard: 2 jobs, 2 flows, 2 visits; 2 logins; 1 device, 2 messages on the wire; 2 gateway actions, 1 failed command; a batch of 2 devices with lost UPDATEs; 2 changes and 2 loads of a list; 2 files, 2 reads | see below |
| `false_success` (violation) | 1 job, 1 flow, 1 visit | `FinalSuccessOnlyWhenConnected` fails |
| `offline_never_shown` (violation) | 1 device, 1 browser | `OfflineIsShown` fails |

* `WebTypeOK`: the type invariants of all parts.
* `SuccessesAreEarned`: `SuccessIsEarned` of the wizard and `InstallSuccessIsEarned` of
  the installation card.
* `WaitsAreAttended`: whatever the interface waits for, something is under way that will
  take it further.  It is the conjunction of what its parts promise: `RunningHasFlow`
  (wizard), `OpenJobHasOneChain` (installation card, unless a poll broke off),
  `LoadingHasCall` (session), `BatchIsFollowed` (batch and its dialog), `OneSocket` (feed),
  `OnePollChain` (cards).  This is the half of the liveness properties that can be
  proved; what is left to fairness is that the request, timer or call is answered.
* Wizard: `OwnFlowDecides`, `WizardEnds`.  The first part of the last, like `RunningHasFlow`, is
  promised only while the component that began the flow is on the same URL; the second,
  about the verification, unless of two flows at once one has failed after the other had
  succeeded.  See the weaknesses.
* Installation card: `InstallEnds`, unless a poll breaks off.
* Session: `SessionAgrees`, unless an answer crossed from an earlier session;
  `LoadingEnds`.
* Feed: `FeedComesBack`; `OnlineIsShown`: for a device that stays connected the page comes
  back to "online" again and again, and if its heartbeats come in time also, it stays
  there from some time on.
* Cards: `DisplayCatchesUp`.
* Batch: `ShownBatchIsTrue`, `BatchEndIsShown`.
* Lists: `OwnChangesAreShown`, unless a load failed or was overtaken, or a change was
  confirmed in a dialog while the card took the device for offline and no load came since.
* Editor: `SavesOwnText`, with three excused cases.

Both pages that have jobs run share the server with others: `OthersJob` and `JobsGoOn`
have jobs stored that neither asked for.

*Bounds.*  Two of everything that can overlap with itself: flows, visits, logins,
loads, reads, messages.  A third adds another of what the second is to the first;
that it makes no difference to the invariants is proved.  `MaxActions`, `MaxVersion` and
`MaxFailures` bound counters; `MaxWire` bounds what the WebSocket holds.  Jobs, logins
and changes are used up, so the run may stop (`CHECK_DEADLOCK FALSE`).

*Fairness* is stated in each module.  Timers fire, requests are answered or fail, the
goroutines of the server go on, and a job closes, as `JobPromise` has it.  `Opened` is
strongly fair in `DeviceFeed`: attempts to open a socket may fail any number of
times, but not always.  While a device is connected it sends heartbeats, and one
that is not ages.  Users press nothing they do not want to, and `ReadFails` has no
fairness: `DisplayCatchesUp` holds with `MaxFailures` failures at any points.

### Findings

* `false_success`: `isSuccessStatusText` (`IMConfigPage.tsx:135`) looks for its words
  anywhere in a status, and before failures are looked for; "disconnected" contains
  "connected", "inactive" "active", "unhealthy" "healthy".  The wizard then ends in
  success for a channel that says it is down; `docs/test-cases.md:603` has it succeed for
  `connected` only.
* `offline_never_shown`: "online" is computed when a row is read, from the time of
  the last report (`device.go:297`).  The event sent when a connection ends is therefore
  "online" for a device that has just reported, no event follows when 90 seconds
  have passed, and nothing in the page asks again.  `docs/test-cases.md:517` has the row change
  to offline.

### Weaknesses the properties make room for

They are behaviours of the models, excused in the property named.  But for the last one
no doc, comment or test says otherwise, so they are no runs.

* A wrong old password is answered by 401 (`users.go:58`), which every request takes
  for the end of the session: the user is logged out.  A 401 for an earlier session
  ends the new one, and an answer of an earlier fetchMe shows the earlier user
  (`SessionAgrees`, `crossed`).
* Going through the browser's history to the other platform keeps the wizard's component.
  The cleanup sets `cancelledRef` and the effect for the new URL sets it back before
  any flow can read it, so it is the AbortController alone that stops the old flow (the
  mutant `SwitchWithoutAbort`); its AbortError is caught and not shown, and the page keeps
  "running" (`WizardEnds`, `mountedAt`).
* A double click on the wizard's button starts two flows.  If one succeeds the page goes to
  step 3 and verifies; if then the other one fails, configure becomes "failed", the
  effect of step 3 is cleaned up and does not begin again, and verify stays "running"
  (`IMConfigPage.tsx:580-646`, `:813-819`): the page spins until it is left (`WizardEnds`,
  `twice`).
* A dialog that is open when its card takes the device for offline keeps its OK.  The
  change may succeed, but the handler of that render does not load the list again
  (`ModelProvidersCard.tsx:75`, `:145`), so that it shows up only when the device is back
  or somebody asks (`OwnChangesAreShown`, `owed`).
* One poll of an installation that fails ends the polling, and the button stays off
  while the card is there (`InstallEnds`, `broken`).  The same holds for the dialog of a
  batch (`BatchEndIsShown`).  If the read of the items before the last UPDATE of a batch
  fails (`batch.go:160-163`), the job stays open as if that UPDATE had been lost; the
  model has it as `lost`.  A poll answered after the dialog was closed would also
  replace the view of a second batch begun meanwhile; one batch is modelled.
* The editor's button is on while its file is read: saving then writes the empty text,
  and so does saving after a read that failed; of two reads the later answer wins, whichever
  file it is for (`SavesOwnText`, `excused`).
* Of overlapping loads of a list the later answer wins, also if it is the older list
  or was asked for with another filter (`OwnChangesAreShown`, `excused`).
* An event written late by the goroutine of a replaced connection, a late snapshot or a
  late answer to refreshDevices replaces a newer state on the page until the next
  heartbeat.  `docs/test-cases.md:520-529` (TC-FE-RT-004) says the opposite, that the
  interface "ignores stale regression"; events carry the second they were sent in, but
  onmessage does not compare it.  What the code does keep is `OnlineIsShown`: the
  regression does not last.  That nothing regresses is false in `DeviceFeed`: a snapshot is
  read while the device is away, the device connects, its event is written, and then
  the snapshot is.

### Proofs (`WebConsole_proofs`)

For every value of the constants, from the named assumptions.  `WebSteps` takes a step of
`WebNext` apart: it is a step of one part and leaves the others alone.  Each part has an
inductive invariant over its own variables, and they hold side by side:

* `SessionInv`, `FeedInv`, `PollerInv`: the types and the property, with at most one
  further conjunct (while the login page waits nobody is logged in; a provider that is
  gone has neither socket nor timer).
* `BatchInv`: a final status is written, read and shown only when the goroutines are
  done, and each of them has written its outcome; what is shown of the items was read
  after the job's status; a view that is not final has a timer or a poll
  (`BatchIsAttended`).
* `WizardInv` over `JobPromise` (`ImWizard_proofs`): a flow that is not cut off polls for
  a job that its own page asked for, and what the promise has configured stays so.  It
  rests on `RefsInv`: every visit before the shown one is aborted, and no component but an
  earlier one is cancelled.  Hence a flow that is not `Stopped` is one of the shown URL
  (`StoppedIsOld`), from which `OnlyOwnFlowsDecide` follows step by step: no action asks for it.
  `RunningHasFlow` is inductive beside it.
* `CardInv`: no request for a job is under way while one is followed, the chain of
  polls is of the job in the card, and a success that is shown or has been read is one of
  that job (`CardHasOneChain`, `CardSuccessIsEarned`).
* `ListInv`: the last load that still counts asks for what is wanted and, once answered,
  brings every change of one's own; if there is none, what is shown does
  (`LastDecides`, as long as nothing is `excused` or `owed`).
* `EditorInv`: as long as no read has failed or was overlapped, there is at most one, of
  the file in the title, and after it the text is that file's.

`ShownSuccessIsEarned` and `NothingWaitsInVain` put the results on the parts together.  The
theorems are listed in `PROJECT.json`.  Every invariant and action property of the run
is proved.  Model-checked only: `WizardEnds`, `InstallEnds`, `LoadingEnds`, `FeedComesBack`,
`OnlineIsShown`, `DisplayCatchesUp` and `BatchEndIsShown`, which need fairness.

## 8. Mutants

The type invariants of `AdminRoles`, `Registration` and `ConfigJobs` are proved
(`RolesTypeCorrect`, `RegistrationTypeCorrect`, `JobsTyped`) and no longer part of a run;
for the others a run is kept beside the theorem.

For every property of a passing run `PROJECT.json` names a mutant: a definition of
the model changed the way a plausible slip in that code would (a dropped guard, a
forgotten id in a WHERE, a missing foreign key, an INSERT OR REPLACE for an
UPDATE, a cleanup that does not run, a poll that is not repeated).  The mutated
forms stand before the definitions they change, commented as mutants, and are used
nowhere else.

## 9. Not modelled, and why

* **Timing of the agent, background loops, whitelist, rate limiter, migrations**: see
  the end of section 2.  Start and Stop are called once each, by one goroutine; the
  other three are sequential code without interaction.
* **Executor, collector, probes**: processes, pipes and /proc; the models use only
  that a command runs and gives one result, and that a report is of a moment in the past.
* **Passwords, JWTs, access checks of single requests**: they read and decide, and
  share no state that another thread changes except the role and the binding,
  which are read anew for each request.  (A browser's WebSocket is the exception:
  it keeps the role of its token, `hub.go:549`, which no doc has an opinion on.)
* **The update and doctor cards, the parsers of outputs** (`DeviceDetailPage.tsx`): one
  command per click with the button off meanwhile, and pure functions over strings.
* **The cache of command results** (`RealtimeContext.tsx:130`): kept for the pages that
  wait for a command (`DeviceDetailPage.tsx:1964-1978`); they poll for it as well.
* **Statuses of single steps of a job**: displayed and read by nobody.
* **Audit log, configuration, HTTP helpers, wire types, rendering**: no state of
  their own beyond what `ListPages` shows of the audit log.
