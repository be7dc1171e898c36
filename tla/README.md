# containerws: specifications of the panel server

containerws is a web panel for a container or host: a Go server (`cmd/`,
`modules/`, `packages/`, `models/`) with a React front end. Most of its modules
answer a request from the file system, an external daemon or a database row and
keep nothing. A few keep state in memory and run goroutines against one another;
those are what is worth specifying. On the server the software installer is the
largest and the most delicate of them, then the cloud shell's sessions; in the
browser it is the API client, which refreshes tokens under the requests of
several accounts, and the page that keeps a cloud shell alive across lost
sockets. This directory holds TLA+ modules of those parts, the TLC
configurations that check them, and theorems checked by TLAPS.

    tlc -config iq_list.cfg MCInstallQueue.tla     # any of the iq_*.cfg
    tlc -config gate.cfg MCPackageGate.tla         # any of the gate*.cfg
    tlc -config auth.cfg MCAuthClient.tla          # and auth_signout.cfg
    tlc -config shell.cfg MCShellPage.tla
    tlapm PackageGateProofs.tla                    # and the other *Proofs.tla

## Inventory

| Component (source) | State | Operations | What is hard |
|---|---|---|---|
| **Softwares install queue** `modules/softwares/install/queue.go`, `brew_bridge.go`, `status.go` | `bulkQueue`: items, `running` | enqueue (bulk, brew, switch), retry, dismiss, list; one worker goroutine claims and runs | worker start and exit against late items; checks and appends in separate critical sections; rows against jobs; trimming to 200 |
| **Install jobs** `jobs.go`, `stream.go` | `jobs.byID`, `jobs.bySoftware`, `installSerial`, per-job status, context, subscribers; rows `software_install_jobs`, `software_installed` | prepare, run script (install, custom, uninstall), cancel, dismiss, prune, stream | one script at a time; cancel and timeout while waiting for the lock; `job.Cancel` stored without the mutex; SSE channels; periodic persist against the final one |
| **Legacy installs** `install.go`, MCP install tool, `cmd/software_install.go` | none | script in the caller | neither job nor lock |
| **Boot reconcile** `packages/softwaresync` | list of missing softwares, `ready` | list rows, probe host, enqueue | must end on every path; decides on three reads taken one after another |
| **Queue waiters** `wait.go` | none | `ActiveQueue`, `IsQueueBusy`, `WaitQueueIdle` | a derived view that keeps one entry per software |
| **VNC and RDP package setup** `modules/vncnovnc/install/setup`, `.../rdp/install/setup` | `activeInst` (status, phase), setup jobs | start in background or streamed, wait for the queue, hold the package manager, cancel | two owners of one package manager, each polling the other |
| **Brew** `modules/brew` | brew jobs, ownership in `software_installed` | formula and cask actions, ownership switch with waits, sync of the rows with `brew list` | waits on the queue view; change of owner in several steps; rows written, and brew run, without `installSerial` |
| **Environment variables** `packages/environments` | rows, fingerprint, cursors | create, change, apply, watch | a failed first apply must be retried |
| **Cloud shell** `modules/cloudshell`, `frontend/src/components/cloudshell` | server: sessions with one sink and an idle timer; page: tabs with session ids (in localStorage), the mounted terminal, its socket and retry timer | create, resume, attach, detach, idle, exit, kill, list; tabs, reconnects, hydration from the list | an old handler that ends after a new one attached; timer against attach; lists and ready messages that come late |
| **API client and account store** `frontend/src/lib/network`, `store/authorization.ts`, `lib/switch-account.ts` | signed-in accounts with tokens, current account, the refresh in flight, requests in the interceptors | send, refresh, retry, sign in and out, pick an account, reload | several requests await one refresh; the account changes under them; who is signed out by a late answer |
| **Self update** `modules/settings/update` | executable, `.new`, `.bak`, release cache | check, download, swap, restart | concurrent applies, crash between renames |
| **VNC users and ports** `modules/vncnovnc/install/adduser` | port map file, display files | pick, start, stop | picks that are not reservations |
| **Code server** `modules/codeserver/process.go` | process table | pick port, start, wait, kill | port taken between pick and start |
| **System users** `packages/usersync` | users table, passwd | reconcile | mostly a pure comparison |
| **MCP tools** `modules/mcp` | none | queue tools, install tool | the install tool is another legacy install |
| Proxy, docker, kubernetes, file manager, dashboard, authorization, the other pages of the front end | none of their own | request and response | text and I/O, not modelled |

How they interact: HTTP handlers and the boot reconcile append to the queue and
kick the worker; the worker and single-page installs register jobs and take
`installSerial` in turn; a finished uninstall reaches back into the queue; the
worker asks VNC setup (through a callback) whether the package manager is held,
and VNC setup polls the queue's view before it takes hold; brew actions run in
the worker, which then writes the owner of the software; the ownership switch polls
the same view between an item it appends and the row it writes, and runs brew
itself; brew's own streams run outside the queue. The browser meets the server through
requests, all of which pass the API client, and through the cloud shell's
sockets, whose handlers attach to sessions that outlive them.

What makes each part correct. *Queue*: a single worker, no item forgotten, items
started in order and each at most once, every row finished, failed rows telling
what happened. *Jobs*: one script at a time, one end per job, the lock always
given back, a success that is true of the host and of the row. *Reconcile*: it
always ends, and does not undo a user's uninstall. *Package setup*: never at
work together with the queue. *Cloud shell*: no shell runs that nobody will end
or hand on, output goes to the newest connection only, what is typed reaches the
shell whose tab is active, no two tabs show one shell, a terminal never just
stops. *API client*: one refresh at a time and nobody stranded on it, a bounded
number of sends, tokens that stay with their account, no account lost without a
cause. *Ports, update, environments*: no double allocation, a working executable
at every crash point, everything written eventually applied.

The hazards, each at its line and with the properties aimed at it, are in
`PROJECT.json`.

## Modules

**`SerialQueue`** is what the install queue promises: accepted work is started
in order, one piece at a time, each at most once; work that was not started may
be withdrawn. Three variables, no packages, no jobs.

**`InstallQueue`** is the detailed specification: the queue, its worker, the
registry of jobs, `installSerial`, the runner of a job (`runSoftwareScript`,
`streamBash`), the HTTP handlers and the boot reconcile. One action is one
critical section, or one stretch of code between two of them.

| Variables | Code |
|---|---|
| `items`, `item` | `bulkQueue.items` as the set of listed numbers, and every item ever made. Items are only appended, so list order is number order |
| `running`, `kicks`, `worker` | `bulkQueue.running`; calls of `kickQueueWorker` not yet at the lock; worker goroutines with the point they are at |
| `job`, `byID`, `bySoftware` | the registry and every job: status, cancelled flag, context (`unset`, `live`, `cancelled`, `expired`) and the point its runner is at |
| `serial` | holder of `installSerial` |
| `row`, `host` | `software_installed` (none, local, brew, uninstalled) and what is really installed |
| `request`, `sync` | handlers (and brew's sync) and the reconcile between two of their critical sections |
| `held` | `packageManagerBusy()`, an environment here (`TakeGate`, `FreeGate`); `PackageGate` says what it is |

| Code | Actions |
|---|---|
| `kickQueueWorker`, `claimNextQueueItem` | `Kick`, `PassGate`, `Claim`, `FindNone`, `Exit` (the deferred function with its second look) |
| `runQueuedInstall`, `runQueuedUninstall`, `finishQueueItem` | `Skip`, `NotActive`, `PrepareFails`, `Prepare`, `Start`, `Collect` |
| `runQueuedBrew` and the runner wired in `modules.go`, with `brew.ApplyJobOwnership` | `StartBrew`, `ApplyJobOwnership`, `EndBrew` |
| `runSoftwareScript`, `streamBash` | `Acquire`, `AcquireAborts`, `EndCancelled`, `EndFailed`, `EndOK`, `Mark`, `MarkFails`, `FinishUninstall` (with `CancelPendingInstallsForSoftware`), `FinishInstall`, `StartCustom`, `EndCustom`, `Release` |
| `context.WithTimeout`, `finishJob`, `cancelJob` | `Expire`, `Prune`, `Cancel` |
| `EnqueueAPI`, `EnqueueBrewActions`, `RetryQueueAPI`, `DismissFromQueue` | `Enqueue`, `BrewCheck` and `BrewAppend`, `RetryTake` or `RetrySoftware` and `RetryAppend`, `DismissRows` and `DismissJob` |
| `StreamInstallAPI`; `InstallSoftwareAPI`, the MCP install tool, the command line | `StreamCheck`, `StreamPrepare(Fails)`, `StreamStart`; `LegacyStart`, `LegacyFails`, `LegacyInstalls`, `LegacyMark` |
| `SwitchPackageManager` | `SwitchPackageManager`, `SwitchDrops`, `EnqueueActions`, `SwitchLeavesBrew`, `SwitchOwns`, `SwitchFails` |
| `waitSoftwareQueueDone` | `SwitchLooks` (the list, then the jobs: two locks), `SwitchFails` |
| `SyncHostInstalls` | `BrewSyncReads` and `BrewSyncAdopts`, `BrewSyncLists` and `BrewSyncForgets` |
| `softwaresync.Reconcile`, `EnqueueMissingInstalls` | `SyncList`, `SyncProbe`, `SyncFails`, `SyncSnapshot`, `SyncCheck`, `SyncAppend` |
| VNC setup, seen from the queue | `TakeGate`, `FreeGate` |

`MCInstallQueue` adds the symmetry set; the definitions that follow a comment
beginning with "Faulty:" in `InstallQueue` are variants of the definition after them, used
only to make sure that each property can fail.

Abstractions: UUIDs are numbers in order of creation; packages are model values;
messages, log lines, versions and icons are left out; the store of `job.Cancel`
is a race in the code, so that a cancellation that comes before the runner first
takes the job's mutex may or may not reach the context; the probes of the
reconcile are one step; the stop of service units before an uninstall and the
clearing of sticky options change nothing that is modelled; `FinishUninstall` joins
`CancelPendingInstallsForSoftware` (the queue's lock) with `job.finish` (the job's
lock), between which nothing is done that depends on either; the process does not
restart.

What brew has on the host is no state of its own: `host` is what the scripts of jobs
and legacy installs put there. A brew command succeeds or fails and `brew list` shows
what it likes. The software a formula belongs to is whichever bears its name in the
catalog when the command is over, and the catalog may be edited, so
`ApplyJobOwnership` writes the row of any software or of none; in the switch and
the sync it is the software asked for. The sync may run at any time: its throttle and
its once per process are left out, and so is `watchJobOwnership`, which writes rows
only where the queue is not wired to brew (`modules.go:83` always wires it).

**`PackageGate`** composes the whole of `InstallQueue` with the package setups of
`modules/vncnovnc`. A step is a step of the queue or a step of one setup; the two
meet in three places. Setups read the list and the registry of jobs
(`WaitQueueIdle`), they wait for the reconcile (`softwaresync.WaitReady`), and the
worker reads `held`, which every step of a setup sets to what
`PackageManagerHeld()` returns.

| Variables | Code |
|---|---|
| `active` | `activeInst`: the setup whose record it points to, as a set of at most one |
| `inst` | status and phase of each setup's record |
| `setup` | per setup, the point its goroutine or handler is at, whether its context is live, and the copy of the list it is looking at |

| Code | Actions |
|---|---|
| `StartBackgroundInstall` | `StartCheck`, `Unsupported`, `Publish` |
| `StreamSetupAPI`, `BindHTTPJob` | `Bind`, `Begin`, `ClientGone` |
| `SetupAPI` of VNC, both setups of RDP | `StartDirect` (unknown to `activeInst`) |
| `waitForSoftwareQueue`, `WaitQueueIdle`, `snapshotActiveQueue` | `SyncReady`; `LookAtItems`, then `SeesIdle` or `SeesBusy`; `Wake`, `GiveUp` |
| `setPhase`, the script, `finish`, `FinishHTTPJob` | `Hold`, `StartScript`, `StartFails`, `EndScript`, `Finish` |
| `cancelJob`, a client that left, the 30 minutes | `Stop` |

A look at the queue is two steps because the code takes two locks, one for the
list and one for the jobs. The jobs come in the order of a Go map, and the first
failed or running one of a software decides: `MayShowRunning` and
`MayHideRunning` are the two outcomes. Left out: texts and log lines, the option
rows (recomputed on every status request), what the scripts install. RDP ignores
the error of a wait that was cut off and then fails to start `bash` with the dead
context; here both are `GiveUp`.

**`SharedTrip`** is what `refreshAccessToken` promises its callers: the first starts
a round trip, whoever calls meanwhile joins it, nobody leaves it early, its end
releases all of them. Two variables, no tokens, no accounts.

**`AuthClient`** is the browser's side of authentication. JavaScript runs one
task (an answer, a timer, a click) and then every promise continuation it made
ready before the next task. That is the module's grain: a request in the states
`start`, `ready` or `giveup` is such a continuation, and while one exists (`Busy`)
no task runs. Between two awaits nothing interleaves; across an await anything may.

| Variables | Code |
|---|---|
| `store`, `current` | `sessions` and `current_session`; a stored session is its access token: the account the token belongs to and whether it is still fresh |
| `pc`, `as`, `retried`, `sends`, `tok` | each request: the point of the interceptors it is at, the account current when its token was chosen, `_authRetried`, how often it went on the wire, its `Authorization` header |
| `trips`, `inFlight` | refresh round trips on the wire, and `refresh.ts`'s `inFlight` |
| `pick`, `page` | the account check of the picker with the account to go back to; whether the app or the sign-in page shows, or a reload was asked for |
| `revoked` | the server's side: accounts whose refresh token it refuses |
| `crossed` | history: the account changed while a refresh was on the wire |

| Code | Actions |
|---|---|
| request interceptor | `Issue`, `Dispatch`, `SendAfterRefresh` |
| `refreshAccessToken`, `performRefresh` | `RefreshAccessToken` (part of `Dispatch` and `Answer401`), `RefreshSettles` with its `finally` |
| response interceptor | `AnswerOk` (with `applySession` for the sign-in form), `AnswerReauthorize`, `AnswerFailed`, `Answer401`, `GiveUp` |
| `signIn`, `signOut`, `setAccessToken`, `removeStoredSession` | `SignIn`, `SignOut`, `SetAccessToken`, `RemoveStoredSession`, parts of the above |
| `verifyStoredSession`, `OtherSessions`, `handleLogout`, `Layout` | `PickAccount`, `CheckOk`, `CheckFails`, `RemoveAccount`, `LogOut`, `LayoutRedirect` |
| a full load of the page, time, the server | `Reload`, `Expire`, `Revoke` |

Abstractions: `sessions[0]`, the account that becomes current when the current one
goes, is any remaining one; the server may answer a request with any code its
token deserves (`Refused`); `RefreshSettles` takes out the trip and clears
`inFlight` in one step, since `finally` runs among the continuations of the same
task. Left out: `accessDenied` and the page it shows, the cookie call inside
`signOut`, trusted flags, `signOutAll` (no caller), old storage formats, and a
second browser tab over the same localStorage.

**`ShellServer`** is the cloud shell's registry and its WebSocket handlers, one
action per critical section: `Detach` and the timer it arms afterwards are two
steps, so are the timer's look at the sink and the `Destroy` that follows it, and
`sessions.get`, `create` and `Attach` of one handler. What clients may do is a
parameter of it (`ClientStep`): dial any session, hang up, read, kill, list.

| Variables | Code |
|---|---|
| `state`, `attach`, `timer` | a session's `closed`, its `attach` as the connection of the sink, `idleTimer` |
| `doomed` | goroutines between their decision to destroy a session and `Destroy` |
| `pc`, `of` | `HandleTerminalWS` of each connection: where it stands and its `ms` (before that, its `session_id`) |
| `link`, `inbox` | the socket: whose it is and whether it broke; messages on the way to the page |
| `listing`, `kills` | `GET /sessions` and `DELETE /sessions/:id` under way |

| Code | Actions |
|---|---|
| `HandleTerminalWS` | `NeverAccepted`, `Resume`, `Create`, `CreateFails`, `Attach`, `Detach`, `ScheduleIdle` |
| `scheduleIdle`'s callback, `readLoop`, `Destroy` | `TimerFires`, `ShellExits`, `Reap` |
| `KillSessionAPI`, `ListSessionsAPI` | `Kill`, `ListAnswers` |
| the socket and the process | `Dial`, `HangUp`, `Receive`, `Cut`, `Restart` |

**`ShellPage`** puts the browser in front of it: the tabs of the store (`tabs`,
`active`, `open`, all of which survive a reload), the mounted terminal (`term`:
`liveSessionId`, `shellExited`, attempts, retry timer), its socket `ws`, and
other pages (the popped-out `/shell`) as sockets of their own.

| Code | Actions |
|---|---|
| the terminal's effect and its cleanup | `Mount`, `Unmount`, `Remount`, `Connect`, parts of what follows; `FirstMount` |
| the store's operations, `handleCloseTab`, `handleNewShell` | `OpenShell`, `CloseShell`, `AddTab`, `CloseTab`, `SelectTab`, `Reconnect`, `NewShell`, `Hydrate` |
| `onmessage`, `onclose`, `scheduleReconnect`, `onOnline` | `GetReady`, `GetNotFound`, `GetError`, `GetExit`, `SocketCloses`, `Retry`, `Online` |
| a full load of the page; another page | `Reload`, `OtherDials` |

A change of the store and the effects it causes are one step: the store's updates
render synchronously and the effect runs in the same task. Left out: what is typed
and printed and the replayed ring buffer, sizes, titles (a dependency of the
effect that changes only together with the tab), the order of tabs, the rows of
`shell_sessions` (the list filters them by the sessions in memory and adds those
without a row, so they decide nothing), the socket's `kill` message (the page
never sends it) and `resetShellCache` (never called).

Three schedules of the code are no behaviours of the modules. A `ready` is put under
way in the step of `Attach` (`sessions.go:158-169`), not a moment after its unlock
(`ws.go:104`), so no exit comes before it. A callback of the idle timer that had
already started when the `Stop` of `Attach` came too late, and that looks for a sink
only after the following `Detach` (`sessions.go:143-154`), ends a shell that nobody
is attached to before the new timer would. And `hydrateFromServer` resets
`reconnectToken` (`store.ts:303`), which runs the effect of a terminal once more whose
tab stayed as it was: an `Unmount` and a `Mount` of the same shell, as in `Reconnect`.
In none of them does a property read what lies in between.

## Runs

The `iq_` runs on `MCInstallQueue`, the `gate` runs on `MCPackageGate`, the `auth`
runs on `MCAuthClient`, `shell` on `MCShellPage`, exhaustive. `CHECK_DEADLOCK FALSE`
except in the `auth` runs: once the bounded work of an instance is done, an idle
server, or an idle page, waits for requests. (`AuthClient` cannot stop: a page can
always be reloaded.)

| Run | Instance | Shows |
|---|---|---|
| `iq_list` | 1 software, 2 items; enqueue, dismiss, cancel, brew's sync; prepare and script failures, timeouts | `OneWorker`, `NoLostWakeup`, `RunningRowsHaveWorker`, `FailedRowsMatchJob`, `EndsOnce`, `RowsLeaveWithCause` |
| `iq_single` | 1 item, 2 single-page installs of the same software, 2 handlers; cancel; failing prepares and custom scripts | `QueueInv` (the inductive invariant), `SerialScripts`, `QueueOneByOne`, `SuccessIsOnHost` |
| `iq_serial` | 1 software, 1 formula, 2 handlers, list limit 1; enqueue, brew, the whole switch, retry, legacy, prune; database failures; the gate | `IsSerialQueue`: `InstallQueue` implements `SerialQueue`; `RowsLeaveWithCause` |
| `iq_live` | reconcile, a single-page install and an uninstall; database failures, timeouts; fairness | `PendingProgress`, `JobsEnd`, `SyncEnds` |
| `iq_brew_overlap` | brew and a single-page install | violation of `NoOverlappingPackageJobs` |
| `iq_reinstall` | uninstall and install queued by a user | violation of `UserItemsKept` |
| `gate` | a background, a streamed and an RDP setup, one formula, the reconcile; a setup that cannot start, a client that leaves, one cancellation; fairness | `GateTypeOK`, `GateNotLeftShut`, `QueueStaysOut`, `PendingProgress`, `SetupsEnd` |
| `gate_held` | a background and a streamed setup | violation of `HeldDuringScript` |
| `gate_overlap` | a background setup, one install | violation of `SetupsDoNotOverlap` |
| `auth` | 2 accounts, any of them stored, 2 requests of which one is the sign-in form; lost answers; fairness | `CurrentIsStored`, `SingleFlight`, `WaitersHaveTrip`, `AtMostTwoSends`, `TokensStayHome`, `AuthInv` (the inductive invariant), `LossHasCause`, `GainHasCause`, `RequestsEnd`, `IsSharedTrip`: `AuthClient` implements `SharedTrip` |
| `auth_signout` | 2 accounts, 2 requests, nothing is lost | violation of `SignedOutIsGone` |
| `shell` | 2 shells, 2 tabs, 2 sockets of the page and 1 of another page, 1 attempt, 2 events; fairness | `NobodyForgotten`, `SinkIsServed`, `TabsDistinct`, `ServesActiveTab`, `RetryAhead`, `PageInv` (the inductive invariant), `NewestKeepsSession`, `KillsWhatItDrops`, `IdleEnds`, `SocketAnswered` |

`TypeOK` is checked as the first part of the inductive invariants: of `QueueInv`, of
`AuthInv` and of `PageInv`.

*Bounds.* `MaxItems` bounds what users enqueue (the reconcile adds one per
software), `MaxStreams` the single-page installs, `MaxQueue` the list (200 in the
code). Two items are enough for a worker on its way out to meet a new item and
for an item to overtake another; two streams and a queued job are three
contenders for the lock; a list limit of 1 makes every append trim. Two worker
slots let a second worker appear if the code started one: `OneWorker` says it
does not, and the limit on slots hides nothing because `Kick` would need a third
only after two were alive.

In `gate` the queue carries one formula: a brew item goes through the gate, the
claim and the end of an item as any other does and has no job, which leaves room
for three setups (the two that compete for `activeInst`, and one the gate does not
know). `MaxStops` bounds the setups whose context ends early; the other two then
show that nothing depends on them. Without softwares there is no job either, so that
what `QueueStaysOut` says of queued jobs (`QueuedOver`) is vacuous in this run; what it
says of the worker is not, and `GateKeepsQueueOut` proves both for every instance.
Views with jobs in them are explored by `gate_held` and `gate_overlap` up to their
counterexamples.

`auth` has no bound but its sets: two requests are enough for one to start a
refresh and one to join it, for one to be refused twice and for a late answer to
meet another account; each request is issued once, and a request that ended
plays no part in what follows. In `shell` `MaxEvents` counts what users, the
network, the shells, other pages, a restart and the answer of the list do: two such events meet in every way, with everything
that follows from them, beginning with the page's load. The interesting
schedules need exactly two (a cut link and a resume on a new socket; a new shell
and a late list; a detach and a kill). `Sessions` bounds how many shells are ever
created: `Create` waits when they are used up, and with them a socket that asks
for a new shell may also fail (`CreateFails`), so nothing hangs on it. `Conns`
are used again when both ends are done; `MaxTabs` bounds open tabs, `MaxTries`
is `RECONNECT_MAX_ATTEMPTS`, 40 in the code.

*Fairness* (`FairSpec`, runs `iq_live`, `auth` and `shell`; `FairGateSpec`, run `gate`). Goroutines that can run do run: weak
fairness of the worker, of pending kicks, of handlers past their first critical
section, of the reconcile. A Go mutex hands itself to a waiter that has starved:
strong fairness of taking `installSerial`. A script ends: its context has a
deadline. That last one is an assumption about the scripts: `streamBash` waits
for both pipes to close before it waits for bash, and the deadline kills bash
only, so a child that keeps the output open would hold the lock for longer. In
`iq_live` VNC setup gives the gate back (`WF` of `FreeGate`); in `gate` this is not
assumed but follows: the assumption there is that a setup that has started goes
on and its script ends. Nothing is assumed of users, of cancellation, of
timeouts, or of the switch and the sync of brew: `PendingProgress` and `JobsEnd`
speak of what the queue has taken on.

*What `SuccessIsOnHost` leaves out.* `iq_single` checks it for queue and streamed
installs alone. A failed write of the row is only logged, and these write a row or
the host without `installSerial`, each of them enough to break it: brew in the worker
(`modules.go:75`, `brew/c.go:867-895`), the switch (`switch.go:114,137,145`), brew's
sync (`brew/sync.go:144,170`, although the comment at line 92 says that active local
installs are never overwritten: the owner is looked at in line 133 and not again), and the
legacy installs (`install.go`, `mcp/tools/softwares/install.go:169`,
`cmd/software_install.go:160`). All of them are actions of the model and run in
`iq_list` or `iq_serial`. `SerialScripts` likewise speaks of the scripts of jobs.

*Fairness of the browser and the shell.* In `auth` the event loop runs what is ready, and every answer comes: axios gives
up after 60 s (`lib/network/client.ts:19`), a refresh after 15 s
(`REFRESH_TIMEOUT_MS`), and that is an answer too (`AnswerFailed`, `RefreshSettles`
without a token, `CheckFails`). In `shell` handlers, timers and goroutines of the
server run, a socket's messages and its close are delivered, and the retry timer
fires. A handler whose session was destroyed learns it at its next read, which the
page's ping every 30 s or the read deadline ends: `Detach` is fair for that reason.
Nothing is assumed of users, of the network or of the shells.

`TokensStayHome` holds until an account changes while a refresh is on the wire
(`crossed`), and so does not speak of what such a change lets happen: the new token
is stored for the account that is current then. Of that, `GainHasCause` says only
that it brings no account back.

*Findings.* `iq_brew_overlap`: the worker runs brew without `installSerial`, so
a single-page install may run next to it although `EnqueueBrewActions` says that
package jobs do not overlap. (The switch runs brew outside the queue as well,
`switch.go:110,129`, and legacy installs run their scripts there; no comment says
that these are serialized.) `iq_reinstall`: the clean-up after an uninstall is
described as dropping auto-install items but drops a user's queued reinstall as
well. `gate_held`: a streamed setup that finds another one active, or whose record
is replaced, runs its script with the gate open, although `PackageManagerHeld`
promises to report a running script. `gate_overlap`: even with the gate shut in
time, the setup's look at the queue and the worker's look at the gate can both
have been good and both be outdated, so the promise of the user documentation
that VNC setup and the queue do not overlap is not kept. `auth_signout`: a refused
answer signs out the account that is current when it arrives, so two requests of
one revoked account sign out two accounts; the comment at that line says that the
session that goes is genuinely gone.

## Proofs

`InstallQueueProofs` proves, for every set of packages, handlers and workers,
every list limit and every number of items and streams (only
`InstanceAssumption` is assumed: softwares and formulae are finite and disjoint,
the bounds are numbers):

    Invariance       Spec => []QueueInv
    TypeCorrect      Spec => []TypeOK
    MutualExclusion  Spec => []SerialScripts
    SingleWorker     Spec => []OneWorker
    Wakeup           Spec => []NoLostWakeup
    NoOrphanRow      Spec => []RunningRowsHaveWorker
    OneByOne         Spec => []QueueOneByOne
    FinalStatus      Spec => EndsOnce
    ScriptOnce       Spec => [](ScriptPast(j) =>
                                  [](j \in DOMAIN job /\ job[j].pc # "script")), for every j

`QueueInv` is inductive; the properties alone are not. `SerialScripts` needs to
know that a job is inside the script region exactly if it holds `serial`
(`LockOK`); that needs to know that a runner is started once, so that a job
being started is at `prepared` and no second starter has it (`StartersOK`);
`QueueOneByOne` needs in addition that a worker's job is the one it prepared
(`WorkerOK`), `RunningRowsHaveWorker` that a worker without an item is at the
gate, at the claim or on its way out. `OneWorker` and `NoLostWakeup` support one
another: a worker that leaves clears `running` under the same lock under which
it looks for late items. `EndsOnce` follows from `JobOK`: the status is final
exactly from `persist` on, and only a dismissal changes it then. `ScriptOnce` is a
statement about the future of each job: once its runner is past the script, or gave
up at the lock, no step of anybody brings it back (`JobsGoOn`).

The argument is laid out by kind of step: what a step does to jobs
(`JobEffects`), to the worker (`WorkerEffects`) and to the list (`OtherEffects`,
`KickEffects`: rows are added pending with a kick behind them, or rows that
nobody is at are removed); then one lemma per part of the invariant
(`TypesStep`, `WorkerOKStep`, `StartersOKStep`, `ListStep`,
`QueueOneByOneStep`).

`InstallRowsProofs` goes on from `QueueInv`:

    RowsInvariance     Spec => []RowsInv
    FailedRowsTellJob  Spec => []FailedRowsMatchJob
    HostInvariance     "db" \notin Faults, RunnersOnly |- Spec => []HostInv
    SuccessOnHost      the same |- Spec => []SuccessIsOnHost
    NoRowLost          Spec => RowsLeaveWithCause
    ListCapped         "retry" \notin Workload |- Spec => []Capped

A row is told its job (`Start`) and its status (`finishQueueItem`) in two critical
sections; it tells no wrong ending in between because the row a worker is at is
`running` (`ClaimedRuns`), and afterwards because final statuses stay
((`JobEffects`). `SuccessOnHost` follows a job from the end of its script: a runner
writes the host and the row with `installSerial` in hand, so by `LockOK` no other
runner is past the end of a script (`DoneIsOnHost`), and an uninstall is only
prepared for a software that has a row to mark. That is an argument about runners,
and the theorem is stated for instances in which they are the only writers:
`RunnersOnly` says that there are no formulae for brew and that neither the switch,
nor brew's sync, nor a legacy install is served, and `NoOtherWriter` follows from it
(`NoBrewStep`, `Served`). None of the hypotheses can be spared: each of the writers
named under Runs, and a failed write of the row, alone lets TLC find a success that
its row or the host contradicts.

`NoRowLost` goes through every step that makes the list shorter. A row that is
missing afterwards was retried, dropped by the clean-up after an uninstall or by a
change of its software's owner, finished by the worker that had it, dismissed when it
was neither pending nor running, or is older than every row that the trim kept; and
what was appended is listed unless it was itself trimmed. For the trim one needs that any nonempty set of item numbers has
a least element (`LeastElement`, from the library's theorem on minimal elements of
a well-founded relation) and that the kept rows are as many as the cap allows
(`TrimmedSize`). `ListCapped` follows from the same lemmas. Its assumption names the
one append that does not trim, `RetryQueueAPI`: with it the list does grow over 200,
and the next other append cuts it back. Who is at an operation at all is `Served`: a
handler between two critical sections belongs to a kind of request that the instance
has.

`SerialQueueProofs` proves that the queue implements its abstract specification,

    ImplementsSerialQueue  Spec => IsSerialQueue

with `accepted` the number of items created, `waiting` the pending rows and
`current` the item of the worker. A claim is a `StartNext` (the first pending row is
the least number, and no worker has an item at that moment), the end of an item a
`Complete`, everything users, runners and the reconcile do to the list an `Amend`.
`ClaimedRuns` is needed again: the row a worker finishes was not waiting.

What that promise is worth is proved from `SerialQueue`'s steps alone, without
looking at the queue again:

    StartedOnce     Spec => [](Settled(n) => [](Current # n)), for every n
    StartedInOrder  m < n |- Spec => [](Current = n => [](Current # m))

because every step of `SerialQueue` leaves what waits younger than what is worked on
(`Numbered`) and what is settled settled (`SerialStep`). The same module holds

    QueueSerializesBrew  "stream" \notin Workload |- Spec => []NoOverlappingPackageJobs

which marks off the finding of `iq_brew_overlap`: of the jobs, those of the
single-page install alone are not the queue's, and a queued job that is not over is
the one its worker waits for, which is then not at a brew command. The theorem speaks
of jobs and of the brew of queued actions. It says nothing of brew commands and
scripts that pass by the queue altogether: those of `SwitchPackageManager`
(`switch.go:110,129`) and of legacy installs.

`PackageGateProofs` assumes `SetupAssumption` (the kinds of setups are disjoint)
in addition and proves

    Composition       GateSpec => Spec
    QueueUnderSetups  GateSpec => []QueueInv
    GateTypeCorrect   GateSpec => []GateTypeOK
    PromisesUnderSetups  GateSpec => /\ IsSerialQueue
                                     /\ []SerialScripts /\ []NoLostWakeup /\ []FailedRowsMatchJob
                                     /\ EndsOnce /\ RowsLeaveWithCause
    GateReopens       GateSpec => []GateNotLeftShut
    HeldByOneSetup    at most one background or streamed setup |- GateSpec => []HeldDuringScript
    GateKeepsQueueOut GateSpec => QueueStaysOut

`Composition` is the reason why `InstallQueue` may treat the gate as an
environment: a step of a setup changes nothing of the queue but `held`, which is
a `TakeGate`, a `FreeGate` or a stutter. Everything proved of the queue then
holds beside any number of setups, `QueueInv` first. `GateReopens` needs an
invariant: the active record says `installing` only while its own setup is between `Hold`
and the end of its script (`ShutByScript`), and only the background setup is ever
past the check but not published (`CheckedOK`). Replacing `activeInst` can then
open the gate early but never leave it shut. `HeldByOneSetup` says that the two findings
about the gate are different ones: with a single setup that keeps a record the gate
is held as `PackageManagerHeld` promises, so `gate_held` needs two of them, while
`gate_overlap` does not. `GateKeepsQueueOut` is what a setup can rely on nevertheless:
once the worker is seen outside with the gate shut, it stays outside and no job of
the queue runs until the gate opens.

`AuthClientProofs` proves, for any accounts and requests (`RequestsAssumption`:
`None` is none of them, the forms are requests),

    AuthInvariance  Spec => []AuthInv
    Types, StoreHasCurrent, OneTrip, NobodyStranded, BoundedRetries, TokensAtHome
    LossesHaveCauses  Spec => LossHasCause
    GainsHaveCauses   Spec => GainHasCause
    RefreshIsShared   Spec => IsSharedTrip
    StarterAwaits     IsSharedTrip => [](inFlight # None => inFlight \in Waiters)

all but the first and the last from the first. `SingleFlight` needs to know that `inFlight` names
the only trip there is (`TripsOK`); `AtMostTwoSends` that a request that is on its
way out has been sent once less than its flag allows (`SendsOK`); `TokensStayHome`
that a trip is for the current account and that whoever awaits it was dispatched
for that account (`HomeOK`), which holds until an account change crosses a refresh.
One lemma per part, one step per action. `RefreshIsShared` maps `inFlight` to the trip and
the requests in either await to those who wait: a call is a `Launch` or a `Join`
(`CallerBoards`, where `TripsOK` says that nobody waits without a trip), the end of
a refresh and a reload are a `Land` (`AllReleased`), and every other action leaves the
awaits alone, a sign-out or a change of account in the middle of a trip too.

`LossesHaveCauses` and `GainsHaveCauses` say together what may happen to the list of
accounts. The second is the one that is easy to break: a refresh settles when its
account may have been signed out meanwhile, and `setAccessToken` brings nothing back
only because it maps over the stored sessions and `current_session` is one of them
(`SettlingGainsNone`, from `CurrentIsStored`). Its fault, a token that is written to
the account it was asked for, would mend what `TokensStayHome` describes and revive
accounts that are gone.

`ShellServerProofs` assumes only `NoneAssumption` and proves of the server against
clients that do what they like

    ServerInvariance  ServerSpec => []ServerInv
    NewestKeeps       ServerSpec => NewestKeepsSession
    EndedForGood      ServerSpec => [](state[s] = "gone" =>
                                          [](state[s] = "gone" /\ attach[s] = None)), for every s

`EndedForGood` is about the handlers that are between two critical sections when a
shell is killed: what they still do (`GoneStays`) neither revives it nor leaves a
sink on it (`SinkIsServed`).

`ShellPageProofs` adds `PageAssumption` (ids of tabs are no session ids, there are
at least two of them, the bounds are numbers) and `TermAssumption`, and proves

    PageInvariance        Spec => []PageInv
    PageImplementsServer  Spec => ServerSpec
    Types, NoShellForgotten, SinkServed, NewestWins,
    NoShellTwice, ActiveTabServed, RetryIsAhead
    KillsOnlyDropped      Spec => KillsWhatItDrops

Every step of the page is a `ClientStep` or a stutter of the server
(`PageSimulates`), so what is proved of the server holds behind the page: that is
how `NewestWins` follows. `ServesActiveTab` and `TabsDistinct` are not inductive.
That the tab which a `ready` names gets an id no other tab has needs `OwnShell` (a
socket serves the shell of the active tab, or one just created that no tab has
yet); that needs `NoneUnborn` (no tab, list or socket knows a shell before it
exists) and `SocketHeard` (the page's socket is its own and was not given back).
`TabsStep` and `SocketStep` prove the two halves, `ServerStepGood` that what the
server does between two steps of the page disturbs neither. `KillsOnlyDropped` uses the
invariant once more: a closed tab's shell is in no other tab (`TabsDistinct`), and the
socket that stays when another tab than the active one is closed does not serve it,
because a shell that no tab has yet is not the one that was closed (`OwnShell`).

Only model-checked: liveness (`PendingProgress`, `JobsEnd`, `SyncEnds`, `SetupsEnd`,
`RequestsEnd`, `IdleEnds`, `SocketAnswered`), since fairness and ENABLED are out of the
prover's reach. Every other property of a passing run is proved. Of the properties
that a run refutes, `NoOverlappingPackageJobs` and `HeldDuringScript` are proved under
the condition that excludes the counterexample; `UserItemsKept`, `SetupsDoNotOverlap`
and `SignedOutIsGone` have no such condition short of switching the feature off.

## Not modelled

*The rest of the front end.* Of some 90 000 lines of TypeScript nearly all are
pages: forms, tables, dialogs and the declarations of what requests return. They
keep what React keeps and show what the server said; a model of them would restate
them. The two parts with a protocol of their own are the modules above, some
thousand lines. So the share of the TypeScript that is mapped is small and stays
small, and the Go that the other modules map is not counted in that share.

*Of modelled parts.* Subscribers and the stored rows of install jobs, and with
them a server restart in the queue; what brew itself has installed; the option rows of VNC setup; what is listed
under each module above as left out.

*Whole parts.* The environment watcher, VNC users and ports, code server processes and self update have hazards (listed in
`PROJECT.json` at their lines) and no module yet. The others are text and I/O.

## Plan

1. **Done**: `InstallQueue`, `SerialQueue`, their runs, the invariant and its
   consequences proved.
2. **Done**: `PackageGate` with the gate's safety and liveness, the composition
   proved. Left: a property of the waiters' view (`IsQueueBusy` against the jobs
   it hides), which `waitSoftwareQueueDone` now is a second user of.
3. **Done**: `AuthClient`, its invariant and its consequences proved. Left: a second
   browser tab over the same localStorage.
4. **Done**: `ShellServer` and `ShellPage`, composed, the invariant and the
   implementation proved. Left: the rows of `shell_sessions` and the ring buffer.
5. `InstallJob`: one job in detail: subscribers and their buffers, the final
   event and the late close, the periodic persist, a restart that finds a row.
   Promise: every viewer learns the end; a stored row is final once the job is.
   Here the end of bash and the end of its output become two steps.
6. **Done** as actions of `InstallQueue`: the change of owner over the queue, brew's
   sync, the owner written after a queued brew action. Left: brew's own installs as
   a state, against which "the row names the owner" could be stated.
7. `EnvSync` (database, process, profile file; retry), `VncPorts` (reservation of
   displays), `SelfUpdate` (swap with crashes).
8. **Done**: every safety property of the passing runs proved, with `Spec => IsSerialQueue`,
   `Spec => IsSharedTrip`, what follows from the first, and the two conditional
   theorems that mark off findings; where an account or a request to end a
   shell may come from (`GainHasCause`, `KillsWhatItDrops`). Left: the modules of 5 to 7 with their proofs.
