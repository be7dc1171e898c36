---------------------------- MODULE InstallQueue ----------------------------
(***************************************************************************)
(* The softwares install queue of the panel server                         *)
(* (modules/softwares/install): the in-memory list bulkQueue, the single   *)
(* background worker that drains it, the registry of install jobs, and the *)
(* global lock installSerial that every job holds while its script runs.   *)
(*                                                                         *)
(* HTTP handlers, the worker goroutine, the goroutine of each single-page  *)
(* (streamed) install, the boot-time reconcile and brew's changes of owner *)
(* run concurrently; one action is one critical section, or one stretch of *)
(* code between two critical sections, of one of them.                     *)
(*                                                                         *)
(* Queue items and jobs are numbered in the order they are created (the    *)
(* code gives them UUIDs).  Items are only ever appended, so the order of  *)
(* bulkQueue.items is the order of the numbers.                            *)
(***************************************************************************)
EXTENDS Integers, FiniteSets, Sequences, SequencesExt

CONSTANTS
  Softwares,     \* catalog softwares
  Formulae,      \* brew packages (queued under the id "brew:<name>")
  Clients,       \* concurrent HTTP handlers that take more than one step
  Workers,       \* goroutine slots for queue workers
  UserActions,   \* the actions users of this instance ask for
  Workload,      \* the API operations this instance serves
  Faults,        \* the failures this instance injects
  MaxQueue,      \* length the item list is trimmed to (200 in the code)
  MaxItems,      \* bound: items users ever enqueue
  MaxStreams     \* bound: single-page installs ever started

Packages == Softwares \cup Formulae
Actions == {"install", "update", "uninstall"}
Operations == {"enqueue", "switch", "brew", "retry", "dismiss", "stream", "cancel",
               "legacy", "prune", "reconcile", "brewsync"}
FaultKinds == {"prepare", "script", "custom", "db", "timeout", "gate"}

ASSUME InstanceAssumption ==
  /\ Softwares \cap Formulae = {}
  /\ IsFiniteSet(Softwares) /\ IsFiniteSet(Formulae)
  /\ UserActions \subseteq Actions
  /\ Workload \subseteq Operations
  /\ Faults \subseteq FaultKinds
  /\ MaxQueue \in Nat \ {0} /\ MaxItems \in Nat /\ MaxStreams \in Nat

VARIABLES
  items,       \* bulkQueue.items: the numbers of the listed items
  item,        \* every item ever created, listed or not
  running,     \* bulkQueue.running
  kicks,       \* calls of kickQueueWorker that have yet to take the lock
  worker,      \* the queue worker goroutines
  job,         \* every job ever registered
  byID,        \* keys of jobs.byID
  bySoftware,  \* jobs.bySoftware: latest job of each software, 0 if none
  serial,      \* holder of installSerial, 0 if free
  row,         \* software_installed: one row per software
  host,        \* packages whose files are on the host
  request,     \* handlers between two of their critical sections
  sync,        \* the boot-time softwaresync goroutine
  held         \* packageManagerBusy(): VNC setup holds the package manager

queueVars  == <<items, item>>
workerVars == <<running, kicks, worker>>
jobVars    == <<job, byID, bySoftware, serial>>
hostVars   == <<row, host>>
apiVars    == <<request, sync>>
vars == <<queueVars, workerVars, jobVars, hostVars, apiVars, held>>

-----------------------------------------------------------------------------
(* Types *)

ItemStatus == {"pending", "running", "error", "cancelled", "dismissed"}
JobStatus  == {"running", "success", "error", "cancelled", "dismissed"}
Rows       == {"none", "local", "brew", "uninstalled"}

Item == [sw: Packages, action: Actions, status: ItemStatus,
         job: Nat, auto: BOOLEAN]
Job  == [sw: Softwares, mode: {"install", "uninstall"}, st: JobStatus,
         queued: BOOLEAN, cancelled: BOOLEAN,
         ctx: {"unset", "live", "cancelled", "expired"},
         pc: {"prepared", "lock", "script", "mark", "marked", "custom",
              "persist", "over"}]
Worker == [pc: {"off", "gate", "claim", "run", "prepare", "start", "wait",
                "brew", "brewed", "exit"},
           item: Nat, job: Nat]
Request == [pc: {"idle", "prepare", "start", "retry", "brew", "legacy", "mark",
                 "drop", "switch", "await", "jobs", "formula", "owner", "adopt", "forget"},
            for: SUBSET Packages, action: Actions, job: Nat]
Sync == [pc: {"boot", "probe", "snapshot", "check", "append", "ready"},
         set: SUBSET Softwares, busy: SUBSET Packages]

NoWork == [pc |-> "off", item |-> 0, job |-> 0]
NoRequest == [pc |-> "idle", for |-> {}, action |-> "install", job |-> 0]

QueueTypes  == item \in Seq(Item) /\ items \subseteq 1..Len(item)
WorkerTypes == running \in BOOLEAN /\ kicks \in Nat /\ worker \in [Workers -> Worker]
JobTypes ==
  /\ job \in Seq(Job) /\ byID \subseteq 1..Len(job)
  /\ bySoftware \in [Softwares -> Nat] /\ serial \in 0..Len(job)
HostTypes == row \in [Softwares -> Rows] /\ host \subseteq Softwares
APITypes  == request \in [Clients -> Request] /\ sync \in Sync

TypeOK ==
  /\ QueueTypes /\ WorkerTypes /\ JobTypes /\ HostTypes /\ APITypes
  /\ held \in BOOLEAN

Init ==
  /\ items = {} /\ item = <<>>
  /\ running = FALSE /\ kicks = 0 /\ worker = [w \in Workers |-> NoWork]
  /\ job = <<>> /\ byID = {} /\ serial = 0
  /\ bySoftware = [s \in Softwares |-> 0]
  /\ row \in [Softwares -> Rows] /\ host \in SUBSET Softwares
  /\ request = [c \in Clients |-> NoRequest]
  /\ sync = [pc |-> IF "reconcile" \in Workload THEN "boot" ELSE "ready",
             set |-> {}, busy |-> {}]
  /\ held = FALSE

-----------------------------------------------------------------------------
(* The item list *)

Listed(status) == {i \in items : item[i].status \in status}
Pending == Listed({"pending"})
Busy    == Listed({"pending", "running"})

\* Faulty: the cap is one entry short.
TrimShort(S) == {i \in S : Cardinality({k \in S : k >= i}) < MaxQueue}

\* The list keeps its newest MaxQueue entries, whatever their status.
Trim(S) == {i \in S : Cardinality({k \in S : k > i}) < MaxQueue}

NewItem(p, a, auto) ==
  [sw |-> p, action |-> a, status |-> "pending", job |-> 0, auto |-> auto]

\* Append items; the list is trimmed only by the handlers that say so.
AddItems(recs, trimmed) ==
  LET all == item \o recs
      ids == items \cup (Len(item) + 1)..Len(all)
  IN /\ item' = all
     /\ items' = IF trimmed THEN Trim(ids) ELSE ids
     /\ kicks' = kicks + 1

\* Faulty: nothing leaves the list.
FinishItemKeepsAll(i, status, j) ==
  /\ items' = items
  /\ item' = [item EXCEPT ![i].job = j, ![i].status = status]

\* Faulty: only errors are written to the row.
FinishItemErrorsOnly(i, status, j) ==
  /\ items' = IF status \in {"success", "skipped"} THEN items \ {i} ELSE items
  /\ item' = [item EXCEPT ![i].status = IF status = "error" THEN status ELSE @]

\* Faulty: whatever is not a success is written as an error.
FinishItemAsError(i, status, j) ==
  /\ items' = IF status \in {"success", "skipped"} THEN items \ {i} ELSE items
  /\ item' = [item EXCEPT ![i].job = j, ![i].status = "error"]

\* finishQueueItem: success and skipped leave the list, anything else stays.
FinishItem(i, status, j) ==
  IF status \in {"success", "skipped"}
  THEN /\ items' = items \ {i}
       /\ item' = [item EXCEPT ![i].job = j]
  ELSE /\ items' = items
       /\ item' = [item EXCEPT ![i].job = j, ![i].status = status]

-----------------------------------------------------------------------------
(* The job registry *)

Latest(s) == IF bySoftware[s] \in byID THEN bySoftware[s] ELSE 0
Active(s) == LET j == Latest(s)
             IN IF j # 0 /\ job[j].st = "running" THEN j ELSE 0

\* prepareInstallJob / prepareUninstallJob once every check has passed.
Register(s, mode, queued) ==
  /\ job' = Append(job, [sw |-> s, mode |-> mode, st |-> "running",
                         queued |-> queued, cancelled |-> FALSE,
                         ctx |-> "unset", pc |-> "prepared"])
  /\ byID' = byID \cup {Len(job) + 1}
  /\ bySoftware' = [bySoftware EXCEPT ![s] = Len(job) + 1]
  /\ UNCHANGED serial

\* The caller creates the context, stores job.Cancel and starts the runner.
StartRunner(j) ==
  /\ job' = [job EXCEPT ![j].ctx = "live", ![j].pc = "lock"]
  /\ UNCHANGED <<byID, bySoftware, serial>>

-----------------------------------------------------------------------------
(* The queue worker *)

\* Faulty: a worker is started on every call.
MayKickAlways == TRUE

MayKick == ~running

\* kickQueueWorker: start a worker unless one is running.
Kick ==
  /\ kicks > 0 /\ kicks' = kicks - 1
  /\ \/ /\ MayKick
        /\ running' = TRUE
        /\ \E w \in Workers :
             /\ worker[w].pc = "off"
             /\ worker' = [worker EXCEPT ![w].pc = "gate"]
     \/ /\ ~MayKick
        /\ UNCHANGED <<running, worker>>
  /\ UNCHANGED <<queueVars, jobVars, hostVars, apiVars, held>>

\* Faulty: the worker claims without a look at the gate.
PassGateAlways(w) ==
  /\ worker[w].pc = "gate"
  /\ worker' = [worker EXCEPT ![w].pc = "claim"]
  /\ UNCHANGED <<queueVars, running, kicks, jobVars, hostVars, apiVars, held>>

\* The worker polls packageManagerBusy() before each claim.
PassGate(w) ==
  /\ worker[w].pc = "gate" /\ ~held
  /\ worker' = [worker EXCEPT ![w].pc = "claim"]
  /\ UNCHANGED <<queueVars, running, kicks, jobVars, hostVars, apiVars, held>>

\* Faulty: the newest pending item is claimed.
ClaimNewest(w) ==
  /\ worker[w].pc = "claim"
  /\ \E i \in Pending :
       /\ \A k \in Pending : i >= k
       /\ item' = [item EXCEPT ![i].status = "running"]
       /\ worker' = [worker EXCEPT ![w] = [pc |-> "run", item |-> i, job |-> 0]]
  /\ UNCHANGED <<items, running, kicks, jobVars, hostVars, apiVars, held>>

\* claimNextQueueItem: the first pending item becomes running.
Claim(w) ==
  /\ worker[w].pc = "claim"
  /\ \E i \in Pending :
       /\ \A k \in Pending : i <= k
       /\ item' = [item EXCEPT ![i].status = "running"]
       /\ worker' = [worker EXCEPT ![w] = [pc |-> "run", item |-> i, job |-> 0]]
  /\ UNCHANGED <<items, running, kicks, jobVars, hostVars, apiVars, held>>

FindNone(w) ==
  /\ worker[w].pc = "claim" /\ Pending = {}
  /\ worker' = [worker EXCEPT ![w].pc = "exit"]
  /\ UNCHANGED <<queueVars, running, kicks, jobVars, hostVars, apiVars, held>>

\* Faulty: the worker leaves without another look at the list.
MustKickAgainNever == FALSE

\* The worker's deferred function looks for late arrivals under the lock and
\* kicks again when it finds some.
MustKickAgain == Pending # {}

Exit(w) ==
  /\ worker[w].pc = "exit"
  /\ running' = FALSE
  /\ kicks' = IF MustKickAgain THEN kicks + 1 ELSE kicks
  /\ worker' = [worker EXCEPT ![w] = NoWork]
  /\ UNCHANGED <<queueVars, jobVars, hostVars, apiVars, held>>

Mode(i) == IF item[i].action = "uninstall" THEN "uninstall" ELSE "install"

\* The worker is done with its item and goes back to the gate.
EndItem(w, status, j) ==
  /\ FinishItem(worker[w].item, status, j)
  /\ worker' = [worker EXCEPT ![w] = [pc |-> "gate", item |-> 0, job |-> 0]]
  /\ UNCHANGED <<running, kicks, hostVars, apiVars, held>>

\* runQueuedInstall / runQueuedUninstall start by asking the registry whether
\* the software already has a running job.
Skip(w) ==
  LET i == worker[w].item IN
  /\ worker[w].pc = "run" /\ item[i].sw \in Softwares
  /\ Active(item[i].sw) # 0
  /\ EndItem(w, "skipped", Active(item[i].sw))
  /\ UNCHANGED jobVars

NotActive(w) ==
  LET i == worker[w].item IN
  /\ worker[w].pc = "run" /\ item[i].sw \in Softwares
  /\ Active(item[i].sw) = 0
  /\ worker' = [worker EXCEPT ![w].pc = "prepare"]
  /\ UNCHANGED <<queueVars, running, kicks, jobVars, hostVars, apiVars, held>>

\* An uninstall needs a row that is not marked uninstalled; either prepare
\* fails for a software without a usable version or script.
Uninstallable(s) == row[s] \in {"local", "brew"}

PrepareFails(w) ==
  LET i == worker[w].item IN
  /\ worker[w].pc = "prepare"
  /\ \/ "prepare" \in Faults
     \/ Mode(i) = "uninstall" /\ ~Uninstallable(item[i].sw)
  /\ EndItem(w, "error", 0)
  /\ UNCHANGED jobVars

Prepare(w) ==
  LET i == worker[w].item IN
  /\ worker[w].pc = "prepare"
  /\ Mode(i) = "uninstall" => Uninstallable(item[i].sw)
  /\ Register(item[i].sw, Mode(i), TRUE)
  /\ worker' = [worker EXCEPT ![w].pc = "start", ![w].job = Len(job) + 1]
  /\ UNCHANGED <<queueVars, running, kicks, hostVars, apiVars, held>>

\* The row is given its job; the worker runs the script itself.
Start(w) ==
  /\ worker[w].pc = "start"
  /\ StartRunner(worker[w].job)
  /\ item' = [item EXCEPT ![worker[w].item].job = worker[w].job]
  /\ worker' = [worker EXCEPT ![w].pc = "wait"]
  /\ UNCHANGED <<items, running, kicks, hostVars, apiVars, held>>

\* Faulty: the script runs in a goroutine of its own.
RunnerReturnedAlways(j) == TRUE

\* Run synchronously: the worker finishes the row when its job is over.
RunnerReturned(j) == job[j].pc = "over"

Collect(w) ==
  /\ worker[w].pc = "wait" /\ RunnerReturned(worker[w].job)
  /\ EndItem(w, job[worker[w].job].st, worker[w].job)
  /\ UNCHANGED jobVars

\* runQueuedBrew: the brew command runs in the worker, without a job here and
\* without installSerial.
StartBrew(w) ==
  /\ worker[w].pc = "run" /\ item[worker[w].item].sw \in Formulae
  /\ worker' = [worker EXCEPT ![w].pc = "brew"]
  /\ UNCHANGED <<queueVars, running, kicks, jobVars, hostVars, apiVars, held>>

\* MarkSoftwareUninstalled: a row that exists is kept as uninstalled.
Dropped(s) == IF row[s] = "none" THEN "none" ELSE "uninstalled"

\* The command succeeded.  ApplyJobOwnership gives the catalog software of that
\* name, if there is one, to brew or marks it uninstalled; it takes no lock and
\* ignores errors.
ApplyJobOwnership(w) ==
  /\ worker[w].pc = "brew"
  /\ \/ \E s \in Softwares :
          row' = [row EXCEPT ![s] = IF item[worker[w].item].action = "uninstall"
                                    THEN Dropped(s) ELSE "brew"]
     \/ UNCHANGED row
  /\ worker' = [worker EXCEPT ![w].pc = "brewed"]
  /\ UNCHANGED <<queueVars, running, kicks, jobVars, host, apiVars, held>>

\* The command failed, or the owner is written.
EndBrew(w) ==
  /\ \/ worker[w].pc = "brew" /\ EndItem(w, "error", 0)
     \/ worker[w].pc = "brewed" /\ EndItem(w, "success", 0)
  /\ UNCHANGED jobVars

-----------------------------------------------------------------------------
(* runSoftwareScript: the runner of one job *)

\* job.finish, after which the deferred persist and unlock remain.
FinishJob(j, st) ==
  job' = [job EXCEPT ![j].st = st, ![j].pc = "persist"]

Runner == <<queueVars, workerVars, apiVars, held, byID, bySoftware>>

\* What a script that did not run to a clean end leaves behind.
MayTouchHost(s) == host' \in {host \cup {s}, host \ {s}}

LeftBehind(j) ==
  IF job[j].pc = "script" THEN MayTouchHost(job[j].sw) ELSE UNCHANGED host

\* Faulty: no lock.
LockFreeAlways == TRUE

LockFree == serial = 0

\* Take installSerial and start bash under the job's context.
Acquire(j) ==
  /\ job[j].pc = "lock" /\ LockFree /\ job[j].ctx = "live"
  /\ serial' = j
  /\ job' = [job EXCEPT ![j].pc = "script"]
  /\ UNCHANGED <<Runner, hostVars>>

\* Faulty: a script that could not be started does not end the runner.
AcquireGoesOn(j) ==
  /\ job[j].pc = "lock" /\ LockFree
  /\ job[j].ctx # "live" \/ "script" \in Faults
  /\ serial' = j
  /\ job' = [job EXCEPT ![j].st = "error", ![j].pc = "mark"]
  /\ UNCHANGED <<Runner, hostVars>>

\* The context is already done (cancelled, or its 30 minutes went by while
\* waiting for the lock) or bash cannot be started.
AcquireAborts(j) ==
  /\ job[j].pc = "lock" /\ LockFree
  /\ job[j].ctx # "live" \/ "script" \in Faults
  /\ serial' = j
  /\ FinishJob(j, "error")
  /\ UNCHANGED <<Runner, hostVars>>

Stopped(j) == job[j].cancelled \/ job[j].ctx = "cancelled"

\* The script (or the custom script after it) ended and the job had been
\* cancelled, which is looked at before the exit code.
EndCancelled(j) ==
  /\ job[j].pc \in {"script", "custom"} /\ Stopped(j)
  /\ FinishJob(j, "cancelled")
  /\ LeftBehind(j)
  /\ UNCHANGED <<Runner, serial, row>>

\* Timed out, or exited with a failure.
EndFailed(j) ==
  /\ job[j].pc \in {"script", "custom"} /\ ~Stopped(j)
  /\ \/ job[j].ctx = "expired"
     \/ job[j].pc = "script" /\ "script" \in Faults
     \/ job[j].pc = "custom" /\ "custom" \in Faults
  /\ FinishJob(j, "error")
  /\ LeftBehind(j)
  /\ UNCHANGED <<Runner, serial, row>>

EndOK(j) ==
  /\ job[j].pc = "script" /\ ~Stopped(j) /\ job[j].ctx # "expired"
  /\ job' = [job EXCEPT ![j].pc = "mark"]
  /\ host' = IF job[j].mode = "install" THEN host \cup {job[j].sw}
                                        ELSE host \ {job[j].sw}
  /\ UNCHANGED <<Runner, serial, row>>

\* MarkSoftwareInstalled / MarkSoftwareUninstalled; a failed write is only
\* logged, and after a failed uninstall mark the clean-up is skipped.
MarkedRow(j) ==
  IF job[j].mode = "install" THEN "local" ELSE Dropped(job[j].sw)

Mark(j) ==
  /\ job[j].pc = "mark"
  /\ row' = [row EXCEPT ![job[j].sw] = MarkedRow(j)]
  /\ job' = [job EXCEPT ![j].pc = "marked"]
  /\ UNCHANGED <<Runner, serial, host>>

MarkFails(j) ==
  /\ job[j].pc = "mark" /\ "db" \in Faults
  /\ IF job[j].mode = "install"
     THEN job' = [job EXCEPT ![j].pc = "marked"]
     ELSE FinishJob(j, "success")
  /\ UNCHANGED <<Runner, serial, hostVars>>

\* CancelPendingInstallsForSoftware, then the uninstall job is a success.
PendingInstalls(s) ==
  {i \in Pending : item[i].sw = s /\ item[i].action = "install"}

FinishUninstall(j) ==
  /\ job[j].pc = "marked" /\ job[j].mode = "uninstall"
  /\ items' = items \ PendingInstalls(job[j].sw)
  /\ FinishJob(j, "success")
  /\ UNCHANGED <<item, workerVars, apiVars, held, byID, bySoftware, serial, hostVars>>

\* The version has no custom script.
FinishInstall(j) ==
  /\ job[j].pc = "marked" /\ job[j].mode = "install"
  /\ FinishJob(j, "success")
  /\ UNCHANGED <<Runner, serial, hostVars>>

\* It has one, started under the same context.
StartCustom(j) ==
  /\ job[j].pc = "marked" /\ job[j].mode = "install"
  /\ IF job[j].ctx = "live" THEN job' = [job EXCEPT ![j].pc = "custom"]
                            ELSE FinishJob(j, "error")
  /\ UNCHANGED <<Runner, serial, hostVars>>

EndCustom(j) ==
  /\ job[j].pc = "custom" /\ ~Stopped(j) /\ job[j].ctx # "expired"
  /\ FinishJob(j, "success")
  /\ UNCHANGED <<Runner, serial, hostVars>>

\* Faulty: installSerial is not unlocked.
ReleaseKeepsLock(j) ==
  /\ job[j].pc = "persist"
  /\ job' = [job EXCEPT ![j].pc = "over"]
  /\ UNCHANGED <<Runner, serial, hostVars>>

\* The deferred calls: persist the job, cancel its context, unlock.
Release(j) ==
  /\ job[j].pc = "persist"
  /\ job' = [job EXCEPT ![j].pc = "over"]
  /\ serial' = 0
  /\ UNCHANGED <<Runner, hostVars>>

\* The 30 minute deadline, counted from the creation of the context.
Expire(j) ==
  /\ "timeout" \in Faults
  /\ job[j].ctx = "live" /\ job[j].pc # "over"
  /\ job' = [job EXCEPT ![j].ctx = "expired"]
  /\ UNCHANGED <<Runner, serial, hostVars>>

\* finishJob forgets a job two hours after it ended; bySoftware keeps its id.
Prune(j) ==
  /\ "prune" \in Workload
  /\ j \in byID /\ job[j].pc = "over"
  /\ byID' = byID \ {j}
  /\ UNCHANGED <<queueVars, workerVars, job, bySoftware, serial, hostVars, apiVars, held>>

-----------------------------------------------------------------------------
(* HTTP handlers *)

\* Items users asked for so far, with those of handlers under way.  (The
\* reconcile adds at most one more per software.)
WillAppend(c) ==
  \/ request[c].pc \in {"retry", "brew", "drop", "switch"}
  \/ request[c].pc = "formula" /\ request[c].action = "install"

Asked ==
  Cardinality({i \in DOMAIN item : ~item[i].auto})
  + Cardinality(UNION {{c} \X request[c].for : c \in {d \in Clients : WillAppend(d)}})

\* EnqueueAPI: brew-managed softwares are left out, the rest is appended.
Enqueue ==
  /\ "enqueue" \in Workload
  /\ \E S \in SUBSET Softwares, a \in UserActions :
       LET ok == {s \in S : row[s] # "brew"} IN
       /\ ok # {} /\ Asked + Cardinality(ok) <= MaxItems
       /\ \E ids \in SetToSeqs(ok) :
            AddItems([n \in 1..Len(ids) |-> NewItem(ids[n], a, FALSE)], TRUE)
  /\ UNCHANGED <<running, worker, jobVars, hostVars, apiVars, held>>

SetRequest(c, pc, for, a, j) ==
  request' = [request EXCEPT ![c] = [pc |-> pc, for |-> for, action |-> a, job |-> j]]

\* EnqueueBrewActions: which packages are busy is read under the lock, ...
BusyNames == {item[i].sw : i \in Busy}

BrewCheck(c) ==
  /\ "brew" \in Workload /\ request[c].pc = "idle"
  /\ \E S \in SUBSET Formulae, a \in UserActions :
       /\ S \ BusyNames # {} /\ Asked + Cardinality(S \ BusyNames) <= MaxItems
       /\ SetRequest(c, "brew", S \ BusyNames, a, 0)
  /\ UNCHANGED <<queueVars, workerVars, jobVars, hostVars, sync, held>>

\* ... and the others are appended in a later critical section.
BrewAppend(c) ==
  /\ request[c].pc = "brew"
  /\ \E ids \in SetToSeqs(request[c].for) :
       AddItems([n \in 1..Len(ids) |-> NewItem(ids[n], request[c].action, FALSE)], TRUE)
  /\ SetRequest(c, "idle", {}, "install", 0)
  /\ UNCHANGED <<running, worker, jobVars, hostVars, sync, held>>

\* RetryQueueAPI removes the row it was given, in whatever state it is, ...
RetryTake(c, i) ==
  /\ "retry" \in Workload /\ Asked < MaxItems
  /\ request[c].pc = "idle" /\ i \in items
  /\ items' = items \ {i}
  /\ SetRequest(c, "retry", {item[i].sw}, item[i].action, 0)
  /\ UNCHANGED <<item, workerVars, jobVars, hostVars, sync, held>>

\* ... (a row that is no longer listed is retried by its software id) ...
RetrySoftware(c, s, a) ==
  /\ "retry" \in Workload /\ Asked < MaxItems
  /\ request[c].pc = "idle"
  /\ SetRequest(c, "retry", {s}, a, 0)
  /\ UNCHANGED <<queueVars, workerVars, jobVars, hostVars, sync, held>>

\* ... and appends a fresh pending item, without trimming.
RetryAppend(c) ==
  /\ request[c].pc = "retry"
  /\ \E p \in request[c].for :
       AddItems(<<NewItem(p, request[c].action, FALSE)>>, FALSE)
  /\ SetRequest(c, "idle", {}, "install", 0)
  /\ UNCHANGED <<running, worker, jobVars, hostVars, sync, held>>

\* Faulty: rows are dismissed in any state.
DismissedRowsAny(i, s) ==
  {r \in items : r = i \/ item[r].sw = s}

\* DismissFromQueue: the rows with the given id (i) or, failed, of the given
\* software (s); 0 and "" stand for an absent parameter.
DismissedRows(i, s) ==
  {r \in items : /\ r = i \/ (item[r].sw = s /\ item[r].status = "error")
                 /\ item[r].status \notin {"pending", "running"}}

\* dismissJob hides the jobs of J that are known and no longer running.
DismissJobs(J) ==
  job' = [k \in DOMAIN job |-> IF k \in J \cap byID /\ job[k].st # "running"
                              THEN [job[k] EXCEPT !.st = "dismissed"] ELSE job[k]]

\* One handler visits the job named by the id, the rows, and the latest job of
\* the software, in three critical sections that share nothing but the
\* parameters: they are three steps (the first and the last are alike).
DismissRows(i, s) ==
  /\ "dismiss" \in Workload /\ DismissedRows(i, s) # {}
  /\ items' = items \ DismissedRows(i, s)
  /\ DismissJobs({item[r].job : r \in DismissedRows(i, s)})
  /\ UNCHANGED <<item, workerVars, byID, bySoftware, serial, hostVars, apiVars, held>>

DismissJob(j) ==
  /\ "dismiss" \in Workload /\ j \in byID
  /\ DismissJobs({j})
  /\ UNCHANGED <<queueVars, workerVars, byID, bySoftware, serial, hostVars, apiVars, held>>

\* StreamInstallAPI: attach to the active job if there is one (no change of
\* state here), otherwise prepare a job of its own ...
Streams == Cardinality({j \in DOMAIN job : ~job[j].queued})
           + Cardinality({c \in Clients : request[c].pc = "prepare"})

StreamCheck(c, s) ==
  /\ "stream" \in Workload /\ Streams < MaxStreams
  /\ request[c].pc = "idle" /\ Active(s) = 0
  /\ SetRequest(c, "prepare", {s}, "install", 0)
  /\ UNCHANGED <<queueVars, workerVars, jobVars, hostVars, sync, held>>

StreamPrepareFails(c) ==
  /\ request[c].pc = "prepare" /\ "prepare" \in Faults
  /\ SetRequest(c, "idle", {}, "install", 0)
  /\ UNCHANGED <<queueVars, workerVars, jobVars, hostVars, sync, held>>

StreamPrepare(c) ==
  /\ request[c].pc = "prepare"
  /\ \E s \in request[c].for \cap Softwares : Register(s, "install", FALSE)
  /\ SetRequest(c, "start", {}, "install", Len(job) + 1)
  /\ UNCHANGED <<queueVars, workerVars, hostVars, sync, held>>

\* ... and run it in a goroutine, past the queue and its gate.
StreamStart(c) ==
  /\ request[c].pc = "start"
  /\ StartRunner(request[c].job)
  /\ SetRequest(c, "idle", {}, "install", 0)
  /\ UNCHANGED <<queueVars, workerVars, hostVars, sync, held>>

\* CancelInstallAPI sets the flag and calls job.Cancel, if it sees one: the
\* runner stores it without the job's mutex, so that until the runner first
\* takes that mutex (after installSerial) the store may go unseen.
Cancel(j) ==
  /\ "cancel" \in Workload /\ j \in byID /\ job[j].st = "running"
  /\ \E seen \in {TRUE, job[j].pc # "lock"} :
       job' = [job EXCEPT ![j].cancelled = TRUE,
                          ![j].ctx = IF @ = "live" /\ seen THEN "cancelled" ELSE @]
  /\ UNCHANGED <<Runner, serial, hostVars>>

\* InstallSoftwareAPI (legacy), and like it the MCP tool and the command line:
\* the script runs in the caller, with neither a job nor installSerial.
LegacyStart(c, s) ==
  /\ "legacy" \in Workload /\ request[c].pc = "idle"
  /\ SetRequest(c, "legacy", {s}, "install", 0)
  /\ UNCHANGED <<queueVars, workerVars, jobVars, hostVars, sync, held>>

LegacyFails(c) ==
  /\ request[c].pc = "legacy"
  /\ \E s \in request[c].for \cap Softwares : MayTouchHost(s)
  /\ SetRequest(c, "idle", {}, "install", 0)
  /\ UNCHANGED <<queueVars, workerVars, jobVars, row, sync, held>>

LegacyInstalls(c) ==
  /\ request[c].pc = "legacy"
  /\ host' = host \cup (request[c].for \cap Softwares)
  /\ SetRequest(c, "mark", request[c].for, "install", 0)
  /\ UNCHANGED <<queueVars, workerVars, jobVars, row, sync, held>>

\* A failed write of the row is not looked at.
LegacyMark(c) ==
  /\ request[c].pc = "mark"
  /\ \/ row' = [s \in Softwares |-> IF s \in request[c].for THEN "local" ELSE row[s]]
     \/ "db" \in Faults /\ UNCHANGED row
  /\ SetRequest(c, "idle", {}, "install", 0)
  /\ UNCHANGED <<queueVars, workerVars, jobVars, host, sync, held>>

-----------------------------------------------------------------------------
(* Who owns a software: brew's switch and brew's sync.  Both write rows, and *)
(* the switch runs brew, past the queue, its gate and installSerial.         *)

Proceed(c, pc) == request' = [request EXCEPT ![c].pc = pc]

\* The row becomes r, or the write fails.
WriteRow(s, r) == row' = [row EXCEPT ![s] = r] \/ ("db" \in Faults /\ UNCHANGED row)

\* SwitchPackageManager, towards brew (the action is then the uninstall of the
\* local copy, if the row is read and shows one) or towards local (the install
\* of one).
SwitchPackageManager(c, s) ==
  /\ "switch" \in Workload /\ request[c].pc = "idle" /\ Asked < MaxItems
  /\ \/ row[s] = "local" /\ SetRequest(c, "drop", {s}, "uninstall", 0)
     \/ /\ row[s] # "local" \/ "db" \in Faults
        /\ SetRequest(c, "formula", {s}, "uninstall", 0)
     \/ SetRequest(c, "formula", {s}, "install", 0)
  /\ UNCHANGED <<queueVars, workerVars, jobVars, hostVars, sync, held>>

\* CancelPendingInstallsForSoftware, ...
SwitchDrops(c) ==
  /\ request[c].pc = "drop"
  /\ items' = items \ UNION {PendingInstalls(s) : s \in request[c].for}
  /\ Proceed(c, "switch")
  /\ UNCHANGED <<item, workerVars, jobVars, hostVars, sync, held>>

\* ... EnqueueActions with the one software, whoever owns it, ...
EnqueueActions(c) ==
  /\ request[c].pc = "switch"
  /\ \E s \in request[c].for : AddItems(<<NewItem(s, request[c].action, FALSE)>>, TRUE)
  /\ Proceed(c, "await")
  /\ UNCHANGED <<running, worker, jobVars, hostVars, sync, held>>

\* ... and waitSoftwareQueueDone, which polls ActiveQueue: the list, and where
\* that shows nothing of the software, one of its running or failed jobs.
RowsOf(c, status) == {i \in Listed(status) : item[i].sw \in request[c].for}
JobsOf(c, status) == {j \in byID : job[j].st = status /\ job[j].sw \in request[c].for}

SwitchLooks(c) ==
  /\ \/ /\ request[c].pc = "await" /\ RowsOf(c, {"pending", "running", "error"}) = {}
        /\ Proceed(c, "jobs")
     \/ /\ request[c].pc = "jobs" /\ JobsOf(c, "running") # {}
        /\ Proceed(c, "await")
     \/ /\ request[c].pc = "jobs" /\ JobsOf(c, "running") \cup JobsOf(c, "error") = {}
        /\ Proceed(c, IF request[c].action = "install" THEN "owner" ELSE "formula")
  /\ UNCHANGED <<queueVars, workerVars, jobVars, hostVars, sync, held>>

\* Something of the software failed, the wait was over, or brew failed.
SwitchFails(c) ==
  /\ \/ request[c].pc = "await" /\ RowsOf(c, {"error"}) # {}
     \/ request[c].pc = "jobs" /\ JobsOf(c, "error") # {}
     \/ request[c].pc \in {"await", "jobs"} /\ "timeout" \in Faults
     \/ request[c].pc = "formula" /\ "script" \in Faults
  /\ SetRequest(c, "idle", {}, "install", 0)
  /\ UNCHANGED <<queueVars, workerVars, jobVars, hostVars, sync, held>>

\* Towards local: brew uninstalled it, which is marked; the install comes next.
SwitchLeavesBrew(c) ==
  /\ request[c].pc = "formula" /\ request[c].action = "install"
  /\ \E s \in request[c].for \cap Softwares : WriteRow(s, Dropped(s))
  /\ Proceed(c, "drop")
  /\ UNCHANGED <<queueVars, workerVars, jobVars, host, sync, held>>

\* The new owner is written: brew installed it, or the queue is through with it.
SwitchOwns(c) ==
  /\ \E s \in request[c].for \cap Softwares :
       \/ request[c].pc = "formula" /\ request[c].action # "install" /\ WriteRow(s, "brew")
       \/ request[c].pc = "owner" /\ WriteRow(s, "local")
  /\ SetRequest(c, "idle", {}, "install", 0)
  /\ UNCHANGED <<queueVars, workerVars, jobVars, host, sync, held>>

\* SyncHostInstalls, for each software whose formula brew lists: a row that is
\* not local when it is read is written later, ...
BrewSyncReads(c, s) ==
  /\ "brewsync" \in Workload /\ request[c].pc = "idle" /\ row[s] # "local"
  /\ SetRequest(c, "adopt", {s}, "install", 0)
  /\ UNCHANGED <<queueVars, workerVars, jobVars, hostVars, sync, held>>

BrewSyncAdopts(c) ==
  /\ request[c].pc = "adopt"
  /\ \E s \in request[c].for \cap Softwares : WriteRow(s, "brew")
  /\ SetRequest(c, "idle", {}, "install", 0)
  /\ UNCHANGED <<queueVars, workerVars, jobVars, host, sync, held>>

\* ... then the rows of brew are read, and those brew does not list are marked
\* one after another.
BrewSyncLists(c) ==
  /\ "brewsync" \in Workload /\ request[c].pc = "idle"
  /\ \E S \in SUBSET {s \in Softwares : row[s] = "brew"} :
       S # {} /\ SetRequest(c, "forget", S, "uninstall", 0)
  /\ UNCHANGED <<queueVars, workerVars, jobVars, hostVars, sync, held>>

BrewSyncForgets(c) ==
  /\ request[c].pc = "forget"
  /\ \E s \in request[c].for \cap Softwares :
       /\ WriteRow(s, Dropped(s))
       /\ IF request[c].for = {s} THEN SetRequest(c, "idle", {}, "install", 0)
          ELSE SetRequest(c, "forget", request[c].for \ {s}, "uninstall", 0)
  /\ UNCHANGED <<queueVars, workerVars, jobVars, host, sync, held>>

-----------------------------------------------------------------------------
(* softwaresync.Reconcile and EnqueueMissingInstalls, once per process *)

\* ListSoftwareInstalled, less the uninstalled and the brew-managed rows.
SyncList ==
  /\ sync.pc = "boot"
  /\ sync' = [sync EXCEPT !.pc = "probe", !.set = {s \in Softwares : row[s] = "local"}]
  /\ UNCHANGED <<queueVars, workerVars, jobVars, hostVars, request, held>>

\* The host probes; nothing missing ends the reconcile.
SyncProbe ==
  /\ sync.pc = "probe"
  /\ sync' = [sync EXCEPT !.set = @ \ host,
                          !.pc = IF sync.set \subseteq host THEN "ready" ELSE "snapshot"]
  /\ UNCHANGED <<queueVars, workerVars, jobVars, hostVars, request, held>>

\* The rows cannot be read, or the two minutes of the probes are over.
SyncFails ==
  /\ \/ sync.pc = "boot" /\ "db" \in Faults
     \/ sync.pc = "probe" /\ "timeout" \in Faults
  /\ sync' = [sync EXCEPT !.pc = "ready"]
  /\ UNCHANGED <<queueVars, workerVars, jobVars, hostVars, request, held>>

\* The busy softwares, read under the queue's lock.
SyncSnapshot ==
  /\ sync.pc = "snapshot"
  /\ sync' = [sync EXCEPT !.pc = "check", !.busy = BusyNames]
  /\ UNCHANGED <<queueVars, workerVars, jobVars, hostVars, request, held>>

\* The row, the snapshot and the job registry decide what is still wanted.
StillMissing(s) ==
  /\ row[s] \notin {"uninstalled", "brew"}
  /\ s \notin sync.busy
  /\ Active(s) = 0

\* Faulty: a reconcile left with nothing to install is not marked ready.
SyncCheckNotReady ==
  /\ sync.pc = "check"
  /\ LET wanted == {s \in sync.set : StillMissing(s)}
     IN wanted # {} /\ sync' = [sync EXCEPT !.set = wanted, !.pc = "append"]
  /\ UNCHANGED <<queueVars, workerVars, jobVars, hostVars, request, held>>

SyncCheck ==
  /\ sync.pc = "check"
  /\ LET wanted == {s \in sync.set : StillMissing(s)}
     IN sync' = [sync EXCEPT !.set = wanted,
                             !.pc = IF wanted = {} THEN "ready" ELSE "append"]
  /\ UNCHANGED <<queueVars, workerVars, jobVars, hostVars, request, held>>

\* The candidates are appended in a second critical section.
SyncAppend ==
  /\ sync.pc = "append"
  /\ \E ids \in SetToSeqs(sync.set) :
       AddItems([n \in 1..Len(ids) |-> NewItem(ids[n], "install", TRUE)], TRUE)
  /\ sync' = [sync EXCEPT !.pc = "ready"]
  /\ UNCHANGED <<running, worker, jobVars, hostVars, request, held>>

-----------------------------------------------------------------------------
(* Environment *)

\* VNC setup takes and gives back the package manager.
TakeGate ==
  /\ "gate" \in Faults /\ ~held /\ held' = TRUE
  /\ UNCHANGED <<queueVars, workerVars, jobVars, hostVars, apiVars>>

FreeGate ==
  /\ held /\ held' = FALSE
  /\ UNCHANGED <<queueVars, workerVars, jobVars, hostVars, apiVars>>

-----------------------------------------------------------------------------
WorkerStep(w) ==
  \/ PassGate(w) \/ Claim(w) \/ FindNone(w) \/ Exit(w)
  \/ Skip(w) \/ NotActive(w) \/ PrepareFails(w) \/ Prepare(w) \/ Start(w)
  \/ Collect(w) \/ StartBrew(w) \/ ApplyJobOwnership(w) \/ EndBrew(w)

\* The steps of a runner while it holds installSerial.
ScriptStep(j) ==
  \/ EndCancelled(j) \/ EndFailed(j) \/ EndOK(j)
  \/ Mark(j) \/ MarkFails(j) \/ FinishUninstall(j) \/ FinishInstall(j)
  \/ StartCustom(j) \/ EndCustom(j) \/ Release(j)

JobStep(j) ==
  \/ Acquire(j) \/ AcquireAborts(j) \/ ScriptStep(j)
  \/ Expire(j) \/ Prune(j) \/ Cancel(j)

RequestStep(c) ==
  \/ BrewCheck(c) \/ BrewAppend(c)
  \/ \E i \in items : RetryTake(c, i)
  \/ \E s \in Softwares, a \in UserActions : RetrySoftware(c, s, a)
  \/ RetryAppend(c)
  \/ \E s \in Softwares : StreamCheck(c, s) \/ LegacyStart(c, s)
  \/ StreamPrepareFails(c) \/ StreamPrepare(c) \/ StreamStart(c)
  \/ LegacyFails(c) \/ LegacyInstalls(c) \/ LegacyMark(c)

DismissStep ==
  \/ \E i \in items \cup {0}, s \in Packages \cup {""} : DismissRows(i, s)
  \/ \E j \in byID : DismissJob(j)

OwnerStep(c) ==
  \/ \E s \in Softwares : SwitchPackageManager(c, s) \/ BrewSyncReads(c, s)
  \/ SwitchDrops(c) \/ EnqueueActions(c) \/ SwitchLooks(c) \/ SwitchFails(c)
  \/ SwitchLeavesBrew(c) \/ SwitchOwns(c)
  \/ BrewSyncAdopts(c) \/ BrewSyncLists(c) \/ BrewSyncForgets(c)

SyncStep == SyncList \/ SyncProbe \/ SyncFails \/ SyncSnapshot \/ SyncCheck \/ SyncAppend

Next ==
  \/ Kick
  \/ \E w \in Workers : WorkerStep(w)
  \/ \E j \in DOMAIN job : JobStep(j)
  \/ \E c \in Clients : RequestStep(c) \/ OwnerStep(c)
  \/ Enqueue \/ DismissStep \/ SyncStep
  \/ TakeGate \/ FreeGate

Spec == Init /\ [][Next]_vars

\* The scheduler runs every goroutine that can run, a Go mutex does not starve
\* a waiter, every script ends (its context has a deadline; what it started is
\* assumed to close its output) and so does the VNC setup that holds the
\* package manager.
ItemBound == MaxItems + Cardinality(Softwares)
JobBound == ItemBound + MaxStreams

QueueFairness ==
  /\ WF_vars(Kick) /\ WF_vars(SyncStep)
  /\ \A w \in Workers : WF_vars(WorkerStep(w))
  /\ \A j \in 1..JobBound :
       /\ SF_vars(j \in DOMAIN job /\ (Acquire(j) \/ AcquireAborts(j)))
       /\ WF_vars(j \in DOMAIN job /\ ScriptStep(j))
  /\ \A c \in Clients :
       WF_vars(BrewAppend(c) \/ RetryAppend(c) \/ StreamPrepareFails(c)
               \/ StreamPrepare(c) \/ StreamStart(c)
               \/ LegacyFails(c) \/ LegacyInstalls(c) \/ LegacyMark(c))

FairSpec == Spec /\ QueueFairness /\ WF_vars(FreeGate)

-----------------------------------------------------------------------------
(* Safety *)

\* Queue and single-page installs never have a script running at the same time
\* ("queue + single installs never overlap", runSoftwareScript).
Scripting == {j \in DOMAIN job : job[j].pc \in {"script", "custom"}}
SerialScripts == \A j, k \in Scripting : j = k

\* kickQueueWorker never leaves two workers draining the list, and
\* bulkQueue.running says whether there is one.
Alive(w) == worker[w].pc # "off"
OneWorker ==
  /\ \A v, w \in Workers : Alive(v) /\ Alive(w) => v = w
  /\ running <=> \E w \in Workers : Alive(w)

\* An item appended while the worker was on its way out is not forgotten: as
\* long as something is pending a worker runs or is about to be kicked.
NoLostWakeup == Pending # {} => running \/ kicks > 0

\* A row shown as running is being worked on; one that was not would keep
\* WaitQueueIdle, and with it VNC setup, waiting for ever.
RunningRowsHaveWorker ==
  \A i \in Listed({"running"}) : \E w \in Workers : worker[w].item = i

\* "Run synchronously so the next queue item waits" (runQueuedInstall): a job
\* started by the queue that is not over is the one its worker is at, whatever
\* cancels, dismissals and single-page installs happen meanwhile.
QueueOneByOne ==
  \A j \in DOMAIN job : job[j].queued /\ job[j].pc # "over" =>
    \E w \in Workers : worker[w].job = j

\* A job that ends as a success leaves the row and the host agreeing with it,
\* until it gives installSerial back to the other jobs.
SuccessIsOnHost ==
  \A j \in DOMAIN job : job[j].pc = "persist" /\ job[j].st = "success" =>
    IF job[j].mode = "install"
    THEN row[job[j].sw] = "local" /\ job[j].sw \in host
    ELSE row[job[j].sw] = "uninstalled" /\ job[j].sw \notin host

\* A failed row left in the Installing list tells how its job ended, unless the
\* job was dismissed meanwhile.
FailedRowsMatchJob ==
  \A i \in Listed({"error", "cancelled"}) : item[i].job # 0 =>
    job[item[i].job].st \in {item[i].status, "dismissed"}

\* The parts of the inductive invariant behind the safety theorems.
WorkerOK ==
  \A w \in Workers :
    /\ worker[w].pc \in {"off", "gate", "claim", "exit"} => worker[w].item = 0
    /\ worker[w].pc \notin {"start", "wait"} => worker[w].job = 0
    /\ worker[w].pc \in {"run", "prepare", "start", "wait", "brew", "brewed"} =>
         worker[w].item \in DOMAIN item
    /\ worker[w].pc = "prepare" => item[worker[w].item].sw \in Softwares
    /\ worker[w].pc \in {"start", "wait"} => worker[w].job \in DOMAIN job

\* Whoever is about to start a runner is the only one to do so.
StartersOK ==
  /\ \A w \in Workers : worker[w].pc = "start" =>
       job[worker[w].job].pc = "prepared" /\ job[worker[w].job].queued
  /\ \A c \in Clients : request[c].pc = "start" =>
       /\ request[c].job \in DOMAIN job
       /\ job[request[c].job].pc = "prepared" /\ ~job[request[c].job].queued
  /\ \A c, d \in Clients :
       request[c].pc = "start" /\ request[d].pc = "start"
       /\ request[c].job = request[d].job => c = d

\* installSerial is held exactly from Acquire to Release.
Holding == {"script", "mark", "marked", "custom", "persist"}
LockOK == \A j \in DOMAIN job : job[j].pc \in Holding <=> serial = j

JobOK == \A j \in DOMAIN job : job[j].st = "running" <=> job[j].pc \notin {"persist", "over"}

\* The inductive invariant: all of the above, whatever the constants are.
QueueInv ==
  /\ TypeOK /\ WorkerOK /\ StartersOK /\ LockOK /\ JobOK
  /\ OneWorker /\ NoLostWakeup /\ RunningRowsHaveWorker /\ QueueOneByOne

(* Action properties *)

\* A job ends once: its final status is never replaced, except by "dismissed".
EndsOnce ==
  [][\A j \in DOMAIN job : job[j].st # "running" =>
       job'[j].st \in {job[j].st, "dismissed"}]_vars

\* Why a row leaves the list: a retry took it (RetryQueueAPI),
RetriedRow(i) ==
  \E c \in Clients : /\ request[c].pc = "idle" /\ request'[c].pc = "retry"
                     /\ request'[c].for = {item[i].sw}

\* the appended ones pushed it over the cap,
TrimmedRow(i) ==
  Cardinality({k \in items \cup (Len(item) + 1)..Len(item') : k > i}) >= MaxQueue

\* an uninstall of its software ended well (CancelPendingInstallsForSoftware),
UninstalledRow(i) ==
  /\ item[i].status = "pending" /\ item[i].action = "install"
  /\ \E j \in DOMAIN job : /\ job[j].sw = item[i].sw /\ job[j].mode = "uninstall"
                           /\ job[j].st = "running" /\ job'[j].st = "success"

\* a change of its software's owner dropped it (the same call),
SwitchedRow(i) ==
  /\ item[i].status = "pending" /\ item[i].action = "install"
  /\ \E c \in Clients : /\ request[c].pc = "drop" /\ request'[c].pc = "switch"
                        /\ item[i].sw \in request[c].for

\* its worker finished it (finishQueueItem),
FinishedRow(i) ==
  /\ item[i].status = "running"
  /\ \E w \in Workers : worker[w].item = i /\ worker'[w].item = 0

\* or it had ended and was dismissed (DismissFromQueue).
DismissedRow(i) ==
  item[i].status \notin {"pending", "running"} /\ UNCHANGED <<item, workerVars>>

\* A row leaves the list for one of these reasons, and one that was accepted is
\* on it unless newer ones fill the cap: no pending item is lost, and none is
\* taken from the worker that runs it but by a retry or the cap.
LeavesWithCause(i) ==
  \/ RetriedRow(i) \/ TrimmedRow(i) \/ UninstalledRow(i) \/ SwitchedRow(i)
  \/ FinishedRow(i) \/ DismissedRow(i)

RowsLeaveWithCause ==
  [][/\ \A i \in items \ items' : LeavesWithCause(i)
     /\ \A i \in (Len(item) + 1)..Len(item') : i \in items' \/ TrimmedRow(i)]_vars

(* What comments of the code say and this model of it refutes *)

\* "Queue brew formula/cask actions onto the softwares install queue so they
\* serialize with Softwares installs (no overlapping package jobs)"
\* (EnqueueBrewActions): no job runs its script while the worker runs brew.
NoOverlappingPackageJobs ==
  Scripting # {} => \A w \in Workers : worker[w].pc # "brew"

\* "CancelPendingInstallsForSoftware drops pending auto-install queue items":
\* what a user queued is not dropped before it is started (where nobody
\* retries it and the list is not trimmed).
UserItemsKept ==
  [][\A i \in Pending : ~item[i].auto => i \in items']_vars

(* Refinement *)

\* The item a worker holds, from its claim until its row is finished.
Current == Max({0} \cup {worker[w].item : w \in Workers})

\* The queue is a serial queue: items are started in the order they were
\* accepted, one at a time, each at most once.
Serial == INSTANCE SerialQueue WITH
            accepted <- Len(item), waiting <- Pending, current <- Current
IsSerialQueue == Serial!Spec

(* Liveness *)

\* A pending item does not stay pending: it is started, or taken off the list.
PendingProgress ==
  \A i \in 1..ItemBound : i \in items /\ item[i].status = "pending" ~> i \notin Pending

\* Every registered job reaches its end and gives installSerial back.
JobsEnd ==
  \A j \in 1..JobBound : j \in DOMAIN job ~> j \in DOMAIN job /\ job[j].pc = "over"

\* The boot reconcile finishes, which WaitReady (VNC setup) waits for.
SyncEnds == <>(sync.pc = "ready")
=============================================================================
