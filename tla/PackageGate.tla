----------------------------- MODULE PackageGate -----------------------------
(***************************************************************************)
(* The softwares install queue and the VNC and RDP package setups, which   *)
(* share the host's package manager (modules/vncnovnc).                    *)
(*                                                                         *)
(* A setup waits until the boot reconcile is over and the queue looks idle *)
(* (WaitQueueIdle), then runs its script.  While activeInst says that a    *)
(* script is being installed, packageManagerBusy() keeps the queue worker  *)
(* from claiming items: the variable held of InstallQueue is here what the *)
(* setups make of it.                                                      *)
(***************************************************************************)
EXTENDS InstallQueue

CONSTANTS
  Background,   \* the reinstall StartAsync may start, once per process
  Streamed,     \* VNC setups streamed to a client
  Direct,       \* setups activeInst does not know: VNC SetupAPI, RDP
  SetupFaults,  \* the failures of setups this instance injects
  MaxStops      \* bound: setups whose context ends before they do

Setups == Background \cup Streamed \cup Direct
SetupFaultKinds == {"client", "start"}

ASSUME SetupAssumption ==
  /\ Background \cap Streamed = {}
  /\ Direct \cap (Background \cup Streamed) = {}
  /\ SetupFaults \subseteq SetupFaultKinds
  /\ MaxStops \in Nat
  /\ "gate" \in Faults

VARIABLES
  active,   \* activeInst: the setup whose record it points to, if any
  inst,     \* status and phase in the record of each setup
  setup     \* where each setup is, whether its context is live, and the rows
            \* of the queue it is looking at

setupVars == <<active, inst, setup>>
gateVars  == <<vars, setupVars>>

Record == {"idle", "waiting", "installing", "done"}
Setup  == [pc: {"idle", "checked", "begin", "sync", "look", "jobs", "asleep",
                "phase", "start", "script", "ended", "over"},
           live: BOOLEAN, rows: SUBSET Nat]

GateTypeOK ==
  /\ active \in SUBSET (Background \cup Streamed)
  /\ \A j, k \in active : j = k
  /\ inst \in [Setups -> Record]
  /\ setup \in [Setups -> Setup]

GateInit ==
  /\ Init
  /\ active = {}
  /\ inst = [k \in Setups |-> "idle"]
  /\ setup = [k \in Setups |-> [pc |-> "idle", live |-> TRUE, rows |-> {}]]

-----------------------------------------------------------------------------
(* The record other modules look at *)

InstallRunning == \E k \in active : inst[k] \in {"waiting", "installing"}

\* Faulty: a setup that waits for the queue already holds the gate.
HeldWhileWaiting == InstallRunning

\* A script is running, not merely waiting for the queue.
PackageManagerHeld == \E k \in active : inst[k] = "installing"

At(k, pc) == setup[k].pc = pc
Goto(k, pc) == setup' = [setup EXCEPT ![k].pc = pc]

\* What a setup writes into its record.  A streamed one reaches it only
\* through activeInst, and only if that is its own.
Write(k, what) ==
  inst' = IF k \in Background \cup active THEN [inst EXCEPT ![k] = what] ELSE inst

\* finish / FinishHTTPJob, and the deferred end of the job.
Close(k) == Write(k, "done") /\ Goto(k, "over") /\ UNCHANGED active

\* A step of a setup: the queue sees nothing of it but the gate.
Aside ==
  /\ held' = PackageManagerHeld'
  /\ UNCHANGED <<queueVars, workerVars, jobVars, hostVars, apiVars>>

-----------------------------------------------------------------------------
(* Starting *)

\* waitForSoftwareQueue: the wait for the reconcile is left out if it is over.
WaitEntry == IF sync.pc = "ready" THEN "look" ELSE "sync"

\* StartBackgroundInstall refuses while another setup runs, ...
StartCheck(k) ==
  /\ k \in Background /\ At(k, "idle")
  /\ Goto(k, IF InstallRunning THEN "over" ELSE "checked")
  /\ UNCHANGED <<active, inst>> /\ Aside

\* ... looks at the host (which may not be supported) without the lock, ...
Unsupported(k) ==
  /\ At(k, "checked") /\ "start" \in SetupFaults
  /\ Goto(k, "over")
  /\ UNCHANGED <<active, inst>> /\ Aside

\* Faulty: the record of another setup is not replaced.
PublishBeside(k) ==
  /\ At(k, "checked")
  /\ active' = active \cup {k}
  /\ inst' = [inst EXCEPT ![k] = "waiting"]
  /\ Goto(k, WaitEntry) /\ Aside

\* ... and makes its record the active one, whatever is active by then.
Publish(k) ==
  /\ At(k, "checked")
  /\ active' = {k}
  /\ inst' = [inst EXCEPT ![k] = "waiting"]
  /\ Goto(k, WaitEntry) /\ Aside

\* BindHTTPJob does nothing while another setup runs.
Bind(k) ==
  /\ k \in Streamed /\ At(k, "idle")
  /\ IF InstallRunning
     THEN UNCHANGED <<active, inst>>
     ELSE active' = {k} /\ inst' = [inst EXCEPT ![k] = "waiting"]
  /\ Goto(k, "begin") /\ Aside

Begin(k) ==
  /\ At(k, "begin")
  /\ Goto(k, WaitEntry)
  /\ UNCHANGED <<active, inst>> /\ Aside

\* The first event cannot be written: the handler returns, its record stays.
ClientGone(k) ==
  /\ At(k, "begin") /\ "client" \in SetupFaults
  /\ Goto(k, "over")
  /\ UNCHANGED <<active, inst>> /\ Aside

StartDirect(k) ==
  /\ k \in Direct /\ At(k, "idle")
  /\ Goto(k, WaitEntry)
  /\ UNCHANGED <<active, inst>> /\ Aside

-----------------------------------------------------------------------------
(* Waiting *)

SyncReady(k) ==
  /\ At(k, "sync") /\ sync.pc = "ready"
  /\ Goto(k, "look")
  /\ UNCHANGED <<active, inst>> /\ Aside

\* snapshotActiveQueue copies the list, with what failed, ...
LookAtItems(k) ==
  /\ At(k, "look")
  /\ setup' = [setup EXCEPT ![k].pc = "jobs",
                            ![k].rows = Listed({"pending", "running", "error"})]
  /\ UNCHANGED <<active, inst>> /\ Aside

\* ... adds one running or failed job, in no particular order, for each
\* software that has no row ...
Shown(k) == {item[r].sw : r \in setup[k].rows}
Visible(k, status) == {j \in byID : job[j].st = status /\ job[j].sw \notin Shown(k)}

MayShowRunning(k) == Visible(k, "running") # {}
MayHideRunning(k) ==
  \A j \in Visible(k, "running") : \E e \in Visible(k, "error") : job[e].sw = job[j].sw

\* ... and counts what is at work.
AtWork(k) == \E r \in setup[k].rows : item[r].status \in {"pending", "running"}

SeesIdle(k) ==
  /\ At(k, "jobs") /\ ~AtWork(k) /\ MayHideRunning(k)
  /\ setup' = [setup EXCEPT ![k].pc = "phase", ![k].rows = {}]
  /\ UNCHANGED <<active, inst>> /\ Aside

SeesBusy(k) ==
  /\ At(k, "jobs")
  /\ AtWork(k) \/ MayShowRunning(k)
  /\ setup' = [setup EXCEPT ![k].pc = "asleep", ![k].rows = {}]
  /\ UNCHANGED <<active, inst>> /\ Aside

\* The next poll, while the context is live ...
Wake(k) ==
  /\ At(k, "asleep") /\ setup[k].live
  /\ Goto(k, "look")
  /\ UNCHANGED <<active, inst>> /\ Aside

\* ... or the end of the wait.
GiveUp(k) ==
  /\ At(k, "sync") \/ At(k, "asleep")
  /\ ~setup[k].live
  /\ Close(k) /\ Aside

\* The context is done: cancelled by the user, left by the client during the
\* script, or after its 30 minutes.
Stop(k) ==
  /\ Cardinality({j \in Setups : ~setup[j].live}) < MaxStops
  /\ setup[k].live /\ setup[k].pc \notin {"idle", "checked", "over"}
  /\ setup' = [setup EXCEPT ![k].live = FALSE]
  /\ UNCHANGED <<active, inst>> /\ Aside

-----------------------------------------------------------------------------
(* Running *)

Hold(k) ==
  /\ At(k, "phase")
  /\ Write(k, "installing") /\ Goto(k, "start")
  /\ UNCHANGED active /\ Aside

StartScript(k) ==
  /\ At(k, "start") /\ setup[k].live
  /\ Goto(k, "script")
  /\ UNCHANGED <<active, inst>> /\ Aside

\* Faulty: the early return leaves the record as it is.
StartFailsSilently(k) ==
  /\ At(k, "start")
  /\ ~setup[k].live \/ "start" \in SetupFaults
  /\ Goto(k, "over")
  /\ UNCHANGED <<active, inst>> /\ Aside

\* bash cannot be started, or the context is done by then.
StartFails(k) ==
  /\ At(k, "start")
  /\ ~setup[k].live \/ "start" \in SetupFaults
  /\ Close(k) /\ Aside

EndScript(k) ==
  /\ At(k, "script")
  /\ Goto(k, "ended")
  /\ UNCHANGED <<active, inst>> /\ Aside

Finish(k) ==
  /\ At(k, "ended")
  /\ Close(k) /\ Aside

-----------------------------------------------------------------------------
SetupStep(k) ==
  \/ Unsupported(k) \/ Publish(k) \/ Begin(k) \/ ClientGone(k)
  \/ SyncReady(k) \/ LookAtItems(k) \/ SeesIdle(k) \/ SeesBusy(k) \/ Wake(k) \/ GiveUp(k)
  \/ Hold(k) \/ StartScript(k) \/ StartFails(k) \/ EndScript(k) \/ Finish(k)

QueueStep == Next /\ UNCHANGED <<held, setupVars>>

GateNext ==
  \/ QueueStep
  \/ \E k \in Setups : StartCheck(k) \/ Bind(k) \/ StartDirect(k) \/ Stop(k) \/ SetupStep(k)

GateSpec == GateInit /\ [][GateNext]_gateVars

\* Setups that have started go on, and their scripts end; the rest is the
\* fairness of the queue, without that of the gate: here it has to be shown.
GateFairness ==
  /\ QueueFairness
  /\ \A k \in Setups : WF_gateVars(SetupStep(k))

FairGateSpec == GateSpec /\ GateFairness

-----------------------------------------------------------------------------
(* Safety *)

\* The gate is shut only as long as the setup that shut it is at its script or
\* about to start or close it: whatever fails, and whoever replaces activeInst
\* meanwhile, it is not left shut (packageManagerBusy, queue worker).
GateNotLeftShut ==
  held => \E k \in active : setup[k].pc \in {"start", "script", "ended"}

\* The worker is outside the gate, and whatever it started is over.
AtGate == \A w \in Workers : worker[w].pc \in {"off", "gate"}
QueuedOver == \A j \in DOMAIN job : job[j].queued => job[j].pc = "over"

\* While the gate stays shut a worker that is outside stays there, and no job
\* that the queue started runs: what is left of "do not overlap destructively"
\* once the item the worker had when the gate was shut is finished
\* (packageManagerBusy in the loop of the worker, queue.go:628).
QueueStaysOut ==
  [][held /\ held' /\ AtGate => (AtGate /\ QueuedOver)']_gateVars

(* What a comment of the code says and this model of it refutes *)

\* "PackageManagerHeld reports whether VNC setup currently owns the package
\* manager (script running ...)": while a VNC setup started in the background
\* or streamed runs its script, the gate is shut.
HeldDuringScript ==
  \A k \in Background \cup Streamed : setup[k].pc = "script" => held

\* "Jobs run through a serial install queue so Softwares, Brew, and VNC setup do
\* not overlap destructively": while a setup that shut the gate runs its script,
\* no job of the queue runs one and the worker runs no brew.
SetupsDoNotOverlap ==
  held /\ (\E k \in active : setup[k].pc = "script") =>
    Scripting = {} /\ \A w \in Workers : worker[w].pc # "brew"

(* Liveness *)

\* A setup that has been started ends: the wait for the queue and the queue's
\* wait for the gate never hold each other up.
SetupsEnd ==
  \A k \in Setups : setup[k].pc # "idle" ~> setup[k].pc = "over"
=============================================================================
