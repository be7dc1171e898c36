-------------------------- MODULE PackageGateProofs --------------------------
(* Theorems about PackageGate, for every value of its constants.           *)
EXTENDS PackageGate, SerialQueueProofs

(***************************************************************************)
(* The queue cannot tell the setups from its own environment: each of      *)
(* their steps takes the gate, frees it or leaves it, and nothing else of  *)
(* what the queue looks at changes.                                        *)
(***************************************************************************)

SomeSetup(k) == StartCheck(k) \/ Bind(k) \/ StartDirect(k) \/ Stop(k) \/ SetupStep(k)

\* Every step of a setup leaves the state of the queue aside.
LEMMA SetupAside ==
  ASSUME NEW k \in Setups, SomeSetup(k)
  PROVE  Aside
BY DEF SomeSetup, SetupStep, StartCheck, Unsupported, Publish, Bind, Begin, ClientGone,
       StartDirect, SyncReady, LookAtItems, SeesIdle, SeesBusy, Wake, GiveUp, Stop,
       Hold, StartScript, StartFails, EndScript, Finish

\* The gate as the queue sees it is the one the setups make: packageBusyFn is
\* PackageManagerHeld (SetPackageManagerBusyCheck).
GateIs == held = PackageManagerHeld

\* A step of the composed system is a step of the queue or a stutter of it.
LEMMA StepRefines ==
  ASSUME GateIs, [GateNext]_gateVars
  PROVE  [Next]_vars
<1>1. CASE QueueStep
  BY <1>1 DEF QueueStep
<1>2. ASSUME NEW k \in Setups, SomeSetup(k)
      PROVE  [Next]_vars
  <2>1. Aside
    BY <1>2, SetupAside
  <2>2. held \in BOOLEAN /\ held' \in BOOLEAN
    BY <2>1 DEF Aside, GateIs, PackageManagerHeld
  <2>3. CASE held' = held
    BY <2>1, <2>3 DEF Aside, vars
  <2>4. CASE held' # held
    <3>1. (~held /\ held' = TRUE) \/ (held /\ held' = FALSE)
      BY <2>2, <2>4
    <3>2. TakeGate \/ FreeGate
      BY <2>1, <3>1, SetupAssumption DEF Aside, TakeGate, FreeGate
    <3> QED
      BY <3>2 DEF Next
  <2> QED
    BY <2>3, <2>4
<1>3. CASE UNCHANGED gateVars
  BY <1>3 DEF gateVars
<1> QED
  BY <1>1, <1>2, <1>3 DEF GateNext, SomeSetup

\* Every step keeps the gate what the setups make of it.
LEMMA GateIsStep ==
  ASSUME GateIs, [GateNext]_gateVars
  PROVE  GateIs'
<1>1. CASE QueueStep
  BY <1>1 DEF QueueStep, setupVars, GateIs, PackageManagerHeld
<1>2. CASE \E k \in Setups : SomeSetup(k)
  BY <1>2, SetupAside DEF Aside, GateIs
<1>3. CASE UNCHANGED gateVars
  BY <1>3 DEF gateVars, setupVars, vars, GateIs, PackageManagerHeld
<1> QED
  BY <1>1, <1>2, <1>3 DEF GateNext, SomeSetup

\* The composed system behaves, to the queue, as the queue with an environment
\* that takes and frees the gate: whatever holds of InstallQueue holds here.
THEOREM Composition == GateSpec => Spec
<1>1. GateInit => Init /\ GateIs
  BY DEF GateInit, Init, GateIs, PackageManagerHeld
<1>2. GateIs /\ [GateNext]_gateVars => [Next]_vars /\ GateIs'
  BY StepRefines, GateIsStep
<1> QED
  BY <1>1, <1>2, PTL DEF GateSpec, Spec

\* The invariant of the queue, its worker and its jobs holds next to any
\* number of package setups.
THEOREM QueueUnderSetups == GateSpec => []QueueInv
BY Composition, Invariance, PTL

\* So do its promises: next to any number of package setups it is a serial
\* queue, whose scripts run one at a time, whose worker is woken for whatever is
\* pending, whose jobs end once, and whose rows tell their job and leave with a
\* cause.
THEOREM PromisesUnderSetups ==
  GateSpec => /\ IsSerialQueue
              /\ []SerialScripts /\ []NoLostWakeup /\ []FailedRowsMatchJob
              /\ EndsOnce /\ RowsLeaveWithCause
BY Composition, ImplementsSerialQueue, MutualExclusion, Wakeup, FailedRowsTellJob,
   FinalStatus, NoRowLost, PTL
-----------------------------------------------------------------------------
(* The gate is not left shut. *)

ShutByScript ==
  \A k \in active : inst[k] = "installing" => setup[k].pc \in {"start", "script", "ended"}

\* Only a background setup is between its check and its record.
CheckedOK == \A k \in Setups : setup[k].pc = "checked" => k \in Background

GateInv == GateTypeOK /\ ShutByScript /\ CheckedOK

Shut == {"start", "script", "ended"}

\* The rows a setup looks at are numbers of items.
LEMMA RowsAreNumbers ==
  ASSUME QueueInv
  PROVE  Listed({"pending", "running", "error"}) \in SUBSET Nat
<1>1. Len(item) \in Nat /\ items \subseteq 1..Len(item)
  BY Elements DEF QueueInv, TypeOK, QueueTypes
<1>2. items \subseteq Nat
  BY <1>1
<1> QED
  BY <1>2 DEF Listed

\* A setup that moves without touching a record keeps the invariant, unless it
\* leaves its script that way.
LEMMA Moves ==
  ASSUME GateInv, NEW k \in Setups, UNCHANGED <<active, inst>>,
         NEW r \in Setup, setup' = [setup EXCEPT ![k] = r],
         setup[k].pc \in Shut => r.pc \in Shut,
         r.pc = "checked" => k \in Background
  PROVE  GateInv'
<1>1. /\ setup' \in [Setups -> Setup] /\ setup'[k] = r
      /\ \A j \in Setups : j # k => setup'[j] = setup[j]
  BY DEF GateInv, GateTypeOK
<1>2. active \subseteq Setups
  BY DEF GateInv, GateTypeOK, Setups
<1> QED
  BY <1>1, <1>2 DEF GateInv, GateTypeOK, ShutByScript, CheckedOK, Shut

\* The same for a step to another point with the same context and rows.
LEMMA Goes ==
  ASSUME GateInv, NEW k \in Setups, UNCHANGED <<active, inst>>,
         NEW pc, [pc |-> pc, live |-> TRUE, rows |-> {}] \in Setup, Goto(k, pc),
         setup[k].pc \in Shut => pc \in Shut,
         pc = "checked" => k \in Background
  PROVE  GateInv'
<1>1. setup \in [Setups -> Setup] /\ setup[k] \in Setup
  BY DEF GateInv, GateTypeOK
<1>2. [setup[k] EXCEPT !.pc = pc] \in Setup /\ [setup[k] EXCEPT !.pc = pc].pc = pc
  BY <1>1 DEF Setup
<1>3. setup' = [setup EXCEPT ![k] = [setup[k] EXCEPT !.pc = pc]]
  BY <1>1 DEF Goto
<1> QED
  BY <1>2, <1>3, Moves

\* A setup whose record is made the active one (StartBackgroundInstall,
\* BindHTTPJob).
LEMMA Binds ==
  ASSUME GateInv, NEW k \in Background \cup Streamed, active' = {k},
         inst' = [inst EXCEPT ![k] = "waiting"],
         NEW pc, [pc |-> pc, live |-> TRUE, rows |-> {}] \in Setup, Goto(k, pc),
         pc # "checked"
  PROVE  GateInv'
<1>1. k \in Setups /\ inst \in [Setups -> Record] /\ setup \in [Setups -> Setup]
  BY DEF GateInv, GateTypeOK, Setups
<1>2. inst' \in [Setups -> Record] /\ inst'[k] = "waiting"
  BY <1>1 DEF Record
<1>3. /\ setup' \in [Setups -> Setup] /\ setup'[k].pc = pc
      /\ \A j \in Setups : j # k => setup'[j] = setup[j]
  BY <1>1 DEF Goto, Setup
<1>4. GateTypeOK'
  BY <1>2, <1>3 DEF GateTypeOK
<1>5. ShutByScript'
  BY <1>2 DEF ShutByScript
<1>6. CheckedOK'
  BY <1>3 DEF GateInv, CheckedOK
<1> QED
  BY <1>4, <1>5, <1>6 DEF GateInv

\* A setup that writes its record and moves (setPhase, finish).
LEMMA WritesRecord ==
  ASSUME GateInv, NEW k \in Setups, UNCHANGED active,
         NEW what \in {"installing", "done"}, Write(k, what),
         NEW pc, [pc |-> pc, live |-> TRUE, rows |-> {}] \in Setup, Goto(k, pc),
         pc # "checked", what = "installing" => pc \in Shut
  PROVE  GateInv'
<1>1. /\ active \subseteq Setups /\ inst \in [Setups -> Record]
      /\ setup \in [Setups -> Setup]
  BY DEF GateInv, GateTypeOK, Setups
<1>2. /\ inst' \in [Setups -> Record]
      /\ \A j \in Setups : j # k => inst'[j] = inst[j]
      /\ k \in active => inst'[k] = what
  BY <1>1 DEF Write, Record
<1>3. /\ setup' \in [Setups -> Setup] /\ setup'[k].pc = pc
      /\ \A j \in Setups : j # k => setup'[j] = setup[j]
  BY <1>1 DEF Goto, Setup
<1>4. GateTypeOK'
  BY <1>2, <1>3 DEF GateInv, GateTypeOK
<1>5. ShutByScript'
  <2> SUFFICES ASSUME NEW j \in active, inst'[j] = "installing"
               PROVE  setup'[j].pc \in Shut
    BY DEF ShutByScript, Shut
  <2>1. CASE j = k
    BY <1>2, <1>3, <2>1
  <2>2. CASE j # k
    BY <1>1, <1>2, <1>3, <2>2 DEF GateInv, ShutByScript, Shut
  <2> QED
    BY <2>1, <2>2
<1>6. CheckedOK'
  BY <1>3 DEF GateInv, CheckedOK
<1> QED
  BY <1>4, <1>5, <1>6 DEF GateInv

\* Every step keeps the records, the setups and the active one in agreement.
LEMMA GateInvStep ==
  ASSUME QueueInv, GateInv, [GateNext]_gateVars
  PROVE  GateInv'
<1>1. CASE QueueStep \/ UNCHANGED gateVars
  BY <1>1 DEF QueueStep, gateVars, setupVars, GateInv, GateTypeOK, ShutByScript, CheckedOK
<1>2. ASSUME NEW k \in Setups, SomeSetup(k)
      PROVE  GateInv'
  <2>0. setup[k] \in Setup /\ WaitEntry \in {"look", "sync"}
    BY DEF GateInv, GateTypeOK, WaitEntry
  <2>1. CASE StartCheck(k)
    BY <2>1, Goes DEF StartCheck, At, Shut, Setup
  <2>2. CASE Unsupported(k) \/ ClientGone(k)
    BY <2>2, Goes DEF Unsupported, ClientGone, At, Shut, Setup
  <2>3. CASE Publish(k)
    BY <2>0, <2>3, Binds DEF Publish, At, Setup, GateInv, CheckedOK
  <2>4. CASE Bind(k)
    <3>1. CASE InstallRunning
      BY <2>4, <3>1, Goes DEF Bind, At, Shut, Setup
    <3>2. CASE ~InstallRunning
      BY <2>4, <3>2, Binds DEF Bind, Setup
    <3> QED
      BY <3>1, <3>2
  <2>5. CASE Begin(k) \/ StartDirect(k)
    BY <2>0, <2>5, Goes DEF Begin, StartDirect, At, Shut, Setup
  <2>6. CASE SyncReady(k) \/ Wake(k)
    BY <2>6, Goes DEF SyncReady, Wake, At, Shut, Setup
  <2>7. CASE LookAtItems(k)
    <3> DEFINE rows == Listed({"pending", "running", "error"})
               r == [setup[k] EXCEPT !.pc = "jobs", !.rows = rows]
    <3>1. r \in Setup /\ r.pc = "jobs"
      BY <2>0, RowsAreNumbers DEF Setup
    <3>2. setup' = [setup EXCEPT ![k] = r]
      BY <2>7 DEF LookAtItems, GateInv, GateTypeOK
    <3> HIDE DEF r
    <3> QED
      BY <2>7, <3>1, <3>2, Moves DEF LookAtItems, At, Shut
  <2>8. CASE SeesIdle(k)
    <3> DEFINE r == [setup[k] EXCEPT !.pc = "phase", !.rows = {}]
    <3>1. r \in Setup /\ r.pc = "phase"
      BY <2>0 DEF Setup
    <3>2. setup' = [setup EXCEPT ![k] = r]
      BY <2>8 DEF SeesIdle, GateInv, GateTypeOK
    <3> HIDE DEF r
    <3> QED
      BY <2>8, <3>1, <3>2, Moves DEF SeesIdle, At, Shut
  <2>9. CASE SeesBusy(k)
    <3> DEFINE r == [setup[k] EXCEPT !.pc = "asleep", !.rows = {}]
    <3>1. r \in Setup /\ r.pc = "asleep"
      BY <2>0 DEF Setup
    <3>2. setup' = [setup EXCEPT ![k] = r]
      BY <2>9 DEF SeesBusy, GateInv, GateTypeOK
    <3> HIDE DEF r
    <3> QED
      BY <2>9, <3>1, <3>2, Moves DEF SeesBusy, At, Shut
  <2>10. CASE Stop(k)
    <3> DEFINE r == [setup[k] EXCEPT !.live = FALSE]
    <3>1. r \in Setup /\ r.pc = setup[k].pc
      BY <2>0 DEF Setup
    <3>2. setup' = [setup EXCEPT ![k] = r]
      BY <2>10 DEF Stop, GateInv, GateTypeOK
    <3> HIDE DEF r
    <3> QED
      BY <2>10, <3>1, <3>2, Moves DEF Stop
  <2>11. CASE Hold(k)
    BY <2>11, WritesRecord DEF Hold, Shut, Setup
  <2>12. CASE StartScript(k) \/ EndScript(k)
    BY <2>12, Goes DEF StartScript, EndScript, Shut, Setup
  <2>13. CASE GiveUp(k) \/ StartFails(k) \/ Finish(k)
    BY <2>13, WritesRecord DEF GiveUp, StartFails, Finish, Close, Setup
  <2> QED
    BY <1>2, <2>1, <2>2, <2>3, <2>4, <2>5, <2>6, <2>7, <2>8, <2>9, <2>10, <2>11,
       <2>12, <2>13 DEF SomeSetup, SetupStep
<1> QED
  BY <1>1, <1>2 DEF GateNext, SomeSetup

\* Type correctness of the records and the setups.
THEOREM GateTypeCorrect == GateSpec => []GateTypeOK
<1>1. GateInit => GateInv
  BY DEF GateInit, GateInv, GateTypeOK, ShutByScript, CheckedOK, Record, Setup
<1>2. QueueInv /\ GateInv /\ [GateNext]_gateVars => GateInv'
  BY GateInvStep
<1>3. GateInv => GateTypeOK
  BY DEF GateInv
<1> QED
  BY <1>1, <1>2, <1>3, QueueUnderSetups, PTL DEF GateSpec

\* Whatever fails and whoever replaces activeInst, the queue worker finds the
\* gate shut only while the setup that shut it is at its script.
THEOREM GateReopens == GateSpec => []GateNotLeftShut
<1>1. GateInit => GateInv
  BY DEF GateInit, GateInv, GateTypeOK, ShutByScript, CheckedOK, Record, Setup
<1>2. GateInit => GateIs
  BY DEF GateInit, Init, GateIs, PackageManagerHeld
<1>3. QueueInv /\ GateInv /\ GateIs /\ [GateNext]_gateVars => GateInv' /\ GateIs'
  BY GateInvStep, GateIsStep
<1>4. GateInv /\ GateIs => GateNotLeftShut
  BY DEF GateInv, GateIs, PackageManagerHeld, ShutByScript, GateNotLeftShut
<1> QED
  BY <1>1, <1>2, <1>3, <1>4, QueueUnderSetups, PTL DEF GateSpec

-----------------------------------------------------------------------------
(* The gate is held, and holds the queue *)

\* The record of a setup that has started is the active one and says whether
\* the script is due.
HeldOK ==
  \A k \in Background \cup Streamed :
    /\ setup[k].pc \in {"idle", "checked"} => inst[k] = "idle"
    /\ setup[k].pc \notin {"idle", "checked", "over"} => k \in active
    /\ setup[k].pc \in Shut => inst[k] = "installing"

\* With one background or streamed setup nobody replaces its record.
LEMMA HeldOKStep ==
  ASSUME GateInv, HeldOK, [GateNext]_gateVars,
         \A j, k \in Background \cup Streamed : j = k
  PROVE  HeldOK'
<1>0. /\ setup \in [Setups -> Setup] /\ inst \in [Setups -> Record]
      /\ active \subseteq Background \cup Streamed
      /\ Background \cup Streamed \subseteq Setups
      /\ WaitEntry \in {"look", "sync"}
  BY DEF GateInv, GateTypeOK, Setups, WaitEntry
<1>1. CASE QueueStep \/ UNCHANGED gateVars
  BY <1>1 DEF QueueStep, gateVars, setupVars, HeldOK
<1>2. ASSUME NEW k \in Setups, SomeSetup(k)
      PROVE  HeldOK'
  <2>0. \A pc : Goto(k, pc) => /\ setup'[k].pc = pc
                              /\ \A j \in Setups : j # k => setup'[j] = setup[j]
    BY <1>0 DEF Goto, Setup
  <2>1. CASE k \in Direct
    <3>1. k \notin Background \cup Streamed
      BY <2>1, SetupAssumption
    <3>2. \A what : Write(k, what) => UNCHANGED inst
      BY <1>0, <3>1 DEF Write
    <3>3. ~StartCheck(k) /\ ~Bind(k) /\ ~Publish(k)
      BY <1>0, <3>1 DEF StartCheck, Bind, Publish, GateInv, CheckedOK, At
    <3>4. UNCHANGED <<active, inst>> /\ \A j \in Setups : j # k => setup'[j] = setup[j]
      BY <1>0, <1>2, <2>0, <3>2, <3>3
      DEF SomeSetup, SetupStep, Unsupported, Begin, ClientGone, StartDirect, SyncReady,
          LookAtItems, SeesIdle, SeesBusy, Wake, GiveUp, Stop, Hold, StartScript, StartFails,
          EndScript, Finish, Close
    <3> QED
      BY <1>0, <3>1, <3>4 DEF HeldOK
  <2>2. CASE k \in Background \cup Streamed
    <3>0. /\ \A j \in Background \cup Streamed : j = k
          /\ setup[k].pc \in {"idle", "checked"} => inst[k] = "idle"
          /\ setup[k].pc \notin {"idle", "checked", "over"} => k \in active
          /\ setup[k].pc \in Shut => inst[k] = "installing"
      BY <2>2 DEF HeldOK
    <3>1. SUFFICES /\ setup'[k].pc \in {"idle", "checked"} => inst'[k] = "idle"
                   /\ setup'[k].pc \notin {"idle", "checked", "over"} => k \in active'
                   /\ setup'[k].pc \in Shut => inst'[k] = "installing"
      BY <3>0 DEF HeldOK
    <3>2. \A what : Write(k, what) /\ k \in active => inst'[k] = what
      BY <1>0 DEF Write
    <3>3. CASE StartCheck(k) \/ Unsupported(k) \/ Begin(k) \/ ClientGone(k) \/ StartDirect(k)
      BY <1>0, <2>0, <2>2, <3>0, <3>3, SetupAssumption
      DEF StartCheck, Unsupported, Begin, ClientGone, StartDirect, At, Shut
    <3>4. CASE Publish(k)
      BY <1>0, <2>0, <3>4 DEF Publish, Shut
    <3>5. CASE Bind(k)
      <4>1. ~InstallRunning
        BY <1>0, <3>0, <3>5 DEF Bind, At, InstallRunning
      <4> QED
        BY <2>0, <3>5, <4>1 DEF Bind, Shut
    <3>6. CASE SyncReady(k) \/ Wake(k) \/ StartScript(k) \/ EndScript(k)
      BY <2>0, <3>0, <3>6 DEF SyncReady, Wake, StartScript, EndScript, At, Shut
    <3>7. CASE LookAtItems(k) \/ SeesIdle(k) \/ SeesBusy(k)
      BY <1>0, <3>0, <3>7 DEF LookAtItems, SeesIdle, SeesBusy, At, Shut, Setup
    <3>8. CASE Stop(k)
      BY <1>0, <3>0, <3>8 DEF Stop, At, Shut, Setup
    <3>9. CASE Hold(k)
      BY <2>0, <3>0, <3>2, <3>9 DEF Hold, At, Shut
    <3>10. CASE GiveUp(k) \/ StartFails(k) \/ Finish(k)
      BY <2>0, <3>10 DEF GiveUp, StartFails, Finish, Close, Shut
    <3> QED
      BY <1>2, <3>3, <3>4, <3>5, <3>6, <3>7, <3>8, <3>9, <3>10 DEF SomeSetup, SetupStep
  <2> QED
    BY <2>1, <2>2 DEF Setups
<1> QED
  BY <1>1, <1>2 DEF GateNext, SomeSetup

\* "PackageManagerHeld reports whether VNC setup currently owns the package
\* manager (script running ...)" is true of a process with one VNC setup
\* that is started in the background or streamed, next to any number of
\* setups that keep no record (StartBackgroundInstall, BindHTTPJob).
THEOREM HeldByOneSetup ==
  ASSUME \A j, k \in Background \cup Streamed : j = k
  PROVE  GateSpec => []HeldDuringScript
<1>1. GateInit => GateIs /\ GateInv /\ HeldOK
  <2>1. GateInit => GateIs
    BY DEF GateInit, Init, GateIs, PackageManagerHeld
  <2>2. GateInit => GateInv
    BY DEF GateInit, GateInv, GateTypeOK, ShutByScript, CheckedOK, Record, Setup
  <2>3. GateInit => HeldOK
    BY DEF GateInit, HeldOK, Shut, Setups
  <2> QED
    BY <2>1, <2>2, <2>3
<1>2. QueueInv /\ GateIs /\ GateInv /\ HeldOK /\ [GateNext]_gateVars =>
        GateIs' /\ GateInv' /\ HeldOK'
  BY GateIsStep, GateInvStep, HeldOKStep
<1>3. GateIs /\ HeldOK => HeldDuringScript
  <2> SUFFICES ASSUME GateIs, HeldOK, NEW k \in Background \cup Streamed,
                      setup[k].pc = "script"
               PROVE  held
    BY DEF HeldDuringScript
  <2>1. k \in active /\ inst[k] = "installing"
    BY DEF HeldOK, Shut
  <2> QED
    BY <2>1 DEF GateIs, PackageManagerHeld
<1> QED
  BY <1>1, <1>2, <1>3, QueueUnderSetups, PTL DEF GateSpec

\* While the gate stays shut a worker that is outside stays there, and no job
\* the queue started runs: what is left of "do not overlap destructively" once
\* the item the worker had when the gate was shut is finished.
THEOREM GateKeepsQueueOut == GateSpec => QueueStaysOut
<1>1. QueueInv /\ [Next]_vars /\ held /\ AtGate => AtGate'
  <2> SUFFICES ASSUME QueueInv, [Next]_vars, held, AtGate PROVE AtGate'
    OBVIOUS
  <2>1. CASE \E w \in Workers : WorkerStep(w)
    <3> PICK w \in Workers : WorkerStep(w)
      BY <2>1
    <3> QED
      BY DEF AtGate, WorkerStep, PassGate, Claim, FindNone, Exit, Skip, NotActive,
         PrepareFails, Prepare, Start, Collect, StartBrew, ApplyJobOwnership, EndBrew
  <2>2. CASE Kick
    BY <2>2, KickEffects DEF AtGate
  <2>3. CASE ~Kick /\ \A w \in Workers : ~WorkerStep(w)
    BY <2>3, OtherEffects DEF AtGate
  <2> QED
    BY <2>1, <2>2, <2>3
<1>2. QueueInv /\ AtGate => QueuedOver
  <2> SUFFICES ASSUME QueueInv, AtGate, NEW j \in DOMAIN job, job[j].queued
               PROVE  job[j].pc = "over"
    BY DEF QueuedOver
  <2>1. j # 0 /\ \A w \in Workers : worker[w].job = 0
    BY Elements DEF QueueInv, WorkerOK, AtGate
  <2> QED
    BY <2>1 DEF QueueInv, QueueOneByOne
<1>3. QueueInv' /\ AtGate' => QueuedOver'
  BY <1>2, PTL
<1>4. QueueInv /\ QueueInv' /\ GateIs /\ [GateNext]_gateVars =>
        [held /\ held' /\ AtGate => (AtGate /\ QueuedOver)']_gateVars
  BY <1>1, <1>3, StepRefines
<1>5. GateInit => GateIs
  BY DEF GateInit, Init, GateIs, PackageManagerHeld
<1>6. GateIs /\ [GateNext]_gateVars => GateIs'
  BY GateIsStep
<1> QED
  BY <1>4, <1>5, <1>6, QueueUnderSetups, PTL DEF GateSpec, QueueStaysOut
=============================================================================
