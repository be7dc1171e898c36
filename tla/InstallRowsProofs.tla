-------------------------- MODULE InstallRowsProofs --------------------------
(* What rows of the list and rows of the database tell of the jobs behind  *)
(* them: theorems about InstallQueue built on its inductive invariant.     *)
EXTENDS InstallQueueProofs, WellFoundedInduction

-----------------------------------------------------------------------------
(* Rows of the list *)

\* The worker's states in which it has claimed a row and not finished it.
AtItem == {"run", "prepare", "start", "wait", "brew", "brewed"}

\* A row is told its status and its job apart from each other (Start, and then
\* finishQueueItem): the status of a row that gets its job is "running", which
\* no failed row is.
ClaimedRuns ==
  \A w \in Workers : worker[w].pc \in AtItem => item[worker[w].item].status = "running"

FailedRowOK(i) ==
  item[i].status \in {"error", "cancelled"} /\ item[i].job # 0 =>
    item[i].job \in DOMAIN job /\ job[item[i].job].st \in {item[i].status, "dismissed"}

\* The inductive invariant behind FailedRowsMatchJob.
FailedRowsOK == \A i \in items : FailedRowOK(i)
RowsInv == QueueInv /\ ClaimedRuns /\ FailedRowsOK

\* A step leaves a failed row and the ending of its job as they were.
LEMMA KeptRow ==
  ASSUME QueueInv, [Next]_vars, NEW i, FailedRowOK(i), item'[i] = item[i]
  PROVE  FailedRowOK(i)'
<1>1. /\ DOMAIN job \subseteq DOMAIN job'
      /\ \A k \in DOMAIN job : job[k].st # "running" => job'[k].st \in {job[k].st, "dismissed"}
  BY JobEffects
<1>2. SUFFICES ASSUME item[i].status \in {"error", "cancelled"}, item[i].job # 0
               PROVE  item[i].job \in DOMAIN job' /\ job'[item[i].job].st \in {item[i].status, "dismissed"}
  BY DEF FailedRowOK
<1>3. item[i].job \in DOMAIN job /\ job[item[i].job].st \in {item[i].status, "dismissed"}
  BY <1>2 DEF FailedRowOK
<1> QED
  BY <1>1, <1>2, <1>3

\* finishQueueItem: the finished row tells the job's final status, if it has a
\* job, and no other row changes.
LEMMA FinishedRowTells ==
  ASSUME RowsInv, [Next]_vars, NEW i \in DOMAIN item, NEW status, NEW j,
         FinishItem(i, status, j),
         status \in {"success", "skipped"}
           \/ j = 0 \/ (j \in DOMAIN job /\ job[j].st = status /\ status # "running")
  PROVE  \A k \in items' : FailedRowOK(k)'
<1>0. /\ \A k \in DOMAIN item : item[k] \in Item
      /\ item \in Seq(Item) /\ items \subseteq DOMAIN item
      /\ DOMAIN job \subseteq DOMAIN job'
      /\ \A k \in DOMAIN job : job[k].st # "running" => job'[k].st \in {job[k].st, "dismissed"}
  BY Elements, JobEffects DEF RowsInv, QueueInv, TypeOK, QueueTypes
<1> TAKE k \in items'
<1>1. CASE k # i
  <2>1. k \in items /\ item'[k] = item[k]
    BY <1>0, <1>1 DEF FinishItem
  <2> QED
    BY <2>1, KeptRow DEF RowsInv, FailedRowsOK
<1>2. CASE k = i
  <2>1. status \notin {"success", "skipped"}
        /\ item' = [item EXCEPT ![i].job = j, ![i].status = status]
    BY <1>2 DEF FinishItem
  <2>2. item'[i].job = j /\ item'[i].status = status
    BY <1>0, <2>1 DEF Item
  <2> QED
    BY <1>0, <1>2, <2>1, <2>2 DEF FailedRowOK
<1> QED
  BY <1>1, <1>2

\* Every step of the worker keeps the failed rows true to their jobs and the
\* row the worker has claimed running.
LEMMA RowsWorkerStep ==
  ASSUME RowsInv, NEW w \in Workers, WorkerStep(w)
  PROVE  ClaimedRuns' /\ \A i \in items' : FailedRowOK(i)'
<1>0. /\ [Next]_vars /\ QueueInv /\ WorkerOK /\ JobOK
      /\ \A i \in DOMAIN item : item[i] \in Item
      /\ \A j \in DOMAIN job : job[j] \in Job
      /\ item \in Seq(Item) /\ items \subseteq DOMAIN item /\ 0 \notin DOMAIN item
      /\ worker \in [Workers -> Worker] /\ worker[w] \in Worker
  BY Elements DEF RowsInv, QueueInv, TypeOK, QueueTypes, WorkerTypes, Next
\* No other worker has claimed anything.
<1>1. \A v \in Workers : v # w => worker'[v].pc \notin AtItem
  <2>1. \A v \in Workers : v # w => worker[v].pc = "off" /\ worker'[v] = worker[v]
    BY <1>0, WorkerEffects DEF QueueInv, OneWorker, Alive
  <2> QED
    BY <2>1 DEF AtItem
<1>2. SUFFICES (worker'[w].pc \in AtItem => item'[worker'[w].item].status = "running")
               /\ \A i \in items' : FailedRowOK(i)'
  BY <1>1 DEF ClaimedRuns
<1>3. worker[w].pc \in AtItem => item[worker[w].item].status = "running"
  BY DEF RowsInv, ClaimedRuns
<1>4. CASE \/ PassGate(w) \/ FindNone(w) \/ Exit(w) \/ NotActive(w) \/ Prepare(w)
           \/ StartBrew(w) \/ ApplyJobOwnership(w)
  <2>0. UNCHANGED queueVars
    BY <1>4 DEF PassGate, FindNone, Exit, NotActive, Prepare, StartBrew, ApplyJobOwnership
  <2>1. \A i \in items' : FailedRowOK(i)'
    BY <1>0, <2>0, KeptRow DEF RowsInv, FailedRowsOK, queueVars
  <2>2. worker'[w].pc \in AtItem => worker[w].pc \in AtItem /\ worker'[w].item = worker[w].item
    <3>1. CASE PassGate(w) \/ FindNone(w) \/ Exit(w)
      BY <1>0, <3>1 DEF PassGate, FindNone, Exit, NoWork, AtItem, Worker
    <3>2. CASE NotActive(w) \/ StartBrew(w) \/ ApplyJobOwnership(w)
      BY <1>0, <3>2 DEF NotActive, StartBrew, ApplyJobOwnership, AtItem, Worker
    <3>3. CASE Prepare(w)
      <4>1. worker[w].pc = "prepare"
            /\ worker' = [worker EXCEPT ![w].pc = "start", ![w].job = Len(job) + 1]
        BY <3>3 DEF Prepare
      <4> QED
        BY <1>0, <4>1 DEF AtItem, Worker
    <3> QED
      BY <1>4, <3>1, <3>2, <3>3
  <2> QED
    BY <1>3, <2>0, <2>1, <2>2 DEF queueVars
<1>5. CASE Claim(w)
  <2>1. PICK i \in items : /\ item' = [item EXCEPT ![i].status = "running"]
                           /\ worker' = [worker EXCEPT ![w] = [pc |-> "run", item |-> i, job |-> 0]]
                           /\ items' = items
    BY <1>5 DEF Claim, Pending, Listed
  <2>2. item'[i].status = "running" /\ \A k \in items : k # i => item'[k] = item[k]
    BY <1>0, <2>1 DEF Item
  <2>3. \A k \in items : k # i => FailedRowOK(k)'
    BY <1>0, <2>2, KeptRow DEF RowsInv, FailedRowsOK
  <2> QED
    BY <1>0, <2>1, <2>2, <2>3 DEF FailedRowOK
<1>6. CASE Start(w)
  <2> DEFINE i == worker[w].item
  <2>1. /\ i \in DOMAIN item /\ item[i].status = "running"
        /\ item' = [item EXCEPT ![i].job = worker[w].job] /\ items' = items
        /\ worker' = [worker EXCEPT ![w].pc = "wait"]
    BY <1>0, <1>3, <1>6 DEF Start, WorkerOK, AtItem
  <2>2. item'[i].status = "running" /\ \A k \in items : k # i => item'[k] = item[k]
    BY <1>0, <2>1 DEF Item
  <2>3. \A k \in items : k # i => FailedRowOK(k)'
    BY <1>0, <2>2, KeptRow DEF RowsInv, FailedRowsOK
  <2>4. worker'[w].item = i
    BY <1>0, <2>1 DEF Worker
  <2> QED
    BY <2>1, <2>2, <2>3, <2>4 DEF FailedRowOK
\* The row is finished: by its job's ending, by a failed prepare or brew.
<1>7. ASSUME NEW status, NEW j, EndItem(w, status, j), worker[w].item \in DOMAIN item,
             status \in {"success", "skipped"}
               \/ j = 0 \/ (j \in DOMAIN job /\ job[j].st = status /\ status # "running")
      PROVE  worker'[w].pc \notin AtItem /\ \A i \in items' : FailedRowOK(i)'
  BY <1>0, <1>7, FinishedRowTells DEF EndItem, AtItem
<1>8. CASE Skip(w) \/ PrepareFails(w) \/ EndBrew(w)
  <2>1. worker[w].item \in DOMAIN item
    BY <1>0, <1>8 DEF Skip, PrepareFails, EndBrew, WorkerOK
  <2>2. \E status, j : /\ EndItem(w, status, j)
                       /\ status = "skipped" \/ j = 0
    BY <1>8 DEF Skip, PrepareFails, EndBrew
  <2> QED
    BY <1>7, <2>1, <2>2
<1>9. CASE Collect(w)
  <2>1. /\ worker[w].item \in DOMAIN item /\ worker[w].job \in DOMAIN job
        /\ job[worker[w].job].pc = "over"
        /\ EndItem(w, job[worker[w].job].st, worker[w].job)
    BY <1>0, <1>9 DEF Collect, RunnerReturned, WorkerOK
  <2>2. job[worker[w].job].st # "running"
    BY <1>0, <2>1 DEF JobOK
  <2> QED
    BY <1>7, <2>1, <2>2
<1> QED
  BY <1>4, <1>5, <1>6, <1>8, <1>9 DEF WorkerStep

\* Nobody but the worker writes a listed row: handlers append pending ones and
\* take rows off.
LEMMA RowsStep ==
  ASSUME RowsInv, [Next]_vars
  PROVE  ClaimedRuns' /\ \A i \in items' : FailedRowOK(i)'
<1>0. QueueInv /\ ClaimedRuns /\ WorkerOK /\ items \subseteq DOMAIN item
  BY Elements DEF RowsInv, QueueInv, TypeOK, QueueTypes
<1>1. CASE \E w \in Workers : WorkerStep(w)
  BY <1>1, RowsWorkerStep
<1>2. CASE Kick
  <2>1. \A i \in items' : FailedRowOK(i)'
    BY <1>0, <1>2, KickEffects, KeptRow DEF RowsInv, FailedRowsOK
  <2>2. UNCHANGED item /\ \A v \in Workers : worker'[v].item = worker[v].item
                                             /\ worker'[v].pc \in {worker[v].pc, "gate"}
    BY <1>0, <1>2, KickEffects
  <2> QED
    BY <1>0, <2>1, <2>2 DEF ClaimedRuns, AtItem
<1>3. CASE ~Kick /\ \A w \in Workers : ~WorkerStep(w)
  <2>1. UNCHANGED worker /\ (Added \/ Removed)
    BY <1>0, <1>3, OtherEffects
  <2>2. /\ \A i \in DOMAIN item : item'[i] = item[i]
        /\ \A i \in items' : i \in items \/ item'[i].status = "pending"
    BY <2>1 DEF Added, Removed
  <2>3. \A i \in items' : FailedRowOK(i)'
    <3> TAKE i \in items'
    <3>1. CASE i \in items
      BY <1>0, <2>2, <3>1, KeptRow DEF RowsInv, FailedRowsOK
    <3>2. CASE item'[i].status = "pending"
      BY <3>2 DEF FailedRowOK
    <3> QED
      BY <2>2, <3>1, <3>2
  <2>4. ClaimedRuns'
    BY <1>0, <2>1, <2>2 DEF ClaimedRuns, WorkerOK, AtItem
  <2> QED
    BY <2>3, <2>4
<1> QED
  BY <1>1, <1>2, <1>3

\* The rows of the list in every reachable state.
THEOREM RowsInvariance == Spec => []RowsInv
<1>1. Init => ClaimedRuns /\ FailedRowsOK
  BY DEF Init, ClaimedRuns, AtItem, NoWork, FailedRowsOK
<1>2. QueueInv /\ ClaimedRuns /\ FailedRowsOK /\ [Next]_vars => (ClaimedRuns /\ FailedRowsOK)'
  BY RowsStep DEF RowsInv, FailedRowsOK
<1> QED
  BY <1>1, <1>2, Invariance, PTL DEF Spec, RowsInv

\* A failed or cancelled row of the Installing list tells how the job it names
\* ended, whatever cancels, dismissals and other installs of the software
\* happen in between (runQueuedInstall, finishQueueItem, dismissJob).
THEOREM FailedRowsTellJob == Spec => []FailedRowsMatchJob
<1>1. RowsInv => FailedRowsMatchJob
  BY DEF RowsInv, FailedRowsOK, FailedRowsMatchJob, FailedRowOK, Listed
<1> QED
  BY <1>1, RowsInvariance, PTL

-----------------------------------------------------------------------------
(* Handlers *)

\* Handlers alone change what handlers have under way.
LEMMA OnlyHandlers ==
  ASSUME [Next]_vars, \A c \in Clients : ~RequestStep(c) /\ ~OwnerStep(c)
  PROVE  UNCHANGED request
<1>1. ASSUME NEW w \in Workers, WorkerStep(w) PROVE UNCHANGED request
  BY <1>1 DEF WorkerStep, PassGate, Claim, FindNone, Exit, Skip, NotActive, PrepareFails,
     Prepare, Start, Collect, StartBrew, ApplyJobOwnership, EndBrew, EndItem, apiVars
<1>2. ASSUME NEW j \in DOMAIN job, JobStep(j) PROVE UNCHANGED request
  BY <1>2 DEF JobStep, ScriptStep, Acquire, AcquireAborts, EndCancelled, EndFailed, EndOK,
     Mark, MarkFails, FinishUninstall, FinishInstall, StartCustom, EndCustom, Release,
     Expire, Prune, Cancel, Runner, apiVars
<1>3. ASSUME UNCHANGED vars \/ Kick \/ Enqueue \/ DismissStep \/ SyncStep
             \/ TakeGate \/ FreeGate
      PROVE  UNCHANGED request
  BY <1>3 DEF vars, Kick, Enqueue, DismissStep, DismissRows, DismissJob,
     SyncStep, SyncList, SyncProbe, SyncFails, SyncSnapshot, SyncCheck, SyncAppend,
     TakeGate, FreeGate, apiVars
<1> QED
  BY <1>1, <1>2, <1>3 DEF Next

\* The operation a handler is at.
Operation(pc) ==
  CASE pc \in {"prepare", "start"} -> "stream"
    [] pc \in {"legacy", "mark"} -> "legacy"
    [] pc \in {"drop", "switch", "await", "jobs", "formula", "owner"} -> "switch"
    [] pc \in {"adopt", "forget"} -> "brewsync"
    [] OTHER -> pc

\* Handlers are at operations that are served.
ServedOK == \A c \in Clients : request[c].pc # "idle" => Operation(request[c].pc) \in Workload

LEMMA ServedStep ==
  ASSUME QueueInv, ServedOK, [Next]_vars
  PROVE  ServedOK'
<1>0. request \in [Clients -> Request]
  BY DEF QueueInv, TypeOK, APITypes
<1>1. ASSUME NEW c \in Clients, RequestStep(c)
      PROVE  ServedOK'
  <2>1. request[c].pc # "idle" => Operation(request[c].pc) \in Workload
    BY DEF ServedOK
  <2>2. ASSUME NEW pc, NEW for, NEW a, NEW j, SetRequest(c, pc, for, a, j),
               pc # "idle" => Operation(pc) \in Workload
        PROVE  ServedOK'
    <3>1. request'[c].pc = pc /\ \A d \in Clients : d # c => request'[d] = request[d]
      BY <1>0, <2>2 DEF SetRequest
    <3> QED
      BY <2>2, <3>1 DEF ServedOK
  <2>3. CASE \/ BrewAppend(c) \/ RetryAppend(c) \/ StreamPrepareFails(c) \/ StreamStart(c)
             \/ LegacyFails(c) \/ LegacyMark(c)
    <3>1. SetRequest(c, "idle", {}, "install", 0)
      BY <2>3 DEF BrewAppend, RetryAppend, StreamPrepareFails, StreamStart, LegacyFails, LegacyMark
    <3> QED
      BY <2>2, <3>1
  <2>4. CASE BrewCheck(c)
    BY <2>2, <2>4, Zenon DEF BrewCheck, Operation
  <2>5. CASE \/ \E i \in items : RetryTake(c, i)
             \/ \E s \in Softwares, a \in UserActions : RetrySoftware(c, s, a)
    <3>1. "retry" \in Workload /\ \E for, a : SetRequest(c, "retry", for, a, 0)
      BY <2>5 DEF RetryTake, RetrySoftware
    <3> QED
      BY <2>2, <3>1 DEF Operation
  <2>6. CASE \E s \in Softwares : StreamCheck(c, s) \/ LegacyStart(c, s)
    <3>1. \E s \in Softwares : \/ "stream" \in Workload /\ SetRequest(c, "prepare", {s}, "install", 0)
                               \/ "legacy" \in Workload /\ SetRequest(c, "legacy", {s}, "install", 0)
      BY <2>6 DEF StreamCheck, LegacyStart
    <3> QED
      BY <2>2, <3>1 DEF Operation
  <2>7. CASE StreamPrepare(c)
    BY <2>1, <2>2, <2>7 DEF StreamPrepare, Operation
  <2>8. CASE LegacyInstalls(c)
    BY <2>1, <2>2, <2>8 DEF LegacyInstalls, Operation
  <2> QED
    BY <1>1, <2>3, <2>4, <2>5, <2>6, <2>7, <2>8 DEF RequestStep
<1>2. ASSUME NEW c \in Clients, OwnerStep(c)
      PROVE  ServedOK'
  <2>1. request[c].pc # "idle" => Operation(request[c].pc) \in Workload
    BY DEF ServedOK
  <2>2. /\ \A d \in Clients : d # c => request'[d] = request[d]
        /\ request'[c].pc \in OwnerStates
    BY <1>2, OwnerEffects DEF QueueInv
  <2>3. SUFFICES request'[c].pc # "idle" => Operation(request'[c].pc) \in Workload
    BY <2>2 DEF ServedOK
  <2>4. ASSUME NEW pc, NEW for, NEW a, NEW j, SetRequest(c, pc, for, a, j)
        PROVE  request'[c].pc = pc
    BY <1>0, <2>4 DEF SetRequest
  <2>5. ASSUME NEW pc, Proceed(c, pc)
        PROVE  request'[c].pc = pc
    BY <1>0, <2>5 DEF Proceed, Request
  <2>6. CASE \E s \in Softwares : SwitchPackageManager(c, s)
    <3>1. "switch" \in Workload /\ request'[c].pc \in {"drop", "formula"}
      BY <2>4, <2>6 DEF SwitchPackageManager
    <3> QED
      BY <3>1 DEF Operation
  <2>7. CASE SwitchDrops(c) \/ EnqueueActions(c) \/ SwitchLooks(c) \/ SwitchLeavesBrew(c)
    <3>1. /\ request[c].pc \in {"drop", "switch", "await", "jobs", "formula"}
          /\ \E pc \in {"drop", "switch", "await", "jobs", "formula", "owner"} : Proceed(c, pc)
      BY <2>7 DEF SwitchDrops, EnqueueActions, SwitchLooks, SwitchLeavesBrew
    <3>2. request'[c].pc \in {"drop", "switch", "await", "jobs", "formula", "owner"}
      BY <2>5, <3>1
    <3> QED
      BY <2>1, <3>1, <3>2 DEF Operation
  <2>8. CASE SwitchFails(c) \/ SwitchOwns(c) \/ BrewSyncAdopts(c)
    BY <2>4, <2>8 DEF SwitchFails, SwitchOwns, BrewSyncAdopts
  <2>9. CASE BrewSyncLists(c) \/ \E s \in Softwares : BrewSyncReads(c, s)
    <3>1. "brewsync" \in Workload /\ request'[c].pc \in {"adopt", "forget"}
      BY <2>4, <2>9 DEF BrewSyncLists, BrewSyncReads
    <3> QED
      BY <3>1 DEF Operation
  <2>10. CASE BrewSyncForgets(c)
    <3>1. request[c].pc = "forget" /\ request'[c].pc \in {"idle", "forget"}
      BY <2>4, <2>10 DEF BrewSyncForgets
    <3> QED
      BY <2>1, <3>1
  <2> QED
    BY <1>2, <2>6, <2>7, <2>8, <2>9, <2>10 DEF OwnerStep
<1> QED
  BY <1>1, <1>2, OnlyHandlers DEF ServedOK

\* Handlers in every reachable state.
THEOREM Served == Spec => []ServedOK
<1>1. Init => ServedOK
  BY DEF Init, ServedOK, NoRequest
<1>2. QueueInv /\ ServedOK /\ [Next]_vars => ServedOK'
  BY ServedStep
<1> QED
  BY <1>1, <1>2, Invariance, PTL DEF Spec

-----------------------------------------------------------------------------
(* Rows that leave the list *)

\* A set of numbers that is not empty has a least element.
LEMMA LeastElement ==
  ASSUME NEW S \in SUBSET Nat, S # {}
  PROVE  \E x \in S : \A y \in S : x <= y
<1> DEFINE Less == {p \in Nat \X Nat : p[1] < p[2]}
<1>1. IsWellFoundedOn(Less, Nat)
  BY NatLessThanWellFounded DEF OpToRel
<1> HIDE DEF Less
<1>2. PICK x \in S : \A y \in S : <<y, x>> \notin Less
  BY <1>1, WFMin
<1>3. ASSUME NEW y \in S, y < x
      PROVE  FALSE
  <2>1. <<y, x>> \in Less
    BY <1>3 DEF Less
  <2> QED
    BY <1>2, <2>1
<1>4. \A y \in S : x <= y
  <2> TAKE y \in S
  <2>1. x \in Nat /\ y \in Nat
    OBVIOUS
  <2> QED
    BY <1>3, <2>1
<1> QED
  BY <1>4

\* trimQueueLocked leaves at most MaxQueue rows, and takes none of a list that
\* is within the cap.
LEMMA TrimmedSize ==
  ASSUME NEW S \in SUBSET Nat, IsFiniteSet(S)
  PROVE  /\ Trim(S) \subseteq S /\ IsFiniteSet(Trim(S))
         /\ Cardinality(Trim(S)) <= MaxQueue
         /\ Cardinality(S) <= MaxQueue => Trim(S) = S
<1> DEFINE Newer(i) == {k \in S : k > i}
<1>0. /\ MaxQueue \in Nat \ {0} /\ Trim(S) \subseteq S /\ IsFiniteSet(Trim(S))
      /\ \A i \in Trim(S) : Cardinality(Newer(i)) < MaxQueue
      /\ \A i \in S \ Trim(S) : ~(Cardinality(Newer(i)) < MaxQueue)
  BY InstanceAssumption, FS_Subset DEF Trim
<1>1. \A i : IsFiniteSet(Newer(i)) /\ Cardinality(Newer(i)) \in Nat
  BY FS_Subset, FS_CardinalityType
<1>2. Trim(S) = {} => Cardinality(Trim(S)) <= MaxQueue
  BY <1>0, FS_EmptySet
<1>3. ASSUME Trim(S) # {}
      PROVE  Cardinality(Trim(S)) <= MaxQueue
  <2>1. PICK x \in Trim(S) : \A y \in Trim(S) : x <= y
    BY <1>0, <1>3, LeastElement
  <2>2. x \in Nat /\ \A y \in Trim(S) : y \in Nat /\ y \in S
    BY <1>0
  <2>3. \A y \in Trim(S) : y = x \/ y > x
    BY <2>1, <2>2
  <2>4. Trim(S) \subseteq Newer(x) \cup {x} /\ x \notin Newer(x)
    <3>1. ~(x > x)
      BY <2>2
    <3>2. \A y \in Trim(S) : y = x \/ y \in Newer(x)
      BY <2>2, <2>3
    <3> QED
      BY <3>1, <3>2
  <2>5. /\ IsFiniteSet(Newer(x) \cup {x})
        /\ Cardinality(Newer(x) \cup {x}) = Cardinality(Newer(x)) + 1
    BY <1>1, <2>4, FS_AddElement
  <2>6. Cardinality(Trim(S)) <= Cardinality(Newer(x) \cup {x})
    BY <2>4, <2>5, FS_Subset
  <2>7. /\ Cardinality(Newer(x)) < MaxQueue /\ Cardinality(Newer(x)) \in Nat
        /\ Cardinality(Trim(S)) \in Nat
    BY <1>0, <1>1, FS_CardinalityType
  <2> HIDE DEF Newer
  <2> QED
    BY <1>0, <2>5, <2>6, <2>7
<1>4. ASSUME Cardinality(S) <= MaxQueue, NEW i \in S
      PROVE  i \in Trim(S)
  <2>1. IsFiniteSet(S \ {i}) /\ Cardinality(S \ {i}) = Cardinality(S) - 1
    BY FS_RemoveElement
  <2>2. Newer(i) \subseteq S \ {i}
    BY <1>0
  <2>3. Cardinality(Newer(i)) <= Cardinality(S \ {i})
    BY <2>1, <2>2, FS_Subset
  <2>4. Cardinality(S) \in Nat
    BY FS_CardinalityType
  <2>5. Cardinality(Newer(i)) < MaxQueue
    <3> HIDE DEF Newer
    <3> QED
      BY <1>0, <1>1, <1>4, <2>1, <2>3, <2>4
  <2> QED
    BY <1>0, <2>5
<1> HIDE DEF Newer
<1> QED
  BY <1>0, <1>2, <1>3, <1>4

\* The list and what is appended to it are finite sets of numbers.
LEMMA ListFinite ==
  ASSUME TypeOK, TypeOK'
  PROVE  LET ids == items \cup (Len(item) + 1)..Len(item')
         IN  /\ items \in SUBSET Nat /\ IsFiniteSet(items)
             /\ ids \in SUBSET Nat /\ IsFiniteSet(ids)
<1>1. items \subseteq 1..Len(item) /\ Len(item) \in Nat /\ Len(item') \in Nat
  BY LenProperties DEF TypeOK, QueueTypes
<1>2. IsFiniteSet(1..Len(item)) /\ IsFiniteSet((Len(item) + 1)..Len(item'))
  BY <1>1, FS_Interval
<1>3. IsFiniteSet(items)
  BY <1>1, <1>2, FS_Subset
<1>4. items \in SUBSET Nat /\ (Len(item) + 1)..Len(item') \in SUBSET Nat
  BY <1>1
<1> QED
  BY <1>2, <1>3, <1>4, FS_Union

\* An append drops no row, old or new, that the cap leaves room for (trimQueueLocked).
LEMMA AppendedRows ==
  ASSUME RowsInv, TypeOK', NEW recs, NEW trimmed, AddItems(recs, trimmed)
  PROVE  \A i \in items \cup (Len(item) + 1)..Len(item') : i \in items' \/ TrimmedRow(i)
<1> DEFINE ids == items \cup (Len(item) + 1)..Len(item')
<1>1. items' = IF trimmed THEN Trim(ids) ELSE ids
  BY DEF AddItems
<1>2. IsFiniteSet(ids)
  BY ListFinite DEF RowsInv, QueueInv
<1>3. ASSUME NEW i \in ids, i \notin items'
      PROVE  Cardinality({k \in ids : k > i}) >= MaxQueue
  <2>1. ~(Cardinality({k \in ids : k > i}) < MaxQueue)
    BY <1>1, <1>3 DEF Trim
  <2>2. Cardinality({k \in ids : k > i}) \in Nat
    BY <1>2, FS_Subset, FS_CardinalityType
  <2> QED
    BY <2>1, <2>2, InstanceAssumption
<1> QED
  BY <1>3 DEF TrimmedRow

\* The worker takes no row but the one it finishes.
LEMMA WorkerRows ==
  ASSUME RowsInv, NEW w \in Workers, WorkerStep(w)
  PROVE  \A i \in items \ items' : FinishedRow(i)
<1>0. WorkerOK /\ ClaimedRuns /\ worker \in [Workers -> Worker]
  BY DEF RowsInv, QueueInv, TypeOK, WorkerTypes
<1>1. CASE \/ PassGate(w) \/ Claim(w) \/ FindNone(w) \/ Exit(w) \/ NotActive(w)
           \/ Prepare(w) \/ Start(w) \/ StartBrew(w) \/ ApplyJobOwnership(w)
  BY <1>1 DEF PassGate, Claim, FindNone, Exit, NotActive, Prepare, Start, StartBrew,
     ApplyJobOwnership, queueVars
<1>2. CASE Skip(w) \/ PrepareFails(w) \/ Collect(w) \/ EndBrew(w)
  <2>1. worker[w].pc \in AtItem /\ \E status, j : EndItem(w, status, j)
    BY <1>2 DEF Skip, PrepareFails, Collect, EndBrew, AtItem
  <2>2. /\ items \ items' \subseteq {worker[w].item} /\ worker'[w].item = 0
    BY <1>0, <2>1 DEF EndItem, FinishItem
  <2>3. item[worker[w].item].status = "running"
    BY <1>0, <2>1 DEF ClaimedRuns
  <2> QED
    BY <2>2, <2>3 DEF FinishedRow
<1> QED
  BY <1>1, <1>2 DEF WorkerStep

\* A runner takes the pending installs of the software it uninstalled.
LEMMA RunnerRows ==
  ASSUME RowsInv, NEW j \in DOMAIN job, JobStep(j)
  PROVE  UNCHANGED item /\ \A i \in items \ items' : UninstalledRow(i)
<1>0. job[j] \in Job /\ JobOK
  BY Elements DEF RowsInv, QueueInv
<1>1. CASE FinishUninstall(j)
  <2>1. /\ UNCHANGED item /\ job[j].st = "running" /\ job[j].mode = "uninstall"
        /\ items' = items \ PendingInstalls(job[j].sw)
        /\ job'[j].st = "success"
    BY <1>0, <1>1 DEF FinishUninstall, FinishJob, JobOK, Job
  <2> QED
    BY <2>1 DEF PendingInstalls, Pending, Listed, UninstalledRow
<1>2. CASE ~FinishUninstall(j)
  BY <1>2 DEF JobStep, ScriptStep, Acquire, AcquireAborts, EndCancelled, EndFailed, EndOK,
     Mark, MarkFails, FinishInstall, StartCustom, EndCustom, Release, Expire, Prune, Cancel,
     Runner, queueVars
<1> QED
  BY <1>1, <1>2

\* A handler takes the row it retries, appends, or leaves the list alone.
LEMMA RequestRows ==
  ASSUME RowsInv, NEW c \in Clients, RequestStep(c)
  PROVE  \/ UNCHANGED item /\ \A i \in items \ items' : RetriedRow(i)
         \/ \E recs, trimmed : AddItems(recs, trimmed)
<1>0. request \in [Clients -> Request]
  BY DEF RowsInv, QueueInv, TypeOK, APITypes
<1>1. ASSUME NEW i \in items, RetryTake(c, i)
      PROVE  UNCHANGED item /\ \A k \in items \ items' : RetriedRow(k)
  BY <1>0, <1>1 DEF RetryTake, SetRequest, RetriedRow
<1>2. CASE BrewAppend(c) \/ RetryAppend(c)
  BY <1>2 DEF BrewAppend, RetryAppend
<1>3. CASE /\ ~BrewAppend(c) /\ ~RetryAppend(c) /\ \A i \in items : ~RetryTake(c, i)
  BY <1>3 DEF RequestStep, BrewCheck, RetrySoftware, StreamCheck, StreamPrepareFails,
     StreamPrepare, StreamStart, LegacyStart, LegacyFails, LegacyInstalls, LegacyMark, queueVars
<1> QED
  BY <1>1, <1>2, <1>3

\* The switch appends, or drops the pending installs of its software.
LEMMA OwnerRows ==
  ASSUME RowsInv, NEW c \in Clients, OwnerStep(c)
  PROVE  \/ UNCHANGED item /\ \A i \in items \ items' : SwitchedRow(i)
         \/ \E recs : AddItems(recs, TRUE)
<1>0. request \in [Clients -> Request]
  BY DEF RowsInv, QueueInv, TypeOK, APITypes
<1>1. CASE SwitchDrops(c)
  <2>1. /\ UNCHANGED item /\ request[c].pc = "drop"
        /\ items' = items \ UNION {PendingInstalls(s) : s \in request[c].for}
        /\ request' = [request EXCEPT ![c].pc = "switch"]
    BY <1>1 DEF SwitchDrops, Proceed
  <2>2. request'[c].pc = "switch"
    BY <1>0, <2>1 DEF Request
  <2>3. ASSUME NEW i \in items \ items'
        PROVE  SwitchedRow(i)
    <3>1. PICK s \in request[c].for : i \in PendingInstalls(s)
      BY <2>1, <2>3
    <3>2. item[i].sw = s /\ item[i].action = "install" /\ item[i].status = "pending"
      BY <3>1 DEF PendingInstalls, Pending, Listed
    <3> QED
      BY <2>1, <2>2, <3>1, <3>2 DEF SwitchedRow
  <2> QED
    BY <2>1, <2>3
<1>2. CASE EnqueueActions(c)
  BY <1>2 DEF EnqueueActions
<1>3. CASE ~SwitchDrops(c) /\ ~EnqueueActions(c)
  BY <1>3 DEF OwnerStep, SwitchPackageManager, SwitchLooks, SwitchFails, SwitchLeavesBrew,
     SwitchOwns, BrewSyncReads, BrewSyncAdopts, BrewSyncLists, BrewSyncForgets, queueVars
<1> QED
  BY <1>1, <1>2, <1>3

\* Every row that leaves the list, and every new one that does not get on it,
\* does so for a reason.
LEMMA RowsLeave ==
  ASSUME RowsInv, TypeOK', [Next]_vars
  PROVE  /\ \A i \in items \ items' : LeavesWithCause(i)
         /\ \A i \in (Len(item) + 1)..Len(item') : i \in items' \/ TrimmedRow(i)
<1>0. Len(item) \in Nat /\ QueueInv /\ TypeOK
  BY Elements DEF RowsInv, QueueInv
<1> USE DEF LeavesWithCause
<1>1. ASSUME \E recs, trimmed : AddItems(recs, trimmed)
      PROVE  /\ \A i \in items \ items' : LeavesWithCause(i)
             /\ \A i \in (Len(item) + 1)..Len(item') : i \in items' \/ TrimmedRow(i)
  BY <1>1, AppendedRows
<1>2. ASSUME Len(item') = Len(item)
      PROVE  \A i \in (Len(item) + 1)..Len(item') : i \in items' \/ TrimmedRow(i)
  BY <1>0, <1>2
<1>3. CASE \E w \in Workers : WorkerStep(w)
  <2>1. PICK w \in Workers : WorkerStep(w)
    BY <1>3
  <2>2. Len(item') = Len(item)
    <3>1. DOMAIN item' = DOMAIN item
      BY <1>0, <2>1, WorkerEffects
    <3>2. Len(item') \in Nat /\ DOMAIN item' = 1..Len(item') /\ DOMAIN item = 1..Len(item)
      BY LenProperties DEF RowsInv, QueueInv, TypeOK, QueueTypes
    <3>3. \A m, n \in Nat : 1..m = 1..n => m = n
      <4> SUFFICES ASSUME NEW m \in Nat, NEW n \in Nat, 1..m = 1..n PROVE m = n
        OBVIOUS
      <4>1. m + 1 \notin 1..n /\ n + 1 \notin 1..m
        OBVIOUS
      <4> QED
        BY <4>1
    <3> QED
      BY <1>0, <3>1, <3>2, <3>3
  <2> QED
    BY <1>2, <2>1, <2>2, WorkerRows
<1>4. CASE \E j \in DOMAIN job : JobStep(j)
  BY <1>2, <1>4, RunnerRows
<1>5. CASE \E c \in Clients : RequestStep(c)
  BY <1>1, <1>2, <1>5, RequestRows
<1>6. CASE Enqueue \/ SyncAppend
  BY <1>1, <1>6 DEF Enqueue, SyncAppend
<1>9. CASE \E c \in Clients : OwnerStep(c)
  BY <1>1, <1>2, <1>9, OwnerRows
<1>7. CASE DismissStep
  <2>1. /\ UNCHANGED <<item, workerVars>>
        /\ \A i \in items \ items' : item[i].status \notin {"pending", "running"}
    BY <1>7 DEF DismissStep, DismissRows, DismissJob, DismissedRows, queueVars
  <2> QED
    BY <1>2, <2>1 DEF DismissedRow
<1>8. CASE UNCHANGED vars \/ Kick \/ (SyncStep /\ ~SyncAppend) \/ TakeGate \/ FreeGate
  <2>1. UNCHANGED queueVars
    BY <1>8 DEF vars, Kick, SyncStep, SyncList, SyncProbe, SyncFails, SyncSnapshot, SyncCheck,
       TakeGate, FreeGate
  <2> QED
    BY <1>2, <2>1 DEF queueVars
<1> QED
  BY <1>3, <1>4, <1>5, <1>6, <1>7, <1>8, <1>9 DEF Next

\* Whatever handlers, runners, the worker and the reconcile do to bulkQueue in
\* whatever order, a row disappears only because it was retried, trimmed by the
\* cap, dropped by an uninstall or by a change of owner, finished by its worker,
\* or dismissed once it had ended (queue.go).
THEOREM NoRowLost == Spec => RowsLeaveWithCause
<1>1. RowsInv /\ TypeOK' /\ [Next]_vars =>
        [/\ \A i \in items \ items' : LeavesWithCause(i)
         /\ \A i \in (Len(item) + 1)..Len(item') : i \in items' \/ TrimmedRow(i)]_vars
  BY RowsLeave
<1> QED
  BY <1>1, RowsInvariance, TypeCorrect, PTL DEF Spec, RowsLeaveWithCause

\* The list is within its cap.
Capped == Cardinality(items) <= MaxQueue

\* Where nobody retries a row, which alone appends without trimming, the list
\* never grows over its cap, however many items requests, brew actions, the
\* change of an owner and the reconcile append at a time (trimQueueLocked).
THEOREM ListCapped ==
  ASSUME "retry" \notin Workload
  PROVE  Spec => []Capped
<1>1. Init => Capped
  BY InstanceAssumption, FS_EmptySet DEF Init, Capped
<1>2. RowsInv /\ ServedOK /\ Capped /\ TypeOK' /\ [Next]_vars => Capped'
  <2> SUFFICES ASSUME RowsInv, ServedOK, Capped, TypeOK', [Next]_vars
               PROVE  Capped'
    OBVIOUS
  <2>0. /\ QueueInv /\ TypeOK /\ IsFiniteSet(items) /\ MaxQueue \in Nat
    BY ListFinite, InstanceAssumption DEF RowsInv, QueueInv
  <2>1. ASSUME NEW recs, AddItems(recs, TRUE)
        PROVE  Capped'
    <3> DEFINE ids == items \cup (Len(item) + 1)..Len(item')
    <3>1. items' = Trim(ids)
      BY <2>1 DEF AddItems
    <3>2. Cardinality(Trim(ids)) <= MaxQueue
      BY <2>0, ListFinite, TrimmedSize
    <3> QED
      BY <3>1, <3>2 DEF Capped
  <2>2. ASSUME items' \subseteq items
        PROVE  Capped'
    <3>1. /\ Cardinality(items') <= Cardinality(items)
          /\ Cardinality(items') \in Nat /\ Cardinality(items) \in Nat
      BY <2>0, <2>2, FS_Subset, FS_CardinalityType
    <3> QED
      BY <2>0, <3>1 DEF Capped
  <2>3. CASE Enqueue \/ SyncAppend
    <3>1. \E recs : AddItems(recs, TRUE)
      BY <2>3 DEF Enqueue, SyncAppend
    <3> QED
      BY <2>1, <3>1
  <2>4. CASE \E w \in Workers : WorkerStep(w)
    BY <2>0, <2>2, <2>4, WorkerEffects
  <2>5. CASE \E j \in DOMAIN job : JobStep(j)
    <3>1. items' \subseteq items
      BY <2>5 DEF JobStep, ScriptStep, Acquire, AcquireAborts, EndCancelled, EndFailed, EndOK,
         Mark, MarkFails, FinishUninstall, FinishInstall, StartCustom, EndCustom, Release,
         Expire, Prune, Cancel, Runner, queueVars
    <3> QED
      BY <2>2, <3>1
  <2>6. CASE \E c \in Clients : RequestStep(c)
    <3> PICK c \in Clients : RequestStep(c)
      BY <2>6
    <3>1. ~RetryAppend(c)
      BY DEF RetryAppend, ServedOK, Operation
    <3>2. items' \subseteq items \/ \E recs : AddItems(recs, TRUE)
      BY <3>1 DEF RequestStep, BrewCheck, BrewAppend, RetryTake, RetrySoftware, StreamCheck,
         StreamPrepareFails, StreamPrepare, StreamStart, LegacyStart, LegacyFails,
         LegacyInstalls, LegacyMark, queueVars
    <3> QED
      BY <2>1, <2>2, <3>2
  <2>8. CASE \E c \in Clients : OwnerStep(c)
    <3> PICK c \in Clients : OwnerStep(c)
      BY <2>8
    <3>1. CASE EnqueueActions(c)
      BY <2>1, <3>1 DEF EnqueueActions
    <3>2. CASE ~EnqueueActions(c)
      BY <2>0, <2>2, <3>2, OwnerEffects
    <3> QED
      BY <3>1, <3>2
  <2>7. CASE UNCHANGED vars \/ Kick \/ DismissStep \/ (SyncStep /\ ~SyncAppend) \/ TakeGate \/ FreeGate
    <3>1. items' \subseteq items
      BY <2>7 DEF vars, Kick, DismissStep, DismissRows, DismissJob, SyncStep, SyncList, SyncProbe,
         SyncFails, SyncSnapshot, SyncCheck, TakeGate, FreeGate, queueVars
    <3> QED
      BY <2>2, <3>1
  <2> QED
    BY <2>3, <2>4, <2>5, <2>6, <2>7, <2>8 DEF Next
<1> QED
  BY <1>1, <1>2, RowsInvariance, Served, TypeCorrect, PTL DEF Spec

-----------------------------------------------------------------------------
(* Rows of the database and the host *)

\* The job's script is done and nothing has failed since.
Done(j, pcs) == job[j].pc \in pcs \/ (job[j].pc = "persist" /\ job[j].st = "success")

HostOK(j) ==
  Done(j, {"mark", "marked", "custom"}) => (job[j].mode = "install" <=> job[j].sw \in host)
RowOK(j) ==
  /\ Done(j, {"marked", "custom"}) =>
       row[job[j].sw] = IF job[j].mode = "install" THEN "local" ELSE "uninstalled"
  /\ job[j].mode = "uninstall" => row[job[j].sw] # "none"
  /\ job[j].pc = "custom" => job[j].mode = "install"

\* No handler is at what writes the host or a row without installSerial, and no
\* worker runs brew, which writes rows likewise.
OtherWriters == {"legacy", "mark", "formula", "owner", "adopt", "forget"}
NoOtherWriter ==
  /\ \A c \in Clients : request[c].pc \notin OtherWriters
  /\ \A w \in Workers : worker[w].pc \notin {"brew", "brewed"}

DoneIsOnHost == \A j \in DOMAIN job : HostOK(j) /\ RowOK(j)

\* The inductive invariant behind SuccessIsOnHost, where no write of a row fails
\* and the runners alone write rows and host.
HostInv == QueueInv /\ NoOtherWriter /\ DoneIsOnHost

\* The runner of a job keeps its own promise ...
LEMMA RunnerOwn ==
  ASSUME HostInv, "db" \notin Faults, NEW j \in DOMAIN job, JobStep(j)
  PROVE  /\ HostOK(j)' /\ RowOK(j)'
         /\ \A s \in Softwares : row[s] # "none" => row'[s] # "none"
         /\ job[j].pc \in Holding \/ UNCHANGED hostVars
         /\ \A k \in DOMAIN job : job'[k].mode = job[k].mode /\ job'[k].sw = job[k].sw
<1>0. /\ job \in Seq(Job) /\ job[j] \in Job /\ \A k \in DOMAIN job : job[k] \in Job
      /\ row \in [Softwares -> Rows] /\ host \subseteq Softwares
      /\ HostOK(j) /\ RowOK(j)
  BY Elements DEF HostInv, QueueInv, TypeOK, JobTypes, HostTypes, DoneIsOnHost
<1>1. \A k \in DOMAIN job : job'[k].mode = job[k].mode /\ job'[k].sw = job[k].sw
  BY <1>0 DEF JobStep, ScriptStep, Acquire, AcquireAborts, EndCancelled, EndFailed, EndOK,
     Mark, MarkFails, FinishUninstall, FinishInstall, StartCustom, EndCustom, Release,
     Expire, Prune, Cancel, FinishJob, Job
<1>2. CASE Acquire(j) \/ AcquireAborts(j)
  BY <1>0, <1>1, <1>2 DEF Acquire, AcquireAborts, FinishJob, HostOK, RowOK, Done, Job, hostVars
<1>3. CASE EndCancelled(j) \/ EndFailed(j)
  <2>1. /\ job[j].pc \in {"script", "custom"} /\ UNCHANGED row
        /\ \E st \in {"cancelled", "error"} :
             job' = [job EXCEPT ![j].st = st, ![j].pc = "persist"]
    BY <1>3 DEF EndCancelled, EndFailed, FinishJob
  <2>2. job'[j].pc = "persist" /\ job'[j].st # "success"
    <3>1. PICK st \in {"cancelled", "error"} :
            job' = [job EXCEPT ![j].st = st, ![j].pc = "persist"]
      BY <2>1
    <3>2. job'[j].pc = "persist" /\ job'[j].st = st
      BY <1>0, <3>1 DEF Job
    <3> QED
      BY <3>2
  <2> QED
    BY <1>0, <1>1, <2>1, <2>2 DEF HostOK, RowOK, Done, Holding
<1>4. CASE EndOK(j)
  BY <1>0, <1>1, <1>4 DEF EndOK, HostOK, RowOK, Done, Job, Holding
<1>5. CASE Mark(j)
  <2>1. /\ job[j].pc = "mark" /\ row' = [row EXCEPT ![job[j].sw] = MarkedRow(j)]
        /\ job' = [job EXCEPT ![j].pc = "marked"] /\ UNCHANGED host
    BY <1>5 DEF Mark
  <2>2. job'[j].pc = "marked" /\ row'[job[j].sw] = MarkedRow(j) /\ job[j].sw \in Softwares
    BY <1>0, <2>1 DEF Job
  <2>3. MarkedRow(j) = IF job[j].mode = "install" THEN "local" ELSE "uninstalled"
    BY <1>0 DEF MarkedRow, Dropped, RowOK, Job
  <2>4. \A s \in Softwares : row[s] # "none" => row'[s] # "none"
    BY <1>0, <2>1, <2>3
  <2>5. job'[j].mode = job[j].mode /\ job'[j].sw = job[j].sw
    BY <1>1
  <2>6. HostOK(j)'
    BY <1>0, <2>1, <2>2, <2>5 DEF HostOK, Done
  <2>7. RowOK(j)'
    BY <2>2, <2>3, <2>5 DEF RowOK, Done
  <2> QED
    BY <1>1, <2>1, <2>4, <2>6, <2>7 DEF Holding
<1>6. CASE FinishUninstall(j) \/ FinishInstall(j) \/ StartCustom(j)
  BY <1>0, <1>1, <1>6
  DEF FinishUninstall, FinishInstall, StartCustom, FinishJob, HostOK, RowOK, Done, Job, hostVars
<1>7. CASE EndCustom(j)
  BY <1>0, <1>1, <1>7 DEF EndCustom, FinishJob, HostOK, RowOK, Done, Job, hostVars
<1>8. CASE Release(j) \/ Expire(j) \/ Prune(j) \/ Cancel(j)
  BY <1>0, <1>1, <1>8 DEF Release, Expire, Prune, Cancel, HostOK, RowOK, Done, Job, Runner, hostVars
<1>9. ~MarkFails(j)
  BY DEF MarkFails
<1> QED
  BY <1>1, <1>2, <1>3, <1>4, <1>5, <1>6, <1>7, <1>8, <1>9 DEF JobStep, ScriptStep

\* ... and, holding installSerial, breaks no other job's.
LEMMA RunnerStep ==
  ASSUME HostInv, "db" \notin Faults, NEW j \in DOMAIN job, JobStep(j)
  PROVE  DoneIsOnHost'
<1>0. DOMAIN job' = DOMAIN job /\ \A k \in DOMAIN job \ {j} : job'[k] = job[k]
  BY JobStepEffects DEF HostInv
<1>1. SUFFICES ASSUME NEW k \in DOMAIN job \ {j} PROVE HostOK(k)' /\ RowOK(k)'
  BY <1>0, RunnerOwn DEF DoneIsOnHost
<1>2. job'[k] = job[k] /\ HostOK(k) /\ RowOK(k) /\ job[k].sw \in Softwares
  BY <1>0, Elements DEF HostInv, DoneIsOnHost, QueueInv, Job
<1>3. CASE UNCHANGED hostVars
  BY <1>2, <1>3 DEF HostOK, RowOK, Done, hostVars
<1>4. CASE job[j].pc \in Holding
  <2>1. job[k].pc \notin Holding
    BY <1>4 DEF HostInv, QueueInv, LockOK
  <2>2. row[job[k].sw] # "none" => row'[job[k].sw] # "none"
    BY <1>2, RunnerOwn
  <2> QED
    BY <1>2, <2>1, <2>2 DEF HostOK, RowOK, Done, Holding
<1> QED
  BY <1>3, <1>4, RunnerOwn

\* A new job promises nothing yet, but that an uninstall has a row to mark
\* (prepareUninstallJob).
LEMMA NewJobPromise ==
  ASSUME HostInv, NEW s \in Softwares, NEW mode \in {"install", "uninstall"},
         NEW queued \in BOOLEAN, Register(s, mode, queued), UNCHANGED hostVars,
         mode = "uninstall" => row[s] # "none"
  PROVE  DoneIsOnHost'
<1>1. /\ job \in Seq(Job) /\ Len(job) \in Nat /\ DOMAIN job = 1..Len(job)
  BY Elements DEF HostInv, QueueInv, TypeOK, JobTypes
<1>2. /\ Len(job') = Len(job) + 1 /\ job' \in Seq(Job)
      /\ \A k \in DOMAIN job : job'[k] = job[k]
      /\ job'[Len(job) + 1] = [sw |-> s, mode |-> mode, st |-> "running", queued |-> queued,
           cancelled |-> FALSE, ctx |-> "unset", pc |-> "prepared"]
  <2>1. TypeOK
    BY DEF HostInv, QueueInv
  <2>2. /\ JobTypes' /\ Len(job') = Len(job) + 1
        /\ \A k \in DOMAIN job : job'[k] = job[k]
        /\ job'[Len(job) + 1] = [sw |-> s, mode |-> mode, st |-> "running", queued |-> queued,
             cancelled |-> FALSE, ctx |-> "unset", pc |-> "prepared"]
    BY <2>1, RegisterTypes, Zenon
  <2> QED
    BY <2>2 DEF JobTypes
<1>3. DOMAIN job' = 1..(Len(job) + 1)
  BY <1>2, LenProperties
<1>4. \A k \in DOMAIN job : HostOK(k)' /\ RowOK(k)'
  BY <1>2 DEF HostInv, DoneIsOnHost, HostOK, RowOK, Done, hostVars
<1>5. ASSUME NEW k, k = Len(job) + 1
      PROVE  HostOK(k)' /\ RowOK(k)'
  BY <1>2, <1>5 DEF HostOK, RowOK, Done, hostVars
<1>6. \A k \in DOMAIN job' : k \in DOMAIN job \/ k = Len(job) + 1
  BY <1>1, <1>3
<1> QED
  BY <1>4, <1>5, <1>6 DEF DoneIsOnHost

\* Steps that leave what a job promises alone.
LEMMA KeptPromise ==
  ASSUME HostInv, UNCHANGED hostVars, DOMAIN job' = DOMAIN job,
         \A k \in DOMAIN job :
           /\ job'[k].mode = job[k].mode /\ job'[k].sw = job[k].sw
           /\ \/ job'[k].pc = job[k].pc /\ job'[k].st \in {job[k].st, "dismissed"}
              \/ job'[k].pc = "lock"
  PROVE  DoneIsOnHost'
BY DEF HostInv, DoneIsOnHost, HostOK, RowOK, Done, hostVars

\* Without the other writers the runners alone write the host and the rows.
LEMMA HostViews ==
  ASSUME [Next]_vars, NoOtherWriter
  PROVE  UNCHANGED hostVars \/ \E j \in DOMAIN job : JobStep(j)
<1>1. CASE UNCHANGED vars
  BY <1>1 DEF vars
<1>2. ASSUME NEW w \in Workers, WorkerStep(w)
      PROVE  UNCHANGED hostVars
  BY <1>2 DEF WorkerStep, PassGate, Claim, FindNone, Exit, Skip, NotActive, PrepareFails,
     Prepare, Start, Collect, StartBrew, ApplyJobOwnership, EndBrew, EndItem, NoOtherWriter
<1>3. ASSUME NEW c \in Clients, RequestStep(c)
      PROVE  UNCHANGED hostVars
  BY <1>3 DEF RequestStep, BrewCheck, BrewAppend, RetryTake, RetrySoftware, RetryAppend,
     StreamCheck, StreamPrepareFails, StreamPrepare, StreamStart, LegacyStart, LegacyFails,
     LegacyInstalls, LegacyMark, NoOtherWriter, OtherWriters
<1>5. ASSUME NEW c \in Clients, OwnerStep(c)
      PROVE  UNCHANGED hostVars
  BY <1>5 DEF OwnerStep, SwitchPackageManager, SwitchDrops, EnqueueActions, SwitchLooks,
     SwitchFails, SwitchLeavesBrew, SwitchOwns, BrewSyncReads, BrewSyncAdopts, BrewSyncLists,
     BrewSyncForgets, NoOtherWriter, OtherWriters
<1>4. ASSUME Kick \/ Enqueue \/ DismissStep \/ SyncStep \/ TakeGate \/ FreeGate
      PROVE  UNCHANGED hostVars
  BY <1>4 DEF Kick, Enqueue, DismissStep, DismissRows, DismissJob, SyncStep,
     SyncList, SyncProbe, SyncFails, SyncSnapshot, SyncCheck, SyncAppend, TakeGate, FreeGate
<1> QED
  BY <1>1, <1>2, <1>3, <1>4, <1>5 DEF Next

\* Every step keeps what finished scripts promise.
LEMMA HostStep ==
  ASSUME HostInv, [Next]_vars, "db" \notin Faults
  PROVE  DoneIsOnHost'
<1>0. /\ QueueInv /\ NoOtherWriter /\ DoneIsOnHost /\ WorkerOK /\ StartersOK
      /\ job \in Seq(Job) /\ \A k \in DOMAIN job : job[k] \in Job
  BY Elements DEF HostInv, QueueInv, TypeOK, JobTypes
<1>1. CASE \E j \in DOMAIN job : JobStep(j)
  BY <1>1, RunnerStep
<1>2. CASE UNCHANGED hostVars /\ UNCHANGED <<job, serial>>
  BY <1>2, KeptPromise
<1>3. ASSUME NEW w \in Workers, Prepare(w), UNCHANGED hostVars
      PROVE  DoneIsOnHost'
  <2> DEFINE i == worker[w].item
  <2>1. /\ item[i].sw \in Softwares /\ Mode(i) \in {"install", "uninstall"}
        /\ Register(item[i].sw, Mode(i), TRUE)
        /\ Mode(i) = "uninstall" => row[item[i].sw] # "none"
    BY <1>0, <1>3 DEF Prepare, WorkerOK, Mode, Uninstallable
  <2> HIDE DEF i
  <2> QED
    BY <1>3, <2>1, NewJobPromise
<1>4. ASSUME NEW c \in Clients, StreamPrepare(c), UNCHANGED hostVars
      PROVE  DoneIsOnHost'
  BY <1>4, NewJobPromise DEF StreamPrepare
<1>5. ASSUME NEW j \in DOMAIN job, StartRunner(j), UNCHANGED hostVars
      PROVE  DoneIsOnHost'
  <2>1. /\ DOMAIN job' = DOMAIN job /\ job'[j].pc = "lock"
        /\ \A k \in DOMAIN job : /\ job'[k].mode = job[k].mode /\ job'[k].sw = job[k].sw
                                 /\ k # j => job'[k] = job[k]
    BY <1>0, <1>5 DEF StartRunner, Job
  <2> QED
    BY <1>5, <2>1, KeptPromise
<1>6. CASE UNCHANGED hostVars /\ \E w \in Workers : Start(w)
  BY <1>0, <1>5, <1>6 DEF Start, WorkerOK
<1>7. CASE UNCHANGED hostVars /\ \E c \in Clients : StreamStart(c)
  BY <1>0, <1>5, <1>7 DEF StreamStart, StartersOK
<1>8. CASE UNCHANGED hostVars /\ DismissStep
  <2>1. /\ DOMAIN job' = DOMAIN job
        /\ \A k \in DOMAIN job : job'[k].mode = job[k].mode /\ job'[k].sw = job[k].sw
    <3>1. \E J : DismissJobs(J)
      BY <1>8 DEF DismissStep, DismissRows, DismissJob
    <3> QED
      BY <1>0, <3>1 DEF DismissJobs, Job
  <2>2. \A k \in DOMAIN job : job'[k].pc = job[k].pc /\ job'[k].st \in {job[k].st, "dismissed"}
    BY <1>0, <1>8, DismissEffects
  <2> QED
    BY <1>8, <2>1, <2>2, KeptPromise
<1> QED
  BY <1>0, <1>1, <1>2, <1>3, <1>4, <1>6, <1>7, <1>8, HostViews, JobViews

\* Nothing but queue and streamed installs touches softwares.
RunnersOnly == Formulae = {} /\ Workload \cap {"legacy", "switch", "brewsync"} = {}

\* Where there is nothing for brew to do the worker never runs it.
LEMMA NoBrewStep ==
  ASSUME QueueInv, Formulae = {}, [Next]_vars,
         \A w \in Workers : worker[w].pc \notin {"brew", "brewed"}
  PROVE  \A w \in Workers : worker'[w].pc \notin {"brew", "brewed"}
<1>0. worker \in [Workers -> Worker]
  BY DEF QueueInv, TypeOK, WorkerTypes
<1>1. ASSUME NEW w \in Workers, WorkerStep(w)
      PROVE  worker'[w].pc \notin {"brew", "brewed"}
  <2>1. ~StartBrew(w) /\ ~ApplyJobOwnership(w)
    BY DEF StartBrew, ApplyJobOwnership
  <2>2. CASE PassGate(w) \/ FindNone(w) \/ NotActive(w) \/ Prepare(w) \/ Start(w)
    BY <1>0, <2>2 DEF PassGate, FindNone, NotActive, Prepare, Start, Worker
  <2>3. CASE Claim(w) \/ Exit(w)
    BY <1>0, <2>3 DEF Claim, Exit, NoWork
  <2>4. CASE Skip(w) \/ PrepareFails(w) \/ Collect(w) \/ EndBrew(w)
    BY <1>0, <2>4 DEF Skip, PrepareFails, Collect, EndBrew, EndItem
  <2> QED
    BY <1>1, <2>1, <2>2, <2>3, <2>4 DEF WorkerStep
<1>2. CASE \E w \in Workers : WorkerStep(w)
  <2> PICK w \in Workers : WorkerStep(w)
    BY <1>2
  <2> QED
    BY <1>1, WorkerEffects
<1>3. CASE Kick
  BY <1>3, KickEffects
<1>4. CASE ~Kick /\ \A w \in Workers : ~WorkerStep(w)
  BY <1>4, OtherEffects
<1> QED
  BY <1>2, <1>3, <1>4

\* The host and the rows of the database in every reachable state.
THEOREM HostInvariance ==
  ASSUME "db" \notin Faults, RunnersOnly
  PROVE  Spec => []HostInv
<1> DEFINE NoBrew == \A w \in Workers : worker[w].pc \notin {"brew", "brewed"}
<1>1. Init => DoneIsOnHost /\ NoBrew
  BY DEF Init, DoneIsOnHost, NoWork
<1>2. ServedOK /\ NoBrew => NoOtherWriter
  <2> SUFFICES ASSUME ServedOK, NoBrew, NEW c \in Clients, request[c].pc \in OtherWriters
               PROVE  FALSE
    BY DEF NoOtherWriter
  <2>1. request[c].pc # "idle" /\ Operation(request[c].pc) \in {"legacy", "switch", "brewsync"}
    BY DEF OtherWriters, Operation
  <2> QED
    BY <2>1 DEF ServedOK, RunnersOnly
<1>3. QueueInv /\ NoBrew /\ [Next]_vars => NoBrew'
  BY NoBrewStep DEF RunnersOnly
<1>4. QueueInv /\ NoOtherWriter /\ DoneIsOnHost /\ [Next]_vars => DoneIsOnHost'
  BY HostStep DEF HostInv
<1> HIDE DEF NoBrew
<1> QED
  BY <1>1, <1>2, <1>3, <1>4, Invariance, Served, PTL DEF Spec, HostInv

\* Where no write of a row fails and the runners have the softwares to
\* themselves, a job that ends as a success has the host and the row agree with
\* it until it gives installSerial back: no cancel, deadline or other job, of
\* the queue or of a single page, comes in between (runSoftwareScript,
\* MarkSoftwareInstalled, MarkSoftwareUninstalled).  Brew, the change of an
\* owner, brew's sync and the legacy installs write rows or host without
\* installSerial: with them the statement does not hold.
THEOREM SuccessOnHost ==
  ASSUME "db" \notin Faults, RunnersOnly
  PROVE  Spec => []SuccessIsOnHost
<1>1. HostInv => SuccessIsOnHost
  <2> SUFFICES ASSUME HostInv, NEW j \in DOMAIN job, job[j].pc = "persist", job[j].st = "success"
               PROVE  IF job[j].mode = "install"
                      THEN row[job[j].sw] = "local" /\ job[j].sw \in host
                      ELSE row[job[j].sw] = "uninstalled" /\ job[j].sw \notin host
    BY DEF SuccessIsOnHost
  <2> QED
    BY DEF HostInv, DoneIsOnHost, HostOK, RowOK, Done
<1> QED
  BY <1>1, HostInvariance, PTL
=============================================================================
