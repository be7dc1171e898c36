------------------------- MODULE InstallQueueProofs -------------------------
(* Theorems about InstallQueue, for every value of its constants.          *)
EXTENDS InstallQueue, TLAPS, SequenceTheorems, FiniteSetTheorems

(* Facts about the data. *)

\* Overwriting elements of a sequence keeps its length.
LEMMA SeqUpdate ==
  ASSUME NEW S, NEW s \in Seq(S), NEW t,
         t = [k \in DOMAIN s |-> t[k]], \A k \in DOMAIN s : t[k] \in S
  PROVE  t \in Seq(S) /\ DOMAIN t = DOMAIN s /\ Len(t) = Len(s)
<1>1. DOMAIN s = 1..Len(s) /\ Len(s) \in Nat
  BY LenProperties
<1>2. t \in [1..Len(s) -> S]
  BY <1>1
<1>3. t \in Seq(S)
  BY <1>1, <1>2, SeqDef
<1> QED
  BY <1>1, <1>2, <1>3, LenProperties

\* The orders in which a finite set of names can be appended.
LEMMA Orderings ==
  ASSUME NEW S, IsFiniteSet(S), NEW ids \in SetToSeqs(S)
  PROVE  /\ Len(ids) \in Nat
         /\ \A n \in 1..Len(ids) : ids[n] \in S
<1>1. Cardinality(S) \in Nat
  BY FS_CardinalityType
<1>2. ids \in [1..Cardinality(S) -> S]
  BY DEF SetToSeqs
<1>3. ids \in Seq(S)
  BY <1>1, <1>2, SeqDef
<1> QED
  BY <1>3, LenProperties, ElementOfSeq

\* The start of the process satisfies the invariant: empty list, no worker, no job
\* (the package-level variables of queue.go and jobs.go).
THEOREM InitInv == Init => QueueInv
<1> SUFFICES ASSUME Init PROVE QueueInv
  OBVIOUS
<1>1. TypeOK
  <2>1. QueueTypes /\ WorkerTypes
    BY EmptySeq DEF Init, QueueTypes, WorkerTypes, NoWork, Worker
  <2>2. JobTypes
    BY EmptySeq DEF Init, JobTypes
  <2>3. HostTypes
    BY DEF Init, HostTypes
  <2>4. request \in [Clients -> Request]
    BY DEF Init, NoRequest, Request, Actions
  <2>5. sync \in Sync
    BY DEF Init, Sync
  <2> QED
    BY <2>1, <2>2, <2>3, <2>4, <2>5 DEF Init, TypeOK, APITypes
<1>2. Pending = {} /\ Listed({"running"}) = {}
  BY DEF Init, Pending, Listed
<1> QED
  BY <1>1, <1>2
  DEF Init, QueueInv, WorkerOK, StartersOK, LockOK, JobOK, OneWorker,
      NoLostWakeup, RunningRowsHaveWorker, QueueOneByOne, NoWork, NoRequest, Alive

-----------------------------------------------------------------------------
(* Type correctness. *)

\* Appending records to bulkQueue.items keeps the list well typed, trimmed or not.
LEMMA AddItemsTypes ==
  ASSUME TypeOK, NEW recs, recs \in Seq(Item), NEW trimmed \in BOOLEAN,
         AddItems(recs, trimmed)
  PROVE  QueueTypes' /\ kicks' \in Nat
<1>1. item' = item \o recs /\ kicks' = kicks + 1
  BY DEF AddItems
<1>2. item' \in Seq(Item) /\ Len(item') = Len(item) + Len(recs)
  BY <1>1, ConcatProperties DEF TypeOK, QueueTypes
<1>3. Len(item) \in Nat /\ Len(recs) \in Nat
  BY LenProperties DEF TypeOK, QueueTypes
<1>4. items' \subseteq items \cup (Len(item) + 1)..Len(item')
  BY <1>1 DEF AddItems, Trim
<1>5. items \subseteq 1..Len(item')
  BY <1>2, <1>3 DEF TypeOK, QueueTypes
<1> QED
  BY <1>1, <1>2, <1>3, <1>4, <1>5 DEF TypeOK, QueueTypes, WorkerTypes

\* One new item per name, in some order.
LEMMA NewItemsTypes ==
  ASSUME NEW S \in SUBSET Packages, NEW ids \in SetToSeqs(S),
         NEW a \in Actions, NEW auto \in BOOLEAN
  PROVE  LET recs == [n \in 1..Len(ids) |-> NewItem(ids[n], a, auto)]
         IN recs \in Seq(Item) /\ \A n \in 1..Len(recs) : recs[n].status = "pending"
<1>1. IsFiniteSet(S)
  BY InstanceAssumption, FS_Subset, FS_Union DEF Packages
<1>2. Len(ids) \in Nat /\ \A n \in 1..Len(ids) : ids[n] \in Packages
  BY <1>1, Orderings
<1>3. \A n \in 1..Len(ids) : NewItem(ids[n], a, auto) \in Item
  BY <1>2 DEF NewItem, Item, ItemStatus
<1> DEFINE recs == [n \in 1..Len(ids) |-> NewItem(ids[n], a, auto)]
<1>4. recs \in [1..Len(ids) -> Item]
  BY <1>3
<1>5. recs \in Seq(Item) /\ Len(recs) = Len(ids)
  <2>1. recs \in Seq(Item)
    BY <1>2, <1>4, SeqDef
  <2> QED
    BY <1>2, <1>4, <2>1, LenProperties
<1>6. \A n \in 1..Len(recs) : recs[n].status = "pending"
  BY <1>5 DEF NewItem
<1> QED
  BY <1>5, <1>6

\* The same for a single record (switch, retry).
LEMMA OneItemTypes ==
  ASSUME NEW p \in Packages, NEW a \in Actions, NEW auto \in BOOLEAN
  PROVE  /\ <<NewItem(p, a, auto)>> \in Seq(Item)
         /\ \A n \in 1..Len(<<NewItem(p, a, auto)>>) : <<NewItem(p, a, auto)>>[n].status = "pending"
<1>1. NewItem(p, a, auto) \in Item
  BY DEF NewItem, Item, ItemStatus
<1>2. NewItem(p, a, auto).status = "pending"
  BY DEF NewItem
<1> QED
  BY <1>1, <1>2

\* finishQueueItem keeps the list well typed.
LEMMA FinishItemTypes ==
  ASSUME TypeOK, NEW i, NEW status \in ItemStatus \cup {"success", "skipped"},
         NEW j \in Nat, FinishItem(i, status, j)
  PROVE  QueueTypes'
<1>1. items' \subseteq items
  BY DEF FinishItem
<1>2. \A k \in DOMAIN item : item[k] \in Item
  BY LenProperties, ElementOfSeq DEF TypeOK, QueueTypes
<1>3. /\ item' = [k \in DOMAIN item |-> item'[k]]
      /\ \A k \in DOMAIN item : item'[k] \in Item
  BY <1>2 DEF FinishItem, Item
<1>4. item' \in Seq(Item) /\ Len(item') = Len(item)
  BY <1>3, SeqUpdate DEF TypeOK, QueueTypes
<1> QED
  BY <1>1, <1>4 DEF TypeOK, QueueTypes

\* Registering a job (prepareInstallJob) keeps the registry well typed.
LEMMA RegisterTypes ==
  ASSUME TypeOK, NEW s \in Softwares, NEW mode \in {"install", "uninstall"},
         NEW queued \in BOOLEAN, Register(s, mode, queued)
  PROVE  /\ JobTypes' /\ Len(job') = Len(job) + 1
         /\ \A k \in DOMAIN job : job'[k] = job[k]
         /\ job'[Len(job) + 1] = [sw |-> s, mode |-> mode, st |-> "running",
              queued |-> queued, cancelled |-> FALSE, ctx |-> "unset", pc |-> "prepared"]
<1> DEFINE new == [sw |-> s, mode |-> mode, st |-> "running", queued |-> queued,
                   cancelled |-> FALSE, ctx |-> "unset", pc |-> "prepared"]
<1>1. new \in Job
  BY DEF Job, JobStatus
<1>2. job' = Append(job, new)
  BY DEF Register
<1>3. /\ job' \in Seq(Job) /\ Len(job') = Len(job) + 1
      /\ \A k \in 1..Len(job) : job'[k] = job[k]
      /\ job'[Len(job) + 1] = new
  BY <1>1, <1>2, AppendProperties DEF TypeOK, JobTypes
<1>4. Len(job) \in Nat /\ DOMAIN job = 1..Len(job)
  BY LenProperties DEF TypeOK, JobTypes
<1> HIDE DEF new
<1>5. /\ byID' = byID \cup {Len(job) + 1} /\ serial' = serial
      /\ bySoftware' = [bySoftware EXCEPT ![s] = Len(job) + 1]
  BY DEF Register
<1>6. /\ byID \subseteq 1..Len(job) /\ serial \in 0..Len(job)
      /\ bySoftware \in [Softwares -> Nat]
  BY DEF TypeOK, JobTypes
<1>7. Len(job') = Len(job) + 1
  BY <1>3
<1>8. byID' \subseteq 1..Len(job') /\ serial' \in 0..Len(job')
  <2>1. \A n \in Nat : \A S \in SUBSET (1..n) : S \cup {n + 1} \subseteq 1..(n + 1)
    OBVIOUS
  <2>2. \A n \in Nat : \A m \in 0..n : m \in 0..(n + 1)
    OBVIOUS
  <2> QED
    BY <1>4, <1>5, <1>6, <1>7, <2>1, <2>2
<1>9. bySoftware' \in [Softwares -> Nat]
  BY <1>4, <1>5, <1>6
<1> QED
  BY <1>3, <1>4, <1>8, <1>9 DEF JobTypes, new

\* A step that rewrites jobs without adding any.
LEMMA JobUpdateTypes ==
  ASSUME TypeOK, job' = [k \in DOMAIN job |-> job'[k]],
         \A k \in DOMAIN job : job'[k] \in Job
  PROVE  job' \in Seq(Job) /\ DOMAIN job' = DOMAIN job /\ Len(job') = Len(job)
  BY SeqUpdate DEF TypeOK, JobTypes

\* Elements of the two sequences.
LEMMA Elements ==
  ASSUME TypeOK
  PROVE  /\ Len(item) \in Nat /\ DOMAIN item = 1..Len(item)
         /\ Len(job) \in Nat /\ DOMAIN job = 1..Len(job)
         /\ \A i \in DOMAIN item : item[i] \in Item
         /\ \A j \in DOMAIN job : job[j] \in Job
  BY LenProperties, ElementOfSeq DEF TypeOK, QueueTypes, JobTypes

\* A started runner changes the record of its own job, and leaves it a job.
LEMMA RunnerTypes ==
  ASSUME TypeOK, NEW j \in Nat, StartRunner(j)
  PROVE  /\ job' = [k \in DOMAIN job |-> job'[k]]
         /\ \A k \in DOMAIN job : job'[k] \in Job
<1>0. \A k \in DOMAIN job : job[k] \in Job
  BY Elements
<1>1. /\ job' = [k \in DOMAIN job |-> job'[k]]
      /\ \A k \in DOMAIN job : k # j => job'[k] = job[k]
      /\ j \in DOMAIN job => job'[j] = [job[j] EXCEPT !.ctx = "live", !.pc = "lock"]
  BY DEF StartRunner
<1>2. j \in DOMAIN job => job'[j] \in Job
  BY <1>0, <1>1 DEF Job
<1> QED
  BY <1>0, <1>1, <1>2

\* Steps of the worker goroutine keep the types.
LEMMA WorkerTypesStep ==
  ASSUME QueueInv, NEW w \in Workers, WorkerStep(w)
  PROVE  TypeOK'
<1>0. TypeOK /\ WorkerOK /\ worker[w] \in Worker /\ worker \in [Workers -> Worker]
  BY DEF QueueInv, TypeOK, WorkerTypes
<1>1. CASE PassGate(w) \/ FindNone(w) \/ NotActive(w) \/ StartBrew(w)
  <2>1. worker' \in [Workers -> Worker]
    BY <1>0, <1>1 DEF PassGate, FindNone, NotActive, StartBrew, Worker
  <2>2. UNCHANGED <<queueVars, running, kicks, jobVars, hostVars, apiVars, held>>
    BY <1>1 DEF PassGate, FindNone, NotActive, StartBrew
  <2> QED
    BY <1>0, <2>1, <2>2 DEF TypeOK, QueueTypes, WorkerTypes, JobTypes, HostTypes,
       APITypes, queueVars, jobVars, hostVars, apiVars
<1>2. CASE Exit(w)
  <2>1. worker' \in [Workers -> Worker]
    BY <1>0, <1>2 DEF Exit, Worker, NoWork
  <2>2. running' \in BOOLEAN /\ kicks' \in Nat
    <3>1. running' = FALSE /\ kicks' \in {kicks, kicks + 1}
      BY <1>2 DEF Exit
    <3>2. kicks \in Nat
      BY <1>0 DEF TypeOK, WorkerTypes
    <3>3. running' \in BOOLEAN
      BY <3>1, Zenon
    <3>4. kicks' \in Nat
      BY <3>1, <3>2, SMT
    <3> QED
      BY <3>3, <3>4
  <2> QED
    BY <1>0, <1>2, <2>1, <2>2 DEF Exit, TypeOK, QueueTypes, WorkerTypes, JobTypes,
       HostTypes, APITypes, queueVars, jobVars, hostVars, apiVars
<1>3. CASE Claim(w)
  <2>1. PICK i \in Pending :
          /\ item' = [item EXCEPT ![i].status = "running"]
          /\ worker' = [worker EXCEPT ![w] = [pc |-> "run", item |-> i, job |-> 0]]
    BY <1>3 DEF Claim
  <2>2. i \in Nat
    BY <1>0, Elements DEF Pending, Listed, TypeOK, QueueTypes
  <2>3. item' \in Seq(Item) /\ Len(item') = Len(item)
    <3>1. /\ item' = [k \in DOMAIN item |-> item'[k]]
          /\ \A k \in DOMAIN item : item'[k] \in Item
      BY <1>0, <2>1, Elements DEF Item, ItemStatus
    <3> QED
      BY <1>0, <3>1, SeqUpdate DEF TypeOK, QueueTypes
  <2>4. worker' \in [Workers -> Worker]
    BY <1>0, <2>1, <2>2 DEF Worker
  <2> QED
    BY <1>0, <1>3, <2>3, <2>4 DEF Claim, TypeOK, QueueTypes, WorkerTypes, JobTypes, HostTypes,
       APITypes, jobVars, hostVars, apiVars
<1>4. ASSUME NEW status \in ItemStatus \cup {"success", "skipped"}, NEW j \in Nat,
             EndItem(w, status, j), UNCHANGED jobVars
      PROVE  TypeOK'
  <2>1. QueueTypes'
    BY <1>0, <1>4, FinishItemTypes DEF EndItem
  <2>2. worker' \in [Workers -> Worker]
    BY <1>0, <1>4 DEF EndItem, Worker
  <2> QED
    BY <1>0, <1>4, <2>1, <2>2 DEF EndItem, TypeOK, WorkerTypes, JobTypes, HostTypes, APITypes,
       jobVars, hostVars, apiVars
<1>5. CASE Skip(w)
  <2>1. Active(item[worker[w].item].sw) \in Nat
    BY <1>0, <1>5 DEF Skip, Active, Latest, TypeOK, JobTypes
  <2> QED
    BY <1>4, <1>5, <2>1 DEF Skip
<1>6. CASE PrepareFails(w)
  BY <1>4, <1>6 DEF PrepareFails, ItemStatus
<1>7. CASE Collect(w)
  <2>1. worker[w].job \in DOMAIN job
    BY <1>0, <1>7 DEF Collect, WorkerOK
  <2>2. job[worker[w].job].st \in ItemStatus \cup {"success", "skipped"}
    BY <1>0, <2>1, Elements DEF Job, JobStatus, ItemStatus
  <2> QED
    BY <1>4, <1>7, <2>1, <2>2, <1>0, Elements DEF Collect
<1>8. CASE EndBrew(w)
  BY <1>4, <1>8 DEF EndBrew, ItemStatus
<1>11. CASE ApplyJobOwnership(w)
  <2>1. HostTypes'
    BY <1>0, <1>11 DEF ApplyJobOwnership, Dropped, TypeOK, HostTypes, Rows
  <2>2. worker' \in [Workers -> Worker]
    BY <1>0, <1>11 DEF ApplyJobOwnership, Worker
  <2> QED
    BY <1>0, <1>11, <2>1, <2>2 DEF ApplyJobOwnership, TypeOK, QueueTypes, WorkerTypes,
       JobTypes, APITypes, queueVars, jobVars, apiVars
<1>9. CASE Prepare(w)
  <2> DEFINE i == worker[w].item
  <2>1. i \in DOMAIN item /\ item[i].sw \in Softwares
    BY <1>0, <1>9 DEF Prepare, WorkerOK
  <2>2. Mode(i) \in {"install", "uninstall"}
    BY DEF Mode
  <2>3. JobTypes'
    BY <1>0, <1>9, <2>1, <2>2, RegisterTypes DEF Prepare
  <2>4. worker' \in [Workers -> Worker]
    <3>1. /\ Len(job) + 1 \in Nat
          /\ worker' = [worker EXCEPT ![w].pc = "start", ![w].job = Len(job) + 1]
      BY <1>0, <1>9, Elements DEF Prepare
    <3>2. worker'[w] = [worker[w] EXCEPT !.pc = "start", !.job = Len(job) + 1]
      BY <1>0, <3>1
    <3>3. worker'[w] \in Worker
      BY <1>0, <3>1, <3>2 DEF Worker
    <3> QED
      BY <1>0, <3>1, <3>3
  <2> QED
    BY <1>0, <1>9, <2>3, <2>4 DEF Prepare, TypeOK, QueueTypes, WorkerTypes, HostTypes, APITypes,
       queueVars, hostVars, apiVars
<1>10. CASE Start(w)
  <2>1. worker[w].job \in Nat
    BY <1>0 DEF Worker
  <2>2. item' \in Seq(Item) /\ Len(item') = Len(item)
    <3>1. /\ item' = [k \in DOMAIN item |-> item'[k]]
          /\ \A k \in DOMAIN item : item'[k] \in Item
      BY <1>0, <1>10, <2>1, Elements DEF Start, Item
    <3> QED
      BY <1>0, <3>1, SeqUpdate DEF TypeOK, QueueTypes
  <2>3. job' \in Seq(Job) /\ Len(job') = Len(job)
    <3>1. /\ job' = [k \in DOMAIN job |-> job'[k]]
          /\ \A k \in DOMAIN job : job'[k] \in Job
      <4>1. StartRunner(worker[w].job)
        BY <1>10 DEF Start
      <4> QED
        BY <1>0, <2>1, <4>1, RunnerTypes
    <3> QED
      BY <1>0, <3>1, JobUpdateTypes
  <2>4. worker' \in [Workers -> Worker]
    BY <1>0, <1>10 DEF Start, Worker
  <2> QED
    BY <1>0, <1>10, <2>2, <2>3, <2>4 DEF Start, StartRunner, TypeOK, QueueTypes, WorkerTypes,
       JobTypes, HostTypes, APITypes, hostVars, apiVars
<1> QED
  BY <1>1, <1>2, <1>3, <1>5, <1>6, <1>7, <1>8, <1>9, <1>10, <1>11 DEF WorkerStep

\* The end of a script leaves the host with a set of softwares.
LEMMA HostKept ==
  ASSUME TypeOK, NEW j \in DOMAIN job, UNCHANGED row \/ row' = [row EXCEPT ![job[j].sw] = MarkedRow(j)],
         UNCHANGED host \/ LeftBehind(j) \/ host' = host \cup {job[j].sw}
                        \/ host' = host \ {job[j].sw}
  PROVE  HostTypes'
<1>1. job[j].sw \in Softwares
  BY Elements DEF Job
<1>2. MarkedRow(j) \in Rows
  BY DEF MarkedRow, Dropped, Rows
<1>3. row' \in [Softwares -> Rows]
  BY <1>2 DEF TypeOK, HostTypes
<1>4. host' \subseteq Softwares
  BY <1>1 DEF TypeOK, HostTypes, LeftBehind, MayTouchHost
<1> QED
  BY <1>3, <1>4 DEF HostTypes

\* Steps of a job's runner, its cancellation and its pruning keep the types.
LEMMA JobTypesStep ==
  ASSUME QueueInv, NEW j \in DOMAIN job, JobStep(j)
  PROVE  TypeOK'
<1>0. TypeOK /\ job[j] \in Job /\ j \in 1..Len(job) /\ Len(job) \in Nat
  BY Elements DEF QueueInv
<1>1. /\ job' = [k \in DOMAIN job |-> job'[k]]
      /\ \A k \in DOMAIN job \ {j} : job'[k] = job[k]
  BY <1>0 DEF JobStep, ScriptStep, Acquire, AcquireAborts, EndCancelled, EndFailed, EndOK,
     Mark, MarkFails, FinishUninstall, FinishInstall, StartCustom, EndCustom, Release,
     Expire, Prune, Cancel, FinishJob, TypeOK, JobTypes
<1>2. job'[j] \in Job
  <2>1. CASE Acquire(j) \/ AcquireAborts(j) \/ EndCancelled(j) \/ EndFailed(j)
    BY <1>0, <2>1 DEF Acquire, AcquireAborts, EndCancelled, EndFailed, FinishJob, Job, JobStatus
  <2>2. CASE EndOK(j) \/ Mark(j) \/ MarkFails(j) \/ FinishUninstall(j)
    BY <1>0, <2>2 DEF EndOK, Mark, MarkFails, FinishUninstall, FinishJob, Job, JobStatus
  <2>3. CASE FinishInstall(j) \/ StartCustom(j) \/ EndCustom(j) \/ Release(j)
    BY <1>0, <2>3 DEF FinishInstall, StartCustom, EndCustom, Release, FinishJob, Job, JobStatus
  <2>4. CASE Expire(j) \/ Prune(j)
    BY <1>0, <2>4 DEF Expire, Prune, Job
  <2>5. CASE Cancel(j)
    <3>1. PICK c \in {"cancelled", job[j].ctx} : job' = [job EXCEPT ![j].cancelled = TRUE, ![j].ctx = c]
      BY <1>0, <2>5, Zenon DEF Cancel
    <3>2. c \in {"unset", "live", "cancelled", "expired"}
      BY <1>0 DEF Job
    <3> QED
      BY <1>0, <3>1, <3>2 DEF Job
  <2> QED
    BY <2>1, <2>2, <2>3, <2>4, <2>5 DEF JobStep, ScriptStep
<1>3. job' \in Seq(Job) /\ Len(job') = Len(job)
  <2>1. \A k \in DOMAIN job : job'[k] \in Job
    BY <1>0, <1>1, <1>2, Elements
  <2> QED
    BY <1>0, <1>1, <2>1, JobUpdateTypes
<1>4. JobTypes'
  <2>1. byID' \subseteq byID /\ bySoftware' = bySoftware /\ serial' \in {0, j, serial}
    BY DEF JobStep, ScriptStep, Acquire, AcquireAborts, EndCancelled, EndFailed, EndOK,
       Mark, MarkFails, FinishUninstall, FinishInstall, StartCustom, EndCustom, Release,
       Expire, Prune, Cancel, Runner
  <2> QED
    BY <1>0, <1>3, <2>1 DEF TypeOK, JobTypes
<1>5. HostTypes'
  <2>1. /\ UNCHANGED row \/ row' = [row EXCEPT ![job[j].sw] = MarkedRow(j)]
        /\ UNCHANGED host \/ LeftBehind(j) \/ host' = host \cup {job[j].sw}
                          \/ host' = host \ {job[j].sw}
    BY DEF JobStep, ScriptStep, Acquire, AcquireAborts, EndCancelled, EndFailed, EndOK,
       Mark, MarkFails, FinishUninstall, FinishInstall, StartCustom, EndCustom, Release,
       Expire, Prune, Cancel, hostVars
  <2> QED
    BY <1>0, <2>1, HostKept
<1>6. items' \subseteq items /\ UNCHANGED <<item, workerVars, apiVars, held>>
  BY DEF JobStep, ScriptStep, Acquire, AcquireAborts, EndCancelled, EndFailed, EndOK,
     Mark, MarkFails, FinishUninstall, FinishInstall, StartCustom, EndCustom, Release,
     Expire, Prune, Cancel, Runner, queueVars
<1> QED
  BY <1>0, <1>4, <1>5, <1>6 DEF TypeOK, QueueTypes, WorkerTypes, APITypes, workerVars, apiVars

\* Steps of the HTTP handlers that take several keep the types.
LEMMA RequestTypesStep ==
  ASSUME QueueInv, NEW c \in Clients, RequestStep(c)
  PROVE  TypeOK'
<1>0. /\ TypeOK /\ request \in [Clients -> Request] /\ request[c] \in Request
      /\ sync \in Sync
  BY DEF QueueInv, TypeOK, APITypes
\* What the handler's request becomes.
<1>1. ASSUME NEW pc \in {"idle", "prepare", "start", "retry", "brew", "legacy", "mark"},
             NEW for \in SUBSET Packages, NEW a \in Actions, NEW j \in Nat,
             SetRequest(c, pc, for, a, j), UNCHANGED sync
      PROVE  APITypes'
  BY <1>0, <1>1 DEF SetRequest, Request, APITypes
<1>2. ASSUME APITypes', UNCHANGED <<queueVars, workerVars, jobVars, hostVars, held>>
      PROVE  TypeOK'
  BY <1>0, <1>2 DEF TypeOK, QueueTypes, WorkerTypes, JobTypes, HostTypes, queueVars,
     workerVars, jobVars, hostVars
<1>3. ASSUME APITypes', QueueTypes', kicks' \in Nat,
             UNCHANGED <<running, worker, jobVars, hostVars, held>>
      PROVE  TypeOK'
  BY <1>0, <1>3 DEF TypeOK, WorkerTypes, JobTypes, HostTypes, jobVars, hostVars
<1>4. CASE BrewCheck(c)
  <2>1. PICK S \in SUBSET Formulae, a \in UserActions : SetRequest(c, "brew", S \ BusyNames, a, 0)
    BY <1>4 DEF BrewCheck
  <2>2. S \ BusyNames \in SUBSET Packages /\ a \in Actions
    BY InstanceAssumption DEF Packages
  <2> QED
    BY <1>1, <1>2, <1>4, <2>1, <2>2 DEF BrewCheck
<1>5. CASE BrewAppend(c) \/ RetryAppend(c)
  <2>1. request[c].for \in SUBSET Packages /\ request[c].action \in Actions
    BY <1>0 DEF Request
  <2>2. QueueTypes' /\ kicks' \in Nat
    BY <1>0, <1>5, <2>1, NewItemsTypes, OneItemTypes, AddItemsTypes DEF BrewAppend, RetryAppend
  <2>3. APITypes'
    BY <1>1, <1>5 DEF BrewAppend, RetryAppend, Actions
  <2> QED
    BY <1>3, <1>5, <2>2, <2>3 DEF BrewAppend, RetryAppend
<1>6. ASSUME NEW i \in items, RetryTake(c, i)
      PROVE  TypeOK'
  <2>1. item[i] \in Item
    BY <1>0, Elements DEF TypeOK, QueueTypes
  <2>2. {item[i].sw} \in SUBSET Packages /\ item[i].action \in Actions
    BY <2>1 DEF Item
  <2>3. APITypes'
    BY <1>1, <1>6, <2>2 DEF RetryTake
  <2> QED
    BY <1>0, <1>6, <2>3 DEF RetryTake, TypeOK, QueueTypes, WorkerTypes, JobTypes, HostTypes,
       workerVars, jobVars, hostVars
<1>7. ASSUME NEW s \in Softwares, NEW a \in UserActions, RetrySoftware(c, s, a)
      PROVE  TypeOK'
  <2>1. {s} \in SUBSET Packages /\ a \in Actions
    BY InstanceAssumption DEF Packages
  <2> QED
    BY <1>1, <1>2, <1>7, <2>1 DEF RetrySoftware
<1>8. ASSUME NEW s \in Softwares, StreamCheck(c, s) \/ LegacyStart(c, s)
      PROVE  TypeOK'
  <2>1. {s} \in SUBSET Packages /\ "install" \in Actions
    BY DEF Packages, Actions
  <2> QED
    BY <1>1, <1>2, <1>8, <2>1 DEF StreamCheck, LegacyStart
<1>9. CASE StreamPrepareFails(c)
  BY <1>1, <1>2, <1>9 DEF StreamPrepareFails, Actions
<1>10. CASE StreamPrepare(c)
  <2>1. JobTypes'
    BY <1>0, <1>10, RegisterTypes DEF StreamPrepare
  <2>2. APITypes'
    <3>1. Len(job) + 1 \in Nat
      BY <1>0, Elements
    <3>2. SetRequest(c, "start", {}, "install", Len(job) + 1) /\ UNCHANGED sync
      BY <1>10 DEF StreamPrepare
    <3> QED
      BY <1>1, <3>1, <3>2 DEF Actions
  <2> QED
    BY <1>0, <1>10, <2>1, <2>2 DEF StreamPrepare, TypeOK, QueueTypes, WorkerTypes, HostTypes,
       queueVars, workerVars, hostVars
<1>11. CASE StreamStart(c)
  <2>1. job' \in Seq(Job) /\ Len(job') = Len(job)
    <3>1. /\ job' = [k \in DOMAIN job |-> job'[k]]
          /\ \A k \in DOMAIN job : job'[k] \in Job
      <4>1. StartRunner(request[c].job)
        BY <1>11 DEF StreamStart
      <4>2. request[c].job \in Nat
        BY <1>0 DEF TypeOK, APITypes, Request
      <4> QED
        BY <1>0, <4>1, <4>2, RunnerTypes
    <3> QED
      BY <1>0, <3>1, JobUpdateTypes
  <2>2. APITypes'
    BY <1>1, <1>11 DEF StreamStart, Actions
  <2> QED
    BY <1>0, <1>11, <2>1, <2>2 DEF StreamStart, StartRunner, TypeOK, QueueTypes, WorkerTypes,
       JobTypes, HostTypes, queueVars, workerVars, hostVars
<1>12. CASE LegacyFails(c) \/ LegacyInstalls(c) \/ LegacyMark(c)
  <2>1. HostTypes'
    BY <1>0, <1>12 DEF LegacyFails, LegacyInstalls, LegacyMark, MayTouchHost, TypeOK, HostTypes, Rows
  <2>2. request[c].for \in SUBSET Packages /\ "install" \in Actions
    BY <1>0 DEF Request, Actions
  <2>3. APITypes'
    BY <1>1, <1>12, <2>2 DEF LegacyFails, LegacyInstalls, LegacyMark
  <2> QED
    BY <1>0, <1>12, <2>1, <2>3 DEF LegacyFails, LegacyInstalls, LegacyMark, TypeOK, QueueTypes,
       WorkerTypes, JobTypes, queueVars, workerVars, jobVars
<1> QED
  BY <1>4, <1>5, <1>6, <1>7, <1>8, <1>9, <1>10, <1>11, <1>12 DEF RequestStep

\* Brew's switch and brew's sync move one handler, write rows, and touch the list
\* in two of their steps only (SwitchPackageManager, SyncHostInstalls).
OwnerStates == {"idle", "drop", "switch", "await", "jobs", "formula", "owner", "adopt", "forget"}

LEMMA OwnerEffects ==
  ASSUME TypeOK, NEW c \in Clients, OwnerStep(c)
  PROVE  /\ UNCHANGED <<running, worker, job, byID, bySoftware, serial, host, sync, held>>
         /\ \A d \in Clients : d # c => request'[d] = request[d]
         /\ request'[c].pc \in OwnerStates
         /\ request' \in [Clients -> Request]
         /\ row' \in [Softwares -> Rows]
         /\ ~EnqueueActions(c) => UNCHANGED <<item, kicks>> /\ items' \subseteq items
<1>0. /\ request \in [Clients -> Request] /\ request[c] \in Request
      /\ row \in [Softwares -> Rows]
  BY DEF TypeOK, APITypes, HostTypes
<1>1. UNCHANGED <<running, worker, job, byID, bySoftware, serial, host, sync, held>>
  BY DEF OwnerStep, SwitchPackageManager, SwitchDrops, EnqueueActions, SwitchLooks, SwitchFails,
     SwitchLeavesBrew, SwitchOwns, BrewSyncReads, BrewSyncAdopts, BrewSyncLists, BrewSyncForgets,
     queueVars, workerVars, jobVars, hostVars
\* What the handler's request becomes.
<1>2. \E pc \in OwnerStates, for \in SUBSET Packages, a \in Actions, j \in Nat :
        request' = [request EXCEPT ![c] = [pc |-> pc, for |-> for, action |-> a, job |-> j]]
  <2>1. ASSUME NEW pc \in OwnerStates, Proceed(c, pc)
        PROVE  <1>2!:
    <3>1. request' = [request EXCEPT ![c] = [pc |-> pc, for |-> request[c].for,
                        action |-> request[c].action, job |-> request[c].job]]
      <4>1. request' = [request EXCEPT ![c] = [request[c] EXCEPT !.pc = pc]]
        BY <2>1 DEF Proceed
      <4>2. [request[c] EXCEPT !.pc = pc]
              = [pc |-> pc, for |-> request[c].for, action |-> request[c].action, job |-> request[c].job]
        BY <1>0 DEF Request
      <4> QED
        BY <4>1, <4>2
    <3>2. /\ request[c].for \in SUBSET Packages /\ request[c].action \in Actions
          /\ request[c].job \in Nat
      BY <1>0 DEF Request
    <3> QED
      BY <3>1, <3>2
  <2>2. ASSUME NEW pc \in OwnerStates, NEW for \in SUBSET Packages, NEW a \in Actions,
               SetRequest(c, pc, for, a, 0)
        PROVE  <1>2!:
    <3>1. request' = [request EXCEPT ![c] = [pc |-> pc, for |-> for, action |-> a, job |-> 0]]
      BY <2>2 DEF SetRequest
    <3> QED
      BY <3>1
  <2>3. CASE SwitchDrops(c) \/ EnqueueActions(c) \/ SwitchLooks(c) \/ SwitchLeavesBrew(c)
    <3>1. \E pc \in OwnerStates : Proceed(c, pc)
      BY <2>3 DEF SwitchDrops, EnqueueActions, SwitchLooks, SwitchLeavesBrew, OwnerStates
    <3> QED
      BY <2>1, <3>1
  <2>4. CASE SwitchFails(c) \/ SwitchOwns(c) \/ BrewSyncAdopts(c)
    <3>1. SetRequest(c, "idle", {}, "install", 0)
      BY <2>4 DEF SwitchFails, SwitchOwns, BrewSyncAdopts
    <3> QED
      BY <2>2, <3>1 DEF OwnerStates, Actions
  <2>5. ASSUME NEW s \in Softwares, SwitchPackageManager(c, s) \/ BrewSyncReads(c, s)
        PROVE  <1>2!:
    <3>1. \E pc \in OwnerStates, a \in Actions : SetRequest(c, pc, {s}, a, 0)
      BY <2>5 DEF SwitchPackageManager, BrewSyncReads, OwnerStates, Actions
    <3>2. {s} \in SUBSET Packages
      BY DEF Packages
    <3> QED
      BY <2>2, <3>1, <3>2
  <2>6. CASE BrewSyncLists(c)
    <3>1. \E S \in SUBSET Softwares : SetRequest(c, "forget", S, "uninstall", 0)
      BY <2>6 DEF BrewSyncLists
    <3> QED
      BY <2>2, <3>1 DEF OwnerStates, Actions, Packages
  <2>7. CASE BrewSyncForgets(c)
    <3>1. PICK s \in Softwares : \/ SetRequest(c, "idle", {}, "install", 0)
                                 \/ SetRequest(c, "forget", request[c].for \ {s}, "uninstall", 0)
      BY <2>7 DEF BrewSyncForgets
    <3>2. request[c].for \ {s} \in SUBSET Packages /\ {} \in SUBSET Packages
      BY <1>0 DEF Request
    <3> QED
      BY <2>2, <3>1, <3>2 DEF OwnerStates, Actions
  <2> QED
    BY <2>3, <2>4, <2>5, <2>6, <2>7 DEF OwnerStep
<1>3. row' \in [Softwares -> Rows]
  <2>1. ASSUME NEW s \in Softwares, NEW r \in Rows, WriteRow(s, r)
        PROVE  row' \in [Softwares -> Rows]
    BY <1>0, <2>1 DEF WriteRow
  <2>2. \/ UNCHANGED row
        \/ \E s \in Softwares, r \in Rows : WriteRow(s, r)
    BY DEF OwnerStep, SwitchPackageManager, SwitchDrops, EnqueueActions, SwitchLooks, SwitchFails,
       SwitchLeavesBrew, SwitchOwns, BrewSyncReads, BrewSyncAdopts, BrewSyncLists,
       BrewSyncForgets, Dropped, Rows, hostVars
  <2> QED
    BY <1>0, <2>1, <2>2
<1>4. ~EnqueueActions(c) => UNCHANGED <<item, kicks>> /\ items' \subseteq items
  BY DEF OwnerStep, SwitchPackageManager, SwitchDrops, SwitchLooks, SwitchFails,
     SwitchLeavesBrew, SwitchOwns, BrewSyncReads, BrewSyncAdopts, BrewSyncLists, BrewSyncForgets,
     queueVars, workerVars
<1> QED
  <2>1. PICK pc \in OwnerStates, for \in SUBSET Packages, a \in Actions, j \in Nat :
          request' = [request EXCEPT ![c] = [pc |-> pc, for |-> for, action |-> a, job |-> j]]
    BY <1>2
  <2>2. [pc |-> pc, for |-> for, action |-> a, job |-> j] \in Request
    BY DEF OwnerStates, Request
  <2>3. /\ request' \in [Clients -> Request] /\ request'[c].pc = pc
        /\ \A d \in Clients : d # c => request'[d] = request[d]
    BY <1>0, <2>1, <2>2
  <2> QED
    BY <1>1, <1>3, <1>4, <2>3

\* What the switch appends (EnqueueActions with one software).
LEMMA EnqueuedOne ==
  ASSUME TypeOK, NEW c \in Clients, EnqueueActions(c)
  PROVE  \E p \in Packages, a \in Actions : AddItems(<<NewItem(p, a, FALSE)>>, TRUE)
  BY DEF EnqueueActions, TypeOK, APITypes, Request

\* The steps of brew's switch and sync keep the types.
LEMMA OwnerTypesStep ==
  ASSUME QueueInv, NEW c \in Clients, OwnerStep(c)
  PROVE  TypeOK'
<1>0. TypeOK
  BY DEF QueueInv
<1>1. CASE EnqueueActions(c)
  <2>1. QueueTypes' /\ kicks' \in Nat
    BY <1>0, <1>1, EnqueuedOne, OneItemTypes, AddItemsTypes
  <2> QED
    BY <1>0, <2>1, OwnerEffects DEF TypeOK, WorkerTypes, JobTypes, HostTypes, APITypes
<1>2. CASE ~EnqueueActions(c)
  <2>1. UNCHANGED <<item, kicks>> /\ items' \subseteq items
    BY <1>0, <1>2, OwnerEffects
  <2> QED
    BY <1>0, <2>1, OwnerEffects DEF TypeOK, QueueTypes, WorkerTypes, JobTypes, HostTypes, APITypes
<1> QED
  BY <1>1, <1>2

\* The remaining steps (one-step handlers, reconcile, gate) keep the types.
LEMMA OtherTypesStep ==
  ASSUME QueueInv,
         Kick \/ Enqueue \/ DismissStep \/ SyncStep \/ TakeGate \/ FreeGate
  PROVE  TypeOK'
<1>0. TypeOK /\ worker \in [Workers -> Worker] /\ sync \in Sync
  BY DEF QueueInv, TypeOK, WorkerTypes, APITypes
<1>1. CASE Kick
  <2>1. worker' \in [Workers -> Worker]
    BY <1>0, <1>1 DEF Kick, Worker
  <2>2. running' \in BOOLEAN
    BY <1>0, <1>1, Zenon DEF Kick, TypeOK, WorkerTypes
  <2>3. kicks' \in Nat
    BY <1>0, <1>1 DEF Kick, TypeOK, WorkerTypes
  <2> QED
    BY <1>0, <1>1, <2>1, <2>2, <2>3 DEF Kick, TypeOK, QueueTypes, WorkerTypes, JobTypes,
       HostTypes, APITypes, queueVars, jobVars, hostVars, apiVars
<1>2. ASSUME QueueTypes', kicks' \in Nat,
             UNCHANGED <<running, worker, jobVars, hostVars, apiVars, held>>
      PROVE  TypeOK'
  BY <1>0, <1>2 DEF TypeOK, WorkerTypes, JobTypes, HostTypes, APITypes, jobVars, hostVars, apiVars
<1>3. CASE Enqueue
  <2>1. PICK S \in SUBSET Softwares, a \in UserActions :
          \E ids \in SetToSeqs({s \in S : row[s] # "brew"}) :
            AddItems([n \in 1..Len(ids) |-> NewItem(ids[n], a, FALSE)], TRUE)
    BY <1>3 DEF Enqueue
  <2>2. {s \in S : row[s] # "brew"} \in SUBSET Packages /\ a \in Actions
    BY InstanceAssumption DEF Packages
  <2>3. QueueTypes' /\ kicks' \in Nat
    BY <1>0, <2>1, <2>2, NewItemsTypes, AddItemsTypes
  <2> QED
    BY <1>2, <1>3, <2>3 DEF Enqueue
<1>5. CASE DismissStep
  <2>1. PICK J : DismissJobs(J)
    BY <1>5 DEF DismissStep, DismissRows, DismissJob
  <2>2. \A k \in DOMAIN job : job'[k] \in {job[k], [job[k] EXCEPT !.st = "dismissed"]}
    BY <2>1 DEF DismissJobs
  <2>3. \A k \in DOMAIN job : job'[k] \in Job
    BY <1>0, <2>2, Elements DEF Job, JobStatus
  <2>4. job' = [k \in DOMAIN job |-> job'[k]]
    BY <2>1 DEF DismissJobs
  <2>5. job' \in Seq(Job) /\ Len(job') = Len(job)
    BY <1>0, <2>3, <2>4, JobUpdateTypes
  <2>6. /\ items' \subseteq items
        /\ UNCHANGED <<item, workerVars, byID, bySoftware, serial, hostVars, apiVars, held>>
    BY <1>5 DEF DismissStep, DismissRows, DismissJob, queueVars
  <2> QED
    BY <1>0, <2>5, <2>6 DEF TypeOK, QueueTypes, WorkerTypes, JobTypes,
       HostTypes, APITypes, workerVars, hostVars, apiVars
<1>6. CASE SyncList \/ SyncProbe \/ SyncFails \/ SyncSnapshot \/ SyncCheck
  <2>1. BusyNames \subseteq Packages
    BY <1>0, Elements DEF BusyNames, Busy, Listed, TypeOK, QueueTypes, Item
  <2>2. sync' \in Sync
    <3>1. sync \in Sync
      BY <1>0
    <3>2. CASE SyncList
      BY <3>1, <3>2 DEF SyncList, Sync
    <3>3. CASE SyncProbe
      BY <3>1, <3>3 DEF SyncProbe, Sync
    <3>4. CASE SyncFails \/ SyncSnapshot
      BY <2>1, <3>1, <3>4 DEF SyncFails, SyncSnapshot, Sync
    <3>5. CASE SyncCheck
      BY <3>1, <3>5 DEF SyncCheck, Sync
    <3> QED
      BY <1>6, <3>2, <3>3, <3>4, <3>5
  <2> QED
    BY <1>0, <1>6, <2>2 DEF SyncList, SyncProbe, SyncFails, SyncSnapshot, SyncCheck, TypeOK, QueueTypes,
       WorkerTypes, JobTypes, HostTypes, APITypes, queueVars, workerVars, jobVars, hostVars
<1>7. CASE SyncAppend
  <2>1. sync.set \in SUBSET Packages /\ "install" \in Actions
    BY <1>0 DEF Sync, Packages, Actions
  <2>2. QueueTypes' /\ kicks' \in Nat
    BY <1>0, <1>7, <2>1, NewItemsTypes, AddItemsTypes DEF SyncAppend
  <2>3. sync' \in Sync
    BY <1>0, <1>7 DEF SyncAppend, Sync
  <2> QED
    BY <1>0, <1>7, <2>2, <2>3 DEF SyncAppend, TypeOK, WorkerTypes, JobTypes, HostTypes,
       APITypes, jobVars, hostVars
<1>8. CASE TakeGate \/ FreeGate
  <2>1. held' \in BOOLEAN
    BY <1>8, Zenon DEF TakeGate, FreeGate
  <2> QED
    BY <1>0, <1>8, <2>1 DEF TakeGate, FreeGate, TypeOK, QueueTypes, WorkerTypes, JobTypes,
       HostTypes, APITypes, queueVars, workerVars, jobVars, hostVars, apiVars
<1> QED
  BY <1>1, <1>3, <1>5, <1>6, <1>7, <1>8 DEF SyncStep

\* Every step keeps the types.
LEMMA TypesStep == QueueInv /\ [Next]_vars => TypeOK'
<1> SUFFICES ASSUME QueueInv, [Next]_vars PROVE TypeOK'
  OBVIOUS
<1>1. CASE UNCHANGED vars
  BY <1>1 DEF QueueInv, TypeOK, QueueTypes, WorkerTypes, JobTypes, HostTypes, APITypes, vars,
     queueVars, workerVars, jobVars, hostVars, apiVars
<1> QED
  BY <1>1, WorkerTypesStep, JobTypesStep, RequestTypesStep, OwnerTypesStep,
     OtherTypesStep DEF Next

-----------------------------------------------------------------------------
(* The jobs and the lock. *)

\* A step of job j leaves the others alone, moves the lock only from nobody to
\* j or from j to nobody, and never moves a job that has yet to be started.
LEMMA JobStepEffects ==
  ASSUME QueueInv, NEW j \in DOMAIN job, JobStep(j)
  PROVE  /\ DOMAIN job' = DOMAIN job
         /\ \A k \in DOMAIN job \ {j} : job'[k] = job[k]
         /\ job'[j].queued = job[j].queued
         /\ job[j].pc \in {"prepared", "over"} => job'[j].pc = job[j].pc
         /\ job'[j].st = "running" <=> job'[j].pc \notin {"persist", "over"}
         /\ job[j].st # "running" => job'[j].st = job[j].st
         /\ job'[j].pc \in Holding <=> serial' = j
         /\ serial' # serial => {serial, serial'} = {0, j}
<1>0. /\ TypeOK /\ LockOK /\ JobOK /\ job[j] \in Job
      /\ job \in Seq(Job) /\ DOMAIN job = 1..Len(job) /\ j # 0
  BY Elements DEF QueueInv, TypeOK, JobTypes
<1>1. /\ job[j].st = "running" <=> job[j].pc \notin {"persist", "over"}
      /\ job[j].pc \in Holding <=> serial = j
  BY <1>0 DEF LockOK, JobOK
<1>2. DOMAIN job' = DOMAIN job /\ \A k \in DOMAIN job \ {j} : job'[k] = job[k]
  BY <1>0 DEF JobStep, ScriptStep, Acquire, AcquireAborts, EndCancelled, EndFailed, EndOK,
     Mark, MarkFails, FinishUninstall, FinishInstall, StartCustom, EndCustom, Release,
     Expire, Prune, Cancel, FinishJob
<1>3. CASE Acquire(j) \/ AcquireAborts(j)
  BY <1>0, <1>1, <1>2, <1>3 DEF Acquire, AcquireAborts, FinishJob, LockFree, Holding, Job
<1>4. CASE EndCancelled(j) \/ EndFailed(j) \/ EndOK(j) \/ EndCustom(j)
  BY <1>0, <1>1, <1>2, <1>4 DEF EndCancelled, EndFailed, EndOK, EndCustom, FinishJob, Holding, Job
<1>5. CASE Mark(j) \/ MarkFails(j) \/ FinishUninstall(j) \/ FinishInstall(j) \/ StartCustom(j)
  BY <1>0, <1>1, <1>2, <1>5
  DEF Mark, MarkFails, FinishUninstall, FinishInstall, StartCustom, FinishJob, Holding, Job
<1>6. CASE Release(j) \/ Expire(j) \/ Prune(j)
  BY <1>0, <1>1, <1>2, <1>6 DEF Release, Expire, Prune, Runner, Holding, Job
<1>7. CASE Cancel(j)
  BY <1>0, <1>1, <1>2, <1>7 DEF Cancel, Holding, Job
<1> QED
  BY <1>3, <1>4, <1>5, <1>6, <1>7 DEF JobStep, ScriptStep

\* The other steps that touch jobs.
LEMMA StartRunnerEffects ==
  ASSUME QueueInv, NEW j \in DOMAIN job, job[j].pc = "prepared", StartRunner(j)
  PROVE  /\ DOMAIN job' = DOMAIN job
         /\ \A k \in DOMAIN job \ {j} : job'[k] = job[k]
         /\ job'[j].queued = job[j].queued /\ job'[j].pc = "lock"
         /\ job'[j].st = "running" /\ serial' = serial /\ serial # j
<1>0. job[j] \in Job /\ LockOK /\ JobOK
  BY Elements DEF QueueInv
<1> QED
  BY <1>0 DEF StartRunner, LockOK, JobOK, Holding, Job

\* dismissJob changes nothing of a job but its status, and that only when it is
\* no longer running.
LEMMA DismissEffects ==
  ASSUME QueueInv, DismissStep
  PROVE  /\ DOMAIN job' = DOMAIN job /\ serial' = serial
         /\ \A k \in DOMAIN job :
              /\ job'[k].queued = job[k].queued /\ job'[k].pc = job[k].pc
              /\ job'[k].st # job[k].st => job[k].st # "running" /\ job'[k].st = "dismissed"
<1>0. \A k \in DOMAIN job : job[k] \in Job
  BY Elements DEF QueueInv
<1>1. UNCHANGED serial /\ \E J : DismissJobs(J)
  BY DEF DismissStep, DismissRows, DismissJob
<1> QED
  BY <1>0, <1>1 DEF DismissJobs, Job

\* Every other step leaves jobs and the lock alone.
LEMMA JobViews ==
  ASSUME [Next]_vars
  PROVE  \/ UNCHANGED <<job, serial>>
         \/ \E w \in Workers : Prepare(w) \/ Start(w)
         \/ \E c \in Clients : StreamPrepare(c) \/ StreamStart(c)
         \/ \E j \in DOMAIN job : JobStep(j)
         \/ DismissStep
<1>1. CASE UNCHANGED vars
  BY <1>1 DEF vars, jobVars
<1>2. ASSUME NEW w \in Workers, WorkerStep(w)
      PROVE  UNCHANGED <<job, serial>> \/ Prepare(w) \/ Start(w)
  BY <1>2 DEF WorkerStep, PassGate, Claim, FindNone, Exit, Skip, NotActive, PrepareFails,
     Collect, StartBrew, ApplyJobOwnership, EndBrew, jobVars
<1>3. ASSUME NEW c \in Clients, RequestStep(c)
      PROVE  UNCHANGED <<job, serial>> \/ StreamPrepare(c) \/ StreamStart(c)
  BY <1>3 DEF RequestStep, BrewCheck, BrewAppend, RetryTake, RetrySoftware, RetryAppend,
     StreamCheck, StreamPrepareFails, LegacyStart, LegacyFails, LegacyInstalls, LegacyMark, jobVars
<1>4. ASSUME Kick \/ Enqueue \/ SyncStep \/ TakeGate \/ FreeGate
      PROVE  UNCHANGED <<job, serial>>
  BY <1>4 DEF Kick, Enqueue, SyncStep, SyncList, SyncProbe, SyncFails, SyncSnapshot,
     SyncCheck, SyncAppend, TakeGate, FreeGate, jobVars
<1>5. ASSUME NEW c \in Clients, OwnerStep(c)
      PROVE  UNCHANGED <<job, serial>>
  BY <1>5 DEF OwnerStep, SwitchPackageManager, SwitchDrops, EnqueueActions, SwitchLooks,
     SwitchFails, SwitchLeavesBrew, SwitchOwns, BrewSyncReads, BrewSyncAdopts, BrewSyncLists,
     BrewSyncForgets, jobVars
<1> QED
  BY <1>1, <1>2, <1>3, <1>4, <1>5 DEF Next

\* What any step does to the jobs there are, and to the one it may add.
LEMMA JobEffects ==
  ASSUME QueueInv, [Next]_vars
  PROVE  /\ LockOK' /\ JobOK'
         /\ DOMAIN job \subseteq DOMAIN job'
         /\ \A k \in DOMAIN job :
              /\ job'[k].queued = job[k].queued
              /\ job[k].pc = "over" => job'[k].pc = "over"
              /\ job[k].st # "running" => job'[k].st \in {job[k].st, "dismissed"}
              /\ job[k].pc = "prepared" => \/ job'[k].pc = "prepared"
                                           \/ \E w \in Workers : Start(w) /\ worker[w].job = k
                                           \/ \E c \in Clients : StreamStart(c) /\ request[c].job = k
         /\ \A k \in DOMAIN job' \ DOMAIN job :
              /\ k = Len(job) + 1 /\ job'[k].pc = "prepared"
              /\ \/ \E w \in Workers : Prepare(w) /\ job'[k].queued
                 \/ \E c \in Clients : StreamPrepare(c) /\ ~job'[k].queued
<1>0. /\ TypeOK /\ WorkerOK /\ StartersOK /\ LockOK /\ JobOK /\ Len(job) \in Nat
      /\ DOMAIN job = 1..Len(job) /\ serial \in 0..Len(job)
  BY Elements DEF QueueInv, TypeOK, JobTypes
\* A new job.
<1>1. ASSUME NEW s \in Softwares, NEW mode \in {"install", "uninstall"},
             NEW queued \in BOOLEAN, Register(s, mode, queued)
      PROVE  /\ LockOK' /\ JobOK' /\ DOMAIN job \subseteq DOMAIN job'
             /\ \A k \in DOMAIN job : job'[k] = job[k]
             /\ \A k \in DOMAIN job' \ DOMAIN job :
                  k = Len(job) + 1 /\ job'[k].pc = "prepared" /\ job'[k].queued = queued
  <2>1. /\ Len(job') = Len(job) + 1 /\ job' \in Seq(Job)
        /\ \A k \in DOMAIN job : job'[k] = job[k]
        /\ job'[Len(job) + 1].pc = "prepared" /\ job'[Len(job) + 1].st = "running"
        /\ job'[Len(job) + 1].queued = queued
    <3>1. /\ JobTypes' /\ Len(job') = Len(job) + 1
          /\ \A k \in DOMAIN job : job'[k] = job[k]
          /\ job'[Len(job) + 1] = [sw |-> s, mode |-> mode, st |-> "running", queued |-> queued,
               cancelled |-> FALSE, ctx |-> "unset", pc |-> "prepared"]
      BY <1>0, <1>1, RegisterTypes, Zenon
    <3>2. job' \in Seq(Job)
      BY <3>1 DEF JobTypes
    <3> QED
      BY <3>1, <3>2
  <2>2. DOMAIN job' = DOMAIN job \cup {Len(job) + 1} /\ Len(job) + 1 \notin DOMAIN job
    <3>1. DOMAIN job' = 1..(Len(job) + 1)
      BY <2>1, LenProperties
    <3> QED
      BY <1>0, <3>1
  <2>3. serial' = serial /\ serial # Len(job) + 1
    BY <1>0, <1>1 DEF Register
  <2> QED
    BY <1>0, <2>1, <2>2, <2>3 DEF LockOK, JobOK, Holding
<1>2. CASE UNCHANGED <<job, serial>>
  BY <1>0, <1>2 DEF LockOK, JobOK
<1>3. ASSUME NEW w \in Workers, Prepare(w)
      PROVE  Register(item[worker[w].item].sw, Mode(worker[w].item), TRUE)
             /\ item[worker[w].item].sw \in Softwares
             /\ Mode(worker[w].item) \in {"install", "uninstall"}
  BY <1>0, <1>3 DEF Prepare, WorkerOK, Mode
<1>4. CASE \E w \in Workers : Prepare(w)
  BY <1>1, <1>3, <1>4
<1>5. CASE \E c \in Clients : StreamPrepare(c)
  <2>1. PICK c \in Clients : StreamPrepare(c)
    BY <1>5
  <2>2. PICK s \in Softwares : Register(s, "install", FALSE)
    BY <2>1 DEF StreamPrepare
  <2> QED
    BY <1>1, <2>1, <2>2
\* A job that is started.
<1>6. ASSUME NEW j \in DOMAIN job, job[j].pc = "prepared", StartRunner(j)
      PROVE  /\ LockOK' /\ JobOK' /\ DOMAIN job' = DOMAIN job
             /\ \A k \in DOMAIN job \ {j} : job'[k] = job[k]
             /\ job'[j].queued = job[j].queued /\ job'[j].st = job[j].st
  <2>1. job[j].st = "running" /\ job'[j].st = "running" /\ job'[j].pc = "lock"
        /\ serial' = serial /\ serial # j
    BY <1>0, <1>6, StartRunnerEffects DEF JobOK
  <2> QED
    BY <1>0, <1>6, <2>1, StartRunnerEffects DEF LockOK, JobOK, Holding
<1>7. CASE \E w \in Workers : Start(w)
  <2>1. PICK w \in Workers : Start(w)
    BY <1>7
  <2>2. worker[w].job \in DOMAIN job /\ job[worker[w].job].pc = "prepared"
        /\ StartRunner(worker[w].job)
    BY <1>0, <2>1 DEF Start, WorkerOK, StartersOK
  <2> QED
    BY <1>6, <2>1, <2>2
<1>8. CASE \E c \in Clients : StreamStart(c)
  <2>1. PICK c \in Clients : StreamStart(c)
    BY <1>8
  <2>2. request[c].job \in DOMAIN job /\ job[request[c].job].pc = "prepared"
        /\ StartRunner(request[c].job)
    BY <1>0, <2>1 DEF StreamStart, StartersOK
  <2> QED
    BY <1>6, <2>1, <2>2
<1>9. CASE \E j \in DOMAIN job : JobStep(j)
  <2>1. PICK j \in DOMAIN job : JobStep(j)
    BY <1>9
  <2>2. LockOK'
    BY <1>0, <2>1, JobStepEffects DEF LockOK
  <2>3. JobOK'
    BY <1>0, <2>1, JobStepEffects DEF JobOK
  <2> QED
    BY <2>1, <2>2, <2>3, JobStepEffects
<1>10. CASE DismissStep
  <2>1. JobOK'
    BY <1>0, <1>10, DismissEffects DEF JobOK
  <2> QED
    BY <1>0, <1>10, <2>1, DismissEffects DEF LockOK
<1> QED
  BY <1>2, <1>4, <1>5, <1>7, <1>8, <1>9, <1>10, JobViews

-----------------------------------------------------------------------------
(* The worker and the list. *)

\* finishQueueItem leaves no row running that was not running before, and the
\* row it is given is no longer running.
LEMMA FinishItemEffects ==
  ASSUME QueueInv, NEW i, NEW status, status # "running", NEW j, FinishItem(i, status, j)
  PROVE  /\ items' \subseteq items /\ DOMAIN item' = DOMAIN item
         /\ \A k \in DOMAIN item : item'[k].sw = item[k].sw
         /\ \A k \in items' : /\ item'[k].status = "running" => item[k].status = "running"
                              /\ item'[k].status = "running" => k # i
<1>0. /\ \A k \in DOMAIN item : item[k] \in Item
      /\ item \in Seq(Item) /\ items \subseteq DOMAIN item
  BY Elements DEF QueueInv, TypeOK, QueueTypes
<1>1. CASE status \in {"success", "skipped"}
  <2>1. items' = items \ {i} /\ item' = [item EXCEPT ![i].job = j]
    BY <1>1 DEF FinishItem
  <2> QED
    BY <1>0, <2>1 DEF Item
<1>2. CASE status \notin {"success", "skipped"}
  <2>1. items' = items /\ item' = [item EXCEPT ![i].job = j, ![i].status = status]
    BY <1>2 DEF FinishItem
  <2> QED
    BY <1>0, <2>1 DEF Item
<1> QED
  BY <1>1, <1>2

\* What a step of worker w does.
LEMMA WorkerEffects ==
  ASSUME QueueInv, NEW w \in Workers, WorkerStep(w)
  PROVE  /\ \A v \in Workers \ {w} : worker'[v] = worker[v]
         /\ worker[w].pc # "off"
         /\ \/ worker'[w].pc # "off" /\ UNCHANGED <<running, kicks>>
            \/ Exit(w) /\ worker'[w] = NoWork /\ UNCHANGED queueVars
         /\ items' \subseteq items /\ DOMAIN item' = DOMAIN item
         /\ \A i \in DOMAIN item : item'[i].sw = item[i].sw
         /\ \A i \in items' : item'[i].status = "running" =>
              \/ worker'[w].item = i
              \/ item[i].status = "running" /\ worker[w].item # i
         /\ worker'[w].job = worker[w].job
              \/ worker[w].job = 0 \/ job[worker[w].job].pc = "over"
<1>0. /\ \A i \in DOMAIN item : item[i] \in Item
      /\ \A j \in DOMAIN job : job[j] \in Job
      /\ item \in Seq(Item) /\ items \subseteq DOMAIN item /\ 0 \notin items
      /\ worker \in [Workers -> Worker] /\ worker[w] \in Worker
      /\ WorkerOK /\ JobOK
  BY Elements DEF QueueInv, TypeOK, QueueTypes, WorkerTypes
<1>1. CASE PassGate(w) \/ FindNone(w) \/ NotActive(w) \/ StartBrew(w) \/ ApplyJobOwnership(w)
  BY <1>0, <1>1 DEF PassGate, FindNone, NotActive, StartBrew, ApplyJobOwnership, Worker, queueVars
<1>2. CASE Exit(w)
  BY <1>0, <1>2 DEF Exit, NoWork, queueVars, WorkerOK
<1>3. CASE Claim(w)
  <2>1. PICK i \in Pending :
          /\ item' = [item EXCEPT ![i].status = "running"]
          /\ worker' = [worker EXCEPT ![w] = [pc |-> "run", item |-> i, job |-> 0]]
    BY <1>3 DEF Claim
  <2>2. worker[w].item = 0 /\ worker[w].job = 0
    BY <1>0, <1>3 DEF Claim, WorkerOK
  <2> QED
    BY <1>0, <1>3, <2>1, <2>2 DEF Claim, Item
<1>4. ASSUME NEW status, status # "running", NEW j, EndItem(w, status, j), worker[w].pc # "off",
             worker[w].job = 0 \/ job[worker[w].job].pc = "over"
      PROVE  /\ \A v \in Workers \ {w} : worker'[v] = worker[v]
             /\ worker'[w].pc # "off" /\ UNCHANGED <<running, kicks>>
             /\ items' \subseteq items /\ DOMAIN item' = DOMAIN item
             /\ \A i \in DOMAIN item : item'[i].sw = item[i].sw
             /\ \A i \in items' : item'[i].status = "running" =>
                  item[i].status = "running" /\ worker[w].item # i
  <2>1. worker' = [worker EXCEPT ![w] = [pc |-> "gate", item |-> 0, job |-> 0]]
        /\ UNCHANGED <<running, kicks>>
    BY <1>4 DEF EndItem
  <2>2. FinishItem(worker[w].item, status, j)
    BY <1>4 DEF EndItem
  <2> QED
    <3>1. /\ \A v \in Workers \ {w} : worker'[v] = worker[v]
          /\ worker'[w].pc # "off"
      BY <1>0, <2>1
    <3>2. /\ items' \subseteq items /\ DOMAIN item' = DOMAIN item
          /\ \A i \in DOMAIN item : item'[i].sw = item[i].sw
          /\ \A i \in items' : /\ item'[i].status = "running" => item[i].status = "running"
                               /\ item'[i].status = "running" => i # worker[w].item
      BY <1>4, <2>2, FinishItemEffects
    <3>3. UNCHANGED <<running, kicks>>
      BY <2>1, Zenon
    <3>4. \A i \in items' : item'[i].status = "running" =>
            item[i].status = "running" /\ worker[w].item # i
      BY <3>2
    <3> QED
      BY <3>1, <3>2, <3>3, <3>4, Zenon
<1>5. CASE Skip(w) \/ PrepareFails(w) \/ EndBrew(w)
  <2>1. worker[w].pc \in {"run", "prepare", "brew", "brewed"} /\ worker[w].job = 0
    BY <1>0, <1>5 DEF Skip, PrepareFails, EndBrew, WorkerOK
  <2>2. \E status \in {"skipped", "error", "success"} : \E j : EndItem(w, status, j)
    BY <1>5 DEF Skip, PrepareFails, EndBrew
  <2> QED
    BY <1>4, <2>1, <2>2
<1>6. CASE Collect(w)
  <2>1. /\ worker[w].pc = "wait" /\ worker[w].job \in DOMAIN job
        /\ job[worker[w].job].pc = "over"
    BY <1>0, <1>6 DEF Collect, RunnerReturned, WorkerOK
  <2>2. job[worker[w].job].st # "running"
    BY <1>0, <2>1 DEF JobOK
  <2> QED
    BY <1>4, <1>6, <2>1, <2>2 DEF Collect
<1>7. CASE Prepare(w)
  <2>1. worker[w].job = 0 /\ worker[w].pc = "prepare" /\ UNCHANGED <<items, item, running, kicks>>
    BY <1>0, <1>7 DEF Prepare, WorkerOK, queueVars
  <2>2. worker' = [worker EXCEPT ![w].pc = "start", ![w].job = Len(job) + 1]
    BY <1>7 DEF Prepare
  <2>3. worker'[w].pc = "start" /\ worker'[w].item = worker[w].item
        /\ \A v \in Workers \ {w} : worker'[v] = worker[v]
    BY <1>0, <2>2 DEF Worker
  <2> QED
    BY <1>0, <2>1, <2>3
<1>8. CASE Start(w)
  <2>1. /\ item' = [item EXCEPT ![worker[w].item].job = worker[w].job]
        /\ worker' = [worker EXCEPT ![w].pc = "wait"]
        /\ worker[w].pc = "start" /\ UNCHANGED <<items, running, kicks>>
    BY <1>8 DEF Start
  <2> QED
    BY <1>0, <2>1 DEF Worker, Item
<1> QED
  BY <1>1, <1>2, <1>3, <1>5, <1>6, <1>7, <1>8 DEF WorkerStep

\* New items come pending and with a kick of the worker.
Added ==
  /\ DOMAIN item \subseteq DOMAIN item' /\ kicks' > 0
  /\ \A i \in DOMAIN item : item'[i] = item[i]
  /\ \A i \in items' : i \in items \/ (i \notin DOMAIN item /\ item'[i].status = "pending")

\* Appending leaves the existing records alone, drops no row but by trimming, and
\* leaves a kick behind.
LEMMA AddItemsEffects ==
  ASSUME QueueInv, NEW recs \in Seq(Item), \A n \in 1..Len(recs) : recs[n].status = "pending",
         NEW trimmed, AddItems(recs, trimmed)
  PROVE  Added
<1>0. /\ item \in Seq(Item) /\ DOMAIN item = 1..Len(item) /\ Len(item) \in Nat
      /\ items \subseteq DOMAIN item /\ kicks \in Nat /\ Len(recs) \in Nat
  BY Elements, LenProperties DEF QueueInv, TypeOK, QueueTypes, WorkerTypes
<1>1. /\ item' = item \o recs /\ kicks' = kicks + 1
      /\ items' \subseteq items \cup (Len(item) + 1)..Len(item \o recs)
  BY DEF AddItems, Trim
<1>2. /\ item' \in Seq(Item) /\ Len(item') = Len(item) + Len(recs)
      /\ \A i \in 1..Len(item) + Len(recs) :
           item'[i] = IF i <= Len(item) THEN item[i] ELSE recs[i - Len(item)]
  BY <1>0, <1>1, ConcatProperties
<1>3. DOMAIN item' = 1..Len(item')
  BY <1>2, LenProperties
<1>4. ASSUME NEW i \in (Len(item) + 1)..Len(item') PROVE item'[i].status = "pending"
  <2>1. i \in Int /\ ~(i <= Len(item)) /\ i - Len(item) \in 1..Len(recs)
    BY <1>0, <1>2, <1>4
  <2>2. item'[i] = recs[i - Len(item)]
    BY <1>0, <1>2, <2>1
  <2> QED
    BY <2>1, <2>2
<1> QED
  BY <1>0, <1>1, <1>2, <1>3, <1>4 DEF Added

\* The same for the names a handler appends in some order.
LEMMA AddNames ==
  ASSUME QueueInv, NEW S \in SUBSET Packages, NEW a \in Actions, NEW auto \in BOOLEAN,
         NEW trimmed,
         \E ids \in SetToSeqs(S) :
           AddItems([n \in 1..Len(ids) |-> NewItem(ids[n], a, auto)], trimmed)
  PROVE  Added
<1>1. PICK ids \in SetToSeqs(S) :
        AddItems([n \in 1..Len(ids) |-> NewItem(ids[n], a, auto)], trimmed)
  OBVIOUS
<1> DEFINE recs == [n \in 1..Len(ids) |-> NewItem(ids[n], a, auto)]
<1>2. recs \in Seq(Item) /\ \A n \in 1..Len(recs) : recs[n].status = "pending"
  BY NewItemsTypes
<1>3. AddItems(recs, trimmed)
  BY <1>1
<1> HIDE DEF recs
<1> QED
  BY <1>2, <1>3, AddItemsEffects

\* The same for a single record.
LEMMA AddOne ==
  ASSUME QueueInv, NEW p \in Packages, NEW a \in Actions, NEW auto \in BOOLEAN,
         NEW trimmed, AddItems(<<NewItem(p, a, auto)>>, trimmed)
  PROVE  Added
<1> DEFINE recs == <<NewItem(p, a, auto)>>
<1>1. recs \in Seq(Item) /\ \A n \in 1..Len(recs) : recs[n].status = "pending"
  BY OneItemTypes, Zenon
<1>2. AddItems(recs, trimmed)
  OBVIOUS
<1> HIDE DEF recs
<1> QED
  BY <1>1, <1>2, AddItemsEffects

\* What a step does to the worker and the list when it is neither a worker's
\* nor a kick: it adds items, takes some off, or leaves both alone.
Removed == UNCHANGED <<kicks, item>> /\ items' \subseteq items

\* What the handlers and the reconcile do to the list, the worker and the jobs.
LEMMA OtherEffects ==
  ASSUME QueueInv, [Next]_vars, ~Kick, \A w \in Workers : ~WorkerStep(w)
  PROVE  UNCHANGED <<running, worker>> /\ (Added \/ Removed)
<1>0. /\ request \in [Clients -> Request] /\ sync \in Sync
  BY DEF QueueInv, TypeOK, APITypes
<1>1. CASE Enqueue
  <2>1. PICK S \in SUBSET Softwares, a \in UserActions :
          \E ids \in SetToSeqs({s \in S : row[s] # "brew"}) :
            AddItems([n \in 1..Len(ids) |-> NewItem(ids[n], a, FALSE)], TRUE)
    BY <1>1 DEF Enqueue
  <2>2. {s \in S : row[s] # "brew"} \in SUBSET Packages /\ a \in Actions
    BY InstanceAssumption DEF Packages
  <2>3. Added
    BY <2>1, <2>2, AddNames
  <2> QED
    BY <1>1, <2>3 DEF Enqueue
<1>2. ASSUME NEW c \in Clients, OwnerStep(c)
      PROVE  UNCHANGED <<running, worker>> /\ (Added \/ Removed)
  <2>1. TypeOK
    BY DEF QueueInv
  <2>2. UNCHANGED <<running, worker>>
    BY <1>2, <2>1, OwnerEffects
  <2>3. CASE EnqueueActions(c)
    BY <2>1, <2>2, <2>3, EnqueuedOne, AddOne
  <2>4. CASE ~EnqueueActions(c)
    BY <1>2, <2>1, <2>2, <2>4, OwnerEffects DEF Removed
  <2> QED
    BY <2>3, <2>4
<1>3. CASE SyncAppend
  <2>1. sync.set \in SUBSET Packages /\ "install" \in Actions
    BY <1>0 DEF Sync, Packages, Actions
  <2>2. Added
    BY <1>3, <2>1, AddNames DEF SyncAppend
  <2> QED
    BY <1>3, <2>2 DEF SyncAppend
<1>4. ASSUME NEW c \in Clients, RequestStep(c)
      PROVE  UNCHANGED <<running, worker>> /\ (Added \/ Removed)
  <2>1. request[c].for \in SUBSET Packages /\ request[c].action \in Actions
    BY <1>0 DEF Request
  <2>2. CASE BrewAppend(c)
    <3>1. Added
      BY <2>1, <2>2, AddNames DEF BrewAppend
    <3> QED
      BY <2>2, <3>1 DEF BrewAppend
  <2>3. CASE RetryAppend(c)
    <3>1. PICK p \in request[c].for :
            AddItems(<<NewItem(p, request[c].action, FALSE)>>, FALSE)
      BY <2>3 DEF RetryAppend
    <3>2. Added
      BY <2>1, <3>1, AddOne
    <3> QED
      BY <2>3, <3>2 DEF RetryAppend
  <2>4. CASE ~BrewAppend(c) /\ ~RetryAppend(c)
    <3>1. UNCHANGED <<running, worker>> /\ Removed
      BY <1>4, <2>4 DEF Removed, RequestStep, BrewCheck, RetryTake, RetrySoftware, StreamCheck,
         StreamPrepareFails, StreamPrepare, StreamStart, LegacyStart, LegacyFails,
         LegacyInstalls, LegacyMark, queueVars, workerVars
    <3> QED
      BY <3>1
  <2> QED
    BY <2>2, <2>3, <2>4
<1>5. ASSUME NEW j \in DOMAIN job, JobStep(j)
      PROVE  UNCHANGED <<running, worker>> /\ Removed
  BY <1>5 DEF Removed, JobStep, ScriptStep, Acquire, AcquireAborts, EndCancelled, EndFailed,
     EndOK, Mark, MarkFails, FinishUninstall, FinishInstall, StartCustom, EndCustom, Release,
     Expire, Prune, Cancel, Runner, queueVars, workerVars
<1>6. ASSUME DismissStep \/ (SyncStep /\ ~SyncAppend) \/ TakeGate \/ FreeGate \/ UNCHANGED vars
      PROVE  UNCHANGED <<running, worker>> /\ Removed
  BY <1>6 DEF Removed, DismissStep, DismissRows, DismissJob, SyncStep, SyncList, SyncProbe,
     SyncFails, SyncSnapshot, SyncCheck, TakeGate, FreeGate, vars, queueVars, workerVars
<1> QED
  BY <1>1, <1>2, <1>3, <1>4, <1>5, <1>6 DEF Next

\* A kick starts a worker only where there is none.
LEMMA KickEffects ==
  ASSUME QueueInv, Kick
  PROVE  /\ UNCHANGED <<items, item, job>> /\ running'
         /\ \A v \in Workers : worker'[v].item = worker[v].item /\ worker'[v].job = worker[v].job
         /\ \A v \in Workers : worker'[v].pc \in {worker[v].pc, "gate"}
         /\ \A v \in Workers : worker'[v].pc # worker[v].pc => worker[v].pc = "off"
         /\ \A u, v \in Workers : worker'[u].pc # "off" /\ worker'[v].pc # "off" => u = v
         /\ \E v \in Workers : worker'[v].pc # "off"
<1>0. worker \in [Workers -> Worker] /\ OneWorker
  BY DEF QueueInv, TypeOK, WorkerTypes
<1>1. UNCHANGED <<items, item, job>>
  BY DEF Kick, queueVars, jobVars
<1>2. CASE ~running
  <2>1. PICK w \in Workers : worker' = [worker EXCEPT ![w].pc = "gate"] /\ worker[w].pc = "off"
    BY <1>2 DEF Kick, MayKick
  <2>2. \A v \in Workers : worker[v].pc = "off"
    BY <1>0, <1>2 DEF OneWorker, Alive
  <2>3. running'
    BY <1>2 DEF Kick, MayKick
  <2>4. worker'[w].pc = "gate" /\ \A v \in Workers : v # w => worker'[v] = worker[v]
    BY <1>0, <2>1 DEF Worker
  <2>5. worker'[w].item = worker[w].item /\ worker'[w].job = worker[w].job
    BY <1>0, <2>1 DEF Worker
  <2>6. /\ \A v \in Workers : worker'[v].item = worker[v].item /\ worker'[v].job = worker[v].job
        /\ \A v \in Workers : worker'[v].pc \in {worker[v].pc, "gate"}
        /\ \A v \in Workers : worker'[v].pc # worker[v].pc => worker[v].pc = "off"
        /\ \A u, v \in Workers : worker'[u].pc # "off" /\ worker'[v].pc # "off" => u = v
        /\ \E v \in Workers : worker'[v].pc # "off"
    BY <2>2, <2>4, <2>5, Zenon
  <2> QED
    BY <1>1, <2>3, <2>6, Zenon
<1>3. CASE running
  <2>1. worker' = worker
    BY <1>3 DEF Kick, MayKick
  <2>2. running'
    BY <1>3, Zenon DEF Kick, MayKick
  <2>3. /\ \A u, v \in Workers : worker[u].pc # "off" /\ worker[v].pc # "off" => u = v
        /\ \E v \in Workers : worker[v].pc # "off"
    BY <1>0, <1>3, Zenon DEF OneWorker, Alive
  <2> QED
    BY <1>1, <2>1, <2>2, <2>3
<1> QED
  BY <1>2, <1>3

\* One worker, no lost wakeup and no orphan row.
LEMMA ListStep ==
  ASSUME QueueInv, [Next]_vars
  PROVE  OneWorker' /\ NoLostWakeup' /\ RunningRowsHaveWorker'
<1>0. /\ OneWorker /\ NoLostWakeup /\ RunningRowsHaveWorker
      /\ items \subseteq DOMAIN item /\ kicks \in Nat
  BY Elements DEF QueueInv, TypeOK, QueueTypes, WorkerTypes
<1>1. CASE \E w \in Workers : WorkerStep(w)
  <2>1. PICK w \in Workers : WorkerStep(w)
    BY <1>1
  <2>2. RunningRowsHaveWorker'
    <3> SUFFICES ASSUME NEW i \in items', item'[i].status = "running"
                 PROVE  \E v \in Workers : worker'[v].item = i
      BY DEF RunningRowsHaveWorker, Listed
    <3>1. CASE worker'[w].item = i
      BY <3>1
    <3>2. CASE item[i].status = "running" /\ worker[w].item # i
      <4>1. i \in items
        BY <2>1, WorkerEffects
      <4>2. PICK v \in Workers : worker[v].item = i
        BY <1>0, <3>2, <4>1 DEF RunningRowsHaveWorker, Listed
      <4>3. worker'[v] = worker[v]
        BY <2>1, <3>2, <4>2, WorkerEffects
      <4> QED
        BY <4>2, <4>3
    <3> QED
      BY <2>1, <3>1, <3>2, WorkerEffects
  <2>3. running /\ \A v \in Workers \ {w} : worker[v].pc = "off"
    BY <1>0, <2>1, WorkerEffects DEF OneWorker, Alive
  <2>4. CASE worker'[w].pc # "off" /\ UNCHANGED <<running, kicks>>
    <3>1. running'
      BY <2>3, <2>4
    <3>2. OneWorker'
      BY <2>1, <2>3, <2>4, <3>1, WorkerEffects DEF OneWorker, Alive
    <3> QED
      BY <2>2, <3>1, <3>2 DEF NoLostWakeup
  <2>5. CASE Exit(w) /\ worker'[w] = NoWork /\ UNCHANGED queueVars
    <3>1. ~running' /\ (Pending # {} => kicks' = kicks + 1)
      <4>1. ~running'
        BY <2>5, Zenon DEF Exit
      <4>2. Pending # {} => kicks' = kicks + 1
        BY <2>5, Zenon DEF Exit, MustKickAgain
      <4> QED
        BY <4>1, <4>2, Zenon
    <3>2. \A v \in Workers : worker'[v].pc = "off"
      <4>1. \A v \in Workers : v # w => worker'[v] = worker[v] /\ worker[v].pc = "off"
        BY <2>1, <2>3, WorkerEffects, Zenon
      <4>2. worker'[w].pc = "off"
        BY <2>5 DEF NoWork
      <4> QED
        BY <4>1, <4>2
    <3>5. OneWorker'
      BY <3>1, <3>2, Zenon DEF OneWorker, Alive
    <3>3. Pending' = Pending
      BY <2>5 DEF Pending, Listed, queueVars
    <3>4. kicks + 1 > 0
      BY <1>0
    <3> QED
      BY <2>2, <3>1, <3>3, <3>4, <3>5 DEF NoLostWakeup
  <2> QED
    BY <2>1, <2>4, <2>5, WorkerEffects
<1>2. CASE Kick
  <2>1. OneWorker'
    BY <1>2, KickEffects DEF OneWorker, Alive
  <2>2. NoLostWakeup'
    BY <1>2, KickEffects DEF NoLostWakeup
  <2>3. RunningRowsHaveWorker'
    BY <1>0, <1>2, KickEffects DEF RunningRowsHaveWorker, Listed
  <2> QED
    BY <2>1, <2>2, <2>3
<1>3. CASE ~Kick /\ \A w \in Workers : ~WorkerStep(w)
  <2>1. UNCHANGED <<running, worker>> /\ (Added \/ Removed)
    BY <1>3, OtherEffects
  <2>2. OneWorker'
    BY <1>0, <2>1, Zenon DEF OneWorker, Alive
  <2>3. NoLostWakeup'
    <3>1. CASE Added
      BY <3>1 DEF Added, NoLostWakeup
    <3>2. CASE Removed
      <4>1. Pending' \subseteq Pending /\ kicks' = kicks
        BY <3>2 DEF Removed, Pending, Listed
      <4>2. running' = running
        BY <2>1, Zenon
      <4>3. Pending' # {} => running \/ kicks > 0
        <5>1. Pending' # {} => Pending # {}
          BY <4>1
        <5> QED
          BY <1>0, <5>1, Zenon DEF NoLostWakeup
      <4>4. kicks > 0 <=> kicks' > 0
        BY <4>1
      <4> QED
        BY <4>2, <4>3, <4>4, Zenon DEF NoLostWakeup
    <3> QED
      BY <2>1, <3>1, <3>2
  <2>4. Listed({"running"})' \subseteq Listed({"running"})
    BY <1>0, <2>1 DEF Added, Removed, Listed
  <2>5. RunningRowsHaveWorker'
    BY <1>0, <2>1, <2>4, Zenon DEF RunningRowsHaveWorker
  <2> QED
    BY <2>2, <2>3, <2>5
<1> QED
  BY <1>1, <1>2, <1>3

-----------------------------------------------------------------------------
(* What the worker and the starters of jobs hold. *)

\* What the state of worker w says about its row and its job.
WorkerOKFor(w) ==
  /\ worker[w].pc \in {"off", "gate", "claim", "exit"} => worker[w].item = 0
  /\ worker[w].pc \notin {"start", "wait"} => worker[w].job = 0
  /\ worker[w].pc \in {"run", "prepare", "start", "wait", "brew", "brewed"} =>
       worker[w].item \in DOMAIN item
  /\ worker[w].pc = "prepare" => item[worker[w].item].sw \in Softwares
  /\ worker[w].pc \in {"start", "wait"} => worker[w].job \in DOMAIN job

\* What a step of a worker does to that worker.
LEMMA WorkerOwn ==
  ASSUME QueueInv, NEW w \in Workers, WorkerStep(w)
  PROVE  WorkerOKFor(w)' /\ (worker'[w].pc = "start" => Prepare(w) /\ worker'[w].job = Len(job) + 1)
<1>0. /\ worker \in [Workers -> Worker] /\ worker[w] \in Worker /\ WorkerOKFor(w)
      /\ DOMAIN item' = DOMAIN item /\ \A i \in DOMAIN item : item'[i].sw = item[i].sw
      /\ DOMAIN job \subseteq DOMAIN job' /\ items \subseteq DOMAIN item
  <2>1. [Next]_vars
    BY DEF Next
  <2> QED
    BY <2>1, Elements, WorkerEffects, JobEffects
    DEF QueueInv, TypeOK, WorkerTypes, QueueTypes, WorkerOK, WorkerOKFor
<1>1. CASE PassGate(w) \/ FindNone(w) \/ NotActive(w) \/ StartBrew(w) \/ ApplyJobOwnership(w)
  BY <1>0, <1>1 DEF PassGate, FindNone, NotActive, StartBrew, ApplyJobOwnership, WorkerOKFor,
     Worker, queueVars
<1>2. CASE Exit(w)
  BY <1>0, <1>2 DEF Exit, NoWork, WorkerOKFor
<1>3. CASE Claim(w)
  <2>1. PICK i \in items : worker' = [worker EXCEPT ![w] = [pc |-> "run", item |-> i, job |-> 0]]
    BY <1>3 DEF Claim, Pending, Listed
  <2> QED
    BY <1>0, <2>1 DEF WorkerOKFor
<1>4. CASE Skip(w) \/ PrepareFails(w) \/ EndBrew(w) \/ Collect(w)
  <2>1. worker' = [worker EXCEPT ![w] = [pc |-> "gate", item |-> 0, job |-> 0]]
    BY <1>4 DEF Skip, PrepareFails, EndBrew, Collect, EndItem
  <2> QED
    BY <1>0, <2>1 DEF WorkerOKFor
<1>5. CASE Prepare(w)
  <2>1. /\ worker[w].pc = "prepare"
        /\ worker' = [worker EXCEPT ![w].pc = "start", ![w].job = Len(job) + 1]
    BY <1>5 DEF Prepare
  <2>2. worker'[w].pc = "start" /\ worker'[w].item = worker[w].item
        /\ worker'[w].job = Len(job) + 1
    BY <1>0, <2>1 DEF Worker
  <2>3. Len(job) + 1 \in DOMAIN job'
    <3>1. item[worker[w].item].sw \in Softwares /\ Mode(worker[w].item) \in {"install", "uninstall"}
      BY <1>0, <2>1 DEF WorkerOKFor, Mode
    <3>2. Len(job') = Len(job) + 1 /\ job' \in Seq(Job)
      BY <1>5, <3>1, RegisterTypes DEF Prepare, QueueInv, JobTypes
    <3>3. DOMAIN job' = 1..(Len(job) + 1) /\ Len(job) \in Nat
      BY <3>2, Elements, LenProperties DEF QueueInv
    <3> QED
      BY <3>3
  <2> QED
    BY <1>0, <1>5, <2>1, <2>2, <2>3 DEF WorkerOKFor
<1>6. CASE Start(w)
  BY <1>0, <1>6 DEF Start, WorkerOKFor, Worker
<1> QED
  BY <1>1, <1>2, <1>3, <1>4, <1>5, <1>6 DEF WorkerStep

\* Every step keeps the worker's state consistent with its program counter.
LEMMA WorkerOKStep ==
  ASSUME QueueInv, [Next]_vars
  PROVE  WorkerOK'
<1>0. /\ WorkerOK /\ DOMAIN job \subseteq DOMAIN job' /\ TypeOK /\ worker \in [Workers -> Worker]
  BY JobEffects DEF QueueInv, TypeOK, WorkerTypes
<1>1. CASE \E w \in Workers : WorkerStep(w)
  <2>1. PICK w \in Workers : WorkerStep(w)
    BY <1>1
  <2>2. WorkerOKFor(w)'
    BY <2>1, WorkerOwn
  <2>3. \A v \in Workers : v # w => worker'[v] = worker[v]
    BY <2>1, WorkerEffects
  <2>4. DOMAIN item' = DOMAIN item /\ \A i \in DOMAIN item : item'[i].sw = item[i].sw
    BY <2>1, WorkerEffects
  <2>5. \A v \in Workers : WorkerOKFor(v)'
    BY <1>0, <2>2, <2>3, <2>4 DEF WorkerOK, WorkerOKFor
  <2> QED
    BY <2>5 DEF WorkerOK, WorkerOKFor
<1>2. CASE Kick
  <2>1. UNCHANGED item
    BY <1>2, KickEffects
  <2>2. \A v \in Workers :
          /\ worker'[v].item = worker[v].item /\ worker'[v].job = worker[v].job
          /\ worker'[v].pc = worker[v].pc \/ (worker[v].pc = "off" /\ worker'[v].pc = "gate")
    <3>1. \A v \in Workers :
            /\ worker'[v].item = worker[v].item /\ worker'[v].job = worker[v].job
            /\ worker'[v].pc \in {worker[v].pc, "gate"}
            /\ worker'[v].pc # worker[v].pc => worker[v].pc = "off"
      BY <1>2, KickEffects, Zenon
    <3> QED
      BY <3>1
  <2>3. \A v \in Workers : WorkerOKFor(v)
    BY <1>0 DEF WorkerOK, WorkerOKFor
  <2>4. \A v \in Workers : WorkerOKFor(v)'
    <3> TAKE v \in Workers
    <3>1. CASE worker'[v].pc = worker[v].pc
      BY <1>0, <2>1, <2>2, <2>3, <3>1 DEF WorkerOKFor
    <3>2. CASE worker[v].pc = "off" /\ worker'[v].pc = "gate"
      BY <2>2, <2>3, <3>2 DEF WorkerOKFor
    <3> QED
      BY <2>2, <3>1, <3>2
  <2> QED
    BY <2>4 DEF WorkerOK, WorkerOKFor
<1>3. CASE ~Kick /\ \A w \in Workers : ~WorkerStep(w)
  <2>1. UNCHANGED worker /\ (Added \/ Removed)
    BY <1>3, OtherEffects
  <2>2. DOMAIN item \subseteq DOMAIN item' /\ \A i \in DOMAIN item : item'[i].sw = item[i].sw
    BY <2>1 DEF Added, Removed
  <2>3. worker' = worker
    BY <2>1
  <2>4. \A v \in Workers : WorkerOKFor(v)
    BY <1>0 DEF WorkerOK, WorkerOKFor
  <2>5. \A v \in Workers : WorkerOKFor(v)'
    <3> TAKE v \in Workers
    <3>1. worker'[v] = worker[v]
      BY <2>3
    <3> QED
      BY <1>0, <2>2, <2>4, <3>1 DEF WorkerOKFor
  <2> QED
    BY <2>5 DEF WorkerOK, WorkerOKFor
<1> QED
  BY <1>1, <1>2, <1>3

\* A handler gets to the point of starting a job only by preparing it.
LEMMA RequestEffects ==
  ASSUME QueueInv, [Next]_vars
  PROVE  /\ \A c \in Clients : request'[c].pc = "start" =>
              \/ request'[c] = request[c]
              \/ /\ StreamPrepare(c) /\ request'[c].job = Len(job) + 1
                 /\ \A d \in Clients : d # c => request'[d] = request[d]
         /\ \A c \in Clients : StreamStart(c) => request'[c].pc = "idle"
<1>0. request \in [Clients -> Request]
  BY DEF QueueInv, TypeOK, APITypes
<1>1. CASE UNCHANGED request
  BY <1>0, <1>1 DEF StreamStart, SetRequest
<1>2. ASSUME NEW c \in Clients, RequestStep(c)
      PROVE  \/ StreamPrepare(c) /\ request' = [request EXCEPT ![c] =
                  [pc |-> "start", for |-> {}, action |-> "install", job |-> Len(job) + 1]]
             \/ /\ \A d \in Clients : d # c => request'[d] = request[d]
                /\ request'[c].pc # "start"
  <2>1. CASE StreamPrepare(c)
    BY <2>1 DEF StreamPrepare, SetRequest
  <2>2. CASE ~StreamPrepare(c)
    <3>1. \E pc \in {"idle", "prepare", "retry", "brew", "legacy", "mark"} : \E for, a, j :
            SetRequest(c, pc, for, a, j)
      BY <1>2, <2>2 DEF RequestStep, BrewCheck, BrewAppend, RetryTake, RetrySoftware, RetryAppend,
         StreamCheck, LegacyStart, StreamPrepareFails, StreamStart, LegacyFails,
         LegacyInstalls, LegacyMark
    <3> QED
      BY <1>0, <3>1 DEF SetRequest
  <2> QED
    BY <2>1, <2>2
<1>3. CASE \E c \in Clients : RequestStep(c)
  <2>1. PICK c \in Clients : RequestStep(c)
    BY <1>3
  <2>2. \A d \in Clients : StreamStart(d) => request'[d].pc = "idle"
    BY <1>0 DEF StreamStart, SetRequest
  <2>3. CASE StreamPrepare(c) /\ request' = [request EXCEPT ![c] =
               [pc |-> "start", for |-> {}, action |-> "install", job |-> Len(job) + 1]]
    BY <1>0, <2>2, <2>3
  <2>4. CASE /\ \A d \in Clients : d # c => request'[d] = request[d]
             /\ request'[c].pc # "start"
    BY <2>2, <2>4
  <2> QED
    BY <1>2, <2>1, <2>3, <2>4
<1>5. CASE \E c \in Clients : OwnerStep(c)
  <2>1. PICK c \in Clients : OwnerStep(c)
    BY <1>5
  <2>2. \A d \in Clients : StreamStart(d) => request'[d].pc = "idle"
    BY <1>0 DEF StreamStart, SetRequest
  <2>3. (\A d \in Clients : d # c => request'[d] = request[d]) /\ request'[c].pc # "start"
    BY <2>1, OwnerEffects DEF QueueInv, OwnerStates
  <2> QED
    BY <2>2, <2>3
<1>4. CASE ~\E c \in Clients : RequestStep(c) \/ OwnerStep(c)
  <2>1. UNCHANGED request
    BY <1>4 DEF Next, Kick, Enqueue, DismissStep, DismissRows, DismissJob, SyncStep, SyncList,
       SyncProbe, SyncFails, SyncSnapshot, SyncCheck, SyncAppend, TakeGate, FreeGate, vars, apiVars,
       WorkerStep, PassGate, Claim, FindNone, Exit, Skip, NotActive, PrepareFails, Prepare, Start,
       Collect, StartBrew, ApplyJobOwnership, EndBrew, EndItem, JobStep, ScriptStep, Acquire,
       AcquireAborts, EndCancelled, EndFailed, EndOK, Mark, MarkFails, FinishUninstall, FinishInstall,
       StartCustom, EndCustom, Release, Expire, Prune, Cancel, Runner
  <2> QED
    BY <1>1, <2>1
<1> QED
  BY <1>3, <1>4, <1>5

\* The worker's side of the same.
LEMMA WorkerStarts ==
  ASSUME QueueInv, [Next]_vars
  PROVE  /\ \A w \in Workers : worker'[w].pc = "start" =>
              \/ worker'[w] = worker[w]
              \/ Prepare(w) /\ worker'[w].job = Len(job) + 1
         /\ \A w \in Workers : Start(w) => worker'[w].pc = "wait"
<1>0. worker \in [Workers -> Worker]
  BY DEF QueueInv, TypeOK, WorkerTypes
<1>1. \A w \in Workers : Start(w) => worker'[w].pc = "wait"
  BY <1>0 DEF Start, Worker
<1>2. CASE \E w \in Workers : WorkerStep(w)
  BY <1>1, <1>2, WorkerOwn, WorkerEffects
<1>3. CASE Kick
  <2>1. \A w \in Workers : worker'[w].pc = "start" => worker'[w] = worker[w]
    <3>1. worker' = worker \/ \E w \in Workers : worker' = [worker EXCEPT ![w].pc = "gate"]
      BY <1>3 DEF Kick
    <3> QED
      BY <1>0, <3>1 DEF Worker
  <2> QED
    BY <1>1, <2>1
<1>4. CASE ~Kick /\ \A w \in Workers : ~WorkerStep(w)
  <2>1. UNCHANGED worker
    BY <1>4, OtherEffects
  <2> QED
    BY <1>1, <2>1
<1> QED
  BY <1>2, <1>3, <1>4

\* Every step keeps the starters of runners apart.
LEMMA StartersOKStep ==
  ASSUME QueueInv, [Next]_vars
  PROVE  StartersOK'
<1>0. /\ StartersOK /\ WorkerOK /\ OneWorker
      /\ \A k \in DOMAIN job : k # Len(job) + 1
  BY Elements DEF QueueInv
\* What becomes of a prepared job.
<1>1. ASSUME NEW k \in DOMAIN job, job[k].pc = "prepared"
      PROVE  /\ k \in DOMAIN job' /\ job'[k].queued = job[k].queued
             /\ \/ job'[k].pc = "prepared"
                \/ \E w \in Workers : Start(w) /\ worker[w].job = k
                \/ \E c \in Clients : StreamStart(c) /\ request[c].job = k
  BY <1>1, JobEffects
<1>2. ASSUME NEW w \in Workers, Start(w)
      PROVE  worker[w].pc = "start" /\ job[worker[w].job].queued
  BY <1>0, <1>2 DEF Start, StartersOK
<1>3. ASSUME NEW c \in Clients, StreamStart(c)
      PROVE  request[c].pc = "start" /\ ~job[request[c].job].queued
  BY <1>0, <1>3 DEF StreamStart, StartersOK
<1>4. ASSUME NEW w \in Workers, worker'[w].pc = "start"
      PROVE  job'[worker'[w].job].pc = "prepared" /\ job'[worker'[w].job].queued
  <2>1. CASE worker'[w] = worker[w]
    <3> DEFINE k == worker[w].job
    <3>1. k \in DOMAIN job /\ job[k].pc = "prepared" /\ job[k].queued
      BY <1>0, <1>4, <2>1 DEF StartersOK, WorkerOK
    <3>2. ~\E v \in Workers : Start(v) /\ worker[v].job = k
      <4> SUFFICES ASSUME NEW v \in Workers, Start(v) PROVE FALSE
        OBVIOUS
      <4>1. v = w
        BY <1>0, <1>2, <1>4, <2>1 DEF OneWorker, Alive
      <4> QED
        BY <1>4, <4>1, WorkerStarts
    <3>3. ~\E c \in Clients : StreamStart(c) /\ request[c].job = k
      BY <1>3, <3>1
    <3> QED
      BY <1>1, <2>1, <3>1, <3>2, <3>3
  <2>2. CASE Prepare(w) /\ worker'[w].job = Len(job) + 1
    <3> DEFINE k == Len(job) + 1
    <3>1. k \in DOMAIN job'
      <4>1. WorkerOK'
        BY WorkerOKStep
      <4> QED
        BY <1>4, <2>2, <4>1 DEF WorkerOK
    <3>2. k \notin DOMAIN job
      BY <1>0
    <3>3. /\ job'[k].pc = "prepared"
          /\ \/ \E v \in Workers : Prepare(v) /\ job'[k].queued
             \/ \E c \in Clients : StreamPrepare(c) /\ ~job'[k].queued
      BY <3>1, <3>2, JobEffects
    <3>4. ~\E c \in Clients : StreamPrepare(c)
      BY <2>2, <1>4 DEF StreamPrepare, workerVars, Prepare, Worker, QueueInv, TypeOK, WorkerTypes
    <3> QED
      BY <2>2, <3>3, <3>4
  <2> QED
    BY <1>4, <2>1, <2>2, WorkerStarts
<1>5. ASSUME NEW c \in Clients, request'[c].pc = "start"
      PROVE  /\ request'[c].job \in DOMAIN job'
             /\ job'[request'[c].job].pc = "prepared" /\ ~job'[request'[c].job].queued
  <2>1. CASE request'[c] = request[c]
    <3> DEFINE k == request[c].job
    <3>1. k \in DOMAIN job /\ job[k].pc = "prepared" /\ ~job[k].queued
      BY <1>0, <1>5, <2>1 DEF StartersOK
    <3>2. ~\E v \in Workers : Start(v) /\ worker[v].job = k
      BY <1>2, <3>1
    <3>3. ~\E d \in Clients : StreamStart(d) /\ request[d].job = k
      <4> SUFFICES ASSUME NEW d \in Clients, StreamStart(d), request[d].job = k PROVE FALSE
        OBVIOUS
      <4>1. d = c
        BY <1>0, <1>3, <1>5, <2>1 DEF StartersOK
      <4> QED
        BY <1>5, <4>1, RequestEffects
    <3> QED
      BY <1>1, <2>1, <3>1, <3>2, <3>3
  <2>2. CASE StreamPrepare(c) /\ request'[c].job = Len(job) + 1
    <3> DEFINE k == Len(job) + 1
    <3>1. k \in DOMAIN job' /\ k \notin DOMAIN job
      <4>1. PICK s \in Softwares : Register(s, "install", FALSE)
        BY <2>2 DEF StreamPrepare
      <4>2. Len(job') = Len(job) + 1 /\ job' \in Seq(Job)
        BY <4>1, RegisterTypes DEF QueueInv, JobTypes
      <4>3. DOMAIN job' = 1..(Len(job) + 1) /\ Len(job) \in Nat
        BY <4>2, Elements, LenProperties DEF QueueInv
      <4> QED
        BY <1>0, <4>3
    <3>2. /\ job'[k].pc = "prepared"
          /\ \/ \E v \in Workers : Prepare(v) /\ job'[k].queued
             \/ \E d \in Clients : StreamPrepare(d) /\ ~job'[k].queued
      BY <3>1, JobEffects
    <3>3. ASSUME NEW v \in Workers, Prepare(v) PROVE FALSE
      <4>1. worker' = worker /\ worker[v] \in Worker
        BY <2>2 DEF StreamPrepare, workerVars, QueueInv, TypeOK, WorkerTypes
      <4>2. worker[v].pc = "prepare" /\ worker' = [worker EXCEPT ![v].pc = "start", ![v].job = Len(job) + 1]
        BY <3>3 DEF Prepare
      <4>3. worker'[v].pc = "start"
        BY <4>2 DEF QueueInv, TypeOK, WorkerTypes, Worker
      <4> QED
        BY <4>1, <4>2, <4>3
    <3> QED
      BY <2>2, <3>1, <3>2, <3>3
  <2> QED
    BY <1>5, <2>1, <2>2, RequestEffects
<1>6. ASSUME NEW c \in Clients, NEW d \in Clients, request'[c].pc = "start",
             request'[d].pc = "start", request'[c].job = request'[d].job
      PROVE  c = d
  <2>1. \A e \in Clients : request'[e].pc = "start" /\ request'[e] = request[e] =>
          request'[e].job # Len(job) + 1
    BY <1>0 DEF StartersOK
  <2>2. CASE request'[c] = request[c] /\ request'[d] = request[d]
    BY <1>0, <1>6, <2>2 DEF StartersOK
  <2>3. CASE request'[c] # request[c] \/ request'[d] # request[d]
    BY <1>6, <2>1, <2>3, RequestEffects
  <2> QED
    BY <2>2, <2>3
<1> QED
  BY <1>4, <1>5, <1>6 DEF StartersOK

\* A queued job that is not over keeps its worker.
LEMMA QueueOneByOneStep ==
  ASSUME QueueInv, [Next]_vars
  PROVE  QueueOneByOne'
<1>0. QueueOneByOne /\ \A k \in DOMAIN job : k # 0
  BY Elements DEF QueueInv
<1> SUFFICES ASSUME NEW j \in DOMAIN job', job'[j].queued, job'[j].pc # "over"
             PROVE  \E w \in Workers : worker'[w].job = j
  BY DEF QueueOneByOne
<1>1. CASE j \notin DOMAIN job
  <2>1. j = Len(job) + 1
    BY <1>1, JobEffects
  <2>2. PICK w \in Workers : Prepare(w)
    BY <1>1, JobEffects
  <2>3. worker'[w].job = Len(job) + 1
    BY <2>2 DEF Prepare, Worker, QueueInv, TypeOK, WorkerTypes
  <2> QED
    BY <2>1, <2>3
<1>2. CASE j \in DOMAIN job
  <2>1. job[j].queued /\ job[j].pc # "over"
    BY <1>2, JobEffects
  <2>2. PICK w \in Workers : worker[w].job = j
    BY <1>0, <1>2, <2>1 DEF QueueOneByOne
  <2>3. CASE \E v \in Workers : WorkerStep(v)
    <3>1. PICK v \in Workers : WorkerStep(v)
      BY <2>3
    <3>2. CASE v = w
      BY <1>0, <1>2, <2>1, <2>2, <3>1, <3>2, WorkerEffects
    <3>3. CASE v # w
      BY <2>2, <3>1, <3>3, WorkerEffects
    <3> QED
      BY <3>2, <3>3
  <2>4. CASE Kick
    BY <2>2, <2>4, KickEffects
  <2>5. CASE ~Kick /\ \A v \in Workers : ~WorkerStep(v)
    BY <2>2, <2>5, OtherEffects
  <2> QED
    BY <2>3, <2>4, <2>5
<1> QED
  BY <1>1, <1>2

-----------------------------------------------------------------------------
(* The theorems. *)

\* The inductive invariant: every reachable state of the queue, its worker,
\* the job registry and the lock satisfies QueueInv.
THEOREM Invariance == Spec => []QueueInv
<1>1. Init => QueueInv
  BY InitInv
<1>2. QueueInv /\ [Next]_vars => QueueInv'
  <2> SUFFICES ASSUME QueueInv, [Next]_vars PROVE QueueInv'
    OBVIOUS
  <2>1. TypeOK'
    BY TypesStep
  <2>2. LockOK' /\ JobOK'
    BY JobEffects
  <2>3. OneWorker' /\ NoLostWakeup' /\ RunningRowsHaveWorker'
    BY ListStep
  <2>4. WorkerOK'
    BY WorkerOKStep
  <2>5. StartersOK'
    BY StartersOKStep
  <2>6. QueueOneByOne'
    BY QueueOneByOneStep
  <2> QED
    BY <2>1, <2>2, <2>3, <2>4, <2>5, <2>6 DEF QueueInv
<1> QED
  BY <1>1, <1>2, PTL DEF Spec

\* Type correctness of the queue, the worker, the jobs and the handlers.
THEOREM TypeCorrect == Spec => []TypeOK
<1>1. QueueInv => TypeOK
  BY DEF QueueInv
<1> QED
  BY <1>1, Invariance, PTL

\* installSerial keeps the scripts of queued and single-page installs apart
\* (runSoftwareScript), however many handlers and streams there are.
THEOREM MutualExclusion == Spec => []SerialScripts
<1>1. QueueInv => SerialScripts
  BY DEF QueueInv, LockOK, SerialScripts, Scripting, Holding
<1> QED
  BY <1>1, Invariance, PTL

\* kickQueueWorker keeps at most one worker at the list, and bulkQueue.running
\* tells whether there is one.
THEOREM SingleWorker == Spec => []OneWorker
<1>1. QueueInv => OneWorker
  BY DEF QueueInv
<1> QED
  BY <1>1, Invariance, PTL

\* The second look at the list of the worker on its way out loses no wakeup.
THEOREM Wakeup == Spec => []NoLostWakeup
<1>1. QueueInv => NoLostWakeup
  BY DEF QueueInv
<1> QED
  BY <1>1, Invariance, PTL

\* claimNextQueueItem and finishQueueItem leave no row running by itself.
THEOREM NoOrphanRow == Spec => []RunningRowsHaveWorker
<1>1. QueueInv => RunningRowsHaveWorker
  BY DEF QueueInv
<1> QED
  BY <1>1, Invariance, PTL

\* runQueuedInstall and runQueuedUninstall stay with their job to its end.
THEOREM OneByOne == Spec => []QueueOneByOne
<1>1. QueueInv => QueueOneByOne
  BY DEF QueueInv
<1> QED
  BY <1>1, Invariance, PTL

\* A cancel, a timeout and the runner's own end never overwrite one another:
\* the final status of a job changes only to "dismissed".
THEOREM FinalStatus == Spec => EndsOnce
<1>1. QueueInv /\ [Next]_vars =>
        [\A j \in DOMAIN job : job[j].st # "running" =>
           job'[j].st \in {job[j].st, "dismissed"}]_vars
  BY JobEffects
<1> QED
  BY <1>1, Invariance, PTL DEF Spec, EndsOnce

-----------------------------------------------------------------------------
(* A script runs once *)

\* The job's script has been run, or will never be.
ScriptPast(j) == j \in DOMAIN job /\ job[j].pc \notin {"prepared", "lock", "script"}

\* No step of a runner or of a handler takes a job back.
LEMMA JobsGoOn ==
  ASSUME QueueInv, [Next]_vars, NEW j, ScriptPast(j)
  PROVE  ScriptPast(j)'
<1>0. /\ TypeOK /\ WorkerOK /\ StartersOK /\ job \in Seq(Job) /\ job[j] \in Job
      /\ j \in DOMAIN job /\ job[j].pc \notin {"prepared", "lock", "script"}
      /\ DOMAIN job \subseteq DOMAIN job'
  BY Elements, JobEffects DEF QueueInv, TypeOK, JobTypes, ScriptPast
<1>1. SUFFICES job'[j].pc \notin {"prepared", "lock", "script"}
  BY <1>0 DEF ScriptPast
<1>2. CASE UNCHANGED <<job, serial>>
  BY <1>0, <1>2
<1>3. ASSUME NEW s \in Softwares, NEW mode \in {"install", "uninstall"},
             NEW queued \in BOOLEAN, Register(s, mode, queued)
      PROVE  job'[j] = job[j]
  BY <1>0, <1>3, RegisterTypes
<1>4. ASSUME NEW w \in Workers, Prepare(w)
      PROVE  job'[j] = job[j]
  <2>1. /\ item[worker[w].item].sw \in Softwares
        /\ Mode(worker[w].item) \in {"install", "uninstall"}
        /\ Register(item[worker[w].item].sw, Mode(worker[w].item), TRUE)
    BY <1>0, <1>4 DEF Prepare, WorkerOK, Mode
  <2> QED
    BY <1>3, <2>1
<1>5. ASSUME NEW c \in Clients, StreamPrepare(c)
      PROVE  job'[j] = job[j]
  BY <1>3, <1>5 DEF StreamPrepare
<1>6. ASSUME NEW w \in Workers, Start(w)
      PROVE  job'[j] = job[j]
  <2>1. worker[w].job \in DOMAIN job /\ job[worker[w].job].pc = "prepared"
        /\ StartRunner(worker[w].job)
    BY <1>0, <1>6 DEF Start, WorkerOK, StartersOK
  <2> QED
    BY <1>0, <2>1, StartRunnerEffects
<1>7. ASSUME NEW c \in Clients, StreamStart(c)
      PROVE  job'[j] = job[j]
  <2>1. request[c].job \in DOMAIN job /\ job[request[c].job].pc = "prepared"
        /\ StartRunner(request[c].job)
    BY <1>0, <1>7 DEF StreamStart, StartersOK
  <2> QED
    BY <1>0, <2>1, StartRunnerEffects
<1>8. CASE DismissStep
  BY <1>0, <1>8, DismissEffects
<1>9. ASSUME NEW k \in DOMAIN job, JobStep(k)
      PROVE  job'[j].pc \notin {"prepared", "lock", "script"}
  <2>1. CASE k # j
    BY <1>0, <1>9, <2>1, JobStepEffects
  <2>2. CASE k = j
    <3>1. ~Acquire(j) /\ ~AcquireAborts(j) /\ ~EndOK(j)
      BY <1>0 DEF Acquire, AcquireAborts, EndOK
    <3> QED
      BY <1>0, <1>9, <2>2, <3>1
      DEF JobStep, ScriptStep, EndCancelled, EndFailed, Mark, MarkFails, FinishUninstall,
          FinishInstall, StartCustom, EndCustom, Release, Expire, Prune, Cancel, FinishJob, Runner, Job
  <2> QED
    BY <2>1, <2>2
<1> QED
  BY <1>0, <1>2, <1>4, <1>5, <1>6, <1>7, <1>8, <1>9, JobViews

\* A job's script is run at most once: when it has ended, failed, or been given
\* up before it began, no retry, attach or second worker runs it again
\* (runSoftwareScript).
THEOREM ScriptOnce ==
  ASSUME NEW j \in Nat
  PROVE  Spec => [](ScriptPast(j) => [](j \in DOMAIN job /\ job[j].pc # "script"))
<1>1. QueueInv /\ ScriptPast(j) /\ [Next]_vars => ScriptPast(j)'
  BY JobsGoOn
<1>2. ScriptPast(j) => j \in DOMAIN job /\ job[j].pc # "script"
  BY DEF ScriptPast
<1> QED
  BY <1>1, <1>2, Invariance, PTL DEF Spec
=============================================================================
