-------------------------- MODULE SerialQueueProofs --------------------------
(* The install queue implements SerialQueue, for every value of the        *)
(* constants: work is started in the order it was accepted, one piece at a *)
(* time, each at most once.                                                *)
EXTENDS InstallRowsProofs

-----------------------------------------------------------------------------
(* The refinement mapping *)

\* The greatest of 0 and one number is that number.
LEMMA GreatestOfTwo ==
  ASSUME NEW n \in Nat
  PROVE  Max({0, n}) = n
<1>1. \A x \in {0, n} : (\A y \in {0, n} : x >= y) <=> x = n
  OBVIOUS
<1> QED
  BY <1>1 DEF Max

\* Current is the item of the one worker that has any.
LEMMA HeldItem ==
  ASSUME NEW W, NEW f, \A v \in W : f[v].item \in Nat,
         NEW w \in W, \A v \in W : v # w => f[v].item = 0
  PROVE  Max({0} \cup {f[v].item : v \in W}) = f[w].item
<1>1. {0} \cup {f[v].item : v \in W} = {0, f[w].item}
  OBVIOUS
<1> QED
  BY <1>1, GreatestOfTwo

\* A step that leaves every worker at its item leaves Current alone.
LEMMA CurrentKept ==
  ASSUME \A v \in Workers : worker'[v].item = worker[v].item
  PROVE  Current' = Current
<1>1. {worker'[v].item : v \in Workers} = {worker[v].item : v \in Workers}
  OBVIOUS
<1> QED
  BY <1>1 DEF Current

\* The first of the waiting items is the one claimNextQueueItem takes.
LEMMA FirstIsLeast ==
  ASSUME NEW S \in SUBSET Nat, NEW i \in S, \A k \in S : i <= k
  PROVE  Serial!Min(S) = i
<1>1. \A x \in S : (\A y \in S : x =< y) <=> x = i
  OBVIOUS
<1> QED
  BY <1>1 DEF Serial!Min

-----------------------------------------------------------------------------
(* The steps *)

\* A step of the worker starts the next item, completes the current one, or
\* shows nothing.
LEMMA WorkerSimulates ==
  ASSUME RowsInv, TypeOK', NEW w \in Workers, WorkerStep(w)
  PROVE  Serial!StartNext \/ Serial!Complete \/ UNCHANGED Serial!vars
<1>0. /\ QueueInv /\ WorkerOK /\ ClaimedRuns
      /\ \A i \in DOMAIN item : item[i] \in Item
      /\ item \in Seq(Item) /\ items \subseteq DOMAIN item
      /\ Len(item) \in Nat /\ DOMAIN item = 1..Len(item)
      /\ worker \in [Workers -> Worker] /\ \A v \in Workers : worker[v] \in Worker
      /\ \A v \in Workers : worker[v].item \in Nat
  BY Elements DEF RowsInv, QueueInv, TypeOK, QueueTypes, WorkerTypes, Worker
\* The other workers have no item.
<1>1. \A v \in Workers : v # w => worker[v].item = 0 /\ worker'[v] = worker[v]
  <2>1. \A v \in Workers : v # w => worker[v].pc = "off" /\ worker'[v] = worker[v]
    BY <1>0, WorkerEffects DEF QueueInv, OneWorker, Alive
  <2> QED
    BY <1>0, <2>1 DEF WorkerOK
<1>2. Current = worker[w].item
  BY <1>0, <1>1, HeldItem DEF Current
<1>3. Len(item') = Len(item)
  <2>1. DOMAIN item' = DOMAIN item
    BY <1>0, WorkerEffects
  <2>2. Len(item') \in Nat /\ DOMAIN item' = 1..Len(item')
    BY LenProperties DEF TypeOK, QueueTypes
  <2> QED
    BY <1>0, <2>1, <2>2
<1>4. ASSUME NEW i \in Nat, worker'[w].item = i
      PROVE  Current' = i
  <2> \A v \in Workers : worker'[v].item \in Nat
    BY <1>0, <1>1, <1>4
  <2> \A v \in Workers : v # w => worker'[v].item = 0
    BY <1>1
  <2> QED
    BY <1>4, HeldItem DEF Current
<1>5. CASE \/ PassGate(w) \/ FindNone(w) \/ Exit(w) \/ NotActive(w) \/ Prepare(w)
           \/ StartBrew(w) \/ ApplyJobOwnership(w)
  <2>1. UNCHANGED queueVars
    BY <1>5 DEF PassGate, FindNone, Exit, NotActive, Prepare, StartBrew, ApplyJobOwnership
  <2>2. worker'[w].item = worker[w].item
    <3>1. CASE PassGate(w) \/ FindNone(w) \/ NotActive(w) \/ StartBrew(w) \/ ApplyJobOwnership(w)
      BY <1>0, <3>1 DEF PassGate, FindNone, NotActive, StartBrew, ApplyJobOwnership, Worker
    <3>2. CASE Exit(w)
      BY <1>0, <3>2 DEF Exit, NoWork, WorkerOK
    <3>3. CASE Prepare(w)
      <4>1. worker' = [worker EXCEPT ![w].pc = "start", ![w].job = Len(job) + 1]
        BY <3>3 DEF Prepare
      <4> QED
        BY <1>0, <4>1 DEF Worker
    <3> QED
      BY <1>5, <3>1, <3>2, <3>3
  <2>3. Current' = Current
    BY <1>0, <1>2, <1>4, <2>2
  <2>4. Pending' = Pending
    BY <2>1 DEF Pending, Listed, queueVars
  <2> QED
    BY <1>3, <2>3, <2>4 DEF Serial!vars
<1>6. CASE Claim(w)
  <2>1. PICK i \in Pending :
          /\ \A k \in Pending : i <= k
          /\ item' = [item EXCEPT ![i].status = "running"]
          /\ worker' = [worker EXCEPT ![w] = [pc |-> "run", item |-> i, job |-> 0]]
          /\ items' = items
    BY <1>6 DEF Claim
  <2>2. Pending \in SUBSET Nat /\ 0 \notin Pending /\ i \in items
    BY <1>0 DEF Pending, Listed
  <2>3. Current = 0 /\ Current' = i
    BY <1>0, <1>2, <1>4, <1>6, <2>1, <2>2 DEF Claim, WorkerOK
  <2>4. Serial!Min(Pending) = i
    BY <2>1, <2>2, FirstIsLeast
  <2>5. item'[i].status = "running" /\ \A k \in items : k # i => item'[k] = item[k]
    BY <1>0, <2>1, <2>2 DEF Item
  <2>6. Pending' = Pending \ {i}
    BY <2>1, <2>2, <2>5 DEF Pending, Listed
  <2> QED
    BY <1>3, <2>1, <2>3, <2>4, <2>6 DEF Serial!StartNext
<1>7. CASE Start(w)
  <2>1. /\ item' = [item EXCEPT ![worker[w].item].job = worker[w].job] /\ items' = items
        /\ worker' = [worker EXCEPT ![w].pc = "wait"]
    BY <1>7 DEF Start
  <2>2. \A k \in items : item'[k].status = item[k].status
    BY <1>0, <2>1 DEF Item
  <2>3. Pending' = Pending
    BY <2>1, <2>2 DEF Pending, Listed
  <2>4. worker'[w].item = worker[w].item
    BY <1>0, <2>1 DEF Worker
  <2>5. Current' = Current
    BY <1>0, <1>2, <1>4, <2>4
  <2> QED
    BY <1>3, <2>3, <2>5 DEF Serial!vars
\* The row that is finished was running: nothing that waits changes.
<1>8. ASSUME NEW status, NEW j, EndItem(w, status, j), status # "pending",
             worker[w].pc \in AtItem
      PROVE  Serial!Complete
  <2> DEFINE i == worker[w].item
  <2>1. i \in DOMAIN item /\ item[i].status = "running"
    BY <1>0, <1>8 DEF WorkerOK, ClaimedRuns, AtItem
  <2>2. /\ worker' = [worker EXCEPT ![w] = [pc |-> "gate", item |-> 0, job |-> 0]]
        /\ FinishItem(i, status, j)
    BY <1>8 DEF EndItem
  <2>3. Current' = 0 /\ Current # 0
    BY <1>0, <1>2, <1>4, <2>1, <2>2
  <2>4. /\ items' \in {items, items \ {i}}
        /\ \A k \in items : k # i => item'[k] = item[k]
        /\ item'[i].status # "pending"
    <3>1. CASE status \in {"success", "skipped"}
      <4>1. items' = items \ {i} /\ item' = [item EXCEPT ![i].job = j]
        BY <2>2, <3>1 DEF FinishItem
      <4> QED
        BY <1>0, <2>1, <4>1 DEF Item
    <3>2. CASE status \notin {"success", "skipped"}
      <4>1. items' = items /\ item' = [item EXCEPT ![i].job = j, ![i].status = status]
        BY <2>2, <3>2 DEF FinishItem
      <4>2. item'[i].status = status
        BY <1>0, <2>1, <4>1 DEF Item
      <4> QED
        BY <1>0, <1>8, <2>1, <4>1, <4>2
    <3> QED
      BY <3>1, <3>2
  <2>5. Pending' = Pending
    BY <2>1, <2>4 DEF Pending, Listed
  <2> QED
    BY <1>3, <2>3, <2>5 DEF Serial!Complete
<1>9. CASE Skip(w) \/ PrepareFails(w) \/ EndBrew(w)
  <2>1. worker[w].pc \in AtItem
    BY <1>9 DEF Skip, PrepareFails, EndBrew, AtItem
  <2>2. \E status, j : EndItem(w, status, j) /\ status # "pending"
    BY <1>9 DEF Skip, PrepareFails, EndBrew
  <2> QED
    BY <1>8, <2>1, <2>2
<1>10. CASE Collect(w)
  <2>1. worker[w].pc = "wait" /\ EndItem(w, job[worker[w].job].st, worker[w].job)
    BY <1>10 DEF Collect
  <2>2. job[worker[w].job].st # "pending"
    <3>1. worker[w].job \in DOMAIN job
      BY <1>0, <2>1 DEF WorkerOK
    <3> QED
      BY <1>0, <3>1, Elements DEF QueueInv, Job, JobStatus
  <2> QED
    BY <1>8, <2>1, <2>2 DEF AtItem
<1> QED
  BY <1>5, <1>6, <1>7, <1>9, <1>10 DEF WorkerStep

\* Handlers, runners and the reconcile accept work and withdraw what waits.
LEMMA OtherSimulates ==
  ASSUME RowsInv, TypeOK', [Next]_vars, ~Kick, \A w \in Workers : ~WorkerStep(w)
  PROVE  Serial!Amend
<1>0. QueueInv /\ items \subseteq DOMAIN item /\ Len(item) \in Nat /\ DOMAIN item = 1..Len(item)
  BY Elements DEF RowsInv, QueueInv, TypeOK, QueueTypes
<1>1. items' \subseteq DOMAIN item' /\ Len(item') \in Nat /\ DOMAIN item' = 1..Len(item')
  BY LenProperties DEF TypeOK, QueueTypes
<1>2. UNCHANGED worker /\ (Added \/ Removed)
  BY <1>0, OtherEffects
<1>3. Current' = Current
  BY <1>2, CurrentKept
<1>4. /\ DOMAIN item \subseteq DOMAIN item'
      /\ \A i \in DOMAIN item : item'[i] = item[i]
      /\ \A i \in items' : i \in items \/ i \notin DOMAIN item
  BY <1>2 DEF Added, Removed
<1>5. Len(item') >= Len(item)
  BY <1>0, <1>1, <1>4
<1>6. Pending' \subseteq Pending \cup (Len(item) + 1)..Len(item')
  BY <1>0, <1>1, <1>4 DEF Pending, Listed
<1> QED
  BY <1>1, <1>3, <1>5, <1>6 DEF Serial!Amend

\* Every step of the queue is a step of SerialQueue or a stutter.
LEMMA StepSimulates ==
  ASSUME RowsInv, TypeOK', [Next]_vars
  PROVE  [Serial!Next]_(Serial!vars)
<1>1. CASE \E w \in Workers : WorkerStep(w)
  BY <1>1, WorkerSimulates DEF Serial!Next
<1>2. CASE Kick
  <2>1. UNCHANGED <<items, item>> /\ \A v \in Workers : worker'[v].item = worker[v].item
    BY <1>2, KickEffects DEF RowsInv
  <2>2. Current' = Current
    BY <2>1, CurrentKept
  <2>3. Pending' = Pending /\ Len(item') = Len(item)
    BY <2>1 DEF Pending, Listed
  <2> QED
    BY <2>2, <2>3 DEF Serial!vars
<1>3. CASE ~Kick /\ \A w \in Workers : ~WorkerStep(w)
  BY <1>3, OtherSimulates DEF Serial!Next
<1> QED
  BY <1>1, <1>2, <1>3

\* claimNextQueueItem, finishQueueItem and the handlers that append, retry,
\* dismiss and trim make a serial queue of bulkQueue, with any number of
\* packages, handlers and items.
THEOREM ImplementsSerialQueue == Spec => IsSerialQueue
<1>1. Init => Serial!Init
  <2> SUFFICES ASSUME Init PROVE Serial!Init
    OBVIOUS
  <2>1. items = {} /\ item = <<>> /\ \A v \in Workers : worker[v].item = 0
    BY DEF Init, NoWork
  <2>2. Current = 0
    <3>1. {0} \cup {worker[v].item : v \in Workers} = {0, 0}
      BY <2>1
    <3> QED
      BY <3>1, GreatestOfTwo DEF Current
  <2> QED
    BY <2>1, <2>2 DEF Serial!Init, Pending, Listed
<1>2. RowsInv /\ TypeOK' /\ [Next]_vars => [Serial!Next]_(Serial!vars)
  BY StepSimulates
<1> QED
  BY <1>1, <1>2, RowsInvariance, TypeCorrect, PTL DEF Spec, IsSerialQueue, Serial!Spec

-----------------------------------------------------------------------------
(* What the promise is worth: consequences of SerialQueue alone *)

\* The numbers of what waits and of what is worked on were given out, and what
\* waits came later than what is worked on.
Numbered ==
  /\ Len(item) \in Nat /\ Pending \subseteq 1..Len(item) /\ Current \in 0..Len(item)
  /\ \A n \in Pending : Current < n

\* Work that is neither waiting nor being worked on is settled.
Settled(n) == n \in 1..Len(item) /\ n \notin Pending /\ n # Current

\* A step of a serial queue keeps the order and leaves what is settled settled.
LEMMA SerialStep ==
  ASSUME Numbered, [Serial!Next]_(Serial!vars)
  PROVE  Numbered' /\ \A n \in Nat : Settled(n) => Settled(n)'
<1>0. Len(item) \in Nat /\ Pending \subseteq 1..Len(item) /\ Current \in 0..Len(item)
  BY DEF Numbered
<1>1. CASE Serial!Amend
  <2>1. /\ Len(item') \in Nat /\ Len(item') >= Len(item)
        /\ Pending' \subseteq Pending \cup (Len(item) + 1)..Len(item') /\ Current' = Current
    BY <1>1 DEF Serial!Amend
  <2> QED
    BY <1>0, <2>1 DEF Numbered, Settled
<1>2. CASE Serial!StartNext
  <2>1. /\ Pending # {} /\ Current' = Serial!Min(Pending)
        /\ Pending' = Pending \ {Current'} /\ Len(item') = Len(item)
    BY <1>2 DEF Serial!StartNext
  <2>2. PICK x \in Pending : \A y \in Pending : x <= y
    BY <1>0, <2>1, LeastElement
  <2>3. Serial!Min(Pending) = x
    BY <1>0, <2>2, FirstIsLeast
  <2>4. \A n \in Pending' : Current' < n
    BY <1>0, <2>1, <2>2, <2>3
  <2> QED
    BY <1>0, <2>1, <2>3, <2>4 DEF Numbered, Settled
<1>3. CASE Serial!Complete
  <2>1. Current' = 0 /\ Pending' = Pending /\ Len(item') = Len(item)
    BY <1>3 DEF Serial!Complete
  <2>2. \A n \in Pending : 0 < n
    BY <1>0
  <2> QED
    BY <1>0, <2>1, <2>2 DEF Numbered, Settled
<1>4. CASE UNCHANGED Serial!vars
  BY <1>4 DEF Serial!vars, Numbered, Settled
<1> QED
  BY <1>1, <1>2, <1>3, <1>4 DEF Serial!Next

\* The numbers in every reachable state.
THEOREM NumberedInvariance == Spec => []Numbered
<1>1. Serial!Init => Numbered
  BY DEF Serial!Init, Numbered
<1>2. Numbered /\ [Serial!Next]_(Serial!vars) => Numbered'
  BY SerialStep
<1> QED
  BY <1>1, <1>2, ImplementsSerialQueue, PTL DEF IsSerialQueue, Serial!Spec

\* An item is started at most once: once it has been taken off the list or its
\* worker is done with it, no worker ever takes it up again, whatever is
\* retried, dismissed or enqueued afterwards (claimNextQueueItem).
THEOREM StartedOnce ==
  ASSUME NEW n \in Nat
  PROVE  Spec => [](Settled(n) => [](Current # n))
<1>1. Numbered /\ Settled(n) /\ [Serial!Next]_(Serial!vars) => Settled(n)'
  BY SerialStep
<1>2. Settled(n) => Current # n
  BY DEF Settled
<1> QED
  BY <1>1, <1>2, NumberedInvariance, ImplementsSerialQueue, PTL DEF IsSerialQueue, Serial!Spec

\* Items are started in the order they were enqueued: once one is being worked
\* on, no worker ever takes up an older one (claimNextQueueItem).
THEOREM StartedInOrder ==
  ASSUME NEW m \in Nat \ {0}, NEW n \in Nat, m < n
  PROVE  Spec => [](Current = n => [](Current # m))
<1>1. Numbered /\ Current = n => Settled(m)
  BY DEF Numbered, Settled
<1>2. Numbered /\ Settled(m) /\ [Serial!Next]_(Serial!vars) => Settled(m)'
  BY SerialStep
<1>3. Settled(m) => Current # m
  BY DEF Settled
<1> QED
  BY <1>1, <1>2, <1>3, NumberedInvariance, ImplementsSerialQueue, PTL
  DEF IsSerialQueue, Serial!Spec

-----------------------------------------------------------------------------
(* Brew and the scripts of jobs *)

\* Every job is the queue's.
OnlyQueued == \A j \in DOMAIN job : job[j].queued

\* "Queue brew formula/cask actions onto the softwares install queue so they
\* serialize with Softwares installs (no overlapping package jobs)"
\* (EnqueueBrewActions) is true of the queue itself: where nobody uses the
\* single-page install, no job's script runs together with the brew of a queued
\* action.  It says nothing of scripts without a job (legacy installs) and of
\* the brew commands that run outside the queue (SwitchPackageManager).
THEOREM QueueSerializesBrew ==
  ASSUME "stream" \notin Workload
  PROVE  Spec => []NoOverlappingPackageJobs
<1>1. Init => OnlyQueued
  BY DEF Init, OnlyQueued
\* Where nobody streams a single-page install, the queue alone registers jobs.
<1>2. QueueInv /\ ServedOK /\ OnlyQueued /\ [Next]_vars => OnlyQueued'
  <2> SUFFICES ASSUME QueueInv, ServedOK, OnlyQueued, [Next]_vars PROVE OnlyQueued'
    OBVIOUS
  <2>1. \A c \in Clients : ~StreamPrepare(c)
    BY DEF StreamPrepare, ServedOK, Operation
  <2> QED
    BY <2>1, JobEffects DEF OnlyQueued
<1>3. QueueInv /\ OnlyQueued => NoOverlappingPackageJobs
  <2> SUFFICES ASSUME QueueInv, OnlyQueued, NEW j \in Scripting, NEW v \in Workers
               PROVE  worker[v].pc # "brew"
    BY DEF NoOverlappingPackageJobs
  <2>1. j # 0 /\ job[j].queued /\ job[j].pc # "over" /\ j \in DOMAIN job
    BY Elements DEF QueueInv, OnlyQueued, Scripting
  <2>2. PICK w \in Workers : worker[w].job = j
    BY <2>1 DEF QueueInv, QueueOneByOne
  <2>3. worker[w].pc \in {"start", "wait"}
    BY <2>1, <2>2 DEF QueueInv, WorkerOK
  <2> QED
    BY <2>3 DEF QueueInv, OneWorker, Alive
<1> QED
  BY <1>1, <1>2, <1>3, Invariance, Served, PTL DEF Spec
=============================================================================
