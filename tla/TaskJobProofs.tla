---------------------------- MODULE TaskJobProofs ----------------------------
(***************************************************************************)
(* Theorems about TaskJobController, for any set of tasks, any dependency  *)
(* lists (cyclic ones included), and any number of incarnations and        *)
(* faults.                                                                 *)
(***************************************************************************)
EXTENDS TaskJobController, TLAPS

-----------------------------------------------------------------------------
(* Types. *)

\* A Reconcile call in progress has a task and the copy it fetched.
Busy == worker.pc # "idle" => worker.task \in Task /\ worker.job \in Job

TypeInv == TypeOK /\ Busy

\* A status write keeps the shape of a TaskJob.
LEMMA WrittenType ==
    ASSUME NEW job \in Job, NEW status \in Status
    PROVE  Written(job, status) \in Job
BY DEF Written, Job, Status

\* The values the constants of the module stand for.
LEMMA IdleType == Idle \in Worker /\ NewStatus \in Status
BY DEF Idle, Worker, NewStatus, Status, Phase, Message

\* Return and Write, the two ways a call of Reconcile goes on, keep the types.
LEMMA ReturnType ==
    ASSUME TypeInv, worker.pc # "idle", NEW requeue \in BOOLEAN, Return(requeue)
    PROVE  worker' \in Worker /\ Busy' /\ queue' \in SUBSET Task
BY IdleType DEF TypeInv, TypeOK, Busy, Return, Idle

\* The same of Write.
LEMMA WriteType ==
    ASSUME TypeInv, worker.pc # "idle", NEW phase \in Phase, NEW msg \in Message,
           NEW requeue \in BOOLEAN, Write(phase, msg, requeue)
    PROVE  worker' \in Worker /\ Busy' /\ queue' \in SUBSET Task
BY Zenon DEF TypeInv, TypeOK, Busy, Write, Worker, Status

\* The loop over the dependencies goes on.
LEMMA NextDependencyType ==
    ASSUME NEW w \in Worker
    PROVE  [w EXCEPT !.k = @ + 1] \in Worker
BY DEF Worker

\* A disturbance stays within the bound.
LEMMA FaultType ==
    ASSUME TypeOK, Fault
    PROVE  faults' \in 0..MaxFaults
BY TaskAssumption DEF TypeOK, Fault

\* Every action keeps TypeInv.
LEMMA TypeStep == TypeInv /\ [Next]_vars => TypeInv'
<1> SUFFICES ASSUME TypeInv, [Next]_vars PROVE TypeInv'
  OBVIOUS
<1> USE TaskAssumption
<1>1. CASE UNCHANGED vars
  BY <1>1 DEF TypeInv, TypeOK, Busy, vars
<1>2. ASSUME NEW t \in Task, Reconcile(t) PROVE TypeInv'
  <2>1. worker' \in Worker /\ Busy'
    <3>1. CASE jobCache[t] = NoJob \/ jobCache[t].status.phase \in Terminal
      BY <1>2, <3>1, IdleType DEF Reconcile, Busy, Idle
    <3>2. CASE ~(jobCache[t] = NoJob \/ jobCache[t].status.phase \in Terminal)
      <4>1. jobCache[t] \in Job
        BY <3>2 DEF TypeInv, TypeOK
      <4> QED
        BY Zenon, <1>2, <3>2, <4>1, IdleType DEF Reconcile, Busy, Idle, Worker
    <3> QED BY <3>1, <3>2
  <2> QED
    BY <1>2, <2>1 DEF TypeInv, TypeOK, Reconcile, server, caches, history
<1>3. CASE checkDependencies
  <2>1. worker' \in Worker /\ Busy' /\ queue' \in SUBSET Task
    <3>1. CASE Return(TRUE)
      BY Zenon, <1>3, <3>1, ReturnType DEF checkDependencies
    <3>2. CASE Write("Queued", "waiting", TRUE)
      BY Zenon, <1>3, <3>2, WriteType DEF checkDependencies, Phase, Message
    <3>3. CASE worker' = [worker EXCEPT !.pc = "find"] /\ UNCHANGED queue
      BY Zenon, <3>3, <1>3 DEF TypeInv, TypeOK, Busy, Worker, checkDependencies
    <3>4. CASE worker' = [worker EXCEPT !.k = @ + 1] /\ UNCHANGED queue
      <4>1. worker \in Worker /\ queue \in SUBSET Task
        BY DEF TypeInv, TypeOK
      <4>2. worker' \in Worker
        BY <3>4, <4>1, NextDependencyType
      <4>3. worker'.task = worker.task /\ worker'.job = worker.job
        BY <3>4, <4>1 DEF Worker
      <4> QED
        BY <1>3, <3>4, <4>1, <4>2, <4>3 DEF checkDependencies, TypeInv, Busy
    <3> QED BY Zenon, <1>3, <3>1, <3>2, <3>3, <3>4 DEF checkDependencies
  <2> QED
    BY <1>3, <2>1 DEF TypeInv, TypeOK, checkDependencies, server, caches, history
<1>4. CASE findPod
  <2>1. worker' \in Worker /\ Busy' /\ queue' \in SUBSET Task
    <3>1. CASE Return(TRUE)
      BY Zenon, <1>4, <3>1, ReturnType DEF findPod
    <3>2. ASSUME NEW p \in Phase, NEW m \in Message, NEW r \in BOOLEAN, Write(p, m, r)
          PROVE  worker' \in Worker /\ Busy' /\ queue' \in SUBSET Task
      BY <1>4, <3>2, WriteType DEF findPod
    <3>3. CASE worker' = [worker EXCEPT !.pc = "create"] /\ UNCHANGED queue
      BY Zenon, <3>3, <1>4 DEF TypeInv, TypeOK, Busy, Worker, findPod
    <3> QED BY Zenon, <1>4, <3>1, <3>2, <3>3 DEF findPod, syncStatus, Phase, Message
  <2> QED
    BY <1>4, <2>1 DEF TypeInv, TypeOK, findPod, server, caches, history
<1>5. CASE CreateOk
  <2>1. worker.job \in Job /\ worker.task \in Task /\ worker.job.status.msg \in Message
    BY <1>5 DEF TypeInv, Busy, CreateOk, Job, Status
  <2>2. worker' \in Worker /\ Busy' /\ queue' \in SUBSET Task
    BY Zenon, <1>5, <2>1, WriteType DEF CreateOk, Phase
  <2>3. buildPod \in Pod
    BY <2>1 DEF buildPod, Pod, Job, PodPhase
  <2> QED
    BY <1>5, <2>1, <2>2, <2>3 DEF TypeInv, TypeOK, CreateOk, caches, history
<1>6. CASE CreateErr
  <2>1. worker.job \in Job /\ worker.task \in Task
    BY <1>6 DEF TypeInv, Busy, CreateErr
  <2>2. worker' \in Worker /\ Busy' /\ queue' \in SUBSET Task
    BY Zenon, <1>6, WriteType DEF CreateErr, Phase, Message
  <2>3. buildPod \in Pod
    BY <2>1 DEF buildPod, Pod, Job, PodPhase
  <2>4. pods' \in [Task -> Pod \cup {NoPod}] /\ faults' \in 0..MaxFaults
    BY <1>6, <2>1, <2>3, FaultType DEF TypeInv, TypeOK, CreateErr
  <2> QED
    BY <1>6, <2>2, <2>4 DEF TypeInv, TypeOK, CreateErr, caches, history
<1>7. CASE UpdateStatus
  <2>1. worker.task \in Task /\ worker.want \in Status /\ worker.again \in BOOLEAN
    BY <1>7 DEF TypeInv, TypeOK, Busy, UpdateStatus, Worker
  <2>2. worker' \in Worker /\ Busy' /\ queue' \in SUBSET Task
    BY Zenon, <1>7, <2>1, ReturnType DEF UpdateStatus
  <2>3. jobs' \in [Task -> Job \cup {NoJob}]
    <3>1. CASE Current(worker.task) /\ StoreStatus
      <4>1. jobs[worker.task] \in Job
        BY <3>1, <2>1 DEF Current, TypeInv, TypeOK
      <4>2. Written(jobs[worker.task], worker.want) \in Job
        BY <4>1, <2>1, WrittenType
      <4> QED BY Zenon, <3>1, <4>2 DEF StoreStatus, TypeInv, TypeOK
    <3>2. CASE UNCHANGED jobs
      BY <3>2 DEF TypeInv, TypeOK
    <3> QED BY Zenon, <1>7, <3>1, <3>2 DEF UpdateStatus
  <2> QED
    BY Zenon, <1>7, <2>2, <2>3, FaultType DEF TypeInv, TypeOK, UpdateStatus, caches, history
<1>8. CASE SyncJobs \/ SyncPods
  BY SMTT(30), <1>8 DEF TypeInv, TypeOK, Busy, SyncJobs, SyncPods, server, history
<1>9. CASE Restart
  BY <1>9, IdleType DEF TypeInv, TypeOK, Busy, Restart, Fault, Idle, server, history
<1>10. ASSUME NEW t \in Task, Submit(t) PROVE TypeInv'
  <2>1. uids[t] + 1 \in Uid /\ uids[t] + 1 \in 0..MaxUid
    BY <1>10 DEF Submit, TypeInv, TypeOK, Uid
  <2>2. [uid |-> uids[t] + 1, rv |-> 0, status |-> NewStatus] \in Job
    BY <2>1, IdleType DEF Job
  <2> QED
    BY <1>10, <2>1, <2>2 DEF TypeInv, TypeOK, Busy, Submit, caches
<1>11. ASSUME NEW t \in Task, Delete(t) PROVE TypeInv'
  BY <1>11 DEF TypeInv, TypeOK, Busy, Delete, caches, history
<1>12. ASSUME NEW t \in Task, PodStep(t) PROVE TypeInv'
  <2>1. pods[t] \in Pod
    BY <1>12 DEF TypeInv, TypeOK, PodStep
  <2>2. pods' \in [Task -> Pod \cup {NoPod}]
    <3>1. PICK p \in PodPhase : pods' = [pods EXCEPT ![t].phase = p]
      BY Zenon, <1>12 DEF PodStep
    <3>2. [pods[t] EXCEPT !.phase = p] \in Pod
      BY <2>1 DEF Pod
    <3> QED BY <3>1, <3>2 DEF TypeInv, TypeOK
  <2>3. succeeded' \in SUBSET (Task \X Uid)
    <3>1. pods[t].owner \in Uid
      BY <2>1 DEF Pod
    <3>2. <<t, pods[t].owner>> \in Task \X Uid
      BY <3>1
    <3> QED BY <1>12, <3>2 DEF TypeInv, TypeOK, PodStep
  <2> QED
    BY <1>12, <2>2, <2>3 DEF TypeInv, TypeOK, Busy, PodStep, caches
<1>13. ASSUME NEW t \in Task, PodLost(t) \/ CollectPod(t) PROVE TypeInv'
  <2>1. CASE pods' = [pods EXCEPT ![t].phase = "Unknown"] /\ pods[t] # NoPod
    <3>1. pods' \in [Task -> Pod \cup {NoPod}]
      BY <2>1 DEF TypeInv, TypeOK, Pod, PodPhase
    <3> QED
      BY <1>13, <3>1 DEF TypeInv, TypeOK, Busy, PodLost, CollectPod, Fault, caches, history
  <2>2. CASE pods' = [pods EXCEPT ![t] = NoPod]
    BY <1>13, <2>2 DEF TypeInv, TypeOK, Busy, PodLost, CollectPod, Fault, caches, history
  <2> QED BY <1>13, <2>1, <2>2 DEF PodLost, CollectPod
<1> QED
  BY <1>1, <1>2, <1>3, <1>4, <1>5, <1>6, <1>7, <1>8, <1>9, <1>10, <1>11, <1>12, <1>13
     DEF Next, Step

\* Every variable of the controller keeps its type.
THEOREM TypeCorrect == Spec => []TypeOK
<1>1. Init => TypeInv
  BY TaskAssumption, IdleType DEF Init, TypeInv, TypeOK, Busy, Idle
<1>2. TypeInv => TypeOK
  BY DEF TypeInv
<1> QED BY <1>1, <1>2, TypeStep, PTL DEF Spec
-----------------------------------------------------------------------------
(* Order: what a cache or a call in progress knows has really happened.    *)
(* HasSucceeded never becomes false again, so knowledge that is out of     *)
(* date is still true.  That is why a lagging cache cannot start a task    *)
(* before its dependencies.                                                *)

CachedCompletion ==
    \A t \in Task :
        jobCache[t] # NoJob /\ jobCache[t].status.phase = "Completed" => HasSucceeded(t)

PodSuccess ==
    \A t \in Task :
        /\ pods[t] # NoPod /\ pods[t].phase = "Succeeded" => HasSucceeded(t)
        /\ podCache[t] # NoPod /\ podCache[t].phase = "Succeeded" => HasSucceeded(t)

WorkerSuccess == worker.want.phase = "Completed" => HasSucceeded(worker.task)

\* The dependencies that the call in progress has passed.
Passed(i) == worker.pc \in {"find", "create"} \/ (worker.pc = "deps" /\ i < worker.k)

WorkerOrder ==
    \A i \in 1..Len(DependsOn[worker.task]) :
        Passed(i) => HasSucceeded(DependsOn[worker.task][i])

OrderInv ==
    /\ CompletedMeansSucceeded
    /\ CachedCompletion
    /\ PodSuccess
    /\ WorkerSuccess
    /\ worker.pc # "idle" => WorkerOrder
    /\ DependenciesRanFirst

\* What has happened stays so.
LEMMA SuccessStays == [Next]_vars => succeeded \subseteq succeeded'
<1> SUFFICES ASSUME [Next]_vars PROVE succeeded \subseteq succeeded'
  OBVIOUS
<1>1. CASE UNCHANGED vars
  BY <1>1 DEF vars
<1>2. ASSUME NEW t \in Task, PodStep(t) PROVE succeeded \subseteq succeeded'
  BY <1>2 DEF PodStep
<1>3. CASE Step \/ SyncJobs \/ SyncPods \/ Restart
  BY Zenon, <1>3 DEF Step, checkDependencies, findPod, CreateOk, CreateErr, UpdateStatus,
              SyncJobs, SyncPods, Restart, history
<1>4. ASSUME NEW t \in Task,
             Reconcile(t) \/ Submit(t) \/ Delete(t) \/ PodLost(t) \/ CollectPod(t)
      PROVE  succeeded \subseteq succeeded'
  BY <1>4 DEF Reconcile, Submit, Delete, PodLost, CollectPod, history
<1> QED BY <1>1, <1>2, <1>3, <1>4 DEF Next

\* Between two calls the worker has nothing to write.
LEMMA IdleKnowsNothing ==
    Idle.pc = "idle" /\ Idle.want.phase = "" /\ NewStatus.phase = ""
BY Zenon DEF Idle, NewStatus

\* A call that goes on to Return or Write knows no more than before, unless it
\* writes Completed.
LEMMA ReturnOrder ==
    ASSUME NEW requeue, Return(requeue)
    PROVE  WorkerSuccess' /\ worker'.pc = "idle"
BY Zenon DEF Return, Idle, NewStatus, WorkerSuccess

\* The same of Write.
LEMMA WriteOrder ==
    ASSUME TypeInv, UNCHANGED succeeded, NEW phase \in Phase, NEW msg \in Message,
           NEW requeue \in BOOLEAN, Write(phase, msg, requeue),
           phase = "Completed" => HasSucceeded(worker.task)
    PROVE  WorkerSuccess' /\ WorkerOrder'
<1>1. worker' = [worker EXCEPT !.pc = "update", !.again = requeue,
                               !.want = [phase |-> phase, msg |-> msg]]
  BY DEF Write
<1>2. worker'.pc = "update" /\ worker'.want.phase = phase /\ worker'.task = worker.task
  BY <1>1 DEF TypeInv, TypeOK, Worker
<1> QED BY <1>2 DEF WorkerSuccess, WorkerOrder, Passed, HasSucceeded

\* Every action keeps OrderInv.
LEMMA OrderStep == TypeInv /\ OrderInv /\ [Next]_vars => OrderInv'
<1> SUFFICES ASSUME TypeInv, OrderInv, [Next]_vars PROVE OrderInv'
  OBVIOUS
<1> USE TaskAssumption
<1>1. CASE UNCHANGED vars
  BY Zenon, <1>1 DEF OrderInv, CompletedMeansSucceeded, CachedCompletion, PodSuccess, WorkerSuccess,
              WorkerOrder, Passed, DependenciesRanFirst, HasSucceeded, vars
<1>2. ASSUME NEW t \in Task, Reconcile(t) PROVE OrderInv'
  <2>1. WorkerSuccess' /\ (worker'.pc # "idle" => WorkerOrder')
    <3>1. CASE worker' = Idle
      BY Zenon, <3>1, IdleKnowsNothing DEF WorkerSuccess
    <3>2. CASE worker' = [Idle EXCEPT !.pc = "deps", !.task = t, !.job = jobCache[t], !.k = 1]
      <4>1. worker'.pc = "deps" /\ worker'.k = 1 /\ worker'.want = Idle.want
        BY <3>2 DEF Idle
      <4>2. WorkerSuccess'
        BY Zenon, <4>1, IdleKnowsNothing DEF WorkerSuccess
      <4>3. DependsOn[t] \in Seq(Task) /\ worker'.task = t
        BY <3>2 DEF Idle
      <4>4. \A i \in 1..Len(DependsOn[t]) : ~(i < 1)
        BY <4>3
      <4> QED BY <4>1, <4>2, <4>3, <4>4 DEF WorkerOrder, Passed
    <3> QED BY <1>2, <3>1, <3>2 DEF Reconcile
  <2> QED
    BY Zenon, <1>2, <2>1 DEF OrderInv, CompletedMeansSucceeded, CachedCompletion, PodSuccess,
       DependenciesRanFirst, HasSucceeded, Reconcile, server, caches, history
<1>3. CASE checkDependencies
  <2>1. worker.pc = "deps" /\ worker \in Worker /\ UNCHANGED succeeded /\ worker.task \in Task
    BY <1>3 DEF checkDependencies, TypeInv, TypeOK, Busy, history
  <2>2. WorkerSuccess' /\ (worker'.pc # "idle" => WorkerOrder')
    <3>1. CASE worker.k > Len(DependsOn[worker.task]) /\ worker' = [worker EXCEPT !.pc = "find"]
      <4>1. worker'.task = worker.task /\ worker'.want = worker.want
        BY <2>1, <3>1 DEF Worker
      <4>2. Len(DependsOn[worker.task]) \in Nat /\ worker.k \in Nat
        BY <2>1 DEF Worker
      <4>3. \A i \in 1..Len(DependsOn[worker.task]) : HasSucceeded(DependsOn[worker.task][i])
        <5> SUFFICES ASSUME NEW i \in 1..Len(DependsOn[worker.task])
                     PROVE  HasSucceeded(DependsOn[worker.task][i])
          OBVIOUS
        <5>1. Passed(i)
          BY <2>1, <3>1, <4>2 DEF Passed
        <5> QED BY <2>1, <5>1 DEF OrderInv, WorkerOrder
      <4> QED BY Zenon, <2>1, <4>1, <4>3 DEF OrderInv, WorkerSuccess, WorkerOrder, HasSucceeded
    <3>2. CASE Return(TRUE)
      BY Zenon, <3>2, ReturnOrder
    <3>3. CASE Write("Queued", "waiting", TRUE)
      BY Zenon, <2>1, <3>3, WriteOrder DEF Phase, Message
    <3>4. ASSUME worker.k <= Len(DependsOn[worker.task]),
                 jobCache[DependsOn[worker.task][worker.k]] # NoJob,
                 jobCache[DependsOn[worker.task][worker.k]].status.phase = "Completed",
                 worker' = [worker EXCEPT !.k = @ + 1]
          PROVE  WorkerSuccess' /\ WorkerOrder'
      <4> DEFINE deps == DependsOn[worker.task]
      <4>1. /\ worker'.task = worker.task /\ worker'.want = worker.want
            /\ worker'.pc = "deps" /\ worker'.k = worker.k + 1
        BY <2>1, <3>4 DEF Worker
      <4>2. deps \in Seq(Task) /\ Len(deps) \in Nat /\ worker.k \in Nat
        BY <2>1 DEF Worker
      <4>3. ASSUME NEW i \in 1..Len(deps), i < worker.k + 1 PROVE HasSucceeded(deps[i])
        <5>1. CASE i < worker.k
          BY <2>1, <5>1 DEF OrderInv, WorkerOrder, Passed
        <5>2. CASE i = worker.k
          <6>1. deps[i] \in Task
            BY <4>2
          <6> QED BY <3>4, <5>2, <6>1 DEF OrderInv, CachedCompletion
        <5> QED BY <4>2, <4>3, <5>1, <5>2
      <4> QED BY Zenon, <2>1, <4>1, <4>3 DEF OrderInv, WorkerSuccess, WorkerOrder, Passed, HasSucceeded
    <3> QED BY Zenon, <1>3, <3>1, <3>2, <3>3, <3>4 DEF checkDependencies
  <2> QED
    BY Zenon, <1>3, <2>2 DEF OrderInv, CompletedMeansSucceeded, CachedCompletion, PodSuccess,
       DependenciesRanFirst, HasSucceeded, checkDependencies, server, caches, history
<1>4. CASE findPod
  <2>1. worker.pc = "find" /\ worker \in Worker /\ UNCHANGED succeeded /\ worker.task \in Task
    BY <1>4 DEF findPod, TypeInv, TypeOK, Busy, history
  <2>2. WorkerSuccess' /\ (worker'.pc # "idle" => WorkerOrder')
    <3>1. CASE Return(TRUE)
      BY Zenon, <3>1, ReturnOrder
    <3>2. ASSUME NEW p \in Phase \ {"Completed"}, NEW m \in Message, NEW r \in BOOLEAN,
                 Write(p, m, r)
          PROVE  WorkerSuccess' /\ WorkerOrder'
      BY <2>1, <3>2, WriteOrder
    <3>3. CASE podCache[worker.task] # NoPod /\ podCache[worker.task].phase = "Succeeded"
               /\ Write("Completed", "end", FALSE)
      <4>1. HasSucceeded(worker.task)
        BY <2>1, <3>3 DEF OrderInv, PodSuccess
      <4> QED BY Zenon, <2>1, <3>3, <4>1, WriteOrder DEF Phase, Message
    <3>4. CASE worker' = [worker EXCEPT !.pc = "create"]
      <4>1. worker'.task = worker.task /\ worker'.want = worker.want /\ worker'.pc = "create"
        BY <2>1, <3>4 DEF Worker
      <4> QED BY Zenon, <2>1, <4>1 DEF OrderInv, WorkerSuccess, WorkerOrder, Passed, HasSucceeded
    <3> QED BY Zenon, <1>4, <3>1, <3>2, <3>3, <3>4 DEF findPod, syncStatus, Phase, Message
  <2> QED
    BY Zenon, <1>4, <2>2 DEF OrderInv, CompletedMeansSucceeded, CachedCompletion, PodSuccess,
       DependenciesRanFirst, HasSucceeded, findPod, server, caches, history
<1>5. CASE CreateOk \/ CreateErr
  <2>1. worker.pc = "create" /\ worker \in Worker /\ UNCHANGED succeeded /\ worker.task \in Task
    BY Zenon, <1>5 DEF CreateOk, CreateErr, TypeInv, TypeOK, Busy, history
  <2>2. \A i \in 1..Len(DependsOn[worker.task]) : HasSucceeded(DependsOn[worker.task][i])
    BY <2>1 DEF OrderInv, WorkerOrder, Passed
  <2>3. WorkerSuccess' /\ WorkerOrder'
    <3>1. worker.job.status.msg \in Message
      BY <2>1 DEF TypeInv, Busy, Job, Status
    <3>2. PICK p \in Phase \ {"Completed"}, m \in Message : Write(p, m, TRUE)
      BY Zenon, <1>5, <3>1 DEF CreateOk, CreateErr, Phase, Message
    <3> QED BY Zenon, <2>1, <3>2, WriteOrder
  <2>4. UNCHANGED pods \/ pods' = [pods EXCEPT ![worker.task] = buildPod]
    BY Zenon, <1>5 DEF CreateOk, CreateErr
  <2>5. \A t \in Task : pods'[t] = pods[t] \/ (t = worker.task /\ pods'[t] = buildPod)
    BY <2>1, <2>4 DEF TypeInv, TypeOK
  <2>6. DependenciesRanFirst'
    BY Zenon, <2>1, <2>2, <2>5 DEF OrderInv, DependenciesRanFirst, HasSucceeded
  <2>7. PodSuccess'
    <3>1. buildPod.phase = "Pending" /\ UNCHANGED podCache
      BY Zenon, <1>5 DEF buildPod, CreateOk, CreateErr, caches
    <3> QED BY Zenon, <2>1, <2>5, <3>1 DEF OrderInv, PodSuccess, HasSucceeded
  <2> QED
    BY Zenon, <1>5, <2>1, <2>3, <2>6, <2>7 DEF OrderInv, CompletedMeansSucceeded, CachedCompletion,
       HasSucceeded, CreateOk, CreateErr, caches
<1>6. CASE UpdateStatus
  <2>1. UNCHANGED <<pods, caches, succeeded>> /\ worker.task \in Task
    BY <1>6 DEF UpdateStatus, TypeInv, Busy, history
  <2>2. WorkerSuccess' /\ worker'.pc = "idle"
    BY Zenon, <1>6, ReturnOrder DEF UpdateStatus
  <2>3. CompletedMeansSucceeded'
    <3>1. CASE UNCHANGED jobs
      BY Zenon, <2>1, <3>1 DEF OrderInv, CompletedMeansSucceeded, HasSucceeded
    <3>2. CASE StoreStatus
      <4>1. \A t \in Task \ {worker.task} : jobs'[t] = jobs[t]
        BY <3>2 DEF StoreStatus, TypeInv, TypeOK
      <4>2. jobs'[worker.task] = jobs[worker.task] \/ jobs'[worker.task].status = worker.want
        BY <2>1, <3>2 DEF StoreStatus, Written, TypeInv, TypeOK
      <4> QED BY Zenon, <2>1, <4>1, <4>2 DEF OrderInv, CompletedMeansSucceeded, WorkerSuccess, HasSucceeded
    <3> QED BY Zenon, <1>6, <3>1, <3>2 DEF UpdateStatus
  <2> QED
    BY Zenon, <2>1, <2>2, <2>3 DEF OrderInv, CachedCompletion, PodSuccess, DependenciesRanFirst,
       HasSucceeded, caches
<1>7. CASE SyncJobs \/ SyncPods
  BY Zenon, <1>7 DEF OrderInv, CompletedMeansSucceeded, CachedCompletion, PodSuccess, WorkerSuccess,
     WorkerOrder, Passed, DependenciesRanFirst, HasSucceeded, SyncJobs, SyncPods, server, history
<1>8. CASE Restart
  BY Zenon, <1>8 DEF OrderInv, CompletedMeansSucceeded, CachedCompletion, PodSuccess, WorkerSuccess,
     DependenciesRanFirst, HasSucceeded, Restart, Idle, NewStatus, server, history
<1>9. ASSUME NEW t \in Task, Submit(t) \/ Delete(t) PROVE OrderInv'
  <2>1. CompletedMeansSucceeded'
    <3>1. \A s \in Task \ {t} : jobs'[s] = jobs[s]
      BY <1>9 DEF Submit, Delete, TypeInv, TypeOK
    <3>2. jobs'[t] # NoJob => jobs'[t].status.phase = ""
      <4>1. CASE Submit(t)
        <5>1. jobs'[t].status = NewStatus
          BY <4>1 DEF Submit, TypeInv, TypeOK
        <5> QED BY Zenon, <5>1, IdleKnowsNothing
      <4>2. CASE Delete(t)
        BY Zenon, <4>2 DEF Delete, TypeInv, TypeOK
      <4> QED BY Zenon, <1>9, <4>1, <4>2
    <3>3. UNCHANGED succeeded
      BY <1>9 DEF Submit, Delete, history
    <3> QED BY Zenon, <3>1, <3>2, <3>3 DEF OrderInv, CompletedMeansSucceeded, HasSucceeded
  <2> QED
    BY Zenon, <1>9, <2>1 DEF OrderInv, CachedCompletion, PodSuccess, WorkerSuccess, WorkerOrder, Passed,
       DependenciesRanFirst, HasSucceeded, Submit, Delete, caches, history
<1>10. ASSUME NEW t \in Task, PodStep(t) PROVE OrderInv'
  <2>1. succeeded \subseteq succeeded'
    BY SuccessStays
  <2>2. PICK p \in PodPhase :
          /\ pods' = [pods EXCEPT ![t].phase = p]
          /\ succeeded' = IF p = "Succeeded" THEN succeeded \cup {<<t, pods[t].owner>>}
                                             ELSE succeeded
    BY Zenon, <1>10 DEF PodStep
  <2>3. pods[t] \in Pod /\ pods[t].owner \in Uid /\ pods'[t].phase = p
    BY <1>10, <2>2 DEF PodStep, TypeInv, TypeOK, Pod
  <2>4. \A s \in Task \ {t} : pods'[s] = pods[s]
    BY <2>2 DEF TypeInv, TypeOK
  <2>5. PodSuccess'
    BY Zenon, <1>10, <2>1, <2>2, <2>3, <2>4 DEF OrderInv, PodSuccess, HasSucceeded, PodStep, caches
  <2>6. DependenciesRanFirst'
    BY Zenon, <1>10, <2>1, <2>4 DEF OrderInv, DependenciesRanFirst, HasSucceeded, PodStep
  <2> QED
    BY Zenon, <1>10, <2>1, <2>5, <2>6 DEF OrderInv, CompletedMeansSucceeded, CachedCompletion,
       WorkerSuccess, WorkerOrder, Passed, HasSucceeded, PodStep, caches
<1>11. ASSUME NEW t \in Task, PodLost(t) \/ CollectPod(t) PROVE OrderInv'
  <2>1. PodSuccess' /\ DependenciesRanFirst'
    <3>1. \A s \in Task \ {t} : pods'[s] = pods[s]
      BY <1>11 DEF PodLost, CollectPod, TypeInv, TypeOK
    <3>2. pods[t] \in Pod /\ pods[t] # NoPod
      BY <1>11 DEF PodLost, CollectPod, TypeInv, TypeOK
    <3>3. pods'[t] # NoPod => pods'[t].phase = "Unknown"
      BY <1>11, <3>2 DEF PodLost, CollectPod, TypeInv, TypeOK, Pod
    <3>4. UNCHANGED <<podCache, succeeded>>
      BY <1>11 DEF PodLost, CollectPod, caches, history
    <3>5. PodSuccess'
      BY Zenon, <3>1, <3>3, <3>4 DEF OrderInv, PodSuccess, HasSucceeded
    <3>6. DependenciesRanFirst'
      BY Zenon, <3>1, <3>2, <3>4 DEF OrderInv, DependenciesRanFirst, HasSucceeded
    <3> QED BY <3>5, <3>6
  <2> QED
    BY Zenon, <1>11, <2>1 DEF OrderInv, CompletedMeansSucceeded, CachedCompletion, WorkerSuccess,
       WorkerOrder, Passed, HasSucceeded, PodLost, CollectPod, caches, history
<1> QED
  BY <1>1, <1>2, <1>3, <1>4, <1>5, <1>6, <1>7, <1>8, <1>9, <1>10, <1>11 DEF Next, Step

\* OrderInv holds from the start.
LEMMA OrderInit == Init => TypeInv /\ OrderInv
<1>1. Init => TypeInv
  BY TaskAssumption, IdleType DEF Init, TypeInv, TypeOK, Busy, Idle
<1>2. Init => OrderInv
  BY Zenon, IdleKnowsNothing DEF Init, OrderInv, CompletedMeansSucceeded, CachedCompletion, PodSuccess,
     WorkerSuccess, DependenciesRanFirst
<1> QED BY <1>1, <1>2

\* No Pod exists before a Pod of each dependency has Succeeded, although
\* checkDependencies reads a cache and Create runs several calls later.
THEOREM DependenciesFirst == Spec => []DependenciesRanFirst
<1>1. TypeInv /\ OrderInv => DependenciesRanFirst
  BY DEF OrderInv
<1> QED BY <1>1, OrderInit, TypeStep, OrderStep, PTL DEF Spec

\* syncStatus writes Completed only for a task a Pod of which has Succeeded.
THEOREM CompletionIsEarned == Spec => []CompletedMeansSucceeded
<1>1. TypeInv /\ OrderInv => CompletedMeansSucceeded
  BY DEF OrderInv
<1> QED BY <1>1, OrderInit, TypeStep, OrderStep, PTL DEF Spec

-----------------------------------------------------------------------------
(* Versions: within an incarnation, the resource version identifies the    *)
(* TaskJob, and no copy is newer than the server.                          *)

NotNewer(job, t) ==
    job # NoJob =>
        /\ job.uid <= uids[t]
        /\ jobs[t] # NoJob /\ job.uid = jobs[t].uid => job.rv < jobs[t].rv \/ job = jobs[t]

VersionInv ==
    /\ \A t \in Task : jobs[t] # NoJob => jobs[t].uid = uids[t]
    /\ \A t \in Task : NotNewer(jobCache[t], t)
    /\ worker.pc # "idle" => /\ NotNewer(worker.job, worker.task)
                            /\ worker.job.status.phase \notin Terminal

\* A call of Reconcile keeps the copy it fetched to its end.
LEMMA StepKeepsCopy ==
    ASSUME TypeInv, Step
    PROVE  worker'.pc = "idle" \/ (worker'.job = worker.job /\ worker'.task = worker.task)
<1> worker \in Worker
  BY DEF TypeInv, TypeOK
<1>1. ASSUME NEW r, Return(r) PROVE worker'.pc = "idle"
  BY Zenon, <1>1, IdleKnowsNothing DEF Return
<1>2. ASSUME NEW p, NEW m, NEW r, Write(p, m, r)
      PROVE  worker'.job = worker.job /\ worker'.task = worker.task
  BY <1>2 DEF Write, Worker
<1>3. CASE checkDependencies
  BY Zenon, <1>1, <1>2, <1>3 DEF checkDependencies, Worker
<1>4. CASE findPod
  BY Zenon, <1>1, <1>2, <1>4 DEF findPod, syncStatus, Worker
<1>5. CASE CreateOk \/ CreateErr
  BY Zenon, <1>2, <1>5 DEF CreateOk, CreateErr
<1>6. CASE UpdateStatus
  BY Zenon, <1>1, <1>6 DEF UpdateStatus
<1> QED BY <1>3, <1>4, <1>5, <1>6 DEF Step

\* A status write replaces the TaskJob by one of the next version, or by itself.
LEMMA StoreVersion ==
    ASSUME TypeInv, VersionInv, UpdateStatus, NEW t \in Task
    PROVE  \/ jobs'[t] = jobs[t]
           \/ /\ t = worker.task /\ Current(t) /\ jobs[t] \in Job /\ jobs'[t] \in Job
              /\ jobs'[t].uid = jobs[t].uid
              /\ jobs'[t].rv = jobs[t].rv + 1
              /\ jobs'[t].status = worker.want
<1>1. CASE UNCHANGED jobs
  BY <1>1
<1>2. CASE StoreStatus /\ Current(worker.task)
  <2>1. CASE t # worker.task
    BY <1>2, <2>1 DEF StoreStatus, TypeInv, TypeOK
  <2>2. CASE t = worker.task
    <3>1. jobs[t] \in Job /\ worker.want \in Status
      BY <1>2, <2>2 DEF Current, TypeInv, TypeOK, Worker
    <3>2. jobs'[t] = Written(jobs[t], worker.want)
      BY <1>2, <2>2 DEF StoreStatus, TypeInv, TypeOK
    <3>3. jobs'[t] \in Job
      BY <3>1, <3>2, WrittenType
    <3> QED BY <1>2, <2>2, <3>1, <3>2, <3>3 DEF Written
  <2> QED BY <2>1, <2>2
<1> QED BY Zenon, <1>1, <1>2 DEF UpdateStatus

\* Every action keeps VersionInv.
LEMMA VersionStep == TypeInv /\ VersionInv /\ [Next]_vars => VersionInv'
<1> SUFFICES ASSUME TypeInv, VersionInv, [Next]_vars PROVE VersionInv'
  OBVIOUS
<1> USE TaskAssumption, NullAssumption
<1>1. CASE UNCHANGED vars
  BY <1>1 DEF VersionInv, NotNewer, vars
<1>2. ASSUME NEW t \in Task, Reconcile(t) PROVE VersionInv'
  <2>1. UNCHANGED <<jobs, jobCache, uids>>
    BY <1>2 DEF Reconcile, server, caches, history
  <2>2. CASE worker' = Idle
    BY Zenon, <2>1, <2>2, IdleKnowsNothing DEF VersionInv, NotNewer
  <2>3. CASE ~(jobCache[t] = NoJob \/ jobCache[t].status.phase \in Terminal)
    <3>1. worker'.job = jobCache[t] /\ worker'.task = t
      BY <1>2, <2>3 DEF Reconcile, Idle
    <3> QED BY <2>1, <2>3, <3>1 DEF VersionInv, NotNewer
  <2> QED BY <1>2, <2>2, <2>3 DEF Reconcile
<1>3. CASE Step /\ ~UpdateStatus
  <2>1. UNCHANGED <<jobs, jobCache, uids>> /\ worker.pc # "idle"
    BY Zenon, <1>3 DEF Step, checkDependencies, findPod, CreateOk, CreateErr, server, caches, history
  <2> QED BY <1>3, <2>1, StepKeepsCopy DEF VersionInv, NotNewer
<1>4. CASE UpdateStatus
  <2>1. UNCHANGED <<jobCache, uids>> /\ worker'.pc = "idle"
    BY Zenon, <1>4, IdleKnowsNothing DEF UpdateStatus, Return, caches, history
  <2>2. ASSUME NEW t \in Task, jobs'[t] # NoJob PROVE jobs'[t].uid = uids[t]
    BY <1>4, <2>2, StoreVersion DEF VersionInv, Current
  <2>3. ASSUME NEW t \in Task PROVE NotNewer(jobCache[t], t)'
    <3>1. NotNewer(jobCache[t], t) /\ (jobCache[t] # NoJob => jobCache[t] \in Job)
      BY DEF VersionInv, TypeInv, TypeOK
    <3>2. CASE jobs'[t] = jobs[t]
      BY <2>1, <3>1, <3>2 DEF NotNewer
    <3>3. CASE /\ jobs[t] \in Job /\ jobs'[t] \in Job
               /\ jobs'[t].uid = jobs[t].uid /\ jobs'[t].rv = jobs[t].rv + 1
      <4>1. jobs[t] # NoJob /\ jobs[t].rv \in Nat
        BY <3>3 DEF Job
      <4>2. jobCache[t] # NoJob => jobCache[t].rv \in Nat
        BY <3>1 DEF Job
      <4> QED BY <2>1, <3>1, <3>3, <4>1, <4>2 DEF NotNewer
    <3> QED BY <1>4, <3>2, <3>3, StoreVersion
  <2> QED BY <2>1, <2>2, <2>3 DEF VersionInv
<1>5. CASE SyncJobs \/ Restart
  <2>1. jobCache' = jobs /\ UNCHANGED <<jobs, uids>> /\ (worker' = Idle \/ worker' = worker)
    BY <1>5 DEF SyncJobs, Restart, server, history
  <2>2. \A t \in Task : uids[t] \in Nat
    BY DEF TypeInv, TypeOK
  <2>3. \A t \in Task : NotNewer(jobCache[t], t)'
    BY <2>1, <2>2 DEF VersionInv, NotNewer
  <2> QED BY Zenon, <2>1, <2>3, IdleKnowsNothing DEF VersionInv, NotNewer
<1>6. ASSUME NEW t \in Task, Submit(t) PROVE VersionInv'
  <2>1. UNCHANGED <<jobCache, worker>> /\ jobs[t] = NoJob
    BY <1>6 DEF Submit, caches
  <2>2. \A s \in Task \ {t} : jobs'[s] = jobs[s] /\ uids'[s] = uids[s]
    BY <1>6 DEF Submit, TypeInv, TypeOK
  <2>3. uids[t] \in Nat /\ uids'[t] = uids[t] + 1 /\ jobs'[t].uid = uids[t] + 1
    BY <1>6 DEF Submit, TypeInv, TypeOK
  <2>4. ASSUME NEW job \in Job \cup {NoJob}, NEW s \in Task, NotNewer(job, s)
        PROVE  job # NoJob =>
                 /\ job.uid <= uids'[s]
                 /\ jobs'[s] # NoJob /\ job.uid = jobs'[s].uid => job.rv < jobs'[s].rv \/ job = jobs'[s]
    <3>1. job # NoJob => job.uid \in Nat
      BY DEF Job, Uid
    <3> QED BY <2>2, <2>3, <2>4, <3>1 DEF NotNewer
  <2>5. \A s \in Task : jobCache[s] \in Job \cup {NoJob}
    BY DEF TypeInv, TypeOK
  <2>6. \A s \in Task : NotNewer(jobCache[s], s)'
    BY Zenon, <2>1, <2>4, <2>5 DEF VersionInv, NotNewer
  <2>7. worker.pc # "idle" => NotNewer(worker.job, worker.task)'
    BY <2>1, <2>4 DEF VersionInv, NotNewer, TypeInv, Busy
  <2> QED BY Zenon, <2>1, <2>2, <2>3, <2>6, <2>7 DEF VersionInv
<1>7. ASSUME NEW t \in Task, Delete(t) PROVE VersionInv'
  <2>1. UNCHANGED <<jobCache, worker, uids>>
    BY <1>7 DEF Delete, caches, history
  <2>2. \A s \in Task : jobs'[s] = jobs[s] \/ jobs'[s] = NoJob
    BY <1>7 DEF Delete, TypeInv, TypeOK
  <2> QED BY Zenon, <2>1, <2>2 DEF VersionInv, NotNewer, TypeInv, Busy
<1>8. CASE SyncPods
  BY <1>8 DEF SyncPods, VersionInv, NotNewer, server, history
<1>9. ASSUME NEW t \in Task, PodStep(t) \/ PodLost(t) \/ CollectPod(t) PROVE VersionInv'
  BY Zenon, <1>9 DEF PodStep, PodLost, CollectPod, VersionInv, NotNewer, caches, history
<1> QED
  BY <1>1, <1>2, <1>3, <1>4, <1>5, <1>6, <1>7, <1>8, <1>9 DEF Next, Step

\* VersionInv holds from the start.
LEMMA VersionInit == Init => VersionInv
BY Zenon, IdleKnowsNothing DEF Init, VersionInv, NotNewer

\* A TaskJob changes, other than by being submitted or deleted, only when the
\* call in progress writes its status, and then it is the one that was fetched.
LEMMA ChangedByWriter ==
    ASSUME TypeInv, VersionInv, [Next]_vars, NEW t \in Task,
           jobs[t] # NoJob, jobs'[t] # NoJob, jobs'[t] # jobs[t]
    PROVE  UpdateStatus /\ worker.task = t /\ worker.job = jobs[t]
<1>1. ~UNCHANGED jobs
  OBVIOUS
<1>2. ASSUME NEW s \in Task, Submit(s) PROVE FALSE
  BY <1>2 DEF Submit, TypeInv, TypeOK
<1>3. ASSUME NEW s \in Task, Delete(s) PROVE FALSE
  BY <1>3 DEF Delete, TypeInv, TypeOK
<1>4. UpdateStatus
  BY Zenon, <1>1, <1>2, <1>3 DEF Next, Step, vars, Reconcile, checkDependencies, findPod, CreateOk,
     CreateErr, SyncJobs, SyncPods, Restart, PodStep, PodLost, CollectPod, server
<1>5. worker.task = t /\ Current(t)
  BY <1>4, StoreVersion
<1>6. worker.job \in Job /\ jobs[t] \in Job /\ worker.job # NoJob /\ NotNewer(worker.job, t)
  BY <1>4, <1>5, NullAssumption DEF VersionInv, UpdateStatus, TypeInv, TypeOK, Busy
<1>7. ~(worker.job.rv < jobs[t].rv)
  BY <1>5, <1>6 DEF Current, Job
<1> QED BY <1>4, <1>5, <1>6, <1>7 DEF NotNewer, Current

\* The status write replaces exactly the TaskJob that was fetched: the resource
\* version that Status().Update carries is enough, although the fetch is from a
\* cache.
THEOREM NoUpdateIsLost == Spec => NoLostUpdate
<1>1. TypeInv /\ VersionInv /\ [Next]_vars
      => [\A t \in Task :
            /\ jobs[t] # NoJob
            /\ jobs'[t] # NoJob
            /\ jobs'[t] # jobs[t]
            => worker.task = t /\ worker.job = jobs[t]]_vars
  BY ChangedByWriter
<1> QED
  BY <1>1, OrderInit, VersionInit, TypeStep, VersionStep, PTL DEF Spec, NoLostUpdate

\* Completed and Failed are final: the early return of Reconcile and the version
\* check of the write together suffice.
THEOREM FinalIsFinal == Spec => TerminalIsFinal
<1>1. TypeInv /\ VersionInv /\ [Next]_vars
      => [\A t \in Task :
            /\ jobs[t] # NoJob
            /\ jobs'[t] # NoJob
            /\ jobs[t].status.phase \in Terminal
            => jobs'[t] = jobs[t]]_vars
  BY Zenon, ChangedByWriter DEF VersionInv, UpdateStatus
<1> QED
  BY <1>1, OrderInit, VersionInit, TypeStep, VersionStep, PTL DEF Spec, TerminalIsFinal
-----------------------------------------------------------------------------
(* Refinement: the abstract life cycle. *)

\* Status().Update never writes back the empty phase of a new TaskJob.
WantsPhase == worker.pc = "update" => worker.want.phase # ""

\* Every action keeps WantsPhase.
LEMMA WantsPhaseStep == TypeInv /\ WantsPhase /\ [Next]_vars => WantsPhase'
<1> SUFFICES ASSUME TypeInv, WantsPhase, [Next]_vars PROVE WantsPhase'
  OBVIOUS
<1> worker \in Worker
  BY DEF TypeInv, TypeOK
<1>1. CASE UNCHANGED worker
  BY Zenon, <1>1 DEF WantsPhase
<1>2. CASE worker' = Idle
  BY Zenon, <1>2, IdleKnowsNothing DEF WantsPhase
<1>3. ASSUME NEW p \in Phase \ {""}, NEW m, NEW r, Write(p, m, r) PROVE WantsPhase'
  BY Zenon, <1>3 DEF Write, Worker, WantsPhase
<1>4. ASSUME NEW t \in Task, Reconcile(t) PROVE WantsPhase'
  BY Zenon, <1>2, <1>4 DEF Reconcile, Idle, WantsPhase
<1>5. CASE checkDependencies
  BY Zenon, <1>2, <1>3, <1>5 DEF checkDependencies, Return, Phase, Worker, WantsPhase
<1>6. CASE findPod
  BY Zenon, <1>2, <1>3, <1>6 DEF findPod, syncStatus, Return, Phase, Worker, WantsPhase
<1>7. CASE CreateOk \/ CreateErr
  BY Zenon, <1>3, <1>7 DEF CreateOk, CreateErr, Phase
<1>8. CASE UpdateStatus
  BY <1>2, <1>8 DEF UpdateStatus, Return
<1> QED
  BY <1>1, <1>2, <1>4, <1>5, <1>6, <1>7, <1>8 DEF Next, Step, vars, SyncJobs, SyncPods, Restart,
     Submit, Delete, PodStep, PodLost, CollectPod

\* Every step of the controller is a step of the life cycle or changes nothing
\* that a reader sees.
LEMMA LifecycleStep ==
    ASSUME TypeInv, OrderInv, VersionInv, WantsPhase, [Next]_vars
    PROVE  [Lifecycle!Next]_<<PhaseSeen, WorkDone>>
<1>1. CASE UNCHANGED <<jobs, succeeded>>
  BY <1>1 DEF PhaseSeen, WorkDone, HasSucceeded
<1>2. CASE UpdateStatus
  <2>1. UNCHANGED WorkDone
    BY <1>2 DEF UpdateStatus, WorkDone, HasSucceeded, history
  <2> DEFINE t == worker.task
  <2>2. t \in Task /\ worker.want.phase \in Phase \ {""}
    BY Zenon, <1>2 DEF UpdateStatus, WantsPhase, TypeInv, TypeOK, Busy, Worker, Status
  <2>3. \A s \in Task \ {t} : jobs'[s] = jobs[s]
    BY <1>2, StoreVersion
  <2>4. CASE jobs'[t] = jobs[t]
    BY <2>1, <2>3, <2>4 DEF PhaseSeen
  <2>5. CASE jobs'[t] # jobs[t]
    <3>1. /\ jobs[t] \in Job /\ jobs'[t] \in Job
          /\ jobs[t] # NoJob /\ jobs'[t] # NoJob
          /\ jobs'[t].status = worker.want
      BY Zenon, <1>2, <2>2, <2>5, StoreVersion, NullAssumption
    <3>2. worker.job = jobs[t]
      BY Zenon, <2>2, <2>5, <3>1, ChangedByWriter
    <3>3. jobs[t].status.phase \in Lifecycle!Open
      BY Zenon, <1>2, <3>1, <3>2 DEF UpdateStatus, VersionInv, Job, Status, Phase, Terminal, Lifecycle!Open
    <3>4. PhaseSeen[t] \in Lifecycle!Open
      BY Zenon, <2>2, <3>1, <3>3 DEF PhaseSeen
    <3>5. PhaseSeen' = [PhaseSeen EXCEPT ![t] = worker.want.phase]
      BY Zenon, <2>2, <2>3, <3>1 DEF PhaseSeen
    <3>6. worker.want.phase = "Completed" => t \in WorkDone
      BY <2>2 DEF OrderInv, WorkerSuccess, WorkDone
    <3>7. worker.want.phase \in (Lifecycle!Open \ {""}) \cup Lifecycle!Closed
      BY Zenon, <2>2 DEF Phase, Lifecycle!Open, Lifecycle!Closed
    <3>8. Lifecycle!Move(t)
      BY Zenon, <3>4, <3>5, <3>6, <3>7 DEF Lifecycle!Move
    <3> QED BY Zenon, <2>1, <2>2, <3>8 DEF Lifecycle!Next
  <2> QED BY <2>4, <2>5
<1>3. ASSUME NEW t \in Task, Submit(t) PROVE Lifecycle!Next
  <2>1. UNCHANGED WorkDone
    BY <1>3 DEF Submit, WorkDone, HasSucceeded
  <2>2. jobs[t] = NoJob /\ jobs'[t] # NoJob /\ jobs'[t].status = NewStatus
    <3>1. uids[t] + 1 \in Uid
      BY <1>3, TaskAssumption DEF Submit, TypeInv, TypeOK, Uid
    <3>2. [uid |-> uids[t] + 1, rv |-> 0, status |-> NewStatus] \in Job
      BY <3>1, IdleType DEF Job
    <3> QED BY <1>3, <3>2, NullAssumption DEF Submit, TypeInv, TypeOK
  <2>3. \A s \in Task \ {t} : jobs'[s] = jobs[s]
    BY <1>3 DEF Submit, TypeInv, TypeOK
  <2>4. PhaseSeen' = [PhaseSeen EXCEPT ![t] = ""] /\ PhaseSeen[t] = "absent"
    BY Zenon, <2>2, <2>3, IdleKnowsNothing DEF PhaseSeen
  <2> QED BY Zenon, <2>1, <2>4 DEF Lifecycle!Next, Lifecycle!Appear
<1>4. ASSUME NEW t \in Task, Delete(t) PROVE Lifecycle!Next
  <2>1. UNCHANGED WorkDone
    BY <1>4 DEF Delete, WorkDone, HasSucceeded, history
  <2>2. jobs[t] # NoJob /\ jobs[t] \in Job /\ jobs' = [jobs EXCEPT ![t] = NoJob]
    BY <1>4 DEF Delete, TypeInv, TypeOK
  <2>3. PhaseSeen' = [PhaseSeen EXCEPT ![t] = "absent"]
    BY Zenon, <2>2 DEF PhaseSeen, TypeInv, TypeOK
  <2>4. PhaseSeen[t] # "absent"
    BY Zenon, <2>2 DEF PhaseSeen, Job, Status, Phase
  <2> QED BY Zenon, <2>1, <2>3, <2>4 DEF Lifecycle!Next, Lifecycle!Vanish
<1>5. ASSUME NEW t \in Task, PodStep(t) PROVE [Lifecycle!Next]_<<PhaseSeen, WorkDone>>
  <2>1. UNCHANGED PhaseSeen
    BY <1>5 DEF PodStep, PhaseSeen
  <2>2. CASE UNCHANGED succeeded
    BY <2>1, <2>2 DEF WorkDone, HasSucceeded
  <2>3. CASE succeeded' = succeeded \cup {<<t, pods[t].owner>>}
    <3>1. pods[t].owner \in Uid
      BY <1>5 DEF PodStep, TypeInv, TypeOK, Pod
    <3>2. WorkDone' = WorkDone \cup {t}
      BY <2>3, <3>1 DEF WorkDone, HasSucceeded
    <3> QED BY <2>1, <3>2 DEF Lifecycle!Next
  <2> QED BY <1>5, <2>2, <2>3 DEF PodStep
<1> QED
  BY Zenon, <1>1, <1>2, <1>3, <1>4, <1>5 DEF Next, Step, vars, Reconcile, checkDependencies, findPod,
     CreateOk, CreateErr, SyncJobs, SyncPods, Restart, PodLost, CollectPod, server, history

\* The controller implements the life cycle of TaskLifecycle.
THEOREM Refinement == Spec => ImplementsLifecycle
<1>1. Init => Lifecycle!Init
  BY DEF Init, PhaseSeen, WorkDone, HasSucceeded, Lifecycle!Init
<1>2. Init => WantsPhase
  BY Zenon, IdleKnowsNothing DEF Init, WantsPhase
<1>3. TypeInv /\ OrderInv /\ VersionInv /\ WantsPhase /\ [Next]_vars
      => [Lifecycle!Next]_<<PhaseSeen, WorkDone>>
  BY LifecycleStep
<1> QED
  BY <1>1, <1>2, <1>3, OrderInit, VersionInit, TypeStep, OrderStep, VersionStep, WantsPhaseStep,
     PTL DEF Spec, ImplementsLifecycle, Lifecycle!Spec
=============================================================================
