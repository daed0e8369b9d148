--------------------------- MODULE CloudTaskProofs ---------------------------
(***************************************************************************)
(* Theorems about CloudTaskController, for any number of retries,          *)
(* incarnations, edits, faults and lost Pods.                              *)
(***************************************************************************)
EXTENDS CloudTaskController, TLAPS

Deleting == {"cleanup", "deletePod", "unfinalize"}
Working == {"getPod", "status", "retry", "create", "started"}

\* A copy is no newer than the server, and a deletion mark is never taken back.
NotNewer(c) ==
    /\ c.uid <= uid
    /\ task # NoTask /\ task.uid = c.uid => c.rv <= task.rv /\ (c.del => task.del)

SameVersion(c) == task # NoTask /\ task.uid = c.uid /\ task.rv = c.rv

\* The CloudTask is on the server, and its finalizer holds it there.
Held(c) == task # NoTask /\ task.uid = c.uid /\ task.fin

ServerInv ==
    /\ task # NoTask => task.uid = uid
    /\ taskCache # NoTask =>
           /\ NotNewer(taskCache)
           /\ SameVersion(taskCache) => taskCache = task
           /\ taskCache.fin /\ ~taskCache.del => Held(taskCache)

\* What a call of Reconcile knows of its copy, by where it is.
WorkerInv ==
    worker.pc # "idle" =>
        /\ worker.copy \in CloudTask
        /\ NotNewer(worker.copy)
        /\ SameVersion(worker.copy) =>
               /\ [worker.copy EXCEPT !.phase = task.phase] = task
               /\ worker.pc # "status" => worker.copy = task
        /\ worker.pc \in Deleting =>
               /\ worker.copy.del
               /\ taskCache # NoTask /\ taskCache.uid = worker.copy.uid => taskCache.del
        /\ worker.pc = "finalize" => ~worker.copy.del
        /\ worker.pc \in Working => worker.copy.fin /\ ~worker.copy.del /\ Held(worker.copy)
        /\ worker.pc = "retry" => worker.copy.phase = "Failed" /\ MayRetry(worker.copy)

Inv == TypeOK /\ ServerInv /\ WorkerInv

\* A call that has returned knows nothing.
LEMMA IdleKnowsNothing ==
    ASSUME worker' = Idle
    PROVE  WorkerInv' /\ worker' \in [pc : Pc, copy : CloudTask \cup {NoTask}]
BY DEF Idle, WorkerInv, Pc

\* What a user may ask for is within the limits.
LEMMA AdmittedType == Admitted \subseteq 0..MaxRetries
BY CloudTaskAssumption DEF Admitted, Validate, Default

\* A copy is stored at the next version: what the informer holds stays true.
\* "del" stays, and the finalizer goes only from a CloudTask that is deleted.
LEMMA StoreKeeps ==
    ASSUME Inv, worker.pc # "idle", Current, NEW new \in CloudTask, Store(new),
           UNCHANGED <<caches, uid>>,
           new.uid = worker.copy.uid, new.rv = worker.copy.rv + 1, new.del = worker.copy.del,
           new.fin \/ worker.pc = "unfinalize"
    PROVE  /\ ServerInv'
           /\ task' \in CloudTask \cup {NoTask}
           /\ worker.pc # "unfinalize" => task' = new
<1>1. task \in CloudTask /\ task.uid = worker.copy.uid /\ task.rv = worker.copy.rv
  BY DEF Inv, TypeOK, Current
<1>2. task.del = worker.copy.del /\ worker.copy \in CloudTask
  BY <1>1, CloudTaskNulls DEF Inv, WorkerInv, SameVersion, CloudTask
<1>3. task.rv \in Nat /\ new.rv = task.rv + 1
  BY <1>1 DEF CloudTask
<1>4. CASE worker.pc = "unfinalize"
  <2>1. worker.copy.del
    BY <1>4 DEF Inv, WorkerInv, Deleting
  <2>2. taskCache # NoTask => ~(taskCache.fin /\ ~taskCache.del)
    BY <1>1, <1>4 DEF Inv, ServerInv, WorkerInv, Held, Deleting
  <2>3. CASE task' = NoTask
    BY <2>2, <2>3, <1>4 DEF Inv, ServerInv, NotNewer, SameVersion, caches
  <2>4. CASE task' = new
    <3>1. taskCache # NoTask => taskCache.rv \in Nat
      BY DEF Inv, TypeOK, CloudTask
    <3>2. taskCache' = taskCache /\ uid' = uid /\ task'.uid = uid
      BY <1>1, <2>4, CloudTaskNulls DEF caches, Inv, ServerInv
    <3>3. task'.del
      BY Zenon, <2>1, <2>4
    <3>4. taskCache # NoTask /\ task'.uid = taskCache.uid => taskCache.rv < task'.rv
      BY <1>1, <1>3, <2>4, <3>1, <3>2, CloudTaskNulls DEF Inv, ServerInv, NotNewer
    <3>5. taskCache # NoTask => taskCache.uid <= uid
      BY DEF Inv, ServerInv, NotNewer
    <3>6. ServerInv'
      BY <1>3, <2>2, <2>4, <3>1, <3>2, <3>3, <3>4, <3>5 DEF ServerInv, NotNewer, SameVersion
    <3> QED
      BY <1>4, <2>4, <3>6
  <2> QED BY <2>3, <2>4 DEF Store
<1>5. CASE worker.pc # "unfinalize"
  <2>1. task' = new
    BY <1>5 DEF Store
  <2>2. taskCache # NoTask => taskCache.rv \in Nat
    BY DEF Inv, TypeOK, CloudTask
  <2> QED
    BY <1>1, <1>2, <1>3, <1>5, <2>1, <2>2, CloudTaskNulls DEF Inv, ServerInv, NotNewer, SameVersion, Held, caches
<1> QED BY <1>4, <1>5

\* Return ends the call.
LEMMA ReturnKeeps ==
    ASSUME Inv, NEW requeue \in BOOLEAN, Return(requeue)
    PROVE  WorkerInv' /\ worker' \in [pc : Pc, copy : CloudTask \cup {NoTask}] /\ queued' \in BOOLEAN
BY IdleKnowsNothing DEF Return, Inv, TypeOK

\* A disturbance stays within the bound.
LEMMA FaultType ==
    ASSUME TypeOK, Fault
    PROVE  faults' \in 0..MaxFaults
BY CloudTaskAssumption DEF TypeOK, Fault

\* An update that was not stored, or whose answer was lost.
LEMMA UpdateFails ==
    ASSUME Inv, worker.pc # "idle", NEW new \in CloudTask,
           new.uid = worker.copy.uid, new.rv = worker.copy.rv + 1, new.del = worker.copy.del,
           new.fin \/ worker.pc = "unfinalize",
           UNCHANGED <<pod, caches, uid, lost>>,
           \/ ~Current /\ Return(TRUE) /\ UNCHANGED <<task, faults>>
           \/ Fault /\ Return(TRUE) /\ (UNCHANGED task \/ (Current /\ Store(new)))
    PROVE  Inv'
<1>1. WorkerInv' /\ worker' \in [pc : Pc, copy : CloudTask \cup {NoTask}] /\ queued' \in BOOLEAN
  BY Zenon, ReturnKeeps
<1>2. faults' \in 0..MaxFaults
  BY Zenon, FaultType DEF Inv, TypeOK
<1>3. ServerInv' /\ task' \in CloudTask \cup {NoTask}
  <2>1. CASE UNCHANGED task
    BY <2>1 DEF Inv, TypeOK, ServerInv, NotNewer, SameVersion, Held, caches
  <2>2. CASE Current /\ Store(new)
    BY <2>2, StoreKeeps DEF caches
  <2> QED BY Zenon, <2>1, <2>2
<1> QED BY <1>1, <1>2, <1>3 DEF Inv, TypeOK, caches

\* An update that was stored, after which the call goes on with what it stored.
LEMMA UpdateSucceeds ==
    ASSUME Inv, worker.pc \notin {"idle", "unfinalize"}, NEW new \in CloudTask, Current, Store(new),
           new.uid = worker.copy.uid, new.rv = worker.copy.rv + 1, new.del = worker.copy.del,
           new.fin, ~new.del, UNCHANGED <<pod, caches, uid, faults, lost>>,
           NEW pc \in {"getPod", "retry"}, Go(pc, new),
           pc = "retry" => new.phase = "Failed" /\ MayRetry(new)
    PROVE  Inv'
<1>1. ServerInv' /\ task' \in CloudTask \cup {NoTask} /\ task' = new
  BY StoreKeeps DEF caches
<1>2. worker' = [pc |-> pc, copy |-> new] /\ queued' = queued
  BY DEF Go
<1>3. new.uid \in Nat /\ new.rv \in Nat /\ new.uid <= uid
  BY DEF CloudTask, Uid, Inv, WorkerInv, NotNewer
<1>4. WorkerInv'
  <2>1. [new EXCEPT !.phase = new.phase] = new
    BY DEF CloudTask
  <2> QED
    BY <1>1, <1>2, <1>3, <2>1, CloudTaskNulls
       DEF WorkerInv, NotNewer, SameVersion, Held, Deleting, Working, MayRetry
<1>5. worker' \in [pc : Pc, copy : CloudTask \cup {NoTask}]
  BY <1>2 DEF Pc
<1> QED BY <1>1, <1>2, <1>4, <1>5 DEF Inv, TypeOK, caches

\* An update that was stored, after which the call returns.
LEMMA UpdateReturns ==
    ASSUME Inv, worker.pc # "idle", NEW new \in CloudTask, Current, Store(new),
           new.uid = worker.copy.uid, new.rv = worker.copy.rv + 1, new.del = worker.copy.del,
           new.fin \/ worker.pc = "unfinalize", UNCHANGED <<pod, caches, uid, faults, lost>>,
           NEW requeue \in BOOLEAN, Return(requeue)
    PROVE  Inv'
<1>1. ServerInv' /\ task' \in CloudTask \cup {NoTask}
  BY StoreKeeps DEF caches
<1>2. WorkerInv' /\ worker' \in [pc : Pc, copy : CloudTask \cup {NoTask}] /\ queued' \in BOOLEAN
  BY ReturnKeeps
<1> QED BY <1>1, <1>2 DEF Inv, TypeOK, caches

\* The next version of a copy, with a field changed.
LEMMA BumpedType ==
    ASSUME worker.copy \in CloudTask
    PROVE  /\ Bumped \in CloudTask
           /\ Bumped.uid = worker.copy.uid /\ Bumped.rv = worker.copy.rv + 1
           /\ Bumped.del = worker.copy.del /\ Bumped.fin = worker.copy.fin
           /\ Bumped.phase = worker.copy.phase /\ Bumped.retry = worker.copy.retry
           /\ Bumped.retries = worker.copy.retries
BY DEF Bumped, CloudTask

\* The step leaves the server alone and the call goes on with its copy, of which
\* at most the phase is changed.
LEMMA GoKeeps ==
    ASSUME Inv, worker.pc # "idle", UNCHANGED <<task, caches, uid>>,
           NEW pc \in Pc \ {"idle", "finalize"}, NEW phase \in Phase,
           Go(pc, [worker.copy EXCEPT !.phase = phase]),
           pc # "status" => worker.copy.phase = phase,
           pc \in Deleting => worker.pc \in Deleting,
           pc \in Working => worker.pc \in Working,
           worker.pc # "status",
           pc = "retry" => phase = "Failed" /\ MayRetry(worker.copy)
    PROVE  WorkerInv' /\ ServerInv' /\ worker' \in [pc : Pc, copy : CloudTask \cup {NoTask}]
<1> DEFINE copy == [worker.copy EXCEPT !.phase = phase]
<1>1. worker.copy \in CloudTask
  BY DEF Inv, WorkerInv
<1>2. copy \in CloudTask /\ copy.uid = worker.copy.uid /\ copy.rv = worker.copy.rv
      /\ copy.del = worker.copy.del /\ copy.fin = worker.copy.fin /\ copy.phase = phase
      /\ copy.retry = worker.copy.retry /\ copy.retries = worker.copy.retries
  BY <1>1 DEF CloudTask
<1>3. worker'.pc = pc /\ worker'.copy = copy /\ worker' = [pc |-> pc, copy |-> copy]
  BY DEF Go
<1>4. SameVersion(worker.copy) => [copy EXCEPT !.phase = task.phase] = task
  <2>1. [copy EXCEPT !.phase = task.phase] = [worker.copy EXCEPT !.phase = task.phase]
    BY Zenon, <1>1 DEF CloudTask
  <2> QED BY <2>1 DEF Inv, WorkerInv
<1>5. pc # "status" => copy = worker.copy
  BY <1>1 DEF CloudTask
<1>6. ServerInv'
  BY DEF Inv, ServerInv, NotNewer, SameVersion, Held, caches
<1>7. WorkerInv'
  BY <1>2, <1>3, <1>4, <1>5 DEF Inv, WorkerInv, NotNewer, SameVersion, Held, MayRetry, Deleting, Working, caches
<1> QED BY <1>2, <1>3, <1>6, <1>7

\* The switch on the phase, when the server is left alone.
LEMMA OutcomeKeeps ==
    ASSUME Inv, worker.pc \in Working \ {"status"}, Outcome(worker.copy),
           UNCHANGED <<task, caches, uid>>
    PROVE  /\ WorkerInv' /\ ServerInv' /\ queued' \in BOOLEAN
           /\ worker' \in [pc : Pc, copy : CloudTask \cup {NoTask}]
<1>1. worker.copy \in CloudTask /\ worker.pc # "idle"
  BY DEF Inv, WorkerInv, Working
<1>2. ServerInv'
  BY DEF Inv, ServerInv, NotNewer, SameVersion, Held, caches
<1>3. CASE Return(TRUE) \/ Return(FALSE)
  BY Zenon, <1>2, <1>3, ReturnKeeps
<1>4. CASE worker.copy.phase = "Failed" /\ MayRetry(worker.copy) /\ Go("retry", worker.copy)
  <2>1. worker.copy = [worker.copy EXCEPT !.phase = worker.copy.phase] /\ worker.copy.phase \in Phase
    BY <1>1 DEF CloudTask
  <2>2. queued' = queued
    BY <1>4 DEF Go
  <2> QED BY <1>1, <1>4, <2>1, <2>2, GoKeeps DEF Pc, Working, Deleting, Inv, TypeOK
<1> QED BY Zenon, <1>3, <1>4 DEF Outcome

\* The start of a reconcile keeps the invariant.
LEMMA ReconcileKeeps == ASSUME Inv, Reconcile PROVE Inv'
<1>1. ServerInv'
  BY DEF Reconcile, Inv, ServerInv, NotNewer, SameVersion, Held, caches
<1>2. CASE worker' = Idle
  BY Zenon, <1>1, <1>2, IdleKnowsNothing DEF Reconcile, Inv, TypeOK, caches
<1>3. CASE worker' # Idle
  <2>1. taskCache \in CloudTask /\ worker'.copy = taskCache /\ (taskCache.del => taskCache.fin)
        /\ worker'.pc = (IF taskCache.del THEN "cleanup" ELSE IF ~taskCache.fin THEN "finalize" ELSE "getPod")
    BY <1>3 DEF Reconcile, Inv, TypeOK
  <2>2. worker' \in [pc : Pc, copy : CloudTask \cup {NoTask}]
    BY <1>3, <2>1 DEF Reconcile, Pc
  <2>3. WorkerInv'
    <3>1. SameVersion(taskCache) => [taskCache EXCEPT !.phase = task.phase] = task
      BY <2>1, CloudTaskNulls DEF Inv, ServerInv, CloudTask
    <3> QED
      BY <2>1, <3>1, CloudTaskNulls
         DEF Reconcile, Inv, ServerInv, WorkerInv, NotNewer, SameVersion, Held, Deleting, Working, caches
  <2> QED BY Zenon, <1>1, <2>2, <2>3 DEF Reconcile, Inv, TypeOK, caches
<1> QED BY <1>2, <1>3

\* Every API call of Reconcile keeps the invariant.
LEMMA StepKeeps == ASSUME Inv, Step PROVE Inv'
<1>0. worker.copy \in CloudTask /\ worker.pc # "idle"
  BY Zenon DEF Inv, WorkerInv, Step, cleanup, deletePod, RemoveFinalizer, AddFinalizer, getPod,
         UpdateStatus, Retry, Create, RecordPod
<1> USE <1>0, BumpedType
<1>00. worker.copy = [worker.copy EXCEPT !.phase = worker.copy.phase] /\ worker.copy.phase \in Phase
  BY DEF CloudTask
<1>1. CASE cleanup
  <2>1. PICK pc \in {"deletePod", "unfinalize"} : Go(pc, worker.copy)
    BY <1>1 DEF cleanup
  <2>2. WorkerInv' /\ ServerInv' /\ worker' \in [pc : Pc, copy : CloudTask \cup {NoTask}]
    BY <1>1, <1>00, <2>1, GoKeeps DEF cleanup, Pc, Deleting, Working
  <2> QED BY <1>1, <2>1, <2>2 DEF cleanup, Go, Inv, TypeOK, caches
<1>2. CASE deletePod
  <2>1. pod' \in Pod \cup {NoPod}
    BY Zenon, <1>2 DEF deletePod, Inv, TypeOK, Pod
  <2>2. faults' \in 0..MaxFaults
    BY Zenon, <1>2, FaultType DEF deletePod, Inv, TypeOK
  <2>3. WorkerInv' /\ ServerInv' /\ queued' \in BOOLEAN /\ worker' \in [pc : Pc, copy : CloudTask \cup {NoTask}]
    <3>1. CASE Go("unfinalize", worker.copy)
      <4>1. WorkerInv' /\ ServerInv' /\ worker' \in [pc : Pc, copy : CloudTask \cup {NoTask}]
        BY <1>2, <1>00, <3>1, GoKeeps DEF deletePod, Pc, Deleting, Working
      <4> QED BY <3>1, <4>1 DEF Go, Inv, TypeOK
    <3>2. CASE Return(TRUE)
      BY Zenon, <1>2, <3>2, ReturnKeeps DEF deletePod, Inv, ServerInv, NotNewer, SameVersion, Held, caches
    <3> QED BY Zenon, <1>2, <3>1, <3>2 DEF deletePod
  <2> QED BY <1>2, <2>1, <2>2, <2>3 DEF deletePod, Inv, TypeOK, caches
<1>3. CASE RemoveFinalizer
  <2> DEFINE new == [Bumped EXCEPT !.fin = FALSE]
  <2>1. new \in CloudTask /\ new.uid = worker.copy.uid /\ new.rv = worker.copy.rv + 1
        /\ new.del = worker.copy.del /\ worker.pc = "unfinalize"
    BY Zenon, <1>3 DEF CloudTask, RemoveFinalizer
  <2>2. CASE Current /\ Store(new) /\ Return(FALSE) /\ UNCHANGED faults
    BY Zenon, <1>3, <2>1, <2>2, UpdateReturns DEF RemoveFinalizer, Update
  <2>3. CASE ~(Current /\ Store(new) /\ Return(FALSE) /\ UNCHANGED faults)
    BY Zenon, <1>3, <2>1, <2>3, UpdateFails DEF RemoveFinalizer, Update
  <2> QED BY Zenon, <2>2, <2>3
<1>4. CASE AddFinalizer
  <2> DEFINE new == [Bumped EXCEPT !.fin = TRUE]
  <2>1. new \in CloudTask /\ new.uid = worker.copy.uid /\ new.rv = worker.copy.rv + 1
        /\ new.del = worker.copy.del /\ new.fin /\ worker.pc = "finalize" /\ ~new.del
    BY Zenon, <1>4 DEF CloudTask, AddFinalizer, Inv, WorkerInv
  <2>2. CASE Current /\ Store(new) /\ Go("getPod", new) /\ UNCHANGED faults
    BY Zenon, <1>4, <2>1, <2>2, UpdateSucceeds DEF AddFinalizer, Update
  <2>3. CASE ~(Current /\ Store(new) /\ Go("getPod", new) /\ UNCHANGED faults)
    BY Zenon, <1>4, <2>1, <2>3, UpdateFails DEF AddFinalizer, Update
  <2> QED BY <2>2, <2>3
<1>5. CASE getPod
  <2> DEFINE phase == updateStatusFromPod(worker.copy.phase, podCache.phase)
  <2>1. CASE Go("status", [worker.copy EXCEPT !.phase = phase]) /\ podCache # NoPod
    <3>1. phase \in Phase
      BY Zenon, <1>00, <2>1 DEF updateStatusFromPod, Inv, TypeOK, Pod, PodPhase, Phase
    <3>2. WorkerInv' /\ ServerInv' /\ worker' \in [pc : Pc, copy : CloudTask \cup {NoTask}]
      BY Zenon, <1>5, <2>1, <3>1, GoKeeps DEF getPod, Pc, Deleting, Working
    <3> QED BY Zenon, <1>5, <2>1, <3>2 DEF getPod, Go, Inv, TypeOK, caches
  <2>2. CASE Outcome(worker.copy)
    BY Zenon, <1>5, <2>2, OutcomeKeeps DEF getPod, Working, Inv, TypeOK, caches
  <2>3. CASE Go("create", worker.copy)
    <3>1. WorkerInv' /\ ServerInv' /\ worker' \in [pc : Pc, copy : CloudTask \cup {NoTask}]
      BY Zenon, <1>00, <1>5, <2>3, GoKeeps DEF getPod, Pc, Deleting, Working
    <3> QED BY Zenon, <1>5, <2>3, <3>1 DEF getPod, Go, Inv, TypeOK, caches
  <2>4. CASE Return(TRUE)
    BY Zenon, <1>5, <2>4, ReturnKeeps DEF getPod, Inv, TypeOK, ServerInv, NotNewer, SameVersion, Held, caches
  <2> QED BY Zenon, <1>5, <2>1, <2>2, <2>3, <2>4 DEF getPod
<1>6. CASE UpdateStatus
  <2>1. worker.pc = "status" /\ Bumped.fin /\ ~Bumped.del
    BY <1>6 DEF UpdateStatus, Inv, WorkerInv, Working
  <2>2. CASE Current /\ Store(Bumped) /\ Outcome(Bumped) /\ UNCHANGED faults
    <3>1. CASE Return(TRUE) \/ Return(FALSE)
      BY Zenon, <1>6, <2>1, <2>2, <3>1, UpdateReturns DEF UpdateStatus, Update
    <3>2. CASE Bumped.phase = "Failed" /\ MayRetry(Bumped) /\ Go("retry", Bumped)
      BY Zenon, <1>6, <2>1, <2>2, <3>2, UpdateSucceeds DEF UpdateStatus, Update
    <3> QED BY Zenon, <2>2, <3>1, <3>2 DEF Outcome
  <2>3. CASE ~(Current /\ Store(Bumped) /\ Outcome(Bumped) /\ UNCHANGED faults)
    BY Zenon, <1>6, <2>1, <2>3, UpdateFails DEF UpdateStatus, Update
  <2> QED BY <2>2, <2>3
<1>7. CASE Retry
  <2> DEFINE new == [Bumped EXCEPT !.phase = "Pending", !.retry = @ + 1, !.pod = FALSE]
  <2>1. worker.copy.retry + 1 \in 0..MaxRetries
    BY <1>7, CloudTaskAssumption DEF Retry, Inv, WorkerInv, MayRetry, CloudTask
  <2>2. new \in CloudTask /\ new.uid = worker.copy.uid /\ new.rv = worker.copy.rv + 1
        /\ new.del = worker.copy.del /\ new.fin = worker.copy.fin
    BY Zenon, <2>1 DEF CloudTask, Phase
  <2>3. worker.pc = "retry" /\ worker.copy.fin
    BY <1>7 DEF Retry, Inv, WorkerInv, Working
  <2>4. CASE Current /\ Store(new) /\ Return(TRUE) /\ UNCHANGED faults
    BY Zenon, <1>7, <2>2, <2>3, <2>4, UpdateReturns DEF Retry, Update
  <2>5. CASE ~(Current /\ Store(new) /\ Return(TRUE) /\ UNCHANGED faults)
    BY Zenon, <1>7, <2>2, <2>3, <2>5, UpdateFails DEF Retry, Update
  <2> QED BY Zenon, <2>4, <2>5
<1>8. CASE Create
  <2>1. constructPod \in Pod
    BY DEF constructPod, Pod, PodPhase, CloudTask
  <2>2. pod' \in Pod \cup {NoPod} /\ faults' \in 0..MaxFaults
    BY Zenon, <1>8, <2>1, FaultType DEF Create, Inv, TypeOK
  <2>3. WorkerInv' /\ ServerInv' /\ queued' \in BOOLEAN /\ worker' \in [pc : Pc, copy : CloudTask \cup {NoTask}]
    <3>1. CASE Go("started", worker.copy)
      <4>1. WorkerInv' /\ ServerInv' /\ worker' \in [pc : Pc, copy : CloudTask \cup {NoTask}]
        BY <1>8, <1>00, <3>1, GoKeeps DEF Create, Pc, Deleting, Working
      <4> QED BY <3>1, <4>1 DEF Go, Inv, TypeOK
    <3>2. CASE Return(TRUE)
      BY Zenon, <1>8, <3>2, ReturnKeeps DEF Create, Inv, ServerInv, NotNewer, SameVersion, Held, caches
    <3> QED BY Zenon, <1>8, <3>1, <3>2 DEF Create
  <2> QED BY <1>8, <2>2, <2>3 DEF Create, Inv, TypeOK, caches
<1>9. CASE RecordPod
  <2> DEFINE new == [Bumped EXCEPT !.phase = "Running", !.pod = TRUE]
  <2>1. new \in CloudTask /\ new.uid = worker.copy.uid /\ new.rv = worker.copy.rv + 1
        /\ new.del = worker.copy.del /\ new.fin = worker.copy.fin
    BY Zenon DEF CloudTask, Phase
  <2>2. worker.pc = "started" /\ worker.copy.fin
    BY <1>9 DEF RecordPod, Inv, WorkerInv, Working
  <2>3. CASE Current /\ Store(new) /\ Return(TRUE) /\ UNCHANGED faults
    BY Zenon, <1>9, <2>1, <2>2, <2>3, UpdateReturns DEF RecordPod, Update
  <2>4. CASE ~(Current /\ Store(new) /\ Return(TRUE) /\ UNCHANGED faults)
    BY Zenon, <1>9, <2>1, <2>2, <2>4, UpdateFails DEF RecordPod, Update
  <2> QED BY Zenon, <2>3, <2>4
<1> QED BY <1>1, <1>2, <1>3, <1>4, <1>5, <1>6, <1>7, <1>8, <1>9 DEF Step

\* The informers and a restart: the caches are brought up to the server.
LEMMA ManagerKeeps == ASSUME Inv, SyncTask \/ SyncPod \/ Restart PROVE Inv'
<1>1. CASE SyncTask
  <2>1. taskCache' = task /\ task' = task /\ worker' = worker /\ uid' = uid
    BY <1>1 DEF SyncTask
  <2>2. task # NoTask => task.uid \in Nat /\ task.rv \in Nat
    BY DEF Inv, TypeOK, CloudTask, Uid
  <2>3. ServerInv'
    BY <2>1, <2>2 DEF Inv, ServerInv, NotNewer, SameVersion, Held, TypeOK
  <2>4. WorkerInv'
    BY <2>1 DEF Inv, WorkerInv, NotNewer, SameVersion, Held, Deleting, Working
  <2>5. queued' \in BOOLEAN
    BY <1>1 DEF SyncTask, Inv, TypeOK
  <2> QED BY <1>1, <2>1, <2>3, <2>4, <2>5 DEF SyncTask, Inv, TypeOK
<1>2. CASE SyncPod
  <2>1. ServerInv' /\ WorkerInv'
    BY <1>2 DEF SyncPod, Inv, ServerInv, WorkerInv, NotNewer, SameVersion, Held
  <2>2. queued' \in BOOLEAN
    BY <1>2 DEF SyncPod, Inv, TypeOK
  <2> QED BY <1>2, <2>1, <2>2 DEF SyncPod, Inv, TypeOK
<1>3. CASE Restart
  <2>1. WorkerInv' /\ worker' \in [pc : Pc, copy : CloudTask \cup {NoTask}]
    BY <1>3, IdleKnowsNothing DEF Restart
  <2>2. faults' \in 0..MaxFaults
    BY <1>3, FaultType DEF Restart, Inv
  <2>3. task # NoTask => task.uid \in Nat /\ task.rv \in Nat
    BY DEF Inv, TypeOK, CloudTask, Uid
  <2>4. ServerInv'
    BY <1>3, <2>3 DEF Restart, Inv, ServerInv, NotNewer, SameVersion, Held
  <2> QED BY <1>3, <2>1, <2>2, <2>4 DEF Restart, Inv, TypeOK
<1> QED BY <1>1, <1>2, <1>3

\* Users: a new incarnation has a new uid, and a deletion mark or an edit makes
\* a new version, so that no copy is current any more.
LEMMA UsersKeep == ASSUME Inv, Submit \/ Delete \/ Edit PROVE Inv'
<1>0. /\ uid \in Nat
      /\ task # NoTask => task \in CloudTask /\ task.rv \in Nat /\ task.uid = uid /\ task.gen \in Nat
      /\ taskCache # NoTask => taskCache.rv \in Nat /\ taskCache.uid \in Nat
      /\ worker.pc # "idle" => worker.copy.rv \in Nat /\ worker.copy.uid \in Nat
  BY CloudTaskAssumption DEF Inv, TypeOK, CloudTask, Uid, ServerInv, WorkerInv
<1>1. CASE Submit
  <2>1. PICK n \in Admitted : task' = NewTask(uid + 1, n)
    BY <1>1 DEF Submit
  <2>2. uid' = uid + 1 /\ uid' \in Uid /\ task = NoTask
    BY <1>0, <1>1, CloudTaskAssumption DEF Submit, Uid
  <2>3. task' \in CloudTask /\ task'.uid = uid + 1
    <3>1. n \in 0..MaxRetries /\ 0 \in 0..MaxRetries /\ "" \in Phase
      BY AdmittedType, CloudTaskAssumption DEF Phase
    <3>2. NewTask(uid + 1, n) \in CloudTask /\ NewTask(uid + 1, n).uid = uid + 1
      BY Zenon, <2>2, <3>1 DEF NewTask, CloudTask
    <3> QED BY <2>1, <3>2
  <2>4. ServerInv' /\ WorkerInv'
    BY <1>0, <1>1, <2>2, <2>3, CloudTaskNulls
       DEF Submit, caches, Inv, ServerInv, WorkerInv, NotNewer, SameVersion, Held, Working
  <2> QED BY <1>1, <2>2, <2>3, <2>4, CloudTaskAssumption DEF Submit, caches, Inv, TypeOK, Uid
<1>2. CASE Delete /\ ~task.fin
  <2>1. task' = NoTask
    BY <1>2 DEF Delete
  <2>2. ServerInv' /\ WorkerInv'
    BY <1>0, <1>2, <2>1
       DEF Delete, caches, Inv, ServerInv, WorkerInv, NotNewer, SameVersion, Held, Working
  <2> QED BY <1>2, <2>1, <2>2 DEF Delete, caches, Inv, TypeOK
<1>3. CASE (Delete /\ task.fin) \/ Edit
  <2>1. task \in CloudTask /\ task # NoTask
    BY Zenon, <1>0, <1>3 DEF Delete, Edit
  <2>2. /\ task' \in CloudTask /\ task'.uid = task.uid /\ task'.rv = task.rv + 1
        /\ task'.fin = task.fin /\ (task.del => task'.del)
    <3>1. CASE Delete /\ task.fin
      <4>1. task' = [task EXCEPT !.del = TRUE, !.gen = @ + 1, !.rv = @ + 1]
        BY <3>1 DEF Delete
      <4>2. task' \in CloudTask
        <5> DEFINE a == [task EXCEPT !.gen = @ + 1]
                   b == [a EXCEPT !.rv = @ + 1]
        <5>1. a \in CloudTask
          BY <2>1 DEF CloudTask
        <5>2. b \in CloudTask
          <6> HIDE DEF a
          <6> QED BY <5>1 DEF CloudTask
        <5>3. task' = [b EXCEPT !.del = TRUE]
          BY Zenon, <2>1, <4>1 DEF CloudTask
        <5> HIDE DEF b
        <5> QED BY Zenon, <5>2, <5>3 DEF CloudTask
      <4>3. task'.uid = task.uid /\ task'.rv = task.rv + 1 /\ task'.fin = task.fin
        BY <2>1, <4>1 DEF CloudTask
      <4>4. task.del => task'.del
        BY <2>1, <4>1 DEF CloudTask
      <4> QED BY <4>2, <4>3, <4>4
    <3>2. CASE Edit
      <4>1. PICK n \in 0..MaxRetries : task' = [task EXCEPT !.retries = n, !.gen = @ + 1, !.rv = @ + 1]
        BY Zenon, <3>2, AdmittedType DEF Edit
      <4>2. task' \in CloudTask
        <5> DEFINE a == [task EXCEPT !.gen = @ + 1]
                   b == [a EXCEPT !.rv = @ + 1]
        <5>1. a \in CloudTask
          BY <2>1 DEF CloudTask
        <5>2. b \in CloudTask
          <6> HIDE DEF a
          <6> QED BY <5>1 DEF CloudTask
        <5>3. task' = [b EXCEPT !.retries = n]
          BY Zenon, <2>1, <4>1 DEF CloudTask
        <5> HIDE DEF b
        <5> QED BY <5>2, <5>3 DEF CloudTask
      <4>3. task'.uid = task.uid /\ task'.rv = task.rv + 1 /\ task'.fin = task.fin
        BY <2>1, <4>1 DEF CloudTask
      <4>4. task.del => task'.del
        BY <2>1, <4>1 DEF CloudTask
      <4> QED BY <4>2, <4>3, <4>4
    <3> QED BY <1>3, <3>1, <3>2
  <2>3. UNCHANGED <<pod, caches, queued, worker, uid, faults, lost>>
    BY Zenon, <1>3 DEF Delete, Edit
  <2>4. ServerInv'
    BY <1>0, <2>1, <2>2, <2>3, CloudTaskNulls DEF caches, Inv, ServerInv, NotNewer, SameVersion, Held
  <2>5. WorkerInv'
    BY <1>0, <2>1, <2>2, <2>3, CloudTaskNulls DEF caches, Inv, WorkerInv, NotNewer, SameVersion, Held
  <2> QED BY SMTT(30), <2>2, <2>3, <2>4, <2>5 DEF caches, Inv, TypeOK
<1> QED BY <1>1, <1>2, <1>3

\* The Pod: nothing the invariant speaks of changes but its type.
LEMMA PodKeeps == ASSUME Inv, PodStep \/ PodGone \/ PodLost \/ CollectPod PROVE Inv'
<1>1. pod' \in Pod \cup {NoPod} /\ lost' \in 0..MaxLost
  BY CloudTaskAssumption DEF PodStep, PodGone, PodLost, CollectPod, Inv, TypeOK, Pod
<1>2. UNCHANGED <<task, taskCache, podCache, queued, worker, uid, faults>>
  BY DEF PodStep, PodGone, PodLost, CollectPod, caches
<1>3. ServerInv' /\ WorkerInv'
  BY <1>2 DEF Inv, ServerInv, WorkerInv, NotNewer, SameVersion, Held
<1> QED BY <1>1, <1>2, <1>3 DEF Inv, TypeOK

\* Inv is inductive.
THEOREM Invariance == Spec => []Inv
<1>1. Init => Inv
  <2> SUFFICES ASSUME Init PROVE Inv
    OBVIOUS
  <2>1. TypeOK
    <3>1. worker \in [pc : Pc, copy : CloudTask \cup {NoTask}]
      BY DEF Init, Idle, Pc
    <3>2. uid \in 0..MaxUid /\ faults \in 0..MaxFaults /\ lost \in 0..MaxLost
      BY CloudTaskAssumption DEF Init
    <3> QED BY Zenon, <3>1, <3>2 DEF Init, TypeOK
  <2> QED BY <2>1 DEF Init, Inv, ServerInv, WorkerInv, Idle
<1>2. Inv /\ [Next]_vars => Inv'
  <2> SUFFICES ASSUME Inv, [Next]_vars PROVE Inv'
    OBVIOUS
  <2>1. CASE UNCHANGED vars
    BY <2>1 DEF vars, Inv, TypeOK, ServerInv, WorkerInv, NotNewer, SameVersion, Held
  <2>2. CASE Next
    BY <2>2, ReconcileKeeps, StepKeeps, ManagerKeeps, UsersKeep, PodKeeps DEF Next
  <2> QED BY <2>1, <2>2
<1> QED BY <1>1, <1>2, PTL DEF Spec

\* Every variable keeps its type; in particular Reconcile never counts more
\* retries than the webhook lets a CloudTask ask for.
THEOREM TypeCorrect == Spec => []TypeOK
<1>1. Inv => TypeOK
  BY DEF Inv
<1> QED BY <1>1, Invariance, PTL

\* Reconcile creates a Pod only while the CloudTask that owns it is on the
\* server: the copy it works from may be stale, but it carries the finalizer.
THEOREM FinalizerComesFirst == Spec => NoPodWithoutTask
<1>1. ASSUME Inv, [Next]_vars, pod = NoPod, pod' # NoPod
      PROVE  task # NoTask /\ task.uid = pod'.owner
  <2>1. Create /\ pod' = constructPod
    BY Zenon, <1>1 DEF Next, vars, Reconcile, Step, cleanup, deletePod, RemoveFinalizer, AddFinalizer, getPod,
       UpdateStatus, Retry, RecordPod, Update, Create, SyncTask, SyncPod, Restart, Submit, Delete,
       Edit, PodStep, PodGone, PodLost, CollectPod
  <2>2. Held(worker.copy)
    BY <1>1, <2>1 DEF Create, Inv, WorkerInv, Working
  <2> QED BY <2>1, <2>2 DEF Held, constructPod
<1>2. Inv /\ [Next]_vars => [pod = NoPod /\ pod' # NoPod => task # NoTask /\ task.uid = pod'.owner]_vars
  BY <1>1
<1> QED BY <1>2, Invariance, PTL DEF Spec, NoPodWithoutTask

\* Where the retries are counted: only Retry changes the count of a CloudTask,
\* and the copy it stores is the one on the server.
LEMMA OnlyRetryCounts ==
    ASSUME Inv, Next, task # NoTask, task' # NoTask, task'.uid = task.uid, task'.retry # task.retry
    PROVE  Retry /\ Current /\ task' = [Bumped EXCEPT !.phase = "Pending", !.retry = @ + 1, !.pod = FALSE]
<1> USE CloudTaskNulls
<1>0. task \in CloudTask
  BY DEF Inv, TypeOK
<1>1. ~(Submit \/ Delete \/ Edit)
  BY Zenon, <1>0 DEF Submit, Delete, Edit, CloudTask
<1>2. ~(Reconcile \/ SyncTask \/ SyncPod \/ Restart \/ PodStep \/ PodGone \/ PodLost \/ CollectPod)
  BY DEF Reconcile, SyncTask, SyncPod, Restart, PodStep, PodGone, PodLost, CollectPod
<1>3. ~(cleanup \/ deletePod \/ getPod \/ Create)
  BY Zenon DEF cleanup, deletePod, getPod, Create
<1>4. RemoveFinalizer \/ AddFinalizer \/ UpdateStatus \/ Retry \/ RecordPod
  BY <1>1, <1>2, <1>3 DEF Next, Step
<1>5. worker.copy \in CloudTask /\ worker.pc # "idle"
  BY Zenon, <1>4 DEF Inv, WorkerInv, RemoveFinalizer, AddFinalizer, UpdateStatus, Retry, RecordPod
<1>6. Current
  BY Zenon, <1>4 DEF RemoveFinalizer, AddFinalizer, UpdateStatus, Retry, RecordPod, Update
<1>7. worker.copy.retry = task.retry
  <2>1. [worker.copy EXCEPT !.phase = task.phase] = task
    BY <1>5, <1>6 DEF Inv, WorkerInv, Current, SameVersion
  <2>2. [worker.copy EXCEPT !.phase = task.phase].retry = worker.copy.retry
    BY <1>5 DEF CloudTask
  <2> QED BY Zenon, <2>1, <2>2
<1>8. Bumped \in CloudTask /\ Bumped.retry = task.retry
  BY <1>5, <1>7, BumpedType
<1>9. ~RemoveFinalizer
  BY Zenon, <1>8 DEF RemoveFinalizer, Update, Store, CloudTask
<1>10. ~AddFinalizer
  BY Zenon, <1>8 DEF AddFinalizer, Update, Store, CloudTask
<1>11. ~UpdateStatus
  BY Zenon, <1>8 DEF UpdateStatus, Update, Store
<1>12. ~RecordPod
  BY Zenon, <1>8 DEF RecordPod, Update, Store, CloudTask
<1>13. Retry
  BY <1>4, <1>9, <1>10, <1>11, <1>12
<1> QED BY Zenon, <1>6, <1>13 DEF Retry, Update, Store

\* A retry is counted once: whatever conflicts, lost answers, restarts and edits
\* come between the two status writes of Reconcile, the count goes up by one,
\* within the spec.retries in force, and only from Failed to Pending.
THEOREM RetriesCounted == Spec => RetryCountedOnce
<1>1. ASSUME Inv, [Next]_vars, task # NoTask, task' # NoTask, task'.uid = task.uid,
             task'.retry # task.retry
      PROVE  /\ task'.retry = task.retry + 1 /\ task'.retry <= task.retries
             /\ task.phase = "Failed" /\ task'.phase = "Pending"
  <2>1. Next
    BY <1>1 DEF vars
  <2>2. Retry /\ Current /\ task' = [Bumped EXCEPT !.phase = "Pending", !.retry = @ + 1, !.pod = FALSE]
    BY <1>1, <2>1, OnlyRetryCounts
  <2>3. worker.copy \in CloudTask /\ worker.copy = task /\ task.phase = "Failed" /\ task.retry < task.retries
    BY <1>1, <2>2 DEF Inv, WorkerInv, Retry, Current, SameVersion, MayRetry
  <2>4. Bumped \in CloudTask /\ Bumped.retry = task.retry
    BY <2>3, BumpedType
  <2>5. task'.retry = task.retry + 1 /\ task'.phase = "Pending"
    BY <2>2, <2>4 DEF CloudTask
  <2>6. task.retry \in Nat /\ task.retries \in Nat
    BY <2>3, CloudTaskAssumption DEF CloudTask
  <2> QED BY <2>3, <2>5, <2>6
<1>2. Inv /\ [Next]_vars =>
      [task # NoTask /\ task' # NoTask /\ task'.uid = task.uid /\ task'.retry # task.retry
       => /\ task'.retry = task.retry + 1 /\ task'.retry <= task.retries
          /\ task.phase = "Failed" /\ task'.phase = "Pending"]_vars
  BY <1>1
<1> QED BY <1>2, Invariance, PTL DEF Spec, RetryCountedOnce
-----------------------------------------------------------------------------

\* The name is not reused, no Pod was lost, and the CloudTask is there.
Undisturbed == uid = 1 /\ lost = 0 /\ task # NoTask

\* The deletion is known wherever a Pod could be created from.
Ending ==
    /\ task.del
    /\ taskCache # NoTask => taskCache.del
    /\ worker.pc \notin Working

\* Somewhere the CloudTask is known as Completed.
Known ==
    \/ task.phase = "Completed"
    \/ taskCache # NoTask /\ taskCache.phase = "Completed"
    \/ worker.pc # "idle" /\ worker.copy.phase = "Completed"

\* Its Pod has succeeded, or is gone with it.
Finished ==
    /\ pod # NoPod => pod.phase = "Succeeded"
    /\ podCache # NoPod => podCache.phase = "Succeeded"
    /\ pod = NoPod => Ending

\* Pods belong to known incarnations, and are created for a task that waits.
PodInv ==
    /\ pod # NoPod => pod.owner <= uid
    /\ podCache # NoPod => podCache.owner <= uid
    /\ worker.pc \in {"create", "started"} => worker.copy.phase \in {"", "Pending"}

\* A Pod goes only with its CloudTask, and where Completed is known the Pod has
\* succeeded, on the server and in the cache.
FinalInv ==
    Undisturbed =>
        /\ pod # NoPod /\ pod.dying => Ending
        /\ podCache # NoPod /\ pod = NoPod => Ending
        /\ podCache # NoPod /\ podCache.phase = "Succeeded" /\ pod # NoPod => pod.phase = "Succeeded"
        /\ Known => Finished
        /\ worker.pc = "status" /\ SameVersion(worker.copy) => task.phase # "Completed"

SettledInv == Inv /\ PodInv /\ FinalInv

\* With one incarnation every copy is of it.
LEMMA OneIncarnation ==
    ASSUME SettledInv, Undisturbed
    PROVE  /\ task \in CloudTask /\ task.uid = 1
           /\ taskCache # NoTask => taskCache \in CloudTask /\ taskCache.uid = 1
           /\ worker.pc # "idle" => worker.copy \in CloudTask /\ worker.copy.uid = 1
           /\ pod # NoPod => pod \in Pod /\ pod.owner = 1
<1>1. \A u \in Uid : u <= 1 => u = 1
  BY CloudTaskAssumption DEF Uid
<1>2. task \in CloudTask /\ task.uid = 1
  BY DEF SettledInv, Undisturbed, Inv, TypeOK, ServerInv
<1>3. taskCache # NoTask => taskCache \in CloudTask /\ taskCache.uid \in Uid /\ taskCache.uid <= 1
  BY DEF SettledInv, Undisturbed, Inv, TypeOK, ServerInv, NotNewer, CloudTask
<1>4. worker.pc # "idle" => worker.copy \in CloudTask /\ worker.copy.uid \in Uid /\ worker.copy.uid <= 1
  BY DEF SettledInv, Undisturbed, Inv, WorkerInv, NotNewer, CloudTask
<1>5. pod # NoPod => pod \in Pod /\ pod.owner \in Uid /\ pod.owner <= 1
  BY Zenon DEF SettledInv, Undisturbed, Inv, TypeOK, PodInv, Pod
<1> QED BY <1>1, <1>2, <1>3, <1>4, <1>5

\* A write of the worker: stored or not, it deletes nothing that was not deleted,
\* and writes Completed only where the copy says so.
LEMMA UpdateSettles ==
    ASSUME SettledInv, worker.pc # "idle", NEW new \in CloudTask, new.del = worker.copy.del,
           new.phase = "Completed" => worker.copy.phase = "Completed",
           UNCHANGED <<pod, caches, uid, lost>>,
           \/ worker' = Idle /\ (UNCHANGED task \/ (Current /\ Store(new)))
           \/ /\ Current /\ Store(new) /\ ~new.del
              /\ worker'.pc \in {"getPod", "retry"} /\ worker'.copy = new
    PROVE  PodInv' /\ FinalInv'
<1>1. /\ pod' = pod /\ podCache' = podCache /\ taskCache' = taskCache /\ uid' = uid /\ lost' = lost
      /\ worker'.pc \in {"idle", "getPod", "retry"}
  BY DEF caches, Idle
<1>2. PodInv'
  BY Zenon, <1>1 DEF SettledInv, PodInv
<1>3. Current => worker.copy.del = task.del
  BY CloudTaskNulls DEF SettledInv, Inv, TypeOK, WorkerInv, SameVersion, Current, CloudTask
<1>4. ASSUME Undisturbed' PROVE Undisturbed
  BY <1>1, <1>4 DEF Undisturbed, Current
<1>5. ASSUME Undisturbed' PROVE task' = task \/ (Current /\ task' = new)
  BY <1>5 DEF Undisturbed, Store
<1>6. ASSUME Undisturbed', Ending PROVE Ending'
  <2>1. task'.del = task.del
    BY <1>3, <1>5, <1>6
  <2>2. CASE worker' = Idle
    BY <1>1, <1>6, <2>1, <2>2 DEF Ending, Working, Idle
  <2>3. CASE Current /\ ~new.del
    BY Zenon, <1>3, <1>6, <2>3 DEF Ending
  <2> QED BY <2>2, <2>3
<1>7. ASSUME Undisturbed', Known' PROVE Known
  BY <1>1, <1>5, <1>7 DEF Known, Idle
<1>8. FinalInv'
  <2> SUFFICES ASSUME Undisturbed'
               PROVE  /\ pod # NoPod /\ pod.dying => Ending'
                      /\ podCache # NoPod /\ pod = NoPod => Ending'
                      /\ podCache # NoPod /\ podCache.phase = "Succeeded" /\ pod # NoPod
                            => pod.phase = "Succeeded"
                      /\ Known' => Finished'
    BY <1>1 DEF FinalInv
  <2> QED BY <1>1, <1>4, <1>6, <1>7 DEF SettledInv, FinalInv, Finished
<1> QED BY <1>2, <1>8

\* The calls of Reconcile that write the CloudTask.
LEMMA WritesSettle ==
    ASSUME SettledInv, RemoveFinalizer \/ AddFinalizer \/ UpdateStatus \/ Retry \/ RecordPod
    PROVE  PodInv' /\ FinalInv'
<1>1. worker.pc # "idle" /\ worker.copy \in CloudTask
  BY Zenon DEF SettledInv, Inv, WorkerInv, RemoveFinalizer, AddFinalizer, UpdateStatus, Retry, RecordPod
<1>2. Bumped \in CloudTask /\ Bumped.del = worker.copy.del /\ Bumped.phase = worker.copy.phase
      /\ Bumped.retry = worker.copy.retry /\ Bumped.retries = worker.copy.retries
  BY <1>1, BumpedType
<1>3. CASE RemoveFinalizer
  <2> DEFINE new == [Bumped EXCEPT !.fin = FALSE]
  <2>1. new \in CloudTask /\ new.del = worker.copy.del /\ new.phase = worker.copy.phase
    BY Zenon, <1>2 DEF CloudTask
  <2>2. /\ UNCHANGED <<pod, caches, uid, lost>>
        /\ worker' = Idle /\ (UNCHANGED task \/ (Current /\ Store(new)))
    BY Zenon, <1>3 DEF RemoveFinalizer, Update, Return
  <2> HIDE DEF new
  <2> QED BY <1>1, <2>1, <2>2, UpdateSettles
<1>4. CASE AddFinalizer
  <2> DEFINE new == [Bumped EXCEPT !.fin = TRUE]
  <2>1. new \in CloudTask /\ new.del = worker.copy.del /\ new.phase = worker.copy.phase
    BY Zenon, <1>2 DEF CloudTask
  <2>2. ~worker.copy.del
    BY <1>4 DEF AddFinalizer, SettledInv, Inv, WorkerInv
  <2>3. /\ UNCHANGED <<pod, caches, uid, lost>>
        /\ \/ worker' = Idle /\ (UNCHANGED task \/ (Current /\ Store(new)))
           \/ Current /\ Store(new) /\ worker' = [pc |-> "getPod", copy |-> new]
    BY Zenon, <1>4 DEF AddFinalizer, Update, Return, Go
  <2> HIDE DEF new
  <2> QED BY <1>1, <2>1, <2>2, <2>3, UpdateSettles
<1>5. CASE UpdateStatus
  <2>1. ~worker.copy.del
    BY <1>5 DEF UpdateStatus, SettledInv, Inv, WorkerInv, Working
  <2>2. /\ UNCHANGED <<pod, caches, uid, lost>>
        /\ \/ worker' = Idle /\ (UNCHANGED task \/ (Current /\ Store(Bumped)))
           \/ Current /\ Store(Bumped) /\ worker' = [pc |-> "retry", copy |-> Bumped]
    BY Zenon, <1>5 DEF UpdateStatus, Update, Outcome, Return, Go
  <2> QED BY <1>1, <1>2, <2>1, <2>2, UpdateSettles
<1>6. CASE Retry
  <2> DEFINE new == [Bumped EXCEPT !.phase = "Pending", !.retry = @ + 1, !.pod = FALSE]
  <2>1. new \in CloudTask /\ new.del = worker.copy.del /\ new.phase = "Pending"
    <3>1. worker.copy.retry + 1 \in 0..MaxRetries
      BY <1>1, <1>6, CloudTaskAssumption DEF Retry, SettledInv, Inv, WorkerInv, MayRetry, CloudTask
    <3> QED BY Zenon, <1>2, <3>1 DEF CloudTask, Phase
  <2>2. /\ UNCHANGED <<pod, caches, uid, lost>>
        /\ worker' = Idle /\ (UNCHANGED task \/ (Current /\ Store(new)))
    BY Zenon, <1>6 DEF Retry, Update, Return
  <2> HIDE DEF new
  <2> QED BY <1>1, <2>1, <2>2, UpdateSettles
<1>7. CASE RecordPod
  <2> DEFINE new == [Bumped EXCEPT !.phase = "Running", !.pod = TRUE]
  <2>1. new \in CloudTask /\ new.del = worker.copy.del /\ new.phase = "Running"
    BY Zenon, <1>2 DEF CloudTask, Phase
  <2>2. /\ UNCHANGED <<pod, caches, uid, lost>>
        /\ worker' = Idle /\ (UNCHANGED task \/ (Current /\ Store(new)))
    BY Zenon, <1>7 DEF RecordPod, Update, Return
  <2> HIDE DEF new
  <2> QED BY <1>1, <2>1, <2>2, UpdateSettles
<1> QED BY <1>3, <1>4, <1>5, <1>6, <1>7

\* What holds of a Pod, a deletion and a Completed stays as long as the Pods, the
\* task's deletion mark and what is known of its phase stay.
LEMMA NothingNewSettles ==
    ASSUME SettledInv, UNCHANGED <<pod, podCache, uid, lost>>,
           Undisturbed' => Undisturbed,
           Undisturbed' /\ Ending => Ending',
           Undisturbed' /\ Known' => Known,
           worker'.pc # "status" \/ (worker' = worker /\ UNCHANGED <<task>>)
    PROVE  FinalInv'
<1> SUFFICES ASSUME Undisturbed'
             PROVE  /\ pod # NoPod /\ pod.dying => Ending'
                    /\ podCache # NoPod /\ pod = NoPod => Ending'
                    /\ podCache # NoPod /\ podCache.phase = "Succeeded" /\ pod # NoPod
                          => pod.phase = "Succeeded"
                    /\ Known' => Finished'
                    /\ (worker.pc = "status" /\ SameVersion(worker.copy) => task.phase # "Completed")'
  BY DEF FinalInv
<1>1. (worker.pc = "status" /\ SameVersion(worker.copy) => task.phase # "Completed")'
  BY DEF SettledInv, FinalInv, SameVersion
<1> QED BY <1>1 DEF SettledInv, FinalInv, Finished

\* The steps of Reconcile that write nothing, but for getPod.
LEMMA ReadsSettle ==
    ASSUME SettledInv, Reconcile \/ cleanup
    PROVE  PodInv' /\ FinalInv'
<1>1. task' = task /\ pod' = pod /\ taskCache' = taskCache /\ podCache' = podCache /\ uid' = uid /\ lost' = lost
  BY DEF Reconcile, cleanup, caches
<1>2. Undisturbed' => Undisturbed
  BY <1>1 DEF Undisturbed
<1>3. CASE Reconcile
  <2>1. /\ worker.pc = "idle"
        /\ \/ worker' = Idle
           \/ /\ taskCache # NoTask
              /\ worker'.copy = taskCache
              /\ worker'.pc \in {"cleanup", "finalize", "getPod"}
              /\ taskCache.del => worker'.pc = "cleanup"
    BY <1>3 DEF Reconcile
  <2>2. PodInv'
    <3>1. worker'.pc \notin {"create", "started"}
      BY <2>1 DEF Idle
    <3> QED BY Zenon, <1>1, <3>1 DEF SettledInv, PodInv
  <2>3. Ending => Ending'
    BY <1>1, <2>1 DEF Ending, Working, Idle
  <2>4. Known' => Known
    BY <1>1, <2>1 DEF Known, Idle
  <2> QED BY <1>1, <1>2, <2>1, <2>2, <2>3, <2>4, NothingNewSettles DEF Idle
<1>4. CASE cleanup
  <2>1. worker.pc = "cleanup" /\ worker'.pc \in {"deletePod", "unfinalize"} /\ worker'.copy = worker.copy
    BY <1>4 DEF cleanup, Go
  <2>2. PodInv'
    BY Zenon, <1>1, <2>1 DEF SettledInv, PodInv
  <2>3. Ending => Ending'
    BY <1>1, <2>1 DEF Ending, Working
  <2>4. Known' => Known
    BY <1>1, <2>1 DEF Known
  <2> QED BY <1>1, <1>2, <2>1, <2>2, <2>3, <2>4, NothingNewSettles
<1> QED BY <1>3, <1>4

\* getPod reads Completed off a Pod that has succeeded, and off no other once it
\* is known.
LEMMA getPodSettles ==
    ASSUME SettledInv, getPod
    PROVE  PodInv' /\ FinalInv'
<1>1. /\ task' = task /\ pod' = pod /\ taskCache' = taskCache /\ podCache' = podCache /\ uid' = uid /\ lost' = lost
      /\ worker.pc = "getPod"
  BY Zenon DEF getPod, caches
<1>2. (Undisturbed' => Undisturbed) /\ ~Ending
  BY <1>1 DEF Undisturbed, Ending, Working
<1>3. worker.copy \in CloudTask
  BY <1>1 DEF SettledInv, Inv, WorkerInv
<1>4. CASE worker' = Idle \/ worker' = [pc |-> "retry", copy |-> worker.copy]
  <2>1. PodInv'
    <3>1. worker'.pc \notin {"create", "started"}
      BY <1>4 DEF Idle
    <3> QED BY Zenon, <1>1, <3>1 DEF SettledInv, PodInv
  <2>2. Known' => Known
    BY <1>1, <1>4 DEF Known, Idle
  <2> QED BY <1>1, <1>2, <1>4, <2>1, <2>2, NothingNewSettles DEF Idle
<1>5. CASE worker' = [pc |-> "create", copy |-> worker.copy] /\ worker.copy.phase \in {"", "Pending"}
  <2>1. PodInv'
    BY Zenon, <1>1, <1>5 DEF SettledInv, PodInv
  <2>2. Known' => Known
    BY Zenon, <1>1, <1>5 DEF Known
  <2> QED BY Zenon, <1>1, <1>2, <1>5, <2>1, <2>2, NothingNewSettles
<1>6. ASSUME NEW phase, phase = updateStatusFromPod(worker.copy.phase, podCache.phase),
             podCache # NoPod, phase # worker.copy.phase,
             worker' = [pc |-> "status", copy |-> [worker.copy EXCEPT !.phase = phase]]
      PROVE  PodInv' /\ FinalInv'
  <2>1. /\ worker'.pc = "status" /\ worker'.copy.phase = phase
        /\ worker'.copy.uid = worker.copy.uid /\ worker'.copy.rv = worker.copy.rv
    BY <1>3, <1>6 DEF CloudTask
  <2>2. PodInv'
    BY <1>1, <2>1 DEF SettledInv, PodInv
  <2>3. podCache.phase \in PodPhase
    BY <1>6 DEF SettledInv, Inv, TypeOK, Pod
  <2>4. (phase = "Completed") <=> (podCache.phase = "Succeeded")
    BY <1>6, <2>3 DEF updateStatusFromPod, PodPhase
  <2> SUFFICES ASSUME Undisturbed'
               PROVE  /\ pod # NoPod /\ pod.dying => Ending'
                      /\ podCache # NoPod /\ pod = NoPod => Ending'
                      /\ podCache # NoPod /\ podCache.phase = "Succeeded" /\ pod # NoPod
                            => pod.phase = "Succeeded"
                      /\ Known' => Finished'
                      /\ (worker.pc = "status" /\ SameVersion(worker.copy) => task.phase # "Completed")'
    BY <1>1, <2>2 DEF FinalInv
  <2>5. /\ pod # NoPod /\ ~pod.dying
        /\ podCache.phase = "Succeeded" => pod.phase = "Succeeded"
        /\ Known => Finished
    BY <1>2, <1>6 DEF SettledInv, FinalInv
  <2>6. Known' => Finished'
    <3>1. CASE phase = "Completed"
      BY <1>1, <2>4, <2>5, <3>1 DEF Finished
    <3>2. CASE phase # "Completed"
      BY <1>1, <2>1, <2>5, <3>2 DEF Known, Finished
    <3> QED BY <3>1, <3>2
  <2>7. ASSUME SameVersion(worker.copy) PROVE task.phase # "Completed"
    <3>1. worker.copy = task
      BY <1>1, <2>7 DEF SettledInv, Inv, WorkerInv
    <3>2. ~(task.phase = "Completed")
      <4>1. task.phase = "Completed" => podCache.phase = "Succeeded"
        BY <1>6, <2>5 DEF Finished, Known
      <4>2. phase # "Completed" \/ task.phase # "Completed"
        BY <1>6, <3>1
      <4>3. phase = "Completed" <=> podCache.phase = "Succeeded"
        BY <2>4
      <4> QED BY <4>1, <4>2, <4>3
    <3> QED BY <3>2
  <2> QED BY <1>1, <2>1, <2>5, <2>6, <2>7 DEF SameVersion
<1> QED
  <2> DEFINE phase == updateStatusFromPod(worker.copy.phase, podCache.phase)
  <2>1. \/ worker' = Idle \/ worker' = [pc |-> "retry", copy |-> worker.copy]
        \/ worker' = [pc |-> "create", copy |-> worker.copy] /\ worker.copy.phase \in {"", "Pending"}
        \/ /\ podCache # NoPod /\ phase # worker.copy.phase
           /\ worker' = [pc |-> "status", copy |-> [worker.copy EXCEPT !.phase = phase]]
    BY Zenon DEF getPod, Outcome, Return, Go
  <2> QED BY Zenon, <1>4, <1>5, <1>6, <2>1

\* deletePod marks the Pod only when cache and copy show the deletion.
LEMMA deletePodSettles ==
    ASSUME SettledInv, deletePod
    PROVE  PodInv' /\ FinalInv'
<1>1. /\ task' = task /\ taskCache' = taskCache /\ podCache' = podCache /\ uid' = uid /\ lost' = lost
      /\ worker.pc = "deletePod"
      /\ worker' = Idle \/ (worker'.pc = "unfinalize" /\ worker'.copy = worker.copy)
      /\ pod' = pod \/ (pod # NoPod /\ pod' = [pod EXCEPT !.dying = TRUE])
  BY DEF deletePod, caches, Go, Return
<1>2. pod # NoPod => /\ pod' # NoPod /\ pod'.owner = pod.owner /\ pod'.phase = pod.phase
  BY ZenonT(30), <1>1, CloudTaskNulls DEF SettledInv, Inv, TypeOK, Pod
<1>3. pod = NoPod => pod' = NoPod
  BY <1>1
<1>4. PodInv'
  <2>1. worker'.pc \notin {"create", "started"}
    BY <1>1 DEF Idle
  <2> QED BY Zenon, <1>1, <1>2, <1>3, <2>1 DEF SettledInv, PodInv
<1> SUFFICES ASSUME Undisturbed' PROVE FinalInv'
  BY <1>4 DEF FinalInv
<1>5. Undisturbed
  BY <1>1 DEF Undisturbed
<1>6. task.del /\ (taskCache # NoTask => taskCache.del)
  BY <1>1, <1>5, OneIncarnation DEF SettledInv, Inv, WorkerInv, NotNewer, Deleting, Undisturbed
<1>7. Ending'
  BY <1>1, <1>6 DEF Ending, Working, Idle
<1>8. Known' => Known
  BY <1>1 DEF Known, Idle
<1>9. worker'.pc # "status"
  BY <1>1 DEF Idle
<1> QED BY <1>1, <1>2, <1>3, <1>5, <1>7, <1>8, <1>9 DEF SettledInv, FinalInv, Finished

\* Create makes a Pod only where Completed is not known.
LEMMA CreateSettles ==
    ASSUME SettledInv, Create
    PROVE  PodInv' /\ FinalInv'
<1>1. /\ task' = task /\ taskCache' = taskCache /\ podCache' = podCache /\ uid' = uid /\ lost' = lost
      /\ worker.pc = "create"
      /\ worker' = Idle \/ (worker'.pc = "started" /\ worker'.copy = worker.copy)
      /\ pod' = pod \/ (pod = NoPod /\ pod' = constructPod)
  BY DEF Create, caches, Go, Return
<1>2. constructPod.owner <= uid /\ ~constructPod.dying /\ constructPod.phase = "Pending"
  BY <1>1 DEF constructPod, SettledInv, Inv, WorkerInv, NotNewer
<1>3. PodInv'
  <2>1. worker'.pc = "idle" \/ (worker'.pc = "started" /\ worker'.copy = worker.copy)
    BY <1>1 DEF Idle
  <2> QED BY Zenon, <1>1, <1>2, <2>1 DEF SettledInv, PodInv
<1>4. (Undisturbed' => Undisturbed) /\ ~Ending
  BY <1>1 DEF Undisturbed, Ending, Working
<1>5. Known' => Known
  BY <1>1 DEF Known, Idle
<1>6. CASE pod' = pod
  BY SMTT(30), <1>1, <1>3, <1>4, <1>5, <1>6, NothingNewSettles DEF Idle
<1>7. CASE pod = NoPod /\ pod' = constructPod
  <2>1. Undisturbed => podCache = NoPod /\ ~Known
    BY <1>4, <1>7 DEF SettledInv, FinalInv, Finished
  <2>2. worker'.pc # "status"
    BY <1>1 DEF Idle
  <2> QED BY <1>1, <1>2, <1>3, <1>4, <1>5, <1>7, <2>1, <2>2 DEF FinalInv
<1> QED BY <1>1, <1>6, <1>7

\* The informers move forward, and a new manager starts from the server.
LEMMA ManagerSettles ==
    ASSUME SettledInv, SyncTask \/ SyncPod \/ Restart
    PROVE  PodInv' /\ FinalInv'
<1>1. /\ task' = task /\ pod' = pod /\ uid' = uid /\ lost' = lost
      /\ taskCache' \in {taskCache, task} /\ podCache' \in {podCache, pod}
      /\ worker' \in {worker, Idle}
  BY DEF SyncTask, SyncPod, Restart
<1>2. Undisturbed' => Undisturbed
  BY <1>1 DEF Undisturbed
<1>3. PodInv'
  <2>1. worker' = worker \/ worker'.pc = "idle"
    BY <1>1 DEF Idle
  <2> QED BY Zenon, <1>1, <2>1 DEF SettledInv, PodInv
<1>4. Undisturbed /\ Ending => Ending'
  BY <1>1 DEF Ending, Working, Idle
<1>5. Undisturbed /\ Known' => Known
  BY <1>1 DEF Known, Idle, Undisturbed
<1>6. (worker.pc = "status" /\ SameVersion(worker.copy))' => worker.pc = "status" /\ SameVersion(worker.copy)
  BY <1>1 DEF Idle, SameVersion
<1> QED BY <1>1, <1>2, <1>3, <1>4, <1>5, <1>6 DEF SettledInv, FinalInv, Finished

\* Users delete and edit without touching the status.
LEMMA UsersSettle ==
    ASSUME SettledInv, Submit \/ Delete \/ Edit
    PROVE  PodInv' /\ FinalInv'
<1>0. uid \in Nat
  BY CloudTaskAssumption DEF SettledInv, Inv, TypeOK
<1>1. /\ pod' = pod /\ taskCache' = taskCache /\ podCache' = podCache /\ worker' = worker /\ lost' = lost
      /\ uid' = uid \/ uid' = uid + 1
  BY Zenon DEF Submit, Delete, Edit, caches
<1>2. PodInv'
  <2>1. /\ pod # NoPod => pod.owner \in Int
        /\ podCache # NoPod => podCache.owner \in Int
    BY CloudTaskAssumption DEF SettledInv, Inv, TypeOK, Pod, Uid
  <2>2. /\ pod # NoPod => pod.owner <= uid'
        /\ podCache # NoPod => podCache.owner <= uid'
    <3>1. \A i \in Int : i <= uid => i <= uid'
      BY <1>0, <1>1
    <3> QED BY Zenon, <2>1, <3>1 DEF SettledInv, PodInv
  <2> QED BY Zenon, <1>1, <2>2 DEF SettledInv, PodInv
<1>3. CASE Submit
  <2> SUFFICES ASSUME Undisturbed' PROVE FinalInv'
    BY <1>2 DEF FinalInv
  <2>1. uid = 0 /\ task'.phase = ""
    <3>1. uid' = uid + 1 /\ uid' = 1
      BY <1>3 DEF Submit, Undisturbed
    <3>2. task'.phase = ""
      <4>1. PICK n \in Admitted : task' = NewTask(uid + 1, n)
        BY <1>3 DEF Submit
      <4>2. NewTask(uid + 1, n).phase = ""
        BY DEF NewTask
      <4> QED BY Zenon, <4>1, <4>2
    <3>3. uid = 0
      BY <1>0, <3>1
    <3> QED BY Zenon, <3>2, <3>3
  <2>2. pod = NoPod /\ podCache = NoPod
    <3>1. \A u \in Uid : ~(u <= 0)
      BY SMT, CloudTaskAssumption DEF Uid
    <3>2. /\ pod # NoPod => pod.owner \in Uid
          /\ podCache # NoPod => podCache.owner \in Uid
      BY DEF SettledInv, Inv, TypeOK, Pod
    <3> QED BY Zenon, <2>1, <3>1, <3>2 DEF SettledInv, PodInv
  <2>3. taskCache = NoTask /\ worker.pc = "idle"
    <3>1. \A u \in Uid : ~(u <= 0)
      BY CloudTaskAssumption DEF Uid
    <3>2. taskCache # NoTask => taskCache.uid \in Uid /\ taskCache.uid <= uid
      BY DEF SettledInv, Inv, TypeOK, ServerInv, NotNewer, CloudTask
    <3>3. worker.pc # "idle" => worker.copy.uid \in Uid /\ worker.copy.uid <= uid
      BY DEF SettledInv, Inv, WorkerInv, NotNewer, CloudTask
    <3> QED BY Zenon, <2>1, <3>1, <3>2, <3>3
  <2> QED BY Zenon, <1>1, <2>1, <2>2, <2>3 DEF FinalInv, Known
<1>4. CASE Delete \/ Edit
  <2>1. /\ task # NoTask /\ task \in CloudTask /\ uid' = uid
        /\ task' # NoTask => /\ task'.phase = task.phase /\ (task.del => task'.del)
                             /\ task'.uid = task.uid /\ task'.rv = task.rv + 1
    BY Zenon, <1>4 DEF Delete, Edit, SettledInv, Inv, TypeOK, CloudTask
  <2>2. Undisturbed' => Undisturbed
    BY <1>1, <2>1 DEF Undisturbed
  <2>3. Undisturbed' /\ Ending => Ending'
    BY <1>1, <2>1 DEF Ending, Undisturbed
  <2>4. Undisturbed' /\ Known' => Known
    BY <1>1, <2>1 DEF Known, Undisturbed
  <2>5. worker.pc # "idle" => ~SameVersion(worker.copy)'
    <3>1. worker.pc # "idle" => worker.copy.rv \in Nat /\ NotNewer(worker.copy)
      BY DEF SettledInv, Inv, WorkerInv, CloudTask
    <3> QED BY <1>1, <2>1, <3>1 DEF SameVersion, NotNewer, CloudTask
  <2> QED BY SMTT(30), <1>1, <1>2, <2>1, <2>2, <2>3, <2>4, <2>5 DEF SettledInv, FinalInv, Finished
<1> QED BY <1>3, <1>4

\* A Pod that succeeded stays so until it goes, and goes only with its CloudTask.
LEMMA PodSettles ==
    ASSUME SettledInv, PodStep \/ PodGone \/ PodLost \/ CollectPod
    PROVE  PodInv' /\ FinalInv'
<1>1. /\ task' = task /\ taskCache' = taskCache /\ podCache' = podCache /\ worker' = worker /\ uid' = uid
      /\ pod # NoPod /\ pod \in Pod
  BY DEF PodStep, PodGone, PodLost, CollectPod, caches, SettledInv, Inv, TypeOK
<1>2. /\ Ending' <=> Ending
      /\ Known' <=> Known
      /\ SameVersion(worker.copy)' <=> SameVersion(worker.copy)
  BY <1>1 DEF Ending, Known, SameVersion
<1>3. CASE PodStep
  <2>1. /\ pod' \in Pod /\ pod'.owner = pod.owner /\ pod'.dying = pod.dying /\ lost' = lost
        /\ pod.phase = "Succeeded" => pod'.phase = "Succeeded"
        /\ pod.phase # "Succeeded"
    BY <1>1, <1>3 DEF PodStep, Pod
  <2>2. pod' # NoPod
    BY <2>1, CloudTaskNulls
  <2> QED BY Zenon, <1>1, <1>2, <2>1, <2>2 DEF SettledInv, PodInv, FinalInv, Undisturbed, Finished
<1>4. CASE PodGone
  BY Zenon, <1>1, <1>2, <1>4 DEF PodGone, SettledInv, PodInv, FinalInv, Undisturbed, Finished
<1>5. CASE PodLost
  <2>1. pod' = NoPod /\ lost' # 0
    BY <1>5 DEF PodLost, SettledInv, Inv, TypeOK
  <2> QED BY Zenon, <1>1, <2>1 DEF SettledInv, PodInv, FinalInv, Undisturbed
<1>6. CASE CollectPod
  <2>1. pod' = NoPod /\ lost' = lost
    BY <1>6 DEF CollectPod
  <2>2. ~Undisturbed
    BY <1>1, <1>6, OneIncarnation DEF CollectPod, Undisturbed
  <2> QED BY Zenon, <1>1, <2>1, <2>2 DEF SettledInv, PodInv, FinalInv, Undisturbed
<1> QED BY <1>3, <1>4, <1>5, <1>6

\* SettledInv is inductive.
LEMMA SettledStep == ASSUME SettledInv, Inv', [Next]_vars PROVE SettledInv'
<1>1. CASE UNCHANGED vars
  BY Zenon, <1>1 DEF vars, SettledInv, PodInv, FinalInv, Undisturbed, Ending, Known, Finished, SameVersion
<1>2. CASE Step
  BY <1>2, WritesSettle, ReadsSettle, getPodSettles, deletePodSettles, CreateSettles DEF Step, SettledInv
<1>3. CASE Next /\ ~Step
  BY <1>3, ReadsSettle, ManagerSettles, UsersSettle, PodSettles DEF Next, SettledInv
<1> QED BY <1>1, <1>2, <1>3

\* As long as the name is not reused and no Pod is lost, no stale copy, lost answer
\* or restart makes Reconcile take Completed back.
THEOREM CompletedStays == Spec => CompletedIsFinal
<1>1. Init => PodInv /\ FinalInv
  BY DEF Init, PodInv, FinalInv, Undisturbed, Idle
<1>2. ASSUME SettledInv, [Next]_vars, uid = 1, lost = 0, task # NoTask, task' # NoTask,
             task.phase = "Completed"
      PROVE  task'.phase = "Completed"
  <2>1. task \in CloudTask
    BY SMTT(30), <1>2 DEF SettledInv, Inv, TypeOK
  <2>2. CASE Submit \/ Delete \/ Edit
    BY Zenon, <1>2, <2>1, <2>2 DEF Submit, Delete, Edit, CloudTask
  <2>3. CASE UNCHANGED task
    BY <1>2, <2>3
  <2>4. CASE Current /\ (RemoveFinalizer \/ AddFinalizer \/ UpdateStatus \/ Retry \/ RecordPod)
    <3>1. worker.pc # "idle" /\ worker.copy \in CloudTask /\ SameVersion(worker.copy)
      BY Zenon, <1>2, <2>4 DEF SettledInv, Inv, WorkerInv, RemoveFinalizer, AddFinalizer, UpdateStatus, Retry,
         RecordPod, Current, SameVersion
    <3>2. worker.pc # "status" /\ worker.copy = task
      BY <1>2, <3>1 DEF SettledInv, FinalInv, Undisturbed, Inv, WorkerInv
    <3>3. worker.pc \notin {"retry", "started"}
      BY Zenon, <1>2, <3>2 DEF SettledInv, PodInv, Inv, WorkerInv
    <3>4. Bumped \in CloudTask /\ Bumped.phase = "Completed"
      BY <1>2, <3>1, <3>2, BumpedType
    <3>5. RemoveFinalizer \/ AddFinalizer
      BY Zenon, <2>4, <3>2, <3>3 DEF UpdateStatus, Retry, RecordPod
    <3>6. task' \in {task, NoTask, [Bumped EXCEPT !.fin = FALSE], [Bumped EXCEPT !.fin = TRUE]}
      BY Zenon, <3>5 DEF RemoveFinalizer, AddFinalizer, Update, Store
    <3> QED BY <1>2, <3>4, <3>6 DEF CloudTask
  <2>5. CASE ~Current /\ (RemoveFinalizer \/ AddFinalizer \/ UpdateStatus \/ Retry \/ RecordPod)
    BY Zenon, <2>3, <2>5 DEF RemoveFinalizer, AddFinalizer, UpdateStatus, Retry, RecordPod, Update
  <2>6. CASE Reconcile \/ cleanup \/ deletePod \/ getPod \/ Create \/ SyncTask \/ SyncPod \/ Restart
             \/ PodStep \/ PodGone \/ PodLost \/ CollectPod \/ UNCHANGED vars
    BY Zenon, <2>3, <2>6 DEF Reconcile, cleanup, deletePod, getPod, Create, SyncTask, SyncPod, Restart,
       PodStep, PodGone, PodLost, CollectPod, vars
  <2> QED BY <1>2, <2>2, <2>4, <2>5, <2>6 DEF Next, Step
<1>3. SettledInv /\ [Next]_vars =>
      [uid = 1 /\ lost = 0 /\ task # NoTask /\ task' # NoTask /\ task.phase = "Completed"
       => task'.phase = "Completed"]_vars
  BY <1>2
<1>4. PodInv /\ FinalInv /\ Inv /\ Inv' /\ [Next]_vars => (PodInv /\ FinalInv)'
  BY SettledStep DEF SettledInv
<1>5. PodInv /\ FinalInv /\ Inv => SettledInv
  BY DEF SettledInv
<1> QED BY <1>1, <1>3, <1>4, <1>5, Invariance, PTL DEF Spec, CompletedIsFinal
==============================================================================
