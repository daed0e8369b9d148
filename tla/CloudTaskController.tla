------------------------- MODULE CloudTaskController -------------------------
(***************************************************************************)
(* The CloudTask operator of Module 2:                                     *)
(* module2-orchestrator/controllers/cloudtask_controller.go.               *)
(*                                                                         *)
(* CloudTasks of different names share nothing but the worker, so there is *)
(* one name here, with its incarnations.  As in TaskJobController the      *)
(* controller reads informer caches and writes to the API server, and each *)
(* API call of Reconcile is a step.  Three things differ: a finalizer      *)
(* holds a deleted CloudTask until its Pod is deleted, the Pod is found    *)
(* through status.podName, and GenerationChangedPredicate drops every      *)
(* watch event of a status change, so that only appearance, deletion and   *)
(* the requests Reconcile leaves behind wake the controller.  Of the spec  *)
(* only spec.retries matters here; users may change it at any time, within *)
(* what the webhook admits (api/v1/cloudtask_webhook.go).                  *)
(***************************************************************************)
EXTENDS Integers

CONSTANTS RetriesAsked,    \* values of spec.retries that users write
          DefaultRetries,  \* 3
          MaxRetries,      \* 10
          MaxEdits,   \* bound: changes of the spec of an incarnation
          MaxUid,     \* bound: incarnations of the name
          MaxFaults,  \* bound: crashes, API errors, lost answers
          MaxLost,    \* bound: Pods evicted, or deleted by hand
          NoTask, NoPod

ASSUME CloudTaskAssumption ==
    /\ RetriesAsked \subseteq Int
    /\ MaxRetries \in Nat /\ DefaultRetries \in 0..MaxRetries
    /\ MaxEdits \in Nat /\ MaxUid \in Nat /\ MaxFaults \in Nat /\ MaxLost \in Nat

Phase == {"", "Pending", "Running", "Completed", "Failed"}
Uid == 1..MaxUid

\* gen: the generation; fin: the finalizer; del: a deletion timestamp; pod:
\* status.podName is set; retry: status.retryCount.
CloudTask == [uid : Uid, rv : Nat, gen : Nat, retries : 0..MaxRetries, fin : BOOLEAN, del : BOOLEAN,
              phase : Phase, pod : BOOLEAN, retry : 0..MaxRetries]
NewTask(u, n) == [uid |-> u, rv |-> 0, gen |-> 0, retries |-> n, fin |-> FALSE, del |-> FALSE,
                  phase |-> "", pod |-> FALSE, retry |-> 0]

\* The webhook: no retries means the default, and then the range is checked.
Default(n) == IF n = 0 THEN DefaultRetries ELSE n
Validate(n) == n >= 0 /\ n <= MaxRetries
Admitted == {n \in {Default(asked) : asked \in RetriesAsked} : Validate(n)}

PodPhase == {"Pending", "Running", "Succeeded", "Failed"}
Pod == [owner : Uid, phase : PodPhase, dying : BOOLEAN]

ASSUME CloudTaskNulls == NoTask \notin CloudTask /\ NoPod \notin Pod

VARIABLES
    task,       \* the CloudTask on the API server, or NoTask
    pod,        \* the Pod named <name>-pod on the API server, or NoPod
    taskCache,  \* the CloudTask informer's copy
    podCache,   \* the Pod informer's copy
    queued,     \* a reconcile request is due, now or later
    worker,     \* the Reconcile call in progress: next call, and its copy
    uid,        \* incarnations so far
    faults,     \* disturbances so far
    lost        \* lost Pods so far

vars == <<task, pod, taskCache, podCache, queued, worker, uid, faults, lost>>
caches == <<taskCache, podCache>>

Pc == {"idle", "cleanup", "deletePod", "unfinalize", "finalize", "getPod", "status", "retry",
       "create", "started"}
Idle == [pc |-> "idle", copy |-> NoTask]

Init ==
    /\ task = NoTask /\ taskCache = NoTask
    /\ pod = NoPod /\ podCache = NoPod
    /\ queued = FALSE
    /\ worker = Idle
    /\ uid = 0
    /\ faults = 0
    /\ lost = 0

Fault == faults < MaxFaults /\ faults' = faults + 1

-----------------------------------------------------------------------------
(* Reconcile, one action per API call. *)

\* Reconcile returns: an error or RequeueAfter leaves a request behind.
Return(requeue) == worker' = Idle /\ queued' = (queued \/ requeue)

Go(pc, copy) == worker' = [pc |-> pc, copy |-> copy] /\ UNCHANGED queued

\* Mutant: the Pod is created without waiting for the finalizer.
ReconcileUnguarded ==
    /\ worker.pc = "idle"
    /\ queued
    /\ queued' = FALSE
    /\ worker' = IF taskCache = NoTask THEN Idle
                 ELSE [copy |-> taskCache,
                       pc |-> IF ~taskCache.del THEN "getPod"
                              ELSE IF taskCache.fin THEN "cleanup" ELSE "idle"]
    /\ UNCHANGED <<task, pod, caches, uid, faults, lost>>

\* A request is taken and the CloudTask fetched: nothing to do when it is not
\* found, or deleted without the finalizer; otherwise deletion, the finalizer,
\* or the Pod comes next.
Reconcile ==
    /\ worker.pc = "idle"
    /\ queued
    /\ queued' = FALSE
    /\ worker' = IF taskCache = NoTask \/ (taskCache.del /\ ~taskCache.fin)
                   THEN Idle
                   ELSE [copy |-> taskCache,
                         pc |-> IF taskCache.del THEN "cleanup"
                                ELSE IF ~taskCache.fin THEN "finalize" ELSE "getPod"]
    /\ UNCHANGED <<task, pod, caches, uid, faults, lost>>

\* The server takes a write only at the version that was read.
Current == task # NoTask /\ task.uid = worker.copy.uid /\ task.rv = worker.copy.rv

\* A deleted object goes with its last finalizer.
Store(new) == task' = IF new.del /\ ~new.fin THEN NoTask ELSE new

\* Update or Status().Update of the copy, then the action that follows success:
\* stored; refused (conflict, not found); failed, or stored with the answer lost.
Update(new, next) ==
    /\ \/ Current /\ Store(new) /\ next /\ UNCHANGED faults
       \/ ~Current /\ Return(TRUE) /\ UNCHANGED <<task, faults>>
       \/ Fault /\ Return(TRUE) /\ (UNCHANGED task \/ (Current /\ Store(new)))
    /\ UNCHANGED <<pod, caches, uid, lost>>

Bumped == [worker.copy EXCEPT !.rv = @ + 1]

\* deleteExternalResources: the recorded Pod is looked up.
cleanup ==
    /\ worker.pc = "cleanup"
    /\ Go(IF worker.copy.pod /\ podCache # NoPod THEN "deletePod" ELSE "unfinalize", worker.copy)
    /\ UNCHANGED <<task, pod, caches, uid, faults, lost>>

\* Mutant: an error of Delete ends the reconcile without a request.
deletePodForgets ==
    LET Marked == pod # NoPod /\ pod' = [pod EXCEPT !.dying = TRUE] IN
    /\ worker.pc = "deletePod"
    /\ \/ Marked /\ Go("unfinalize", worker.copy) /\ UNCHANGED faults
       \/ pod = NoPod /\ Return(FALSE) /\ UNCHANGED <<pod, faults>>
       \/ Fault /\ Return(FALSE) /\ (UNCHANGED pod \/ Marked)
    /\ UNCHANGED <<task, caches, uid, lost>>

\* deleteExternalResources: Delete of that Pod; any error, not found included,
\* is returned.
deletePod ==
    LET Marked == pod # NoPod /\ pod' = [pod EXCEPT !.dying = TRUE] IN
    /\ worker.pc = "deletePod"
    /\ \/ Marked /\ Go("unfinalize", worker.copy) /\ UNCHANGED faults
       \/ pod = NoPod /\ Return(TRUE) /\ UNCHANGED <<pod, faults>>
       \/ Fault /\ Return(TRUE) /\ (UNCHANGED pod \/ Marked)
    /\ UNCHANGED <<task, caches, uid, lost>>

RemoveFinalizer ==
    /\ worker.pc = "unfinalize"
    /\ Update([Bumped EXCEPT !.fin = FALSE], Return(FALSE))

AddFinalizer ==
    LET new == [Bumped EXCEPT !.fin = TRUE] IN
    /\ worker.pc = "finalize"
    /\ Update(new, Go("getPod", new))

\* The phase that the phase of the Pod gives a CloudTask.
updateStatusFromPod(old, podPhase) ==
    CASE podPhase = "Running"   -> "Running"
      [] podPhase = "Succeeded" -> "Completed"
      [] podPhase = "Failed"    -> "Failed"
      [] podPhase = "Pending"   -> IF old \in {"Running", "Pending"} THEN old ELSE "Pending"

MayRetry(copy) == copy.retry < copy.retries

\* Mutant: a retry after every end.
OutcomeRetriesAll(copy) ==
    \/ copy.phase \in {"Completed", "Failed"} /\ ~MayRetry(copy) /\ Return(FALSE)
    \/ copy.phase \in {"Completed", "Failed"} /\ MayRetry(copy) /\ Go("retry", copy)
    \/ copy.phase \notin {"Completed", "Failed"} /\ Return(TRUE)

\* Mutant: a running Pod is not polled.
OutcomeNoPoll(copy) ==
    \/ copy.phase # "Failed" /\ Return(FALSE)
    \/ copy.phase = "Failed" /\ ~MayRetry(copy) /\ Return(FALSE)
    \/ copy.phase = "Failed" /\ MayRetry(copy) /\ Go("retry", copy)

\* The switch on the phase, once it has been brought up to date.
Outcome(copy) ==
    \/ copy.phase = "Completed" /\ Return(FALSE)
    \/ copy.phase = "Failed" /\ ~MayRetry(copy) /\ Return(FALSE)
    \/ copy.phase = "Failed" /\ MayRetry(copy) /\ Go("retry", copy)
    \/ copy.phase \notin {"Completed", "Failed"} /\ Return(TRUE)

\* The Pod named in the status is looked up.  Found: the phase follows it.  No
\* name, or not found: a Pod is created if the phase is still Pending or empty.
getPod ==
    LET c     == worker.copy
        found == c.pod /\ podCache # NoPod
        phase == updateStatusFromPod(c.phase, podCache.phase)
    IN  /\ worker.pc = "getPod"
        /\ \/ found /\ phase # c.phase /\ Go("status", [c EXCEPT !.phase = phase])
           \/ found /\ phase = c.phase /\ Outcome(c)
           \/ ~found /\ c.phase \in {"", "Pending"} /\ Go("create", c)
           \/ ~found /\ c.phase \notin {"", "Pending"} /\ Return(TRUE)
        /\ UNCHANGED <<task, pod, caches, uid, faults, lost>>

\* Mutant: the phase is not saved before the switch.
UpdateStatusUnsaved ==
    /\ worker.pc = "status"
    /\ Outcome(worker.copy)
    /\ UNCHANGED <<task, pod, caches, uid, faults, lost>>

UpdateStatus ==
    /\ worker.pc = "status"
    /\ Update(Bumped, Outcome(Bumped))

\* A failed CloudTask with retries left goes back to Pending; its Pod is
\* forgotten, not deleted.
Retry ==
    /\ worker.pc = "retry"
    /\ Update([Bumped EXCEPT !.phase = "Pending", !.retry = @ + 1, !.pod = FALSE], Return(TRUE))

\* The Pod, by its fixed name, owned by the fetched CloudTask.
constructPod == [owner |-> worker.copy.uid, phase |-> "Pending", dying |-> FALSE]

\* Create: any error, AlreadyExists included, is returned.
Create ==
    LET Created == pod = NoPod /\ pod' = constructPod IN
    /\ worker.pc = "create"
    /\ \/ Created /\ Go("started", worker.copy) /\ UNCHANGED faults
       \/ pod # NoPod /\ Return(TRUE) /\ UNCHANGED <<pod, faults>>
       \/ Fault /\ Return(TRUE) /\ (UNCHANGED pod \/ Created)
    /\ UNCHANGED <<task, caches, uid, lost>>

\* The new Pod is recorded.
RecordPod ==
    /\ worker.pc = "started"
    /\ Update([Bumped EXCEPT !.phase = "Running", !.pod = TRUE], Return(TRUE))

Step ==
    \/ cleanup \/ deletePod \/ RemoveFinalizer \/ AddFinalizer
    \/ getPod \/ UpdateStatus \/ Retry \/ Create \/ RecordPod

-----------------------------------------------------------------------------
(* The manager. *)

\* Mutant: a new spec makes no request.
SyncTaskDeletions ==
    /\ taskCache # task
    /\ taskCache' = task
    /\ queued' = (queued \/ IF taskCache = NoTask \/ task = NoTask
                              THEN TRUE
                              ELSE taskCache.uid # task.uid \/ taskCache.del # task.del)
    /\ UNCHANGED <<task, pod, podCache, worker, uid, faults, lost>>

\* For(CloudTask) behind GenerationChangedPredicate: a request for appearance,
\* disappearance, the deletion mark and a new spec, none for a status or finalizer
\* change.
SyncTask ==
    /\ taskCache # task
    /\ taskCache' = task
    /\ queued' = (queued \/ IF taskCache = NoTask \/ task = NoTask
                              THEN TRUE
                              ELSE taskCache.uid # task.uid \/ taskCache.gen # task.gen)
    /\ UNCHANGED <<task, pod, podCache, worker, uid, faults, lost>>

\* Owns(Pod) behind the same filter: a Pod has no generation, so only its
\* appearance and disappearance count.
SyncPod ==
    /\ podCache # pod
    /\ podCache' = pod
    /\ queued' = (queued \/ IF podCache = NoPod \/ pod = NoPod
                              THEN TRUE ELSE podCache.owner # pod.owner)
    /\ UNCHANGED <<task, pod, taskCache, worker, uid, faults, lost>>

\* The operator dies between two calls and starts again.
Restart ==
    /\ Fault
    /\ worker' = Idle
    /\ taskCache' = task
    /\ podCache' = pod
    /\ queued' = (task # NoTask \/ pod # NoPod)
    /\ UNCHANGED <<task, pod, uid, lost>>

-----------------------------------------------------------------------------
(* The environment: users, kubelet, garbage collector. *)

Submit ==
    /\ task = NoTask
    /\ uid < MaxUid
    /\ uid' = uid + 1
    /\ \E n \in Admitted : task' = NewTask(uid + 1, n)
    /\ UNCHANGED <<pod, caches, queued, worker, faults, lost>>

Delete ==
    /\ task # NoTask
    /\ ~task.del
    /\ task' = IF task.fin THEN [task EXCEPT !.del = TRUE, !.gen = @ + 1, !.rv = @ + 1] ELSE NoTask
    /\ UNCHANGED <<pod, caches, queued, worker, uid, faults, lost>>

\* spec.retries is changed; ValidateUpdate lets every admitted value through.
Edit ==
    /\ task # NoTask
    /\ task.gen < MaxEdits
    /\ \E n \in Admitted \ {task.retries} :
           task' = [task EXCEPT !.retries = n, !.gen = @ + 1, !.rv = @ + 1]
    /\ UNCHANGED <<pod, caches, queued, worker, uid, faults, lost>>

PodStep ==
    /\ pod # NoPod
    /\ \E p \in PodPhase :
         /\ \/ pod.phase = "Pending" /\ p \in {"Running", "Failed"}
            \/ pod.phase = "Running" /\ p \in {"Succeeded", "Failed"}
         /\ pod' = [pod EXCEPT !.phase = p]
    /\ UNCHANGED <<task, caches, queued, worker, uid, faults, lost>>

\* A deleted Pod ends and goes.
PodGone ==
    /\ pod # NoPod
    /\ pod.dying
    /\ pod' = NoPod
    /\ UNCHANGED <<task, caches, queued, worker, uid, faults, lost>>

\* A Pod is evicted or deleted by hand.
PodLost ==
    /\ pod # NoPod
    /\ lost < MaxLost
    /\ lost' = lost + 1
    /\ pod' = NoPod
    /\ UNCHANGED <<task, caches, queued, worker, uid, faults>>

\* The controller reference: a Pod whose CloudTask is gone is deleted.
CollectPod ==
    /\ pod # NoPod
    /\ task # NoTask => task.uid # pod.owner
    /\ pod' = NoPod
    /\ UNCHANGED <<task, caches, queued, worker, uid, faults, lost>>

Next ==
    \/ Reconcile \/ Step
    \/ SyncTask \/ SyncPod \/ Restart
    \/ Submit \/ Delete \/ Edit \/ PodStep \/ PodGone \/ PodLost \/ CollectPod

Spec == Init /\ [][Next]_vars

\* The work queue is served, watches deliver, containers and deletions end.
Fairness ==
    /\ WF_vars(Reconcile) /\ WF_vars(Step)
    /\ WF_vars(SyncTask) /\ WF_vars(SyncPod)
    /\ WF_vars(PodStep) /\ WF_vars(PodGone) /\ WF_vars(CollectPod)

FairSpec == Spec /\ Fairness

-----------------------------------------------------------------------------
(* Properties. *)

\* Every variable keeps its type; status.retryCount stays within the greatest
\* spec.retries there may be (the test that guards a retry in Reconcile).
TypeOK ==
    /\ task \in CloudTask \cup {NoTask}
    /\ pod \in Pod \cup {NoPod}
    /\ taskCache \in CloudTask \cup {NoTask}
    /\ podCache \in Pod \cup {NoPod}
    /\ queued \in BOOLEAN
    /\ worker \in [pc : Pc, copy : CloudTask \cup {NoTask}]
    /\ uid \in 0..MaxUid
    /\ faults \in 0..MaxFaults
    /\ lost \in 0..MaxLost

\* The finalizer comes before the Pod: when a Pod is created, its CloudTask
\* is on the server, however stale the copy Reconcile works from.
NoPodWithoutTask ==
    [][pod = NoPod /\ pod' # NoPod => task # NoTask /\ task.uid = pod'.owner]_vars

\* A retry is counted once: retryCount changes only from Failed to Pending, by
\* one and within the spec.retries in force, whatever conflicts, lost answers,
\* restarts and edits come between the two status writes of Reconcile.
RetryCountedOnce ==
    [][task # NoTask /\ task' # NoTask /\ task'.uid = task.uid /\ task'.retry # task.retry
       => /\ task'.retry = task.retry + 1 /\ task'.retry <= task.retries
          /\ task.phase = "Failed" /\ task'.phase = "Pending"]_vars

\* As long as a name is not reused and its Pod is left alone, Completed is
\* final: no stale read, lost answer or restart lets updateStatusFromPod take
\* it back.
CompletedIsFinal ==
    [][uid = 1 /\ lost = 0 /\ task # NoTask /\ task' # NoTask /\ task.phase = "Completed"
       => task'.phase = "Completed"]_vars

\* A CloudTask marked for deletion goes: every error of the deletion branch is
\* returned, and so tried again.
DeletionCompletes ==
    (task # NoTask /\ task.del) ~> (task = NoTask \/ ~task.del)

\* Although watch events of a status change are dropped, the first attempt of
\* a CloudTask that stays ends for good: in Completed or Failed, or in a counted
\* failure. Its name is not reused, its spec not edited, nothing fails and no Pod
\* is lost.
FirstAttemptEnds ==
    <>[](task # NoTask /\ ~task.del) /\ [](uid <= 1 /\ faults = 0 /\ lost = 0)
    /\ [](task # NoTask => task.gen = 0)
    => <>[](task # NoTask /\ (task.phase \in {"Completed", "Failed"} \/ task.retry > 0))

\* A CloudTask that has failed for good and whose spec.retries is raised does not
\* stay Failed: no request was left behind, but the new generation wakes the
\* controller, which counts the retry and makes it Pending.  The failed Pod stays,
\* and the CloudTask is not deleted; no new attempt is claimed to start.
RaisedRetriesAreCounted ==
    <>[](task # NoTask /\ ~task.del /\ pod # NoPod /\ pod.phase = "Failed")
    => []<>(task # NoTask /\ ~(task.phase = "Failed" /\ MayRetry(task)))

\* docs/OPERATOR.md, "Retry State Machine": after a failed Pod the next
\* reconciliation creates a new one and the phase is Running again.
RetryRunsAgain ==
    (task # NoTask /\ task.phase = "Pending" /\ task.retry > 0)
    ~> (task = NoTask \/ task.phase # "Pending" \/ task.del)

\* docs/OPERATOR.md, "Task Lifecycle": a Pod that passes makes its CloudTask
\* Completed.
SuccessIsRecorded ==
    <>[](task # NoTask /\ pod # NoPod /\ pod.owner = task.uid /\ pod.phase = "Succeeded")
    => <>(task # NoTask /\ task.phase = "Completed")
=============================================================================
