-------------------------- MODULE TaskJobController --------------------------
(***************************************************************************)
(* The TaskJob operator: internal/controller/taskjob_controller.go.        *)
(*                                                                         *)
(* The API server holds the TaskJobs (jobs) and their Pods (pods).  The    *)
(* controller never reads the server: Get and List answer from two         *)
(* informer caches (jobCache, podCache), one watch per type, each a copy   *)
(* of the server at some earlier moment.  One worker (the default          *)
(* MaxConcurrentReconciles) runs Reconcile; every API call of Reconcile is *)
(* a step of its own, so that caches, kubelet and users move in between.   *)
(***************************************************************************)
EXTENDS Naturals, Sequences

CONSTANTS Task,       \* names of TaskJobs
          DependsOn,  \* DependsOn[t]: the list spec.dependsOn of t
          HasImage,   \* the tasks whose spec.image is not empty
          Deletable,  \* the tasks a user may delete (and submit again)
          MaxUid,     \* bound: incarnations of a TaskJob name
          MaxFaults,  \* bound: crashes, API errors, lost nodes and pods
          NoTask, NoJob, NoPod

ASSUME TaskAssumption ==
    /\ DependsOn \in [Task -> Seq(Task)]
    /\ HasImage \subseteq Task
    /\ Deletable \subseteq Task
    /\ MaxUid \in Nat
    /\ MaxFaults \in Nat
    /\ NoTask \notin Task

Phase == {"", "Queued", "Running", "Completed", "Failed"}
Terminal == {"Completed", "Failed"}

\* The status messages that distinguish two status writes of one phase.
Message == {"none", "waiting", "pending", "running", "end"}
Status == [phase : Phase, msg : Message]

Uid == 1..MaxUid
Job == [uid : Uid, rv : Nat, status : Status]

PodPhase == {"Pending", "Running", "Succeeded", "Failed", "Unknown"}
Pod == [owner : Uid, phase : PodPhase]

ASSUME NullAssumption == NoJob \notin Job /\ NoPod \notin Pod

VARIABLES
    jobs,       \* jobs[t]: the TaskJob t on the API server, or NoJob
    pods,       \* pods[t]: the Pod named taskjob-t on the API server, or NoPod
    jobCache,   \* the TaskJob informer's copy of jobs
    podCache,   \* the Pod informer's copy of pods
    queue,      \* tasks with a reconcile request that is due now or later
    worker,     \* the Reconcile call in progress
    uids,       \* uids[t]: incarnations of t so far
    faults,     \* disturbances so far
    succeeded   \* history: <<t, u>> when a Pod of incarnation u of t Succeeded

vars == <<jobs, pods, jobCache, podCache, queue, worker, uids, faults, succeeded>>
server == <<jobs, pods>>
caches == <<jobCache, podCache>>
history == <<uids, succeeded>>

NewStatus == [phase |-> "", msg |-> "none"]

\* pc: the next call of Reconcile; job: the copy it fetched; k: the dependency
\* it looks at; want: the status it will write; again: what it returns then.
Worker == [pc : {"idle", "deps", "find", "create", "update"},
           task : Task \cup {NoTask}, job : Job \cup {NoJob}, k : Nat,
           want : Status, again : BOOLEAN]
Idle == [pc |-> "idle", task |-> NoTask, job |-> NoJob, k |-> 0,
         want |-> NewStatus, again |-> FALSE]

Init ==
    /\ jobs = [t \in Task |-> NoJob]
    /\ pods = [t \in Task |-> NoPod]
    /\ jobCache = jobs
    /\ podCache = pods
    /\ queue = {}
    /\ worker = Idle
    /\ uids = [t \in Task |-> 0]
    /\ faults = 0
    /\ succeeded = {}

-----------------------------------------------------------------------------
(* Reconcile, one action per API call. *)

\* Reconcile returns: an error or RequeueAfter puts the request back.
Return(requeue) ==
    /\ worker' = Idle
    /\ queue' = IF requeue THEN queue \cup {worker.task} ELSE queue

\* Mutant: RequeueAfter is left out.
WriteOnce(phase, msg, requeue) ==
    /\ worker' = [worker EXCEPT !.pc = "update", !.again = FALSE,
                                !.want = [phase |-> phase, msg |-> msg]]
    /\ UNCHANGED queue

\* Reconcile goes on to Status().Update with this status.
Write(phase, msg, requeue) ==
    /\ worker' = [worker EXCEPT !.pc = "update", !.again = requeue,
                                !.want = [phase |-> phase, msg |-> msg]]
    /\ UNCHANGED queue

Fault == faults < MaxFaults /\ faults' = faults + 1

\* Mutant: no early return for Completed and Failed.
ReconcileAlways(t) ==
    /\ worker.pc = "idle"
    /\ t \in queue
    /\ queue' = queue \ {t}
    /\ worker' = IF jobCache[t] = NoJob
                   THEN Idle
                   ELSE [Idle EXCEPT !.pc = "deps", !.task = t,
                                     !.job = jobCache[t], !.k = 1]
    /\ UNCHANGED <<server, caches, history, faults>>

\* A request is taken; the TaskJob is fetched.  Not found, or Completed or
\* Failed already: nothing to do.
Reconcile(t) ==
    /\ worker.pc = "idle"
    /\ t \in queue
    /\ queue' = queue \ {t}
    /\ worker' = IF jobCache[t] = NoJob \/ jobCache[t].status.phase \in Terminal
                   THEN Idle
                   ELSE [Idle EXCEPT !.pc = "deps", !.task = t,
                                     !.job = jobCache[t], !.k = 1]
    /\ UNCHANGED <<server, caches, history, faults>>

\* Mutant: a dependency that is not found does not count.
checkDependenciesLax ==
    LET deps == DependsOn[worker.task]
        dep  == jobCache[deps[worker.k]]
    IN  /\ worker.pc = "deps"
        /\ \/ /\ worker.k > Len(deps)
              /\ worker' = [worker EXCEPT !.pc = "find"]
              /\ UNCHANGED queue
           \/ /\ worker.k <= Len(deps)
              /\ IF dep # NoJob /\ dep.status.phase # "Completed"
                   THEN Write("Queued", "waiting", TRUE)
                   ELSE worker' = [worker EXCEPT !.k = @ + 1] /\ UNCHANGED queue
        /\ UNCHANGED <<server, caches, history, faults>>

\* One turn of the loop over spec.dependsOn, or its end.
checkDependencies ==
    LET deps == DependsOn[worker.task]
        dep  == jobCache[deps[worker.k]]
    IN  /\ worker.pc = "deps"
        /\ \/ /\ worker.k > Len(deps)
              /\ worker' = [worker EXCEPT !.pc = "find"]
              /\ UNCHANGED queue
           \/ /\ worker.k <= Len(deps)
              /\ \/ /\ dep = NoJob              \* the error of Get is returned
                    /\ Return(TRUE)
                 \/ /\ dep # NoJob
                    /\ dep.status.phase # "Completed"
                    /\ Write("Queued", "waiting", TRUE)
                 \/ /\ dep # NoJob
                    /\ dep.status.phase = "Completed"
                    /\ worker' = [worker EXCEPT !.k = @ + 1]
                    /\ UNCHANGED queue
        /\ UNCHANGED <<server, caches, history, faults>>

\* What the phase of the Pod that was found makes of the TaskJob.
syncStatus(podPhase) ==
    \/ podPhase = "Running"   /\ Write("Running", "running", TRUE)
    \/ podPhase = "Succeeded" /\ Write("Completed", "end", FALSE)
    \/ podPhase = "Failed"    /\ Write("Failed", "end", FALSE)
    \/ podPhase = "Pending"   /\ Write("Queued", "pending", TRUE)
    \/ podPhase = "Unknown"   /\ Return(TRUE)

\* The Pod is looked up by its label, which carries the task's name.
findPod ==
    LET t == worker.task IN
    /\ worker.pc = "find"
    /\ \/ podCache[t] # NoPod /\ syncStatus(podCache[t].phase)
       \/ podCache[t] = NoPod /\ t \notin HasImage /\ Write("Failed", "end", FALSE)
       \/ /\ podCache[t] = NoPod
          /\ t \in HasImage
          /\ worker' = [worker EXCEPT !.pc = "create"]
          /\ UNCHANGED queue
    /\ UNCHANGED <<server, caches, history, faults>>

\* The Pod of a task: a name fixed by the task, owned by the fetched TaskJob.
buildPod == [owner |-> worker.job.uid, phase |-> "Pending"]

\* Create succeeds; the status becomes Running, its message stays.
CreateOk ==
    /\ worker.pc = "create"
    /\ pods[worker.task] = NoPod
    /\ pods' = [pods EXCEPT ![worker.task] = buildPod]
    /\ Write("Running", worker.job.status.msg, TRUE)
    /\ UNCHANGED <<jobs, caches, history, faults>>

\* Create fails, whatever the error: the status becomes Failed.
CreateErr ==
    /\ worker.pc = "create"
    /\ \/ pods[worker.task] # NoPod /\ UNCHANGED <<pods, faults>>  \* AlreadyExists
       \/ Fault /\ UNCHANGED pods                                  \* API error
       \/ /\ pods[worker.task] = NoPod                             \* answer lost
          /\ Fault
          /\ pods' = [pods EXCEPT ![worker.task] = buildPod]
    /\ Write("Failed", "end", TRUE)
    /\ UNCHANGED <<jobs, caches, history>>

\* The server accepts a write of the TaskJob only at the version that was read.
Current(t) == jobs[t] # NoJob /\ jobs[t].uid = worker.job.uid /\ jobs[t].rv = worker.job.rv

\* A write that changes nothing leaves the resource version alone.
Written(job, status) ==
    IF job.status = status
      THEN job
      ELSE [uid |-> job.uid, rv |-> job.rv + 1, status |-> status]

StoreStatus ==
    jobs' = [jobs EXCEPT ![worker.task] = Written(@, worker.want)]

\* Mutant: the TaskJob is fetched again just before the write.
UpdateStatusForced ==
    /\ worker.pc = "update"
    /\ jobs[worker.task] # NoJob
    /\ StoreStatus
    /\ Return(worker.again)
    /\ UNCHANGED <<pods, caches, history, faults>>

\* Status().Update: stored, refused (conflict, not found), failed, or stored
\* with the answer lost.
UpdateStatus ==
    /\ worker.pc = "update"
    /\ \/ /\ Current(worker.task)
          /\ StoreStatus
          /\ Return(worker.again)
          /\ UNCHANGED faults
       \/ /\ ~Current(worker.task)
          /\ Return(TRUE)
          /\ UNCHANGED <<jobs, faults>>
       \/ /\ Fault
          /\ Current(worker.task)
          /\ StoreStatus \/ UNCHANGED jobs
          /\ Return(TRUE)
    /\ UNCHANGED <<pods, caches, history>>

Step == checkDependencies \/ findPod \/ CreateOk \/ CreateErr \/ UpdateStatus

-----------------------------------------------------------------------------
(* The manager: watches, restart. *)

\* For(TaskJob): the watch brings the cache up to date, changed jobs are queued.
SyncJobs ==
    /\ jobCache # jobs
    /\ jobCache' = jobs
    /\ queue' = queue \cup {t \in Task : jobCache[t] # jobs[t]}
    /\ UNCHANGED <<server, podCache, worker, history, faults>>

\* Owns(Pod): likewise for Pods; the owner is queued.
SyncPods ==
    /\ podCache # pods
    /\ podCache' = pods
    /\ queue' = queue \cup {t \in Task : podCache[t] # pods[t]}
    /\ UNCHANGED <<server, jobCache, worker, history, faults>>

\* The operator dies between two calls and starts again: the caches are listed
\* anew and every TaskJob is queued.
Restart ==
    /\ Fault
    /\ worker' = Idle
    /\ jobCache' = jobs
    /\ podCache' = pods
    /\ queue' = {t \in Task : jobs[t] # NoJob \/ pods[t] # NoPod}
    /\ UNCHANGED <<server, history>>

-----------------------------------------------------------------------------
(* The environment: users, kubelet, garbage collector. *)

Submit(t) ==
    /\ jobs[t] = NoJob
    /\ uids[t] < MaxUid
    /\ uids' = [uids EXCEPT ![t] = @ + 1]
    /\ jobs' = [jobs EXCEPT ![t] = [uid |-> uids[t] + 1, rv |-> 0, status |-> NewStatus]]
    /\ UNCHANGED <<pods, caches, queue, worker, faults, succeeded>>

Delete(t) ==
    /\ t \in Deletable
    /\ jobs[t] # NoJob
    /\ jobs' = [jobs EXCEPT ![t] = NoJob]
    /\ UNCHANGED <<pods, caches, queue, worker, history, faults>>

\* RestartPolicy Never: a Pod runs once.
PodStep(t) ==
    /\ pods[t] # NoPod
    /\ \E p \in PodPhase :
         /\ \/ pods[t].phase = "Pending" /\ p \in {"Running", "Failed"}
            \/ pods[t].phase \in {"Running", "Unknown"} /\ p \in {"Succeeded", "Failed"}
         /\ pods' = [pods EXCEPT ![t].phase = p]
         /\ succeeded' = IF p = "Succeeded" THEN succeeded \cup {<<t, pods[t].owner>>}
                                            ELSE succeeded
    /\ UNCHANGED <<jobs, caches, queue, worker, uids, faults>>

\* The node of a running Pod is lost; or the Pod is evicted or deleted.
PodLost(t) ==
    /\ pods[t] # NoPod
    /\ Fault
    /\ \/ pods[t].phase = "Running" /\ pods' = [pods EXCEPT ![t].phase = "Unknown"]
       \/ pods' = [pods EXCEPT ![t] = NoPod]
    /\ UNCHANGED <<jobs, caches, queue, worker, history>>

\* The owner reference: a Pod whose TaskJob is gone is deleted, some time later.
CollectPod(t) ==
    /\ pods[t] # NoPod
    /\ jobs[t] # NoJob => jobs[t].uid # pods[t].owner
    /\ pods' = [pods EXCEPT ![t] = NoPod]
    /\ UNCHANGED <<jobs, caches, queue, worker, history, faults>>

-----------------------------------------------------------------------------

Next ==
    \/ \E t \in Task : Reconcile(t)
    \/ Step
    \/ SyncJobs \/ SyncPods \/ Restart
    \/ \E t \in Task : Submit(t) \/ Delete(t) \/ PodStep(t) \/ PodLost(t) \/ CollectPod(t)

Spec == Init /\ [][Next]_vars

\* The work queue is served, watches deliver, and a container ends; users,
\* faults and restarts owe nothing.
Fairness ==
    /\ \A t \in Task : SF_vars(Reconcile(t)) /\ WF_vars(PodStep(t))
    /\ WF_vars(Step)
    /\ WF_vars(SyncJobs)
    /\ WF_vars(SyncPods)

FairSpec == Spec /\ Fairness
-----------------------------------------------------------------------------
(* Properties. *)

\* Every variable keeps its type; a Pod's owner is an incarnation of its task
\* (buildPod), and the fault and incarnation bounds hold.
TypeOK ==
    /\ jobs \in [Task -> Job \cup {NoJob}]
    /\ pods \in [Task -> Pod \cup {NoPod}]
    /\ jobCache \in [Task -> Job \cup {NoJob}]
    /\ podCache \in [Task -> Pod \cup {NoPod}]
    /\ queue \in SUBSET Task
    /\ worker \in Worker
    /\ uids \in [Task -> 0..MaxUid]
    /\ faults \in 0..MaxFaults
    /\ succeeded \in SUBSET (Task \X Uid)

\* Some Pod of the task, of whichever incarnation, has Succeeded.
HasSucceeded(t) == \E u \in Uid : <<t, u>> \in succeeded

\* Reconcile reads its dependencies from a cache that lags and creates the Pod
\* several calls later; still no Pod of a task exists before a Pod of each of
\* its dependencies has run to success.
DependenciesRanFirst ==
    \A t \in Task : pods[t] # NoPod =>
        \A i \in 1..Len(DependsOn[t]) : HasSucceeded(DependsOn[t][i])

\* syncStatus turns a cached Pod phase into the final phase of the TaskJob: a
\* TaskJob is Completed only when a Pod of that task has Succeeded.
CompletedMeansSucceeded ==
    \A t \in Task : jobs[t] # NoJob /\ jobs[t].status.phase = "Completed" => HasSucceeded(t)

\* A status write replaces exactly the TaskJob that Reconcile fetched, however
\* many calls and changes lie between the fetch and the write.
NoLostUpdate ==
    [][\A t \in Task :
         /\ jobs[t] # NoJob
         /\ jobs'[t] # NoJob
         /\ jobs'[t] # jobs[t]
         => worker.task = t /\ worker.job = jobs[t]]_vars

\* Completed and Failed are final for an incarnation: no late reconcile, stale
\* read, retry or restart takes a TaskJob out of them.
TerminalIsFinal ==
    [][\A t \in Task :
         /\ jobs[t] # NoJob
         /\ jobs'[t] # NoJob
         /\ jobs[t].status.phase \in Terminal
         => jobs'[t] = jobs[t]]_vars

\* The refinement mapping: what a reader of the API server sees.
PhaseSeen == [t \in Task |-> IF jobs[t] = NoJob THEN "absent" ELSE jobs[t].status.phase]
WorkDone == {t \in Task : HasSucceeded(t)}
Lifecycle == INSTANCE TaskLifecycle WITH phase <- PhaseSeen, done <- WorkDone

\* Reconcile, with its caches, faults, conflicts and restarts, implements the
\* abstract life cycle of a task.
ImplementsLifecycle == Lifecycle!Spec

\* All dependencies are there and Completed.
Ready(t) ==
    /\ jobs[t] # NoJob
    /\ \A i \in 1..Len(DependsOn[t]) :
         LET d == DependsOn[t][i] IN jobs[d] # NoJob /\ jobs[d].status.phase = "Completed"

\* Every return of Reconcile before a final phase asks for another reconcile:
\* a TaskJob whose dependencies are Completed, and stay so, ends.
ReadyJobFinishes ==
    \A t \in Task :
        <>[]Ready(t) => <>(jobs[t] # NoJob /\ jobs[t].status.phase \in Terminal)

\* README.md, "How it works": the phase of the Pod is mirrored to the TaskJob.
\* So the TaskJob of a Pod that has not failed is not Failed.
FailedIsMirrored ==
    \A t \in Task :
        (/\ jobs[t] # NoJob
         /\ jobs[t].status.phase = "Failed"
         /\ pods[t] # NoPod
         /\ pods[t].owner = jobs[t].uid) => pods[t].phase = "Failed"
=============================================================================
