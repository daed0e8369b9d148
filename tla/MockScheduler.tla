---------------------------- MODULE MockScheduler ----------------------------
(***************************************************************************)
(* The stand-in for Module 1 that Module 2 is developed against:           *)
(* module2-orchestrator/pkg/mock/scheduler_service.go and                  *)
(* cmd/mock-scheduler/main.go.                                             *)
(*                                                                         *)
(* Every method runs under s.mu and is a step.  A submission starts a      *)
(* goroutine that takes the lock twice, once to set Running and once to    *)
(* end the task, and holds the *Task itself, so that a later submission of *)
(* the same name replaces the entry of the map but not the goroutine.      *)
(***************************************************************************)
EXTENDS Integers, Sequences

CONSTANTS Name,          \* the task ids that are submitted
          Prefill,       \* tasks added at the start, under names of their own
          MaxCancels     \* bound: calls of CancelTask that cancel

ASSUME MockAssumption ==
    /\ Prefill \in Nat
    /\ MaxCancels \in Nat

VARIABLES
    tasks,       \* every *Task ever made, in the order they were made
    queueDepth,
    published    \* published[ch]: events for the Redis channel ch; one that Redis
                 \* does not take is only logged

mockVars == <<tasks, queueDepth, published>>

Channel == {"completed", "failed", "cancelled"}

\* The goroutine of a task: it has not started one, it sleeps before Running, it
\* sleeps before the end, or it has returned.
Goroutine == {"none", "queued", "running", "returned"}

\* A *Task.  "call" is the call that made it, if any.
NewTask(name, call, goroutine) ==
    [name |-> name, call |-> call, status |-> "Pending", goroutine |-> goroutine]

\* AddPendingTask: no goroutine is started, the task stays Pending.
AddPendingTask(i) == NewTask(<<"prefill", i>>, <<>>, "none")

MockInit ==
    /\ tasks = [i \in 1..Prefill |-> AddPendingTask(i)]
    /\ queueDepth = Prefill
    /\ published = [ch \in Channel |-> 0]

\* s.tasks[name]: the task that was stored last under that name, 0 if there is none.
Stored(name) ==
    LET made == {i \in DOMAIN tasks : tasks[i].name = name}
    IN  IF made = {} THEN 0 ELSE CHOOSE i \in made : \A j \in made : j <= i

publishEvent(ch) == published' = [published EXCEPT ![ch] = @ + 1]

\* Mutant: a name that is known is not counted again.
SubmitTaskOnce(name, call) ==
    /\ tasks' = Append(tasks, NewTask(name, call, "queued"))
    /\ queueDepth' = queueDepth + IF Stored(name) = 0 THEN 1 ELSE 0
    /\ UNCHANGED published

\* Always accepted; an entry of the same name is replaced.
SubmitTask(name, call) ==
    /\ tasks' = Append(tasks, NewTask(name, call, "queued"))
    /\ queueDepth' = queueDepth + 1
    /\ UNCHANGED published

\* Mutant: a task that has ended can be cancelled.
CancellableAlways(i) == i # 0

\* CancelTask refuses a name it does not know and a task that has ended.
Cancellable(i) == i # 0 /\ tasks[i].status \notin {"Completed", "Failed"}

\* The task is marked Failed; its goroutine is not told.
CancelTask(name) ==
    LET i == Stored(name)
    IN  /\ Cancellable(i)
        /\ published["cancelled"] < MaxCancels
        /\ tasks' = [tasks EXCEPT ![i].status = "Failed"]
        /\ publishEvent("cancelled")
        /\ queueDepth' = queueDepth - 1

\* scheduleTaskTransition, first critical section: Running, whatever it was.
TransitionToRunning(i) ==
    /\ tasks[i].goroutine = "queued"
    /\ tasks' = [tasks EXCEPT ![i].status = "Running", ![i].goroutine = "running"]
    /\ UNCHANGED <<queueDepth, published>>

\* Mutant: the goroutine finds its task through the map.
TransitionToEndStored(i) ==
    /\ tasks[i].goroutine = "running"
    /\ i = Stored(tasks[i].name)
    /\ tasks' = [tasks EXCEPT ![i].status = "Completed", ![i].goroutine = "returned"]
    /\ publishEvent("completed")
    /\ queueDepth' = queueDepth - 1

\* scheduleTaskTransition, second critical section: the task ends, at random.
TransitionToEnd(i) ==
    /\ tasks[i].goroutine = "running"
    /\ \E end \in {<<"Failed", "failed">>, <<"Completed", "completed">>} :
           /\ tasks' = [tasks EXCEPT ![i].status = end[1], ![i].goroutine = "returned"]
           /\ publishEvent(end[2])
    /\ queueDepth' = queueDepth - 1

scheduleTaskTransition(i) == TransitionToRunning(i) \/ TransitionToEnd(i)

\* What GetQueueDepth counts: the tasks the map still holds.
Listed == {i \in DOMAIN tasks : i = Stored(tasks[i].name)}
PendingOrRunning == {i \in Listed : tasks[i].status \in {"Pending", "Running"}}
=============================================================================
