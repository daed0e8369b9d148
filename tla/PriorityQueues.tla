--------------------------- MODULE PriorityQueues ---------------------------
(***************************************************************************)
(* The queues of scheduler/priority_queue.py: MLFQueue, SJFScheduler,      *)
(* FIFOScheduler and RoundRobinScheduler.  One of them is chosen, as       *)
(* get_scheduler does.                                                     *)
(*                                                                         *)
(* Task is a dataclass with order=True of which only priority and          *)
(* submitted_at are compared, so that two tasks of one instant and one     *)
(* priority are equal.  A heap of heapq is a set of which some least       *)
(* element is popped.                                                      *)
(***************************************************************************)
EXTENDS Integers, Sequences, FiniteSets

CONSTANTS MaxQueued,    \* bound: tasks, which are numbered as they come
          Levels,       \* LEVELS
          Duration,     \* values of estimated_duration
          MaxInstant,   \* bound: submissions happen at the instants 0..MaxInstant
          MaxIndex      \* bound: turns of the round robin

ASSUME QueuesAssumption ==
    /\ MaxQueued \in Nat
    /\ Levels \in Nat \ {0}
    /\ Duration \subseteq Nat
    /\ MaxInstant \in Nat
    /\ MaxIndex \in Nat

VARIABLES
    algorithm,   \* the class of the queue
    levels,      \* MLFQueue.queues, from 0 to LEVELS - 1
    queue,       \* the list of the other classes
    index,       \* RoundRobinScheduler.index
    instant,     \* time.time()
    enqueued,    \* every task that was ever enqueued, as it was then
    running,     \* tasks that were dequeued, or completed
    turns        \* turns[id] since the list of the round robin last changed

queueVars == <<algorithm, levels, queue, index, instant, enqueued, running, turns>>

QueuedTask == 1..MaxQueued
Level == 0..Levels - 1
QueueEntry == [id : QueuedTask, priority : Level, submitted : 0..MaxInstant, duration : Duration]

NoTurns == [id \in QueuedTask |-> 0]

QueuesInit ==
    /\ algorithm \in {"mlfq", "sjf", "fifo", "rr"}
    /\ levels = [l \in Level |-> {}]
    /\ queue = <<>>
    /\ index = 0
    /\ instant = 0
    /\ enqueued = {}
    /\ running = {}
    /\ turns = NoTurns

InQueue == (UNION {levels[l] : l \in Level}) \cup {queue[i] : i \in DOMAIN queue}

\* The order of the dataclass.
Before(s, t) ==
    s.priority < t.priority \/ (s.priority = t.priority /\ s.submitted < t.submitted)
Equal(s, t) == s.priority = t.priority /\ s.submitted = t.submitted

\* append, and a sort by duration, which is stable.
SortedIn(t) ==
    LET n == Cardinality({i \in DOMAIN queue : queue[i].duration <= t.duration})
    IN  SubSeq(queue, 1, n) \o <<t>> \o SubSeq(queue, n + 1, Len(queue))

enqueue(t) ==
    /\ t.id = Cardinality(enqueued) + 1
    /\ enqueued' = enqueued \cup {t}
    /\ IF algorithm = "mlfq"
         THEN levels' = [levels EXCEPT ![t.priority] = @ \cup {t}] /\ UNCHANGED queue
         ELSE /\ queue' = IF algorithm = "sjf" THEN SortedIn(t) ELSE Append(queue, t)
              /\ UNCHANGED levels
    /\ turns' = NoTurns
    /\ UNCHANGED <<algorithm, index, instant, running>>

\* MLFQueue.dequeue: a least task of the first level that has one.
DequeueLevel(l, t) ==
    /\ t \in levels[l]
    /\ \A k \in Level : k < l => levels[k] = {}
    /\ \A s \in levels[l] : ~Before(s, t)
    /\ levels' = [levels EXCEPT ![l] = @ \ {t}]
    /\ running' = running \cup {t}
    /\ UNCHANGED <<algorithm, enqueued, queue, index, instant, turns>>

\* pop(0) of SJFScheduler and FIFOScheduler.
DequeueFirst ==
    /\ algorithm \in {"sjf", "fifo"}
    /\ queue # <<>>
    /\ queue' = Tail(queue)
    /\ running' = running \cup {Head(queue)}
    /\ UNCHANGED <<algorithm, enqueued, levels, index, instant, turns>>

\* Mutant: the task moves down a level and keeps its priority.
demoteKeeps(t) ==
    LET low == IF t.priority + 1 < Levels THEN t.priority + 1 ELSE Levels - 1
    IN  /\ algorithm = "mlfq"
        /\ t \in running
        /\ levels' = [levels EXCEPT ![low] = @ \cup {t}]
        /\ running' = running \ {t}
        /\ UNCHANGED <<algorithm, enqueued, queue, index, instant, turns>>

\* A task that was dequeued goes back, one level down.
demote(t) ==
    LET low == IF t.priority + 1 < Levels THEN t.priority + 1 ELSE Levels - 1
    IN  /\ algorithm = "mlfq"
        /\ t \in running
        /\ levels' = [levels EXCEPT ![low] = @ \cup {[t EXCEPT !.priority = low]}]
        /\ running' = running \ {t}
        /\ UNCHANGED <<algorithm, enqueued, queue, index, instant, turns>>

\* Mutant: the index stops at the end of the list.
next_taskStops ==
    /\ algorithm = "rr"
    /\ queue # <<>>
    /\ index < MaxIndex
    /\ turns' = [turns EXCEPT ![queue[(index % Len(queue)) + 1].id] = @ + 1]
    /\ index' = IF index < Len(queue) - 1 THEN index + 1 ELSE index
    /\ UNCHANGED <<algorithm, enqueued, levels, queue, instant, running>>

\* RoundRobinScheduler.next_task: the task stays in the list.
next_task ==
    /\ algorithm = "rr"
    /\ queue # <<>>
    /\ index < MaxIndex
    /\ turns' = [turns EXCEPT ![queue[(index % Len(queue)) + 1].id] = @ + 1]
    /\ index' = index + 1
    /\ UNCHANGED <<algorithm, enqueued, levels, queue, instant, running>>

\* Mutant: removes the task whose turn is next.
completeNext(t) ==
    LET next == (index % Len(queue)) + 1
    IN  /\ algorithm = "rr"
        /\ t \in InQueue
        /\ queue' = SubSeq(queue, 1, next - 1) \o SubSeq(queue, next + 1, Len(queue))
        /\ running' = running \cup {t}
        /\ turns' = NoTurns
        /\ UNCHANGED <<algorithm, enqueued, levels, index, instant>>

\* RoundRobinScheduler.complete: removes the first task that is equal.
complete(t) ==
    LET equal == {i \in DOMAIN queue : Equal(queue[i], t)}
        first == CHOOSE i \in equal : \A j \in equal : i <= j
    IN  /\ algorithm = "rr"
        /\ t \in InQueue
        /\ queue' = SubSeq(queue, 1, first - 1) \o SubSeq(queue, first + 1, Len(queue))
        /\ running' = running \cup {t}
        /\ turns' = NoTurns
        /\ UNCHANGED <<algorithm, enqueued, levels, index, instant>>

TimePasses ==
    /\ instant < MaxInstant
    /\ instant' = instant + 1
    /\ UNCHANGED <<algorithm, enqueued, levels, queue, index, running, turns>>

QueuesNext ==
    \/ \E t \in QueueEntry : t.submitted = instant /\ enqueue(t)
    \/ \E l \in Level, t \in InQueue : DequeueLevel(l, t)
    \/ DequeueFirst
    \/ \E t \in running : demote(t)
    \/ next_task
    \/ \E t \in InQueue : complete(t)
    \/ TimePasses
-----------------------------------------------------------------------------
\* What each class promises: s has to be served before t.
MustPrecede(s, t) ==
    CASE algorithm = "mlfq" -> Before(s, t)
      [] algorithm = "sjf" -> s.duration < t.duration \/ (s.duration = t.duration /\ s.submitted < t.submitted)
      [] algorithm = "fifo" -> s.submitted < t.submitted
      [] OTHER -> FALSE

\* A task that is dequeued is one that no other task in the queue has to precede,
\* by the priority it has now: the levels agree with it after any demotions, and
\* SJFScheduler serves tasks of one duration in the order they came.
MostUrgentFirst ==
    [][\A t \in running' \ running : \A s \in InQueue : ~MustPrecede(s, t)]_queueVars

\* As long as its list does not change the round robin gives no task two turns
\* more than another, wherever its index was when the list changed last.
RoundRobinTakesTurns ==
    \A i, j \in DOMAIN queue : turns[queue[i].id] <= turns[queue[j].id] + 1

Ids(S) == {t.id : t \in S}

\* As long as no two tasks were equal, every task that was enqueued is in the
\* queue or was handed out, and not both: complete removes the right one.
OnePlace ==
    (\A s, t \in enqueued : Equal(s, t) => s = t) =>
        /\ Ids(InQueue) \cap Ids(running) = {}
        /\ Ids(InQueue) \cup Ids(running) = Ids(enqueued)
=============================================================================
