---------------------------- MODULE SchedulerApi ----------------------------
(***************************************************************************)
(* The Python scheduler: scheduler/scheduler_api.py over                   *)
(* scheduler/deadlock_detector.py and scheduler/resource_allocator.py.     *)
(*                                                                         *)
(* submit_task is a plain function, which FastAPI runs in a pool of        *)
(* threads, on global objects without a lock.  A step is a stretch of code *)
(* whose effect on these objects other threads cannot see in part; a       *)
(* search for a cycle (nx.find_cycle) takes two steps, and the graph may   *)
(* change under it.  CPU and memory are one resource.                      *)
(***************************************************************************)
EXTENDS Integers, Sequences, FiniteSets, FiniteSetsExt

CONSTANTS Thread,        \* the thread pool
          TaskId,
          Node, Total,   \* the nodes of the cluster, and what each one has
          Size,          \* Size[id]: what a task asks for
          MaxSubmits     \* bound: calls of submit_task

ASSUME SchedulerAssumption ==
    /\ IsFiniteSet(Thread) /\ Thread # {}
    /\ IsFiniteSet(TaskId) /\ TaskId # {}
    /\ Total \in [Node -> Nat]
    /\ Size \in [TaskId -> Nat]
    /\ MaxSubmits \in Nat

VARIABLES
    nodes, edges,    \* detector.graph; <<a, b>>: a depends on b
    used,            \* used[n] of a node
    allocations,     \* allocations[id]: its node, or "none"
    redisClient,     \* the global redis_client is not None
    redisUp,         \* Redis can be reached
    taskQueue,       \* the list cloudos:task-queue, the oldest entry first
    thread,          \* thread[t]: its call of submit_task
    submits,         \* calls so far
    raised,          \* ids whose search for a cycle raised an exception
    waits            \* edges of the submissions that were answered "queued"

graphVars == <<nodes, edges>>
allocVars == <<used, allocations>>
redisVars == <<redisClient, redisUp, taskQueue>>
schedVars == <<graphVars, allocVars, redisVars, thread, submits, raised, waits>>

Idle == [pc |-> "idle", id |-> "none", deps |-> {}, todo |-> {},
         static |-> {}, ever |-> {}, touched |-> FALSE, node |-> "none"]

SchedInit ==
    /\ nodes = {}
    /\ edges = {}
    /\ used = [n \in Node |-> 0]
    /\ allocations = [id \in TaskId |-> "none"]
    /\ redisClient = FALSE
    /\ redisUp \in BOOLEAN
    /\ taskQueue = <<>>
    /\ thread = [t \in Thread |-> Idle]
    /\ submits = 0
    /\ raised = {}
    /\ waits = {}

\* A set of edges has a cycle iff each node of some set has an edge into that set.
HasCycle(E) ==
    \E S \in SUBSET TaskId : S # {} /\ \A a \in S : \E b \in S : <<a, b>> \in E

\* Thread t changes the graph and goes on as "then".  Searches that are under way
\* have seen each edge that was there at some time, and surely those that were
\* there all the time.
Change(t, N, E, then) ==
    /\ nodes' = N
    /\ edges' = E
    /\ thread' = [u \in Thread |->
           CASE u = t -> then
             [] u # t /\ thread[u].pc = "check" /\ (N # nodes \/ E # edges) ->
                  [thread[u] EXCEPT !.static = @ \cap E, !.ever = @ \cup E, !.touched = TRUE]
             [] OTHER -> thread[u]]

Goes(t, where) == thread' = [thread EXCEPT ![t].pc = where]
Answers(t) == thread' = [thread EXCEPT ![t] = Idle]

\* submit_task begins: add_task adds the node of the task.
submit_task(t, id, deps) ==
    /\ thread[t].pc = "idle"
    /\ submits < MaxSubmits
    /\ submits' = submits + 1
    /\ Change(t, nodes \cup {id}, edges,
              [Idle EXCEPT !.pc = "add", !.id = id, !.deps = deps, !.todo = deps])
    /\ UNCHANGED <<allocVars, redisVars, raised, waits>>

\* add_task, one round of its loop: add_edge adds the nodes that are missing.
add_task(t, dep) ==
    LET id == thread[t].id
    IN  /\ thread[t].pc = "add"
        /\ dep \in thread[t].todo
        /\ Change(t, nodes \cup {id, dep}, edges \cup {<<id, dep>>},
                  [thread[t] EXCEPT !.todo = @ \ {dep}])
        /\ UNCHANGED <<allocVars, redisVars, submits, raised, waits>>

\* Mutant: the search starts before the edges are added.
BeginSearchEarly(t) ==
    /\ thread[t].pc = "add"
    /\ thread' = [thread EXCEPT ![t].pc = "check", ![t].static = {}, ![t].ever = {}]
    /\ UNCHANGED <<graphVars, allocVars, redisVars, submits, raised, waits>>

\* has_deadlock begins.
BeginSearch(t) ==
    /\ thread[t].pc = "add"
    /\ thread[t].todo = {}
    /\ thread' = [thread EXCEPT ![t].pc = "check", ![t].static = edges, ![t].ever = edges]
    /\ UNCHANGED <<graphVars, allocVars, redisVars, submits, raised, waits>>

\* has_deadlock ends.  If the graph has changed under it, it may have met a cycle
\* of edges that were not there together, have missed a new one, or have raised
\* RuntimeError, which nobody catches.
has_deadlock(t) ==
    LET view == [thread[t] EXCEPT !.static = {}, !.ever = {}, !.touched = FALSE]
    IN  /\ thread[t].pc = "check"
        /\ \/ /\ HasCycle(thread[t].ever)
              /\ thread' = [thread EXCEPT ![t] = [view EXCEPT !.pc = "reject"]]
              /\ UNCHANGED raised
           \/ /\ ~HasCycle(thread[t].static)
              /\ thread' = [thread EXCEPT ![t] = [view EXCEPT !.pc = "choose"]]
              /\ UNCHANGED raised
           \/ /\ thread[t].touched
              /\ raised' = raised \cup {thread[t].id}
              /\ Answers(t)
        /\ UNCHANGED <<graphVars, allocVars, redisVars, submits, waits>>

\* remove_task: the node goes, and with it the edges of others to it.  get_cycle
\* only reads; the answer is 400.
remove_task(t) ==
    LET id == thread[t].id
    IN  /\ thread[t].pc = "reject"
        /\ Change(t, nodes \ {id}, {e \in edges : e[1] # id /\ e[2] # id}, Idle)
        /\ UNCHANGED <<allocVars, redisVars, submits, raised, waits>>

Available(n) == Total[n] - used[n]

\* Mutant: compares with what the node has, not with what is left.
CandidatesTotal(size) == {n \in Node : Total[n] >= size}

Candidates(size) == {n \in Node : Available(n) >= size}

\* allocate, up to the choice of the best fit; 507 if nothing fits, the node of
\* the task stays in the graph.
Choose(t) ==
    LET fits == Candidates(Size[thread[t].id])
    IN  /\ thread[t].pc = "choose"
        /\ \/ fits = {} /\ Answers(t)
           \/ \E n \in fits :
                  /\ \A m \in fits : Available(n) <= Available(m)
                  /\ thread' = [thread EXCEPT ![t].pc = "take", ![t].node = n]
        /\ UNCHANGED <<graphVars, allocVars, redisVars, submits, raised, waits>>

\* Mutant: a task that has a node already is not counted again.
allocateOnce(t) ==
    LET id == thread[t].id  n == thread[t].node
    IN  /\ thread[t].pc = "take"
        /\ used' = [used EXCEPT ![n] = @ + IF allocations[id] = "none" THEN Size[id] ELSE 0]
        /\ allocations' = [allocations EXCEPT ![id] = n]
        /\ Goes(t, "redis")
        /\ UNCHANGED <<graphVars, redisVars, submits, raised, waits>>

\* allocate, the rest.  The queue of step 4 is a local object and is dropped.
allocate(t) ==
    LET id == thread[t].id  n == thread[t].node
    IN  /\ thread[t].pc = "take"
        /\ used' = [used EXCEPT ![n] = @ + Size[id]]
        /\ allocations' = [allocations EXCEPT ![id] = n]
        /\ Goes(t, "redis")
        /\ UNCHANGED <<graphVars, redisVars, submits, raised, waits>>

\* get_redis: the global is set before the new client is tried, so that another
\* thread may use it.
get_redis(t) ==
    /\ thread[t].pc = "redis"
    /\ redisClient' = TRUE
    /\ Goes(t, IF redisClient THEN "push" ELSE "ping")
    /\ UNCHANGED <<graphVars, allocVars, redisUp, taskQueue, submits, raised, waits>>

Queued(t) == waits' = waits \cup ({thread[t].id} \X thread[t].deps)

\* The new client is tried; without Redis the task is answered "queued" all the same.
Ping(t) ==
    /\ thread[t].pc = "ping"
    /\ redisClient' = redisUp
    /\ IF redisUp THEN Goes(t, "push") /\ UNCHANGED waits
                  ELSE Answers(t) /\ Queued(t)
    /\ UNCHANGED <<graphVars, allocVars, redisUp, taskQueue, submits, raised>>

\* lpush, and "queued"; or it raises, before or after Redis has run it.
Push(t) ==
    LET entry == [id |-> thread[t].id, node |-> thread[t].node]
    IN  /\ thread[t].pc = "push"
        /\ Answers(t)
        /\ \/ redisUp /\ taskQueue' = Append(taskQueue, entry) /\ Queued(t)
           \/ redisUp /\ taskQueue' = Append(taskQueue, entry) /\ UNCHANGED waits
           \/ ~redisUp /\ UNCHANGED <<taskQueue, waits>>
        /\ UNCHANGED <<graphVars, allocVars, redisClient, redisUp, submits, raised>>

RedisChanges ==
    /\ redisUp' = ~redisUp
    /\ UNCHANGED <<graphVars, allocVars, redisClient, taskQueue, thread, submits, raised, waits>>

Works(t) ==
    \/ \E id \in TaskId, deps \in SUBSET TaskId : submit_task(t, id, deps)
    \/ \E dep \in TaskId : add_task(t, dep)
    \/ BeginSearch(t) \/ has_deadlock(t) \/ remove_task(t)
    \/ Choose(t) \/ allocate(t) \/ get_redis(t) \/ Ping(t) \/ Push(t)

SchedNext == RedisChanges \/ \E t \in Thread : Works(t)

SchedSpec == SchedInit /\ [][SchedNext]_schedVars
-----------------------------------------------------------------------------
\* Ids that are on their way through the detector, or whose search raised.
Unchecked == raised \cup {thread[t].id : t \in {u \in Thread : thread[u].pc \in {"add", "check", "reject"}}}

\* The submissions that passed the detector never form a cycle in its graph,
\* whatever runs at the same time: every cycle goes through a submission that is
\* still being checked, or that ended in an exception.
CheckedGraphIsAcyclic == ~HasCycle({e \in edges : e[1] \notin Unchecked})

MaxSize == Max({Size[id] : id \in TaskId})

\* The choice of a node and the taking of it are two steps, so that a node can be
\* overcommitted, but by no more than one task for each other thread.
OvercommitIsBounded ==
    \A n \in Node : used[n] <= Total[n] + (Cardinality(Thread) - 1) * MaxSize

\* Whatever is in the task queue is paid for: a node has at least the resources
\* of all the entries that name it marked as used, those of a task that was
\* submitted twice and those whose answer was lost included.
QueuedIsReserved ==
    LET asked == [i \in DOMAIN taskQueue |-> Size[taskQueue[i].id]]
    IN  \A n \in Node :
            MapThenSumSet(LAMBDA i : asked[i], {i \in DOMAIN taskQueue : taskQueue[i].node = n}) <= used[n]

\* The tasks that were answered "queued" never wait on each other (README.md: "Tasks
\* waiting on each other's outputs can deadlock - detect cycles in DAG").
QueuedTasksDoNotDeadlock == ~HasCycle(waits)
=============================================================================
