--------------------------- MODULE SchedulerProofs ---------------------------
(***************************************************************************)
(* Theorems about the Python scheduler: SchedulerApi for any number of     *)
(* threads, tasks, nodes and submissions, WorkerRunner, and PriorityQueues *)
(* for any tasks, durations and instants.                                  *)
(***************************************************************************)
EXTENDS SchedulerApi, WorkerRunner, PriorityQueues, FiniteLemmas, TLAPS

Edge == (TaskId \cup {"none"}) \X TaskId
CallPc == {"idle", "add", "check", "reject", "choose", "take", "redis", "ping", "push"}
Call == [pc : CallPc, id : TaskId \cup {"none"}, deps : SUBSET TaskId, todo : SUBSET TaskId,
         static : SUBSET Edge, ever : SUBSET Edge, touched : BOOLEAN, node : Node \cup {"none"}]

Shape == edges \in SUBSET Edge /\ thread \in [Thread -> Call]

Searching == {t \in Thread : thread[t].pc = "check"}

\* The task i has not passed the detector, if the searches of U are taken for passed.
Open(U, i) ==
    \/ i \in raised
    \/ \E t \in Thread : /\ thread[t].id = i
                         /\ thread[t].pc \in {"add", "reject"} \/ (thread[t].pc = "check" /\ t \notin U)

Closed(U) == {E \in SUBSET edges : \A e \in E : ~Open(U, e[1])}

\* Whichever of the searches under way end well, a cycle that would then be in the
\* checked graph is one that one of them is sure to meet.
SomeoneSees ==
    \A U \in SUBSET Searching : \A E \in Closed(U) :
        HasCycle(E) => \E t \in U : HasCycle(E \cap thread[t].static)

Inv == Shape /\ SomeoneSees

\* More edges have no fewer cycles.
LEMMA CycleGrows ==
    ASSUME NEW E, NEW F, E \subseteq F, HasCycle(E)
    PROVE  HasCycle(F)
BY SMTT(30) DEF HasCycle

\* A step after which no search is new, every closed set of edges was one before,
\* and each search surely sees what it saw of the edges that are left.
LEMMA NobodyPasses ==
    ASSUME SomeoneSees, Searching' \subseteq Searching,
           \A U \in SUBSET Searching' : Closed(U)' \subseteq Closed(U),
           \A t \in Searching' : thread'[t].static \cap edges' = thread[t].static \cap edges'
    PROVE  SomeoneSees'
<1> SUFFICES ASSUME NEW U \in SUBSET Searching', NEW E \in Closed(U)', HasCycle(E)
             PROVE  \E t \in U : HasCycle(E \cap thread'[t].static)
  BY ZenonT(30) DEF SomeoneSees, HasCycle
<1>1. E \in Closed(U) /\ U \in SUBSET Searching
  OBVIOUS
<1>2. PICK t \in U : HasCycle(E \cap thread[t].static)
  BY <1>1 DEF SomeoneSees
<1>3. E \cap thread[t].static = E \cap thread'[t].static
  BY DEF Closed
<1> QED BY Zenon, <1>2, <1>3

\* Nothing the detector looks at changes.
LEMMA ElsewhereKeeps ==
    ASSUME Inv, NEW t \in Thread, thread[t].pc \notin {"add", "check", "reject"},
           NEW call \in Call, call.pc \notin {"add", "check", "reject"},
           thread' = [thread EXCEPT ![t] = call], UNCHANGED <<edges, raised>>
    PROVE  Inv'
<1>1. Shape'
  BY DEF Inv, Shape
<1>2. \A u \in Thread : u # t => thread'[u] = thread[u]
  BY DEF Inv, Shape
<1>3. thread'[t] = call
  BY DEF Inv, Shape
<1>4. Searching' = Searching
  BY <1>2, <1>3 DEF Searching
<1>5. \A U, i : Open(U, i)' <=> Open(U, i)
  BY <1>2, <1>3 DEF Open
<1>6. \A U \in SUBSET Searching' : Closed(U)' \subseteq Closed(U)
  BY <1>5 DEF Closed
<1>7. \A u \in Searching' : thread'[u].static \cap edges' = thread[u].static \cap edges'
  BY <1>2, <1>3 DEF Searching
<1>8. SomeoneSees'
  BY <1>4, <1>6, <1>7, NobodyPasses DEF Inv
<1> QED BY <1>1, <1>8 DEF Inv

\* A change of the graph by a thread that is not searching, before or after.
LEMMA ChangeKeeps ==
    ASSUME Inv, NEW t \in Thread, thread[t].pc # "check", NEW N, NEW E \in SUBSET Edge,
           NEW call \in Call, call.pc # "check", Change(t, N, E, call), UNCHANGED raised,
           \A e \in E, U \in SUBSET Searching : ~Open(U, e[1])' => e \in edges /\ ~Open(U, e[1])
    PROVE  Inv'
<1>0. edges' = E
  BY Zenon DEF Change
<1>1. thread'[t] = call
  BY ZenonT(30) DEF Change
<1>2. \A u \in Thread : u # t =>
         \/ thread'[u] = thread[u]
         \/ /\ thread[u].pc = "check"
            /\ thread'[u] = [thread[u] EXCEPT !.static = @ \cap E, !.ever = @ \cup E, !.touched = TRUE]
  BY ZenonT(30) DEF Change
<1>3. \A u \in Thread : u # t =>
         /\ thread'[u] \in Call /\ thread'[u].pc = thread[u].pc
         /\ thread'[u].static \cap E = thread[u].static \cap E
  <2> SUFFICES ASSUME NEW u \in Thread, u # t
               PROVE  /\ thread'[u] \in Call /\ thread'[u].pc = thread[u].pc
                      /\ thread'[u].static \cap E = thread[u].static \cap E
    OBVIOUS
  <2>1. thread[u] \in Call
    BY DEF Inv, Shape
  <2>2. CASE thread'[u] = thread[u]
    BY <2>1, <2>2
  <2>3. CASE thread'[u] = [thread[u] EXCEPT !.static = @ \cap E, !.ever = @ \cup E, !.touched = TRUE]
    <3>1. thread'[u] \in Call /\ thread'[u].pc = thread[u].pc /\ thread'[u].id = thread[u].id
          /\ thread'[u].static = thread[u].static \cap E
      BY ZenonT(30), <2>1, <2>3 DEF Call
    <3> QED BY <3>1
  <2> QED BY Zenon, <1>2, <2>2, <2>3
<1>4. Shape'
  <2>1. thread' = [u \in Thread |-> thread'[u]]
    BY Zenon DEF Change
  <2>2. \A u \in Thread : thread'[u] \in Call
    BY <1>1, <1>3
  <2> QED BY <1>0, <2>1, <2>2 DEF Shape
<1>5. Searching' = Searching
  BY <1>1, <1>3 DEF Searching
<1>6. \A U \in SUBSET Searching' : Closed(U)' \subseteq Closed(U)
  BY <1>0, <1>5 DEF Closed
<1>7. \A u \in Searching' : thread'[u].static \cap edges' = thread[u].static \cap edges'
  BY <1>0, <1>1, <1>3 DEF Searching
<1>8. SomeoneSees'
  BY <1>5, <1>6, <1>7, NobodyPasses DEF Inv
<1> QED BY <1>4, <1>8 DEF Inv

\* In such a change, what the other threads have open stays open.
LEMMA ChangeOpens ==
    ASSUME Inv, NEW t \in Thread, NEW N, NEW E \in SUBSET Edge, NEW call \in Call, Change(t, N, E, call), UNCHANGED raised,
           NEW U, NEW i, Open(U, i), ~Open(U, i)'
    PROVE  thread[t].id = i /\ thread[t].pc \in {"add", "check", "reject"}
<1>1. \A u \in Thread : u # t =>
         \/ thread'[u] = thread[u]
         \/ thread'[u] = [thread[u] EXCEPT !.static = @ \cap E, !.ever = @ \cup E, !.touched = TRUE]
  BY ZenonT(30) DEF Change
<1>2. \A u \in Thread : u # t => thread'[u].pc = thread[u].pc /\ thread'[u].id = thread[u].id
  <2> SUFFICES ASSUME NEW u \in Thread, u # t
               PROVE  thread'[u].pc = thread[u].pc /\ thread'[u].id = thread[u].id
    OBVIOUS
  <2>1. thread[u] \in Call
    BY DEF Inv, Shape
  <2>2. CASE thread'[u] = thread[u]
    BY <2>1, <2>2
  <2>3. CASE thread'[u] = [thread[u] EXCEPT !.static = @ \cap E, !.ever = @ \cup E, !.touched = TRUE]
    <3>1. thread'[u] \in Call /\ thread'[u].pc = thread[u].pc /\ thread'[u].id = thread[u].id
          /\ thread'[u].static = thread[u].static \cap E
      BY ZenonT(30), <2>1, <2>3 DEF Call
    <3> QED BY <3>1
  <2> QED BY Zenon, <1>1, <2>2, <2>3
<1> QED BY <1>2 DEF Open

\* A thread that has answered is fit for the next call.
LEMMA IdleType == Idle \in Call /\ Idle.pc = "idle"
BY DEF Idle, Call, CallPc

\* submit_task and add_task: the thread that adds edges has its task open.
LEMMA AddingKeeps ==
    ASSUME Inv, NEW t \in Thread,
           \/ \E id \in TaskId, deps \in SUBSET TaskId : submit_task(t, id, deps)
           \/ \E dep \in TaskId : add_task(t, dep)
    PROVE  Inv'
<1>1. ASSUME NEW id \in TaskId, NEW deps \in SUBSET TaskId, submit_task(t, id, deps) PROVE Inv'
  <2> DEFINE call == [Idle EXCEPT !.pc = "add", !.id = id, !.deps = deps, !.todo = deps]
  <2>1. call \in Call /\ call.pc = "add"
    BY Zenon DEF Idle, Call, CallPc
  <2>2. thread[t].pc = "idle" /\ Change(t, nodes \cup {id}, edges, call) /\ UNCHANGED raised
    BY Zenon, <1>1 DEF submit_task
  <2> HIDE DEF call
  <2>3. \A e \in edges, U \in SUBSET Searching : ~Open(U, e[1])' => e \in edges /\ ~Open(U, e[1])
    BY <2>1, <2>2, ChangeOpens DEF Inv, Shape
  <2> QED BY <2>1, <2>2, <2>3, ChangeKeeps DEF Inv, Shape
<1>2. ASSUME NEW dep \in TaskId, add_task(t, dep) PROVE Inv'
  <2> DEFINE id == thread[t].id
             call == [thread[t] EXCEPT !.todo = @ \ {dep}]
             E == edges \cup {<<id, dep>>}
  <2>0. thread[t] \in Call
    BY DEF Inv, Shape
  <2>1. call \in Call /\ call.pc = thread[t].pc /\ call.id = id
    BY <2>0 DEF Call
  <2>2. thread[t].pc = "add" /\ Change(t, nodes \cup {id, dep}, E, call) /\ UNCHANGED raised
    BY <1>2 DEF add_task
  <2> HIDE DEF call
  <2>3. thread'[t] = call
    BY Zenon, <2>2 DEF Change
  <2>4. \A U, i : i = id => Open(U, i)'
    BY <2>1, <2>2, <2>3 DEF Open
  <2>5. E \in SUBSET Edge
    BY <2>0 DEF Inv, Shape, Edge, Call
  <2>6. \A e \in E, U \in SUBSET Searching : ~Open(U, e[1])' => e \in edges /\ ~Open(U, e[1])
    <3> SUFFICES ASSUME NEW e \in E, NEW U \in SUBSET Searching, ~Open(U, e[1])'
                 PROVE  e \in edges /\ ~Open(U, e[1])
      OBVIOUS
    <3>1. e[1] # id
      BY <2>4
    <3>2. e \in edges
      BY <3>1
    <3> QED BY <2>1, <2>2, <2>5, <3>1, <3>2, ChangeOpens
  <2> QED BY Zenon, <2>1, <2>2, <2>5, <2>6, ChangeKeeps
<1> QED BY <1>1, <1>2

\* remove_task: the edges that are left are not those of the task that goes.
LEMMA RemovingKeeps == ASSUME Inv, NEW t \in Thread, remove_task(t) PROVE Inv'
<1> DEFINE id == thread[t].id
           E == {e \in edges : e[1] # id /\ e[2] # id}
<1>1. thread[t].pc = "reject" /\ Change(t, nodes \ {id}, E, Idle) /\ UNCHANGED raised
  BY DEF remove_task
<1>2. E \in SUBSET Edge
  BY DEF Inv, Shape
<1>3. \A e \in E, U \in SUBSET Searching : ~Open(U, e[1])' => e \in edges /\ ~Open(U, e[1])
  <2> SUFFICES ASSUME NEW e \in E, NEW U \in SUBSET Searching, ~Open(U, e[1])'
               PROVE  e \in edges /\ ~Open(U, e[1])
    OBVIOUS
  <2>1. e \in edges /\ e[1] # id
    OBVIOUS
  <2> QED BY <1>1, <1>2, <2>1, IdleType, ChangeOpens
<1> QED BY SMTT(30), <1>1, <1>2, <1>3, IdleType, ChangeKeeps

\* BeginSearch: the new search sees every edge there is.
LEMMA BeginSearchKeeps == ASSUME Inv, NEW t \in Thread, BeginSearch(t) PROVE Inv'
<1>0. thread \in [Thread -> Call] /\ edges \in SUBSET Edge /\ thread[t].pc = "add"
      /\ edges' = edges /\ raised' = raised
  BY DEF Inv, Shape, BeginSearch, graphVars
<1>1. /\ thread'[t] \in Call /\ thread'[t].pc = "check" /\ thread'[t].static = edges
      /\ thread'[t].id = thread[t].id
  BY ZenonT(30), <1>0 DEF BeginSearch, Call, CallPc
<1>2. \A u \in Thread : u # t => thread'[u] = thread[u]
  BY <1>0 DEF BeginSearch
<1>3. Shape'
  <2>1. thread' = [u \in Thread |-> thread'[u]]
    BY Zenon, <1>0 DEF BeginSearch
  <2>2. \A u \in Thread : thread'[u] \in Call
    BY <1>0, <1>1, <1>2
  <2> QED BY <1>0, <2>1, <2>2 DEF Shape
<1>4. SomeoneSees'
  <2> SUFFICES ASSUME NEW U \in SUBSET Searching', NEW E \in Closed(U)', HasCycle(E)
               PROVE  \E u \in U : HasCycle(E \cap thread'[u].static)
    BY Zenon DEF SomeoneSees, HasCycle
  <2>1. E \in SUBSET edges
    BY <1>0 DEF Closed
  <2>2. CASE t \in U
    <3>1. E \cap thread'[t].static = E
      BY <1>1, <2>1
    <3> QED BY Zenon, <2>2, <3>1
  <2>3. CASE t \notin U
    <3>1. U \in SUBSET Searching /\ \A u \in U : thread'[u] = thread[u]
      BY <1>2, <2>3 DEF Searching
    <3>2. \A i : Open(U, i) => Open(U, i)'
      BY <1>0, <1>1, <1>2, <2>3 DEF Open
    <3>3. E \in Closed(U)
      BY <2>1, <3>2 DEF Closed
    <3> QED BY Zenon, <3>1, <3>3 DEF Inv, SomeoneSees
  <2> QED BY <2>2, <2>3
<1> QED BY <1>3, <1>4 DEF Inv

\* has_deadlock ends: with a cycle or an exception the task stays open; without,
\* nothing that the search was sure to see has a cycle.
LEMMA SearchKeeps == ASSUME Inv, NEW t \in Thread, has_deadlock(t) PROVE Inv'
<1> DEFINE view == [thread[t] EXCEPT !.static = {}, !.ever = {}, !.touched = FALSE]
<1>0. thread \in [Thread -> Call] /\ edges \in SUBSET Edge /\ thread[t].pc = "check" /\ edges' = edges
  BY DEF Inv, Shape, has_deadlock, graphVars
<1>1. view \in Call /\ view.id = thread[t].id
  BY Zenon, <1>0 DEF Call
<1> HIDE DEF view
<1>2. PICK call \in Call :
         /\ thread' = [thread EXCEPT ![t] = call]
         /\ \/ call.pc = "reject" /\ call.id = thread[t].id /\ raised' = raised
            \/ call.pc = "choose" /\ ~HasCycle(thread[t].static) /\ raised' = raised
            \/ call.pc = "idle" /\ raised' = raised \cup {thread[t].id}
  <2>1. [view EXCEPT !.pc = "reject"] \in Call /\ [view EXCEPT !.pc = "reject"].id = thread[t].id
        /\ [view EXCEPT !.pc = "reject"].pc = "reject"
    BY <1>1 DEF Call, CallPc
  <2>2. [view EXCEPT !.pc = "choose"] \in Call /\ [view EXCEPT !.pc = "choose"].pc = "choose"
    BY <1>1 DEF Call, CallPc
  <2>3. \/ thread' = [thread EXCEPT ![t] = [view EXCEPT !.pc = "reject"]] /\ raised' = raised
        \/ /\ ~HasCycle(thread[t].static) /\ raised' = raised
           /\ thread' = [thread EXCEPT ![t] = [view EXCEPT !.pc = "choose"]]
        \/ thread' = [thread EXCEPT ![t] = Idle] /\ raised' = raised \cup {thread[t].id}
    BY DEF has_deadlock, Answers, view
  <2> QED BY Zenon, <2>1, <2>2, <2>3, IdleType
<1>3. thread'[t] = call /\ \A u \in Thread : u # t => thread'[u] = thread[u]
  BY <1>0, <1>2
<1>4. Shape'
  BY <1>0, <1>2 DEF Shape
<1>5. Searching' = Searching \ {t}
  BY <1>0, <1>2, <1>3 DEF Searching
<1>6. CASE call.pc # "choose"
  <2>1. \A U \in SUBSET Searching' : \A i : Open(U, i) => Open(U, i)'
    BY <1>0, <1>2, <1>3, <1>5, <1>6 DEF Open
  <2>2. \A U \in SUBSET Searching' : Closed(U)' \subseteq Closed(U)
    BY <1>0, <2>1 DEF Closed
  <2>3. \A u \in Searching' : thread'[u].static \cap edges' = thread[u].static \cap edges'
    BY <1>3, <1>5 DEF Searching
  <2>4. SomeoneSees'
    BY <1>5, <2>2, <2>3, NobodyPasses DEF Inv
  <2> QED BY <1>4, <2>4 DEF Inv
<1>7. CASE call.pc = "choose"
  <2> SUFFICES ASSUME NEW U \in SUBSET Searching', NEW E \in Closed(U)', HasCycle(E)
               PROVE  \E u \in U : HasCycle(E \cap thread'[u].static)
    BY Zenon, <1>4 DEF Inv, SomeoneSees, HasCycle
  <2> DEFINE V == U \cup {t}
  <2>1. V \in SUBSET Searching
    BY <1>0, <1>5 DEF Searching
  <2>2. \A i : Open(V, i) => Open(U, i)'
    BY <1>0, <1>2, <1>3, <1>7 DEF Open
  <2>3. E \in Closed(V)
    BY <1>0, <2>2 DEF Closed
  <2> HIDE DEF V
  <2>4. PICK u \in V : HasCycle(E \cap thread[u].static)
    BY <2>1, <2>3 DEF Inv, SomeoneSees
  <2>5. u # t
    BY <1>2, <1>7, <2>4, CycleGrows
  <2>6. u \in U /\ thread'[u] = thread[u]
    BY <1>3, <1>5, <2>5 DEF V, Searching
  <2> QED BY Zenon, <2>4, <2>6
<1> QED BY <1>6, <1>7

\* The rest of submit_task does not concern the detector.
LEMMA AllocatingKeeps ==
    ASSUME Inv, NEW t \in Thread, Choose(t) \/ allocate(t) \/ get_redis(t) \/ Ping(t) \/ Push(t)
    PROVE  Inv'
<1>0. thread \in [Thread -> Call] /\ thread[t] \in Call
  BY DEF Inv, Shape
<1>1. thread[t].pc \notin {"add", "check", "reject"} /\ UNCHANGED <<edges, raised>>
  BY DEF Choose, allocate, get_redis, Ping, Push, graphVars
<1>2. \E call \in Call : call.pc \notin {"add", "check", "reject"} /\ thread' = [thread EXCEPT ![t] = call]
  <2>1. CASE Answers(t)
    BY Zenon, <2>1, IdleType DEF Answers
  <2>2. CASE \E where \in {"push", "ping", "redis"} : Goes(t, where)
    <3>1. PICK where \in {"push", "ping", "redis"} : thread' = [thread EXCEPT ![t].pc = where]
      BY Zenon, <2>2 DEF Goes
    <3> DEFINE call == [thread[t] EXCEPT !.pc = where]
    <3>2. call \in Call /\ call.pc = where
      BY <1>0 DEF Call, CallPc
    <3>3. thread' = [thread EXCEPT ![t] = call]
      BY <1>0, <3>1
    <3> QED BY Zenon, <3>2, <3>3
  <2>3. CASE \E n \in Node : thread' = [thread EXCEPT ![t].pc = "take", ![t].node = n]
    <3>1. PICK n \in Node : thread' = [thread EXCEPT ![t].pc = "take", ![t].node = n]
      BY Zenon, <2>3
    <3> DEFINE call == [thread[t] EXCEPT !.pc = "take", !.node = n]
    <3>2. call \in Call /\ call.pc = "take"
      BY Zenon, <1>0 DEF Call, CallPc
    <3>3. thread' = [thread EXCEPT ![t] = call]
      BY Zenon, <1>0, <3>1
    <3> QED BY Zenon, <3>2, <3>3
  <2> QED BY <2>1, <2>2, <2>3 DEF Choose, Candidates, allocate, get_redis, Ping, Push
<1> QED BY Zenon, <1>1, <1>2, ElsewhereKeeps

\* Inv is inductive.
THEOREM Invariance == SchedSpec => []Inv
<1>1. SchedInit => Inv
  <2> SUFFICES ASSUME SchedInit PROVE Inv
    OBVIOUS
  <2>1. Shape
    BY IdleType DEF SchedInit, Shape
  <2>2. \A E \in SUBSET edges : ~HasCycle(E)
    BY Zenon DEF SchedInit, HasCycle
  <2> QED BY <2>1, <2>2 DEF Inv, SomeoneSees, Closed
<1>2. Inv /\ [SchedNext]_schedVars => Inv'
  <2> SUFFICES ASSUME Inv, [SchedNext]_schedVars PROVE Inv'
    OBVIOUS
  <2>1. CASE UNCHANGED <<edges, thread, raised>>
    <3>1. Searching' = Searching
      BY <2>1 DEF Searching
    <3>2. \A U, i : Open(U, i)' <=> Open(U, i)
      BY <2>1 DEF Open
    <3>3. \A U \in SUBSET Searching' : Closed(U)' \subseteq Closed(U)
      BY <2>1, <3>2 DEF Closed
    <3>4. SomeoneSees'
      BY <2>1, <3>1, <3>3, NobodyPasses DEF Inv
    <3> QED BY <2>1, <3>4 DEF Inv, Shape
  <2>2. CASE \E t \in Thread : Works(t)
    BY <2>2, AddingKeeps, BeginSearchKeeps, SearchKeeps, RemovingKeeps, AllocatingKeeps DEF Works
  <2> QED BY <2>1, <2>2 DEF SchedNext, RedisChanges, schedVars, graphVars
<1> QED BY <1>1, <1>2, PTL DEF SchedSpec

\* The submissions that passed has_deadlock never form a cycle in the graph of the
\* detector, however many threads add, search and remove at the same time.
THEOREM CheckedStaysAcyclic == SchedSpec => []CheckedGraphIsAcyclic
<1>1. Inv => CheckedGraphIsAcyclic
  <2> SUFFICES ASSUME Inv PROVE CheckedGraphIsAcyclic
    OBVIOUS
  <2> DEFINE E == {e \in edges : e[1] \notin Unchecked}
  <2>1. \A i : Open({}, i) => i \in Unchecked
    BY DEF Open, Unchecked
  <2>2. E \in Closed({})
    BY <2>1 DEF Closed
  <2>3. ~HasCycle(E)
    <3> HIDE DEF E
    <3>1. {} \in SUBSET Searching
      OBVIOUS
    <3>2. HasCycle(E) => \E t \in {} : HasCycle(E \cap thread[t].static)
      BY Zenon, <2>2, <3>1 DEF Inv, SomeoneSees
    <3> QED BY <3>2
  <2> QED BY <2>3 DEF CheckedGraphIsAcyclic
<1> QED BY <1>1, Invariance, PTL

-----------------------------------------------------------------------------
\* The nodes of the cluster.  Threads that have chosen node n and not taken it yet.
Taking(n) == {t \in Thread : thread[t].pc = "take" /\ thread[t].node = n}

Limit(n) == Total[n] + (Cardinality(Thread) - 1) * MaxSize

\* The last of them to choose saw that its task fits; each of the others adds one
\* more task at most.
NodeInv(n) ==
    IF Taking(n) = {} THEN used[n] <= Limit(n)
    ELSE \E t \in Taking(n) :
             used[n] + Size[thread[t].id] + (Cardinality(Taking(n)) - 1) * MaxSize <= Limit(n)

\* A call that is on its way has a task, and a node once one was chosen.
HasTask(c) ==
    /\ c.pc # "idle" => c.id \in TaskId
    /\ c.pc \in {"take", "redis", "ping", "push"} => c.node \in Node

AllocInv ==
    /\ used \in [Node -> Nat]
    /\ \A t \in Thread : HasTask(thread[t])
    /\ \A n \in Node : NodeInv(n)

\* No task is larger than MaxSize.
LEMMA MaxSizeBounds == MaxSize \in Nat /\ \A id \in TaskId : Size[id] \in Nat /\ Size[id] <= MaxSize
<1> DEFINE S == {Size[id] : id \in TaskId}
<1>1. S \in SUBSET Nat /\ S # {}
  BY SchedulerAssumption
<1>2. Size \in Surjection(TaskId, S)
  BY SchedulerAssumption DEF Surjection
<1>3. IsFiniteSet(S)
  BY <1>2, SchedulerAssumption, FS_Surjection
<1>4. \A id \in TaskId : Size[id] \in S
  OBVIOUS
<1>5. MaxSize \in S /\ \A y \in S : MaxSize >= y
  <2> HIDE DEF S
  <2>1. \E x \in S : \A y \in S : x >= y
    BY <1>1, <1>3, FiniteGreatest
  <2>2. Max(S) \in S /\ \A y \in S : Max(S) >= y
    BY <2>1 DEF Max
  <2> QED BY Zenon, <2>2 DEF MaxSize, S
<1> HIDE DEF S
<1> QED BY Zenon, <1>1, <1>4, <1>5

\* A step of thread t leaves the calls of the others where they are.
LEMMA OthersStay ==
    ASSUME Inv, NEW t \in Thread, Works(t), NEW u \in Thread, u # t
    PROVE  thread'[u].pc = thread[u].pc /\ thread'[u].id = thread[u].id /\ thread'[u].node = thread[u].node
<1>0. thread \in [Thread -> Call] /\ thread[u] \in Call
  BY DEF Inv, Shape
<1>1. ASSUME NEW N, NEW E, NEW then, Change(t, N, E, then)
      PROVE  thread'[u].pc = thread[u].pc /\ thread'[u].id = thread[u].id /\ thread'[u].node = thread[u].node
  <2>1. \/ thread'[u] = thread[u]
        \/ thread'[u] = [thread[u] EXCEPT !.static = @ \cap E, !.ever = @ \cup E, !.touched = TRUE]
    BY ZenonT(30), <1>1 DEF Change
  <2> QED BY Zenon, <1>0, <2>1 DEF Call
<1>2. CASE thread'[u] = thread[u]
  BY <1>2
<1>3. CASE \E id \in TaskId, deps \in SUBSET TaskId : submit_task(t, id, deps)
  BY <1>1, <1>3 DEF submit_task
<1>4. CASE (\E dep \in TaskId : add_task(t, dep)) \/ remove_task(t)
  BY Zenon, <1>1, <1>4 DEF add_task, remove_task
<1>5. CASE BeginSearch(t) \/ has_deadlock(t) \/ Choose(t) \/ allocate(t) \/ get_redis(t) \/ Ping(t) \/ Push(t)
  BY <1>0, <1>2, <1>5 DEF BeginSearch, has_deadlock, Choose, allocate, get_redis, Ping, Push, Goes, Answers
<1> QED BY <1>3, <1>4, <1>5 DEF Works

\* What thread t does with its own call, and with the nodes.
LEMMA OwnStep ==
    ASSUME Inv, NEW t \in Thread, Works(t), HasTask(thread[t])
    PROVE  /\ HasTask(thread'[t])
           /\ \/ Choose(t) /\ thread'[t].pc = "take"
              \/ allocate(t) /\ thread'[t].pc = "redis" /\ thread'[t].node = thread[t].node /\ thread'[t].id = thread[t].id
              \/ /\ thread[t].pc # "take" /\ thread'[t].pc # "take"
                 /\ used' = used
<1>0. thread \in [Thread -> Call] /\ thread[t] \in Call
  BY DEF Inv, Shape
<1> USE DEF HasTask
<1>1. ASSUME NEW id \in TaskId, NEW deps \in SUBSET TaskId, submit_task(t, id, deps)
      PROVE  thread[t].pc = "idle" /\ thread'[t].pc = "add" /\ thread'[t].id = id /\ used' = used
  <2>1. thread'[t] = [Idle EXCEPT !.pc = "add", !.id = id, !.deps = deps, !.todo = deps]
    BY Zenon, <1>1 DEF submit_task, Change
  <2> QED BY <1>1, <2>1 DEF submit_task, Idle, allocVars
<1>2. ASSUME NEW dep \in TaskId, add_task(t, dep)
      PROVE  thread[t].pc = "add" /\ thread'[t].pc = "add" /\ thread'[t].id = thread[t].id /\ used' = used
  <2>1. thread'[t] = [thread[t] EXCEPT !.todo = @ \ {dep}]
    BY Zenon, <1>2 DEF add_task, Change
  <2> QED BY <1>0, <1>2, <2>1 DEF add_task, Call, allocVars
<1>3. ASSUME remove_task(t) PROVE thread[t].pc = "reject" /\ thread'[t].pc = "idle" /\ used' = used
  <2>1. thread'[t] = Idle
    BY Zenon, <1>3 DEF remove_task, Change
  <2> QED BY <1>3, <2>1, IdleType DEF remove_task, allocVars
<1>4. CASE BeginSearch(t)
  BY SMTT(30), <1>0, <1>4 DEF BeginSearch, Call, allocVars
<1>5. CASE has_deadlock(t)
  <2> DEFINE view == [thread[t] EXCEPT !.static = {}, !.ever = {}, !.touched = FALSE]
  <2>1. thread[t].pc = "check" /\ used' = used
    BY <1>5 DEF has_deadlock, allocVars
  <2>2. \E call \in {[view EXCEPT !.pc = "reject"], [view EXCEPT !.pc = "choose"], Idle} :
            thread' = [thread EXCEPT ![t] = call]
    BY Zenon, <1>5 DEF has_deadlock, Answers
  <2>3. thread'[t] \in {[view EXCEPT !.pc = "reject"], [view EXCEPT !.pc = "choose"], Idle}
    BY Zenon, <1>0, <2>2
  <2>4. CASE thread'[t] = Idle
    BY <2>1, <2>4, IdleType
  <2>5. CASE thread'[t] # Idle
    <3>1. thread'[t].id = thread[t].id /\ thread'[t].pc \in {"reject", "choose"}
      BY Zenon, <1>0, <2>3, <2>5 DEF Call
    <3> QED BY <2>1, <3>1
  <2> QED BY <2>4, <2>5
<1>6. CASE Choose(t)
  BY <1>0, <1>6, IdleType DEF Choose, Answers, Candidates, Call, allocVars
<1>7. CASE allocate(t)
  BY <1>0, <1>7 DEF allocate, Goes, Call
<1>8. CASE get_redis(t)
  BY <1>0, <1>8 DEF get_redis, Goes, Call, allocVars
<1>9. CASE Ping(t) \/ Push(t)
  BY <1>0, <1>9, IdleType DEF Ping, Push, Goes, Answers, Call, allocVars
<1> QED BY <1>1, <1>2, <1>3, <1>4, <1>5, <1>6, <1>7, <1>8, <1>9 DEF Works

\* Only allocate, get_redis and Ping lead on to Redis.
LEMMA PcAfter ==
    ASSUME Inv, NEW t \in Thread, Works(t), ~allocate(t), ~get_redis(t), ~Ping(t)
    PROVE  thread'[t].pc \notin {"redis", "ping", "push"}
<1>0. thread \in [Thread -> Call] /\ thread[t] \in Call
  BY DEF Inv, Shape
<1>1. ASSUME NEW id \in TaskId, NEW deps \in SUBSET TaskId, submit_task(t, id, deps) PROVE thread'[t].pc = "add"
  <2>1. thread'[t] = [Idle EXCEPT !.pc = "add", !.id = id, !.deps = deps, !.todo = deps]
    BY Zenon, <1>1 DEF submit_task, Change
  <2> QED BY <2>1 DEF Idle
<1>2. ASSUME NEW dep \in TaskId, add_task(t, dep) PROVE thread'[t].pc = "add"
  <2>1. thread'[t] = [thread[t] EXCEPT !.todo = @ \ {dep}] /\ thread[t].pc = "add"
    BY Zenon, <1>2 DEF add_task, Change
  <2> QED BY <1>0, <2>1 DEF Call
<1>3. ASSUME remove_task(t) PROVE thread'[t].pc = "idle"
  <2>1. thread'[t] = Idle
    BY Zenon, <1>3 DEF remove_task, Change
  <2> QED BY <2>1, IdleType
<1>4. CASE has_deadlock(t)
  <2> DEFINE view == [thread[t] EXCEPT !.static = {}, !.ever = {}, !.touched = FALSE]
  <2>1. \E call \in {[view EXCEPT !.pc = "reject"], [view EXCEPT !.pc = "choose"], Idle} :
            thread' = [thread EXCEPT ![t] = call]
    BY Zenon, <1>4 DEF has_deadlock, Answers
  <2>2. thread'[t] \in {[view EXCEPT !.pc = "reject"], [view EXCEPT !.pc = "choose"], Idle}
    BY Zenon, <1>0, <2>1
  <2> QED BY Zenon, <1>0, <2>2, IdleType DEF Call
<1>5. CASE BeginSearch(t) \/ Choose(t) \/ Push(t)
  BY <1>0, <1>5, IdleType DEF BeginSearch, Choose, Push, Answers, Call
<1> QED BY <1>1, <1>2, <1>3, <1>4, <1>5 DEF Works

\* Arithmetic of the bounds.
LEMMA Times ==
    ASSUME NEW m \in Nat, NEW a \in Nat, NEW b \in Nat
    PROVE  a * m \in Nat /\ (a - 1) * m = a * m - m /\ (a <= b => (a - 1) * m <= (b - 1) * m)
<1>1. a * m \in Nat /\ b * m \in Nat
  OBVIOUS
<1>2. (a - 1) * m = a * m - m /\ (b - 1) * m = b * m - m
  OBVIOUS
<1>3. ASSUME a <= b PROVE a * m <= b * m
  <2>1. PICK d \in Nat : b = a + d
    BY <1>3
  <2>2. b * m = a * m + d * m /\ d * m \in Nat
    BY <2>1
  <2> QED BY <1>1, <2>2
<1>4. a <= b => (a - 1) * m <= (b - 1) * m
  BY <1>1, <1>2, <1>3
<1> QED BY <1>1, <1>2, <1>4

\* The threads that have chosen a node.
LEMMA TakingFinite ==
    ASSUME NEW S \in SUBSET Thread
    PROVE  /\ IsFiniteSet(S) /\ Cardinality(S) \in Nat /\ Cardinality(Thread) \in Nat
           /\ Cardinality(S) <= Cardinality(Thread) /\ Cardinality(Thread) >= 1
           /\ \A t \in S : Cardinality(S \ {t}) = Cardinality(S) - 1
           /\ S # {} => Cardinality(S) >= 1
<1>1. IsFiniteSet(S) /\ Cardinality(S) <= Cardinality(Thread)
  BY SchedulerAssumption, FS_Subset
<1>2. Cardinality(S) \in Nat /\ Cardinality(Thread) \in Nat
  BY <1>1, SchedulerAssumption, FS_CardinalityType
<1>3. Cardinality(Thread) # 0 /\ (S # {} => Cardinality(S) # 0)
  BY <1>1, SchedulerAssumption, FS_EmptySet
<1>4. \A t \in S : Cardinality(S \ {t}) = Cardinality(S) - 1
  BY <1>1, FS_RemoveElement
<1> QED BY <1>1, <1>2, <1>3, <1>4

\* A node that a thread chooses has room for its task.
LEMMA ChooseKeeps ==
    ASSUME Inv, AllocInv, NEW t \in Thread, Choose(t), thread'[t].pc = "take", NEW n \in Node,
           thread'[t].node = n
    PROVE  NodeInv(n)'
<1>0. thread \in [Thread -> Call] /\ thread[t] \in Call
  BY DEF Inv, Shape
<1>1. thread'[t].id = thread[t].id /\ Available(n) >= Size[thread[t].id] /\ used' = used
  BY <1>0, IdleType DEF Choose, Answers, Candidates, Call, allocVars
<1>2. t \in Taking(n)' /\ Taking(n)' \in SUBSET Thread
  BY DEF Taking
<1> DEFINE k == Cardinality(Taking(n)')
           c == Cardinality(Thread)
<1>3. k \in Nat /\ c \in Nat /\ k <= c
  BY <1>2, TakingFinite
<1>4. (k - 1) * MaxSize <= (c - 1) * MaxSize /\ (k - 1) * MaxSize \in Int /\ (c - 1) * MaxSize \in Int
  <2> HIDE DEF k, c
  <2> QED BY <1>3, Times, MaxSizeBounds
<1>5. thread[t].id \in TaskId
  BY DEF AllocInv, HasTask, Choose
<1>6. Size[thread[t].id] \in Nat /\ used[n] \in Nat /\ Total[n] \in Nat
  BY <1>5, MaxSizeBounds, SchedulerAssumption DEF AllocInv
<1>7. used'[n] + Size[thread'[t].id] <= Total[n]
  BY <1>1, <1>6 DEF Available
<1>8. used'[n] + Size[thread'[t].id] + (k - 1) * MaxSize <= Limit(n)
  <2> HIDE DEF k
  <2> QED BY <1>1, <1>4, <1>6, <1>7 DEF Limit
<1> QED BY <1>2, <1>8 DEF NodeInv, Limit

\* A thread that takes its node leaves the room that the others need.
LEMMA TakeKeeps ==
    ASSUME Inv, AllocInv, NEW t \in Thread, allocate(t), Works(t), NEW n \in Node, thread[t].node = n
    PROVE  NodeInv(n)'
<1>1. t \in Taking(n) /\ Taking(n) \in SUBSET Thread /\ thread[t].id \in TaskId
  BY DEF Taking, allocate, AllocInv, HasTask
<1>2. used'[n] = used[n] + Size[thread[t].id] /\ used[n] \in Nat
  BY <1>1 DEF allocate, AllocInv
<1>3. Taking(n)' = Taking(n) \ {t} /\ thread'[t].pc = "redis"
  <2>1. thread'[t].pc = "redis"
    BY Zenon, OwnStep DEF AllocInv, allocate, Choose
  <2> QED BY <2>1, OthersStay DEF Taking
<1> DEFINE k == Cardinality(Taking(n))
           s == Size[thread[t].id]
<1>4. k \in Nat /\ k >= 1 /\ Cardinality(Taking(n)') = k - 1
  BY <1>1, <1>3, TakingFinite
<1>5. s \in Nat /\ s <= MaxSize /\ MaxSize \in Nat
  BY <1>1, MaxSizeBounds
<1>6. PICK w \in Taking(n) : used[n] + Size[thread[w].id] + (k - 1) * MaxSize <= Limit(n)
  BY <1>1 DEF AllocInv, NodeInv
<1>7. \A u \in Taking(n) : Size[thread[u].id] \in Nat /\ Size[thread[u].id] <= MaxSize
  BY MaxSizeBounds DEF AllocInv, HasTask, Taking
<1>8. Limit(n) \in Int /\ Limit(n)' = Limit(n)
  <2>1. (Cardinality(Thread) - 1) * MaxSize \in Int
    BY <1>1, <1>5, TakingFinite
  <2> QED BY <2>1, SchedulerAssumption DEF Limit
<1>9. \A u \in Taking(n)' : thread'[u].id = thread[u].id
  BY <1>3, OthersStay DEF Taking
<1>10. (k - 1) * MaxSize = k * MaxSize - MaxSize /\ k * MaxSize \in Nat
       /\ (k - 1 - 1) * MaxSize = (k - 1) * MaxSize - MaxSize /\ (k - 1) * MaxSize \in Nat
  <2> HIDE DEF k
  <2>1. k - 1 \in Nat
    BY <1>4
  <2> QED BY <2>1, <1>4, <1>5, Times
<1>11. CASE Taking(n)' = {}
  <2>1. w = t
    BY <1>3, <1>11
  <2>2. used'[n] <= Limit(n)
    <3> HIDE DEF k
    <3> QED BY SMTT(30), <1>2, <1>5, <1>6, <1>8, <1>10, <2>1
  <2> QED BY <1>8, <1>11, <2>2 DEF NodeInv
<1>12. CASE Taking(n)' # {}
  <2>1. PICK u \in Taking(n)' : w # t => u = w
    BY <1>3, <1>12
  <2>2. u \in Taking(n) /\ Size[thread[u].id] \in Nat /\ Size[thread[u].id] <= MaxSize /\ Size[thread[w].id] \in Nat
    BY <1>3, <1>7, <2>1
  <2>3. s + Size[thread[u].id] <= Size[thread[w].id] + MaxSize
    BY SMTT(30), <1>5, <2>1, <2>2
  <2>4. used'[n] + Size[thread[u].id] + (k - 1 - 1) * MaxSize <= Limit(n)
    <3> HIDE DEF k, s
    <3>1. used'[n] = used[n] + s
      BY <1>2 DEF s
    <3> QED BY SMTT(30), <3>1, <1>2, <1>5, <1>6, <1>8, <1>10, <2>2, <2>3
  <2> QED BY SMTT(30), <1>4, <1>8, <1>9, <2>1, <2>4 DEF NodeInv
<1> QED BY <1>11, <1>12

\* AllocInv is kept by every step.
LEMMA AllocInvStep == ASSUME Inv, AllocInv, [SchedNext]_schedVars PROVE AllocInv'
<1>1. CASE UNCHANGED <<used, thread>>
  BY <1>1 DEF AllocInv, NodeInv, Taking, Limit, HasTask
<1>2. ASSUME NEW t \in Thread, Works(t) PROVE AllocInv'
  <2>1. \A u \in Thread : HasTask(thread'[u])
    BY <1>2, OwnStep, OthersStay DEF AllocInv, HasTask
  <2>2. used' \in [Node -> Nat]
    <3>1. CASE allocate(t)
      <4>1. Size[thread[t].id] \in Nat
        BY <3>1, MaxSizeBounds DEF AllocInv, HasTask, allocate
      <4>2. thread[t].node \in Node /\ used[thread[t].node] + Size[thread[t].id] \in Nat
        BY <3>1, <4>1 DEF AllocInv, HasTask, allocate
      <4> QED BY <3>1, <4>2 DEF AllocInv, allocate
    <3>2. CASE ~allocate(t)
      BY Zenon, <1>2, <3>2, OwnStep DEF AllocInv, Choose, allocVars
    <3> QED BY SMTT(30), <3>1, <3>2
  <2>3. ASSUME NEW n \in Node PROVE NodeInv(n)'
    <3>1. ASSUME Taking(n)' = Taking(n), t \notin Taking(n), used'[n] = used[n] PROVE NodeInv(n)'
      <4>1. \A u \in Taking(n) : thread'[u].id = thread[u].id
        BY SMTT(30), <1>2, <3>1, OthersStay DEF Taking
      <4> QED BY <3>1, <4>1 DEF AllocInv, NodeInv, Limit
    <3>2. \A u \in Thread : u # t => (u \in Taking(n)' <=> u \in Taking(n))
      BY <1>2, OthersStay DEF Taking
    <3>3. CASE Choose(t) /\ thread'[t].pc = "take"
      <4>1. CASE thread'[t].node = n
        BY <3>3, <4>1, ChooseKeeps
      <4>2. CASE thread'[t].node # n
        <5>1. t \notin Taking(n)' /\ t \notin Taking(n) /\ used' = used
          BY <3>3, <4>2 DEF Taking, Choose, allocVars
        <5>2. Taking(n)' = Taking(n)
          BY <3>2, <5>1 DEF Taking
        <5> QED BY <3>1, <5>1, <5>2
      <4> QED BY <4>1, <4>2
    <3>4. CASE allocate(t) /\ thread'[t].pc = "redis"
      <4>1. CASE thread[t].node = n
        BY <1>2, <3>4, <4>1, TakeKeeps
      <4>2. CASE thread[t].node # n
        <5>1. t \notin Taking(n)' /\ t \notin Taking(n) /\ used'[n] = used[n]
          BY <3>4, <4>2 DEF Taking, allocate, AllocInv
        <5>2. Taking(n)' = Taking(n)
          BY <3>2, <5>1 DEF Taking
        <5> QED BY SMTT(30), <3>1, <5>1, <5>2
      <4> QED BY <4>1, <4>2
    <3>5. CASE thread[t].pc # "take" /\ thread'[t].pc # "take" /\ used' = used
      <4>1. t \notin Taking(n)' /\ t \notin Taking(n)
        BY <3>5 DEF Taking
      <4>2. Taking(n)' = Taking(n)
        BY <3>2, <4>1 DEF Taking
      <4> QED BY <3>1, <3>5, <4>1, <4>2
    <3> QED BY <1>2, <3>3, <3>4, <3>5, OwnStep DEF AllocInv
  <2> QED BY SMTT(30), <2>1, <2>2, <2>3 DEF AllocInv
<1> QED BY <1>1, <1>2 DEF SchedNext, RedisChanges, schedVars, allocVars

\* The bound of a node is a number.
LEMMA LimitType == \A n \in Node : Limit(n) \in Nat
<1> DEFINE c == Cardinality(Thread)
<1>1. Thread \in SUBSET Thread
  OBVIOUS
<1>2. c - 1 \in Nat
  BY <1>1, TakingFinite
<1>3. (c - 1) * MaxSize \in Nat
  <2> HIDE DEF c
  <2> QED BY <1>2, MaxSizeBounds
<1> QED BY <1>3, SchedulerAssumption DEF Limit

\* AllocInv holds all the time.
LEMMA AllocInvariance == SchedSpec => []AllocInv
<1>1. SchedInit => AllocInv
  <2> SUFFICES ASSUME SchedInit PROVE AllocInv
    OBVIOUS
  <2>1. \A t \in Thread : HasTask(thread[t]) /\ thread[t].pc = "idle"
    BY IdleType DEF SchedInit, HasTask
  <2>2. \A n \in Node : Taking(n) = {}
    BY <2>1 DEF Taking
  <2>3. \A n \in Node : NodeInv(n)
    BY LimitType, <2>2 DEF NodeInv, SchedInit
  <2> QED BY <2>1, <2>3 DEF AllocInv, SchedInit
<1> QED BY <1>1, Invariance, AllocInvStep, PTL DEF SchedSpec

\* allocate chooses a node and takes it in two steps without a lock; a node is
\* overcommitted by no more than one task for each other thread, for any number of
\* threads and submissions.
THEOREM OvercommitStaysBounded == SchedSpec => []OvercommitIsBounded
<1>1. AllocInv => OvercommitIsBounded
  <2> SUFFICES ASSUME AllocInv, NEW n \in Node PROVE used[n] <= Limit(n)
    BY DEF OvercommitIsBounded, Limit
  <2>1. CASE Taking(n) = {}
    BY <2>1 DEF AllocInv, NodeInv
  <2>2. CASE Taking(n) # {}
    <3>1. PICK t \in Taking(n) :
              used[n] + Size[thread[t].id] + (Cardinality(Taking(n)) - 1) * MaxSize <= Limit(n)
      BY <2>2 DEF AllocInv, NodeInv
    <3> DEFINE k == Cardinality(Taking(n))
    <3>2. Taking(n) \in SUBSET Thread
      BY DEF Taking
    <3>3. k - 1 \in Nat
      BY <2>2, <3>2, TakingFinite
    <3>4. Size[thread[t].id] \in Nat
      BY MaxSizeBounds DEF AllocInv, HasTask, Taking
    <3>5. (k - 1) * MaxSize \in Nat
      <4> HIDE DEF k
      <4> QED BY <3>3, MaxSizeBounds
    <3> HIDE DEF k
    <3> QED BY LimitType, <3>1, <3>4, <3>5 DEF AllocInv, k
  <2> QED BY <2>1, <2>2
<1> QED BY <1>1, AllocInvariance, PTL

-----------------------------------------------------------------------------
\* The task queue.  What the entries ask for, and what the threads that have taken
\* a node and not pushed their entry yet hold.
Asked == [i \in DOMAIN taskQueue |-> Size[taskQueue[i].id]]
OnQueue(n) == {i \in DOMAIN taskQueue : taskQueue[i].node = n}
Held == [t \in Thread |-> Size[thread[t].id]]
Holding(n) == {t \in Thread : thread[t].pc \in {"redis", "ping", "push"} /\ thread[t].node = n}

\* Both together are no more than what is marked as used.
PaidInv ==
    /\ taskQueue \in Seq([id : TaskId, node : Node])
    /\ \A n \in Node : SumOf(Asked, OnQueue(n)) + SumOf(Held, Holding(n)) <= used[n]

\* Sums over entries and over threads are numbers.
LEMMA PaidTypes ==
    ASSUME PaidInv, AllocInv, NEW n \in Node
    PROVE  /\ SumOf(Asked, OnQueue(n)) \in Nat /\ SumOf(Held, Holding(n)) \in Nat
           /\ IsFiniteSet(OnQueue(n)) /\ \A i \in OnQueue(n) : Asked[i] \in Nat
           /\ IsFiniteSet(Holding(n)) /\ \A t \in Holding(n) : Held[t] \in Nat
<1>1. DOMAIN taskQueue = 1..Len(taskQueue) /\ Len(taskQueue) \in Nat
  BY DEF PaidInv
<1>2. IsFiniteSet(OnQueue(n))
  <2>1. OnQueue(n) \in SUBSET (1..Len(taskQueue)) /\ IsFiniteSet(1..Len(taskQueue))
    BY <1>1, FS_Interval DEF OnQueue
  <2> QED BY <2>1, FS_Subset
<1>3. \A i \in OnQueue(n) : Asked[i] \in Nat
  <2>1. \A i \in DOMAIN taskQueue : taskQueue[i] \in [id : TaskId, node : Node]
    <3> DEFINE E == [id : TaskId, node : Node]
    <3>1. taskQueue \in Seq(E)
      BY DEF PaidInv
    <3> HIDE DEF E
    <3>2. \A i \in 1..Len(taskQueue) : taskQueue[i] \in E
      BY <3>1
    <3> QED BY <1>1, <3>2 DEF E
  <2>2. \A i \in DOMAIN taskQueue : taskQueue[i].id \in TaskId
    BY <2>1
  <2>3. \A i \in DOMAIN taskQueue : Size[taskQueue[i].id] \in Nat
    BY <2>2, MaxSizeBounds
  <2> QED BY <2>3 DEF OnQueue, Asked
<1>4. IsFiniteSet(Holding(n))
  BY TakingFinite DEF Holding
<1>5. \A t \in Holding(n) : Held[t] \in Nat
  BY SMTT(30), MaxSizeBounds DEF Holding, Held, AllocInv, HasTask
<1> QED BY <1>2, <1>3, <1>4, <1>5, SumType

\* A step of thread t changes what is held by what t itself holds.
LEMMA HeldChanges ==
    ASSUME Inv, AllocInv, AllocInv', PaidInv, NEW t \in Thread, Works(t), NEW n \in Node
    PROVE  /\ SumOf(Held, Holding(n))' \in Nat
           /\ t \notin Holding(n) /\ t \notin Holding(n)' =>
                  SumOf(Held, Holding(n))' = SumOf(Held, Holding(n))
           /\ t \in Holding(n) /\ t \notin Holding(n)' =>
                  SumOf(Held, Holding(n)) = Held[t] + SumOf(Held, Holding(n))'
           /\ t \notin Holding(n) /\ t \in Holding(n)' =>
                  SumOf(Held, Holding(n))' = Held'[t] + SumOf(Held, Holding(n))
           /\ t \in Holding(n) /\ t \in Holding(n)' =>
                  SumOf(Held, Holding(n))' - Held'[t] = SumOf(Held, Holding(n)) - Held[t]
<1> DEFINE H == Holding(n)
           J == Holding(n)'
           g == Held
           h == Held'
           R == H \ {t}
<1>1. J \ {t} = R
  BY OthersStay DEF Holding
<1>2. IsFiniteSet(H) /\ IsFiniteSet(J) /\ IsFiniteSet(R)
  BY TakingFinite DEF Holding
<1>3. (\A u \in H : g[u] \in Nat) /\ (\A u \in J : h[u] \in Nat)
  BY MaxSizeBounds DEF Holding, Held, AllocInv, HasTask
<1>4. \A u \in R : g[u] = h[u]
  BY OthersStay DEF Holding, Held
<1>5. SumOf(Held, Holding(n)) = SumOf(g, H) /\ SumOf(Held, Holding(n))' = SumOf(h, J)
  BY Zenon DEF SumOf, MapThenSumSet, MapThenFoldSet
<1> HIDE DEF H, J, g, h
<1>6. SumOf(g, R) = SumOf(h, R) /\ SumOf(g, R) \in Nat
  BY SMTT(30), <1>2, <1>3, <1>4, SumSame, SumType
<1>7. t \in H => SumOf(g, H) = g[t] + SumOf(g, R) /\ g[t] \in Nat
  BY <1>2, <1>3, SumRemove
<1>8. t \in J => SumOf(h, J) = h[t] + SumOf(h, R) /\ h[t] \in Nat
  BY <1>1, <1>2, <1>3, SumRemove
<1>9. (t \notin H => R = H) /\ (t \notin J => R = J)
  BY <1>1
<1> HIDE DEF R
<1> QED BY SMTT(30), <1>5, <1>6, <1>7, <1>8, <1>9 DEF H, J, g, h

\* What an entry that is pushed adds.
LEMMA QueueGrows ==
    ASSUME PaidInv, AllocInv, NEW e \in [id : TaskId, node : Node],
           taskQueue' = Append(taskQueue, e), NEW n \in Node
    PROVE  SumOf(Asked, OnQueue(n))' = SumOf(Asked, OnQueue(n)) + IF e.node = n THEN Size[e.id] ELSE 0
<1> DEFINE q == Len(taskQueue) + 1
           Q == OnQueue(n)
           P == OnQueue(n)'
           g == Asked
           h == Asked'
<1>0. taskQueue \in Seq([id : TaskId, node : Node]) /\ Len(taskQueue) \in Nat
      /\ DOMAIN taskQueue = 1..Len(taskQueue)
  BY DEF PaidInv
<1>1. /\ DOMAIN taskQueue' = 1..q /\ taskQueue'[q] = e
      /\ \A i \in 1..Len(taskQueue) : taskQueue'[i] = taskQueue[i]
  BY <1>0
<1>2. h[q] = Size[e.id] /\ \A i \in Q : h[i] = g[i]
  BY <1>0, <1>1 DEF Asked, OnQueue
<1>3. P = IF e.node = n THEN Q \cup {q} ELSE Q
  <2>1. \A i \in 1..q : i = q \/ i \in 1..Len(taskQueue)
    BY <1>0
  <2> QED BY <1>0, <1>1, <2>1 DEF OnQueue
<1>4. q \notin Q
  BY <1>0 DEF OnQueue
<1>5. SumOf(Asked, OnQueue(n)) = SumOf(g, Q) /\ SumOf(Asked, OnQueue(n))' = SumOf(h, P)
  BY Zenon DEF SumOf, MapThenSumSet, MapThenFoldSet
<1>6. IsFiniteSet(Q) /\ (\A i \in Q : g[i] \in Nat) /\ SumOf(g, Q) \in Nat
  BY PaidTypes
<1>7. Size[e.id] \in Nat
  BY MaxSizeBounds
<1> HIDE DEF Q, P, g, h, q
<1>8. SumOf(h, Q) = SumOf(g, Q)
  BY SMTT(30), <1>2, <1>6, SumSame
<1>9. CASE e.node = n
  <2>1. P = Q \cup {q} /\ P \ {q} = Q /\ q \in P
    BY <1>3, <1>4, <1>9
  <2>2. IsFiniteSet(P)
    BY <1>6, <2>1, FS_AddElement
  <2>3. \A i \in P : h[i] \in Nat
    BY <1>2, <1>6, <1>7, <2>1
  <2>4. SumOf(h, P) = h[q] + SumOf(h, Q)
    BY SMTT(30), <2>1, <2>2, <2>3, SumRemove
  <2> QED BY SMTT(30), <1>2, <1>5, <1>6, <1>7, <1>8, <1>9, <2>4
<1>10. CASE e.node # n
  <2>1. SumOf(h, P) = SumOf(g, Q)
    BY <1>3, <1>8, <1>10
  <2> QED BY <1>5, <1>6, <1>10, <2>1
<1> QED BY <1>9, <1>10

\* An entry that is not pushed adds nothing.
LEMMA QueueStays ==
    ASSUME UNCHANGED taskQueue, NEW n \in Node
    PROVE  SumOf(Asked, OnQueue(n))' = SumOf(Asked, OnQueue(n))
<1>1. Asked' = Asked /\ OnQueue(n)' = OnQueue(n)
  BY DEF Asked, OnQueue
<1>2. SumOf(Asked, OnQueue(n))' = SumOf(Asked', OnQueue(n)')
  BY Zenon DEF SumOf, MapThenSumSet, MapThenFoldSet
<1> QED BY <1>1, <1>2

\* PaidInv is kept by every step.
LEMMA PaidInvStep == ASSUME Inv, AllocInv, AllocInv', PaidInv, [SchedNext]_schedVars PROVE PaidInv'
<1>0. \A n \in Node : used[n] \in Nat /\ used'[n] \in Nat
  BY DEF AllocInv
<1>1. CASE UNCHANGED <<used, thread, taskQueue>>
  <2>1. ASSUME NEW n \in Node PROVE (SumOf(Asked, OnQueue(n)) + SumOf(Held, Holding(n)) <= used[n])'
    <3>1. SumOf(Asked, OnQueue(n))' = SumOf(Asked, OnQueue(n))
      BY <1>1, QueueStays
    <3>2. Held' = Held /\ Holding(n)' = Holding(n)
      BY <1>1 DEF Held, Holding
    <3>3. SumOf(Held, Holding(n))' = SumOf(Held', Holding(n)')
      BY Zenon DEF SumOf, MapThenSumSet, MapThenFoldSet
    <3> QED BY <1>1, <3>1, <3>2, <3>3 DEF PaidInv
  <2> QED BY <1>1, <2>1 DEF PaidInv
<1>2. ASSUME NEW t \in Thread, Works(t) PROVE PaidInv'
  <2> DEFINE e == [id |-> thread[t].id, node |-> thread[t].node]
  <2>0. thread \in [Thread -> Call] /\ thread[t] \in Call /\ HasTask(thread[t])
    BY DEF Inv, Shape, AllocInv
  <2>1. CASE Push(t) /\ taskQueue' = Append(taskQueue, e)
    <3>1. /\ thread[t].pc = "push" /\ thread'[t].pc = "idle" /\ used' = used
          /\ e \in [id : TaskId, node : Node]
      BY SMTT(30), <2>0, <2>1, IdleType DEF Push, Answers, HasTask, allocVars
    <3>2. ASSUME NEW n \in Node PROVE (SumOf(Asked, OnQueue(n)) + SumOf(Held, Holding(n)) <= used[n])'
      <4>1. /\ SumOf(Asked, OnQueue(n))' = SumOf(Asked, OnQueue(n)) + IF e.node = n THEN Size[e.id] ELSE 0
            /\ SumOf(Asked, OnQueue(n)) \in Nat /\ SumOf(Held, Holding(n)) \in Nat
        BY SMTT(30), <2>1, <3>1, QueueGrows, PaidTypes
      <4>2. t \notin Holding(n)' /\ (t \in Holding(n) <=> e.node = n) /\ Held[t] = Size[e.id]
        BY SMTT(30), <3>1 DEF Holding, Held
      <4>3. SumOf(Held, Holding(n))' \in Nat
            /\ SumOf(Held, Holding(n)) = SumOf(Held, Holding(n))' + IF e.node = n THEN Size[e.id] ELSE 0
        <5>1. Size[e.id] \in Nat
          BY <3>1, MaxSizeBounds
        <5> HIDE DEF e
        <5> QED BY SMTT(30), <1>2, <4>1, <4>2, <5>1, HeldChanges
      <4>4. Size[e.id] \in Nat
        BY SMTT(30), <3>1, MaxSizeBounds
      <4> HIDE DEF e
      <4> QED BY SMTT(30), <1>0, <3>1, <4>1, <4>3, <4>4 DEF PaidInv
    <3> QED BY <2>1, <3>1, <3>2 DEF PaidInv
  <2>2. CASE UNCHANGED taskQueue
    <3>1. ASSUME NEW n \in Node PROVE (SumOf(Asked, OnQueue(n)) + SumOf(Held, Holding(n)) <= used[n])'
      <4>1. /\ SumOf(Asked, OnQueue(n))' = SumOf(Asked, OnQueue(n))
            /\ SumOf(Asked, OnQueue(n)) \in Nat /\ SumOf(Held, Holding(n)) \in Nat
            /\ SumOf(Asked, OnQueue(n)) + SumOf(Held, Holding(n)) <= used[n]
        BY SMTT(30), <2>2, QueueStays, PaidTypes DEF PaidInv
      <4>2. CASE allocate(t)
        <5>1. /\ thread[t].pc = "take" /\ thread'[t].pc = "redis" /\ thread'[t].id = thread[t].id
              /\ thread'[t].node = thread[t].node /\ thread[t].node \in Node
              /\ used'[thread[t].node] = used[thread[t].node] + Size[thread[t].id]
              /\ \A m \in Node : m # thread[t].node => used'[m] = used[m]
          BY SMTT(30), <2>0, <4>2 DEF allocate, Goes, Call, AllocInv, HasTask
        <5>2. t \notin Holding(n) /\ (t \in Holding(n)' <=> thread[t].node = n) /\ Held'[t] = Size[thread[t].id]
          BY <5>1 DEF Holding, Held
        <5>3. Size[thread[t].id] \in Nat
          BY SMTT(30), <2>0, <5>1, MaxSizeBounds DEF HasTask
        <5>4. /\ thread[t].node = n => SumOf(Held, Holding(n))' = Size[thread[t].id] + SumOf(Held, Holding(n))
              /\ thread[t].node # n => SumOf(Held, Holding(n))' = SumOf(Held, Holding(n))
              /\ SumOf(Held, Holding(n))' \in Nat
          BY SMTT(30), <1>2, <5>2, HeldChanges
        <5>5. used'[n] = used[n] + IF thread[t].node = n THEN Size[thread[t].id] ELSE 0
          BY <1>0, <5>1, <5>3
        <5> QED BY <1>0, <4>1, <5>3, <5>4, <5>5
      <4>3. CASE ~allocate(t)
        <5>1. used' = used
          BY Zenon, <1>2, <2>0, <4>3, OwnStep DEF Choose, allocVars
        <5>2. t \in Holding(n)' => t \in Holding(n) /\ Held'[t] = Held[t]
          <6>1. CASE get_redis(t) \/ Ping(t)
            <7>1. /\ thread[t].pc \in {"redis", "ping"}
                  /\ thread'[t].pc = "idle" \/ (thread'[t].id = thread[t].id /\ thread'[t].node = thread[t].node)
              BY <2>0, <6>1, IdleType DEF get_redis, Ping, Goes, Answers, Call
            <7> QED BY <7>1 DEF Holding, Held
          <6>2. CASE ~(get_redis(t) \/ Ping(t))
            <7>1. thread'[t].pc \notin {"redis", "ping", "push"}
              BY <1>2, <2>0, <4>3, <6>2, PcAfter
            <7> QED BY <7>1 DEF Holding
          <6> QED BY <6>1, <6>2
        <5>3. t \in Holding(n) => Held[t] \in Nat
          BY SMTT(30), PaidTypes
        <5>4. SumOf(Held, Holding(n))' <= SumOf(Held, Holding(n)) /\ SumOf(Held, Holding(n))' \in Nat
          BY <1>2, <4>1, <5>2, <5>3, HeldChanges
        <5> QED BY <1>0, <4>1, <5>1, <5>4
      <4> QED BY SMTT(30), <4>2, <4>3
    <3> QED BY <2>2, <3>1 DEF PaidInv
  <2> QED BY Zenon, <1>2, <2>1, <2>2 DEF Works, submit_task, add_task, BeginSearch, has_deadlock, remove_task,
         Choose, allocate, get_redis, Ping, Push, redisVars
<1> QED BY <1>1, <1>2 DEF SchedNext, RedisChanges, schedVars, allocVars, redisVars

\* However threads interleave, tasks are submitted twice and answers get lost, the
\* resources of a node that are marked as used cover all the entries of the task
\* queue that name it.
THEOREM QueuedStaysReserved == SchedSpec => []QueuedIsReserved
<1>1. SchedInit => PaidInv
  <2> SUFFICES ASSUME SchedInit PROVE PaidInv
    OBVIOUS
  <2>1. \A n \in Node : OnQueue(n) = {} /\ Holding(n) = {}
    BY IdleType DEF SchedInit, OnQueue, Holding
  <2>2. \A n \in Node : SumOf(Asked, OnQueue(n)) = 0 /\ SumOf(Held, Holding(n)) = 0
    BY Zenon, <2>1, SumEmpty
  <2>3. \A n \in Node : SumOf(Asked, OnQueue(n)) + SumOf(Held, Holding(n)) <= used[n]
    BY <2>2 DEF SchedInit
  <2> QED BY <2>3 DEF SchedInit, PaidInv
<1>2. PaidInv /\ AllocInv => QueuedIsReserved
  <2> SUFFICES ASSUME PaidInv, AllocInv, NEW n \in Node PROVE SumOf(Asked, OnQueue(n)) <= used[n]
    BY Zenon DEF QueuedIsReserved, SumOf, Asked, OnQueue
  <2>1. used[n] \in Nat /\ SumOf(Asked, OnQueue(n)) \in Nat /\ SumOf(Held, Holding(n)) \in Nat
    BY PaidTypes DEF AllocInv
  <2> QED BY <2>1 DEF PaidInv
<1> QED BY <1>1, <1>2, Invariance, AllocInvariance, PaidInvStep, PTL DEF SchedSpec

-----------------------------------------------------------------------------
\* The worker.  What is known where run_task is.
WorkerInv ==
    /\ workerPc \in {"start", "running", "output", "ended", "report", "except", "exceptStatus",
                     "done", "crashed"}
    /\ exitCode \in {"none", "zero", "nonzero"}
    /\ faults \in BOOLEAN
    /\ workerPc \in {"start", "running", "output"} => exitCode = "none"
    /\ workerPc \in {"start", "running", "output", "ended"} => status \in {"none", "running"}
    /\ workerPc \in {"ended", "report"} => exitCode # "none"
    /\ workerPc \in {"except", "exceptStatus"} /\ ~faults => exitCode = "none"
    /\ WorkerTellsTheTruth

WorkerSpec == WorkerInit /\ [][WorkerNext]_workerVars

\* Whatever Redis does to log and set_status, the status that a worker leaves
\* behind when it is done is a final one, and "completed" only for a command that
\* ended with 0.
THEOREM WorkerIsTruthful == WorkerSpec => []WorkerTellsTheTruth
<1>1. WorkerInit => WorkerInv
  BY Zenon DEF WorkerInit, WorkerInv, WorkerTellsTheTruth
<1>2. WorkerInv /\ [WorkerNext]_workerVars => WorkerInv'
  <2> SUFFICES ASSUME WorkerInv, [WorkerNext]_workerVars PROVE WorkerInv'
    OBVIOUS
  <2> USE DEF WorkerInv, WorkerTellsTheTruth, HandlerPc
  <2>1. CASE log("start", "running") \/ log("ended", "report") \/ log("except", "exceptStatus")
    BY Zenon, <2>1 DEF log
  <2>2. CASE set_status("running", "running", "output")
    BY Zenon, <2>2 DEF set_status
  <2>3. CASE OutputLine
    BY Zenon, <2>3 DEF OutputLine
  <2>4. CASE CommandEnds
    BY <2>4 DEF CommandEnds
  <2>5. CASE exitCode = "zero" /\ set_status("report", "completed", "done")
    BY Zenon, <2>5 DEF set_status
  <2>6. CASE exitCode = "nonzero" /\ set_status("report", "failed", "done")
    BY Zenon, <2>6 DEF set_status
  <2>7. CASE set_status("exceptStatus", "failed", "done")
    BY Zenon, <2>7 DEF set_status
  <2>8. CASE UNCHANGED workerVars
    BY <2>8 DEF workerVars
  <2> QED BY Zenon, <2>1, <2>2, <2>3, <2>4, <2>5, <2>6, <2>7, <2>8 DEF WorkerNext, run_task
<1>3. WorkerInv => WorkerTellsTheTruth
  BY DEF WorkerInv
<1> QED BY <1>1, <1>2, <1>3, PTL DEF WorkerSpec
-----------------------------------------------------------------------------
\* The queues.  What a list holds, and that it holds each task once.
Elements(q) == {q[i] : i \in DOMAIN q}
Distinct(q) == \A i, j \in DOMAIN q : q[i].id = q[j].id => i = j

\* SJFScheduler sorts by duration, and both it and FIFOScheduler keep the order in
\* which tasks came.
NotAfter(s, t) ==
    /\ algorithm = "sjf" => s.duration < t.duration \/ (s.duration = t.duration /\ s.submitted <= t.submitted)
    /\ algorithm = "fifo" => s.submitted <= t.submitted
InOrder(q) == \A i, j \in DOMAIN q : i < j => NotAfter(q[i], q[j])

QueueTypes ==
    /\ algorithm \in {"mlfq", "sjf", "fifo", "rr"}
    /\ levels \in [Level -> SUBSET QueueEntry]
    /\ queue \in Seq(QueueEntry)
    /\ index \in Nat
    /\ instant \in Nat
    /\ enqueued \in SUBSET QueueEntry /\ IsFiniteSet(enqueued)
    /\ running \in SUBSET QueueEntry
    /\ turns \in [QueuedTask -> Nat]

QueueShape ==
    /\ algorithm = "mlfq" => queue = <<>>
    /\ algorithm # "mlfq" => \A l \in Level : levels[l] = {}
    /\ \A l \in Level : \A t \in levels[l] : t.priority = l
    /\ Elements(queue) \subseteq enqueued
    /\ Distinct(queue) /\ InOrder(queue)
    /\ \A t \in enqueued : t.id <= Cardinality(enqueued) /\ t.submitted <= instant

QueueInv == QueueTypes /\ QueueShape

QueuesSpec == QueuesInit /\ [][QueuesNext]_queueVars

\* The fields of an entry are numbers.
LEMMA EntryFields ==
    ASSUME NEW t \in QueueEntry
    PROVE  t.id \in QueuedTask /\ t.id \in Nat /\ t.priority \in Level /\ t.submitted \in Nat /\ t.duration \in Nat
<1>1. t.id \in QueuedTask /\ t.priority \in Level /\ t.submitted \in 0..MaxInstant /\ t.duration \in Duration
  BY DEF QueueEntry
<1>2. QueuedTask \subseteq Nat /\ 0..MaxInstant \subseteq Nat /\ Duration \subseteq Nat
  BY QueuesAssumption DEF QueuedTask
<1> QED BY ZenonT(30), <1>1, <1>2

\* What is in the queue.
LEMMA InQueueIs ==
    ASSUME NEW t PROVE t \in InQueue <=> t \in Elements(queue) \/ \E l \in Level : t \in levels[l]
<1>1. t \in UNION {levels[l] : l \in Level} <=> \E l \in Level : t \in levels[l]
  BY Zenon
<1> QED BY <1>1, Zenon DEF InQueue, Elements

\* A list without one of its elements.
LEMMA WithoutOne ==
    ASSUME QueueInv, NEW k \in DOMAIN queue, NEW q \in Seq(QueueEntry), Without(q, queue, k)
    PROVE  /\ Distinct(q) /\ InOrder(q)
           /\ Elements(q) = Elements(queue) \ {queue[k]}
<1> USE DEF Without
<1> DEFINE from(i) == IF i < k THEN i ELSE i + 1
<1>0. /\ Len(queue) \in Nat /\ DOMAIN queue = 1..Len(queue) /\ DOMAIN q = 1..Len(queue) - 1
      /\ k \in 1..Len(queue)
  BY SMTT(30) DEF QueueInv, QueueTypes
<1>1. \A i \in DOMAIN q : from(i) \in DOMAIN queue /\ from(i) # k /\ q[i] = queue[from(i)]
  BY SMTT(30), <1>0
<1>2. \A i, j \in DOMAIN q : i < j => from(i) < from(j)
  BY <1>0
<1>3. \A i, j \in DOMAIN q : from(i) = from(j) => i = j
  BY <1>0
<1>4. \A i \in DOMAIN queue : i # k => \E j \in DOMAIN q : from(j) = i
  <2> SUFFICES ASSUME NEW i \in DOMAIN queue, i # k PROVE \E j \in DOMAIN q : from(j) = i
    OBVIOUS
  <2>1. CASE i < k
    BY <1>0, <2>1
  <2>2. CASE i > k
    <3>1. i - 1 \in DOMAIN q /\ from(i - 1) = i
      BY SMTT(30), <1>0, <2>2
    <3> QED BY <3>1
  <2> QED BY <1>0, <2>1, <2>2
<1> HIDE DEF from
<1>5. Distinct(q)
  BY SMTT(30), <1>1, <1>3 DEF Distinct, QueueInv, QueueShape
<1>6. InOrder(q)
  BY SMTT(30), <1>1, <1>2 DEF InOrder, QueueInv, QueueShape
<1>7. Elements(q) = Elements(queue) \ {queue[k]}
  <2>1. ASSUME NEW i \in DOMAIN q PROVE q[i] \in Elements(queue) \ {queue[k]}
    <3>1. queue[from(i)].id # queue[k].id
      BY <1>1 DEF Distinct, QueueInv, QueueShape
    <3> QED BY <1>1, <3>1 DEF Elements
  <2>2. ASSUME NEW i \in DOMAIN queue, queue[i] # queue[k] PROVE queue[i] \in Elements(q)
    <3>1. PICK j \in DOMAIN q : from(j) = i
      BY SMTT(30), <1>4, <2>2
    <3> QED BY <1>1, <3>1 DEF Elements
  <2> QED BY <2>1, <2>2 DEF Elements
<1> QED BY <1>5, <1>6, <1>7

Fits(t, n) ==
    /\ \A i \in 1..n : NotAfter(queue[i], t)
    /\ \A i \in n + 1..Len(queue) : NotAfter(t, queue[i])

\* A list with a new task after its first n, where those before it may be served
\* before it and those after it not.
LEMMA WithOneMore ==
    ASSUME QueueInv, NEW n \in 0..Len(queue), NEW t \in QueueEntry, NEW q \in Seq(QueueEntry),
           t.id = Cardinality(enqueued) + 1, Inserted(q, queue, n, t), Fits(t, n)
    PROVE  /\ Distinct(q) /\ InOrder(q)
           /\ Elements(q) = Elements(queue) \cup {t}
<1> USE DEF Inserted, Fits
<1> DEFINE from(i) == IF i <= n THEN i ELSE i - 1
<1>0. /\ Len(queue) \in Nat /\ DOMAIN queue = 1..Len(queue) /\ DOMAIN q = 1..Len(queue) + 1
      /\ n \in Nat /\ n <= Len(queue) /\ n + 1 \in DOMAIN q
  BY SMTT(30) DEF QueueInv, QueueTypes
<1>1. \A i \in DOMAIN q : i # n + 1 => from(i) \in DOMAIN queue /\ q[i] = queue[from(i)]
  <2> SUFFICES ASSUME NEW i \in DOMAIN q, i # n + 1 PROVE from(i) \in DOMAIN queue /\ q[i] = queue[from(i)]
    OBVIOUS
  <2>1. CASE i <= n
    BY SMTT(30), <1>0, <2>1
  <2>2. CASE i > n + 1
    <3>1. i - 1 \in n + 1..Len(queue) /\ i - 1 + 1 = i
      BY <1>0, <2>2
    <3>2. q[i - 1 + 1] = queue[i - 1]
      BY <3>1
    <3> QED BY SMTT(30), <1>0, <2>2, <3>1, <3>2
  <2> QED BY SMTT(30), <1>0, <2>1, <2>2
<1>2. \A i, j \in DOMAIN q : i # n + 1 /\ j # n + 1 => (i < j => from(i) < from(j)) /\ (from(i) = from(j) => i = j)
  BY SMTT(30), <1>0
<1>3. \A i \in DOMAIN q : i # n + 1 =>
          /\ i < n + 1 => NotAfter(queue[from(i)], t)
          /\ n + 1 < i => NotAfter(t, queue[from(i)])
  BY <1>0
<1>4. \A i \in DOMAIN queue : \E j \in DOMAIN q : j # n + 1 /\ from(j) = i
  <2> SUFFICES ASSUME NEW i \in DOMAIN queue PROVE \E j \in DOMAIN q : j # n + 1 /\ from(j) = i
    OBVIOUS
  <2>1. CASE i <= n
    BY <1>0, <2>1
  <2>2. CASE i > n
    <3>1. i \in Int /\ i + 1 \in DOMAIN q /\ i + 1 # n + 1
      BY SMTT(30), <1>0, <2>2
    <3>2. from(i + 1) = i
      BY SMTT(30), <1>0, <2>2, <3>1
    <3> QED BY <3>1, <3>2
  <2> QED BY SMTT(30), <1>0, <2>1, <2>2
<1> HIDE DEF from
<1>5. \A i \in DOMAIN queue : queue[i].id # t.id
  <2>1. \A e \in enqueued : e.id \in Nat /\ e.id <= Cardinality(enqueued)
    BY SMTT(30), EntryFields DEF QueueInv, QueueTypes, QueueShape
  <2>2. Cardinality(enqueued) \in Nat
    BY SMTT(30), FS_CardinalityType DEF QueueInv, QueueTypes
  <2>3. \A i \in DOMAIN queue : queue[i] \in enqueued
    BY SMTT(30) DEF QueueInv, QueueShape, Elements
  <2> QED BY SMTT(30), <2>1, <2>2, <2>3
<1>6. Distinct(q)
  BY SMTT(30), <1>1, <1>2, <1>5 DEF Distinct, QueueInv, QueueShape
<1>7. InOrder(q)
  <2> SUFFICES ASSUME NEW i \in DOMAIN q, NEW j \in DOMAIN q, i < j PROVE NotAfter(q[i], q[j])
    BY SMTT(30) DEF InOrder
  <2>1. CASE i # n + 1 /\ j # n + 1
    BY SMTT(30), <1>1, <1>2, <2>1 DEF InOrder, QueueInv, QueueShape
  <2>2. CASE i = n + 1
    BY SMTT(30), <1>0, <1>1, <1>3, <2>2
  <2>3. CASE j = n + 1
    BY SMTT(30), <1>0, <1>1, <1>3, <2>3
  <2> QED BY SMTT(30), <2>1, <2>2, <2>3
<1>8. Elements(q) = Elements(queue) \cup {t}
  <2>1. ASSUME NEW i \in DOMAIN q PROVE q[i] \in Elements(queue) \cup {t}
    BY SMTT(30), <1>1 DEF Elements
  <2>2. ASSUME NEW i \in DOMAIN queue PROVE queue[i] \in Elements(q)
    <3>1. PICK j \in DOMAIN q : j # n + 1 /\ from(j) = i
      BY <1>4
    <3> QED BY <1>1, <3>1 DEF Elements
  <2>3. t \in Elements(q)
    BY <1>0 DEF Elements
  <2> QED BY SMTT(30), <2>1, <2>2, <2>3 DEF Elements
<1> QED BY SMTT(30), <1>6, <1>7, <1>8

\* A list in the next state.
LEMMA NextList ==
    ASSUME algorithm' = algorithm, NEW q, queue' = q, Distinct(q), InOrder(q)
    PROVE  Distinct(queue)' /\ InOrder(queue)' /\ Elements(queue)' = Elements(q)
<1>1. Distinct(queue)' /\ Elements(queue)' = Elements(q)
  BY Zenon DEF Distinct, Elements
<1>2. InOrder(queue)'
  BY Zenon DEF InOrder, NotAfter
<1> QED BY <1>1, <1>2

\* Appending keeps the order in which tasks came, and sorting that of durations.
LEMMA enqueueKeeps ==
    ASSUME QueueInv, NEW t \in QueueEntry, t.submitted = instant, enqueue(t)
    PROVE  QueueInv' /\ \A s : s \in InQueue' <=> s \in InQueue \/ s = t
<1>0. /\ Len(queue) \in Nat /\ DOMAIN queue = 1..Len(queue)
      /\ \A i \in DOMAIN queue : queue[i] \in QueueEntry
      /\ \A i \in DOMAIN queue : queue[i] \in enqueued
  <2>1. \A i \in DOMAIN queue : queue[i] \in enqueued
    BY DEF QueueInv, QueueShape, Elements
  <2> QED BY <2>1 DEF QueueInv, QueueTypes
<1>1. Cardinality(enqueued) \in Nat
  BY FS_CardinalityType DEF QueueInv, QueueTypes
<1>2. /\ algorithm' = algorithm /\ index' = index /\ instant' = instant /\ running' = running
      /\ t.id = Cardinality(enqueued) + 1 /\ enqueued' = enqueued \cup {t} /\ turns' = NoTurns
  BY SMTT(30) DEF enqueue
<1>3. \A i \in DOMAIN queue : queue[i].submitted <= t.submitted
  BY <1>0 DEF QueueInv, QueueShape
<1>4. /\ enqueued' \in SUBSET QueueEntry /\ IsFiniteSet(enqueued')
      /\ \A s \in enqueued' : s.id <= Cardinality(enqueued') /\ s.submitted <= instant'
  <2>1. t \notin enqueued
    BY <1>1, <1>2, EntryFields DEF QueueInv, QueueShape
  <2>2. IsFiniteSet(enqueued') /\ Cardinality(enqueued') = Cardinality(enqueued) + 1
    BY <1>2, <2>1, FS_AddElement DEF QueueInv, QueueTypes
  <2>3. \A s \in enqueued : s.id \in Nat /\ s.id <= Cardinality(enqueued) /\ s.submitted <= instant
    BY EntryFields DEF QueueInv, QueueTypes, QueueShape
  <2>4. t.submitted <= instant
    BY EntryFields
  <2>5. enqueued' \in SUBSET QueueEntry
    BY <1>2 DEF QueueInv, QueueTypes
  <2>6. ASSUME NEW s \in enqueued' PROVE s.id <= Cardinality(enqueued') /\ s.submitted <= instant'
    <3>1. CASE s \in enqueued
      BY SMTT(30), <1>1, <1>2, <2>2, <2>3, <3>1
    <3>2. CASE s = t
      BY <1>1, <1>2, <2>2, <2>4, <3>2
    <3> QED BY <1>2, <3>1, <3>2
  <2> QED BY SMTT(30), <2>2, <2>5, <2>6
<1>5. turns' \in [QueuedTask -> Nat]
  BY <1>2 DEF NoTurns
<1>6. CASE algorithm = "mlfq"
  <2>1. levels' = [levels EXCEPT ![t.priority] = @ \cup {t}] /\ queue' = queue
    BY <1>6 DEF enqueue
  <2>2. /\ levels' \in [Level -> SUBSET QueueEntry] /\ t.priority \in Level
        /\ \A l \in Level : levels'[l] = IF l = t.priority THEN levels[l] \cup {t} ELSE levels[l]
    BY Zenon, <2>1, EntryFields DEF QueueInv, QueueTypes
  <2>3. QueueTypes'
    BY <1>2, <1>4, <1>5, <2>1, <2>2 DEF QueueInv, QueueTypes
  <2>4. Distinct(queue)' /\ InOrder(queue)' /\ Elements(queue)' = Elements(queue)
    BY <1>2, <2>1, NextList DEF QueueInv, QueueShape
  <2>5. QueueShape'
    BY Zenon, <1>2, <1>4, <1>6, <2>1, <2>2, <2>4 DEF QueueInv, QueueShape
  <2>6. \A s : (\E l \in Level : s \in levels'[l]) <=> (\E l \in Level : s \in levels[l]) \/ s = t
    BY Zenon, <2>2
  <2>7. \A s : s \in InQueue' <=> s \in Elements(queue)' \/ \E l \in Level : s \in levels'[l]
    <3>1. InQueue' = (UNION {levels'[l] : l \in Level}) \cup Elements(queue)'
      BY Zenon DEF InQueue, Elements
    <3> QED BY Zenon, <3>1
  <2> QED BY Zenon, <2>3, <2>4, <2>5, <2>6, <2>7, InQueueIs DEF QueueInv
<1>7. CASE algorithm # "mlfq"
  <2>1. levels' = levels
    BY <1>7 DEF enqueue
  <2>2. \E n \in 0..Len(queue) :
          queue' \in Seq(QueueEntry) /\ Inserted(queue', queue, n, t) /\ Fits(t, n)
    <3>1. CASE algorithm # "sjf"
      <4>1. queue' = Append(queue, t)
        BY <1>7, <3>1 DEF enqueue
      <4> DEFINE E == QueueEntry
      <4> HIDE DEF E
      <4>2. queue \in Seq(E) /\ t \in E
        BY DEF E, QueueInv, QueueTypes
      <4>3. /\ queue' \in Seq(E) /\ Len(queue') = Len(queue) + 1
            /\ \A i \in 1..Len(queue) : queue'[i] = queue[i]
            /\ queue'[Len(queue) + 1] = t
        BY SMTT(30), <4>1, <4>2, AppendProperties
      <4>4. \A i \in 1..Len(queue) : NotAfter(queue[i], t)
        BY <1>0, <1>3, <3>1 DEF NotAfter
      <4>5. Len(queue) \in 0..Len(queue) /\ Len(queue) + 1..Len(queue) = {}
        BY <1>0
      <4> QED BY Zenon, <4>3, <4>4, <4>5 DEF E, Inserted, Fits
    <3>2. CASE algorithm = "sjf"
      <4> DEFINE T == {i \in DOMAIN queue : queue[i].duration <= t.duration}
      <4>1. PICK n \in 0..Len(queue) : T = 1..n
        <5>1. CASE T = {}
          <6>1. 1..0 = {} /\ 0 \in 0..Len(queue)
            BY <1>0
          <6> QED BY <5>1, <6>1
        <5>2. CASE T # {}
          <6>1. T \subseteq 1..Len(queue)
            BY <1>0
          <6>2. PICK m \in T : \A i \in T : i <= m
            BY Zenon, <1>0, <5>2, <6>1, Greatest
          <6>3. ASSUME NEW i \in 1..m PROVE i \in T
            <7>1. i \in DOMAIN queue /\ m \in DOMAIN queue /\ (i = m \/ i < m)
              BY <1>0, <6>1, <6>2
            <7>2. i < m => queue[i].duration <= queue[m].duration
              BY SMTT(30), <1>0, <3>2, <7>1, EntryFields DEF QueueInv, QueueShape, InOrder, NotAfter
            <7>3. /\ queue[i].duration \in Nat /\ queue[m].duration \in Nat /\ t.duration \in Nat
                  /\ queue[m].duration <= t.duration
              BY SMTT(30), <1>0, <6>2, <7>1, EntryFields
            <7> QED BY <7>1, <7>2, <7>3
          <6>4. m \in 0..Len(queue) /\ \A i \in T : i \in 1..m
            BY <1>0, <6>1, <6>2
          <6> QED BY <6>3, <6>4
        <5> QED BY <5>1, <5>2
      <4>2. Cardinality(T) = n
        <5>1. Cardinality(1..n) = n
          BY <1>0, FS_Interval
        <5> QED BY Zenon, <4>1, <5>1
      <4>3. queue' = SubSeq(queue, 1, n) \o <<t>> \o SubSeq(queue, n + 1, Len(queue))
        BY <3>2, <4>2, Zenon DEF enqueue, SortedIn
      <4> DEFINE E == QueueEntry
      <4> HIDE DEF E
      <4>4. queue \in Seq(E) /\ t \in E
        BY DEF E, QueueInv, QueueTypes
      <4>5. queue' \in Seq(E) /\ Inserted(queue', queue, n, t)
        <5>1. LET r == SubSeq(queue, 1, n) \o <<t>> \o SubSeq(queue, n + 1, Len(queue))
              IN  r \in Seq(E) /\ Inserted(r, queue, n, t)
          BY Zenon, <4>4, InsertedAt
        <5> QED BY Zenon, <4>3, <5>1
      <4>6. ASSUME NEW i \in 1..n PROVE NotAfter(queue[i], t)
        <5>1. i \in DOMAIN queue /\ queue[i].duration <= t.duration
          BY <4>1
        <5>2. queue[i].duration \in Nat /\ t.duration \in Nat
          BY SMTT(30), <1>0, <5>1, EntryFields
        <5> QED BY SMTT(30), <1>3, <3>2, <5>1, <5>2 DEF NotAfter
      <4>7. ASSUME NEW i \in n + 1..Len(queue) PROVE NotAfter(t, queue[i])
        <5>1. i \in DOMAIN queue /\ i \notin T
          BY <1>0, <4>1
        <5>2. queue[i].duration \in Nat /\ t.duration \in Nat
          BY <1>0, <5>1, EntryFields
        <5> QED BY SMTT(30), <3>2, <5>1, <5>2 DEF NotAfter
      <4>8. Fits(t, n)
        BY Zenon, <4>6, <4>7 DEF Fits
      <4> QED BY Zenon, <4>5, <4>8 DEF E
    <3> QED BY <3>1, <3>2
  <2>3. Distinct(queue)' /\ InOrder(queue)' /\ Elements(queue)' = Elements(queue) \cup {t} /\ queue' \in Seq(QueueEntry)
    <3>2. PICK q : queue' = q
      OBVIOUS
    <3>1. PICK n \in 0..Len(queue) :
          q \in Seq(QueueEntry) /\ Inserted(q, queue, n, t) /\ Fits(t, n)
      BY Zenon, <2>2, <3>2
    <3>3. Distinct(q) /\ InOrder(q) /\ Elements(q) = Elements(queue) \cup {t}
      BY Zenon, <1>2, <3>1, WithOneMore
    <3> QED BY Zenon, <1>2, <3>1, <3>2, <3>3, NextList
  <2>4. QueueTypes'
    BY SMTT(30), <1>2, <1>4, <1>5, <2>1, <2>3 DEF QueueInv, QueueTypes
  <2>5. QueueShape'
    BY Zenon, <1>2, <1>4, <1>7, <2>1, <2>3 DEF QueueInv, QueueShape
  <2>6. \A s : s \in InQueue' <=> s \in Elements(queue)' \/ \E l \in Level : s \in levels'[l]
    <3>1. InQueue' = (UNION {levels'[l] : l \in Level}) \cup Elements(queue)'
      BY Zenon DEF InQueue, Elements
    <3> QED BY Zenon, <3>1
  <2> QED BY Zenon, <2>1, <2>3, <2>4, <2>5, <2>6, InQueueIs DEF QueueInv
<1> QED BY <1>6, <1>7

\* What is in the queue after a step.
LEMMA InQueueNext ==
    \A s : s \in InQueue' <=> s \in Elements(queue)' \/ \E l \in Level : s \in levels'[l]
<1>1. InQueue' = (UNION {levels'[l] : l \in Level}) \cup Elements(queue)'
  BY Zenon DEF InQueue, Elements
<1> QED BY Zenon, <1>1

\* A step that takes the k-th task off the list.
LEMMA RemovalKeeps ==
    ASSUME QueueInv, NEW k \in DOMAIN queue, queue' \in Seq(QueueEntry), Without(queue', queue, k),
           algorithm # "mlfq", running' \in SUBSET QueueEntry, turns' \in [QueuedTask -> Nat],
           UNCHANGED <<algorithm, enqueued, levels, index, instant>>
    PROVE  QueueInv' /\ \A s : s \in InQueue' <=> s \in InQueue /\ s # queue[k]
<1>1. PICK q : queue' = q
  OBVIOUS
<1>2. Distinct(q) /\ InOrder(q) /\ Elements(q) = Elements(queue) \ {queue[k]}
  BY Zenon, <1>1, WithoutOne
<1>3. algorithm' = algorithm /\ levels' = levels /\ enqueued' = enqueued /\ index' = index /\ instant' = instant
  OBVIOUS
<1>4. Distinct(queue)' /\ InOrder(queue)' /\ Elements(queue)' = Elements(queue) \ {queue[k]}
  BY Zenon, <1>1, <1>2, <1>3, NextList
<1>5. QueueTypes'
  BY SMTT(30), <1>3 DEF QueueInv, QueueTypes
<1>6. QueueShape'
  BY SMTT(30), <1>3, <1>4 DEF QueueInv, QueueShape
<1>7. \A l \in Level : levels[l] = {}
  BY DEF QueueInv, QueueShape
<1>8. \A s : s \in InQueue <=> s \in Elements(queue)
  BY Zenon, <1>7, InQueueIs
<1>9. \A s : s \in InQueue' <=> s \in Elements(queue)'
  BY Zenon, <1>3, <1>7, InQueueNext
<1> QED BY Zenon, <1>4, <1>5, <1>6, <1>8, <1>9 DEF QueueInv

\* pop(0).
LEMMA DequeueFirstKeeps ==
    ASSUME QueueInv, DequeueFirst
    PROVE  /\ QueueInv' /\ 1 \in DOMAIN queue /\ running' = running \cup {queue[1]}
           /\ \A s : s \in InQueue' <=> s \in InQueue /\ s # queue[1]
<1> DEFINE E == QueueEntry
<1>1. queue \in Seq(E) /\ queue # <<>> /\ queue' = Tail(queue) /\ running' = running \cup {Head(queue)}
  BY DEF DequeueFirst, QueueInv, QueueTypes
<1>2. /\ algorithm # "mlfq" /\ turns' \in [QueuedTask -> Nat] /\ running \in SUBSET QueueEntry
      /\ UNCHANGED <<algorithm, enqueued, levels, index, instant>>
  BY DEF DequeueFirst, QueueInv, QueueTypes
<1> HIDE DEF E
<1>3. 1 \in DOMAIN queue /\ Head(queue) = queue[1] /\ queue[1] \in E
  BY <1>1
<1>4. queue' \in Seq(E)
  BY <1>1
<1>5. Without(queue', queue, 1)
  BY <1>1 DEF Without
<1>6. running' \in SUBSET QueueEntry
  BY <1>1, <1>2, <1>3 DEF E
<1>7. QueueInv' /\ \A s : s \in InQueue' <=> s \in InQueue /\ s # queue[1]
  BY <1>2, <1>3, <1>4, <1>5, <1>6, RemovalKeeps, Zenon DEF E
<1> QED BY <1>1, <1>3, <1>7

\* list.remove takes the first that is equal.
LEMMA completeKeeps ==
    ASSUME QueueInv, NEW t \in InQueue, complete(t)
    PROVE  /\ QueueInv' /\ t \in QueueEntry
           /\ \E k \in DOMAIN queue : Equal(queue[k], t) /\ \A s : s \in InQueue' <=> s \in InQueue /\ s # queue[k]
<1> DEFINE equal == {i \in DOMAIN queue : Equal(queue[i], t)}
           first == CHOOSE i \in equal : \A j \in equal : i <= j
           E == QueueEntry
<1>1. /\ queue \in Seq(E) /\ algorithm = "rr" /\ turns' = NoTurns
      /\ running' = running \cup {t} /\ running \in SUBSET QueueEntry
      /\ UNCHANGED <<algorithm, enqueued, levels, index, instant>>
  BY DEF complete, QueueInv, QueueTypes
<1>2. queue' = SubSeq(queue, 1, first - 1) \o SubSeq(queue, first + 1, Len(queue))
  BY Zenon DEF complete
<1> HIDE DEF E
<1>3. PICK m \in DOMAIN queue : queue[m] = t
  <2>1. t \in Elements(queue)
    BY <1>1, InQueueIs DEF QueueInv, QueueShape
  <2> QED BY SMTT(30), <2>1 DEF Elements
<1>4. t \in QueueEntry
  BY <1>1, <1>3 DEF E
<1>5. first \in equal
  <2>1. m \in equal
    BY <1>3 DEF Equal
  <2>2. equal \subseteq Nat
    BY <1>1
  <2>3. \E i \in equal : \A j \in equal : i <= j
    BY Zenon, <2>1, <2>2, Least
  <2> QED BY Zenon, <2>3
<1> DEFINE k == first
<1>6. k \in DOMAIN queue /\ k \in 1..Len(queue) /\ Equal(queue[k], t)
  BY <1>1, <1>5
<1>7. queue' = SubSeq(queue, 1, k - 1) \o SubSeq(queue, k + 1, Len(queue))
  BY <1>2
<1> HIDE DEF k, equal, first
<1>8. queue' \in Seq(E) /\ Without(queue', queue, k)
  <2>1. LET r == SubSeq(queue, 1, k - 1) \o SubSeq(queue, k + 1, Len(queue))
        IN  r \in Seq(E) /\ Without(r, queue, k)
    BY Zenon, <1>1, <1>6, RemovedAt
  <2> QED BY Zenon, <1>7, <2>1
<1>9. turns' \in [QueuedTask -> Nat] /\ running' \in SUBSET QueueEntry /\ algorithm # "mlfq"
  BY <1>1, <1>4 DEF NoTurns
<1>10. PICK n : n = k
  OBVIOUS
<1>11. QueueInv' /\ \A s : s \in InQueue' <=> s \in InQueue /\ s # queue[n]
  BY <1>1, <1>6, <1>8, <1>9, <1>10, RemovalKeeps, Zenon DEF E
<1> QED BY Zenon, <1>4, <1>6, <1>10, <1>11

\* heappop: the task was on one level only.
LEMMA DequeueLevelKeeps ==
    ASSUME QueueInv, NEW l \in Level, NEW t \in InQueue, DequeueLevel(l, t)
    PROVE  /\ QueueInv' /\ t \in QueueEntry /\ algorithm = "mlfq"
           /\ \A s : s \in InQueue' <=> s \in InQueue /\ s # t
<1>1. /\ levels' = [levels EXCEPT ![l] = @ \ {t}] /\ running' = running \cup {t} /\ t \in levels[l]
      /\ UNCHANGED <<algorithm, enqueued, queue, index, instant, turns>>
  BY SMTT(30) DEF DequeueLevel
<1>2. algorithm = "mlfq"
  BY <1>1 DEF QueueInv, QueueShape
<1>3. /\ levels' \in [Level -> SUBSET QueueEntry] /\ t \in QueueEntry
      /\ \A k \in Level : levels'[k] = IF k = l THEN levels[k] \ {t} ELSE levels[k]
  BY ZenonT(30), <1>1 DEF QueueInv, QueueTypes
<1>4. QueueTypes'
  BY <1>1, <1>3 DEF QueueInv, QueueTypes
<1>5. Distinct(queue)' /\ InOrder(queue)' /\ Elements(queue)' = Elements(queue)
  BY <1>1, NextList DEF QueueInv, QueueShape
<1>6. QueueShape'
  BY <1>1, <1>2, <1>3, <1>5 DEF QueueInv, QueueShape
<1>7. \A k \in Level : t \in levels[k] => k = l
  BY <1>1 DEF QueueInv, QueueShape
<1>8. \A s : (\E k \in Level : s \in levels'[k]) <=> (\E k \in Level : s \in levels[k]) /\ s # t
  BY Zenon, <1>3, <1>7
<1>9. Elements(queue) = {}
  BY <1>2 DEF QueueInv, QueueShape, Elements
<1> QED BY ZenonT(30), <1>2, <1>3, <1>4, <1>5, <1>6, <1>8, <1>9, InQueueIs, InQueueNext DEF QueueInv

\* The task comes back on the level of its new priority.
LEMMA DemotionKeeps ==
    ASSUME QueueInv, NEW t \in running, demote(t)
    PROVE  /\ QueueInv' /\ algorithm = "mlfq" /\ running' = running \ {t}
           /\ \E e \in QueueEntry : e.id = t.id /\ \A s : s \in InQueue' <=> s \in InQueue \/ s = e
<1> DEFINE low == IF t.priority + 1 < Levels THEN t.priority + 1 ELSE Levels - 1
           e == [t EXCEPT !.priority = low]
<1>1. /\ levels' = [levels EXCEPT ![low] = @ \cup {e}] /\ running' = running \ {t} /\ algorithm = "mlfq"
      /\ UNCHANGED <<algorithm, enqueued, queue, index, instant, turns>>
  BY DEF demote
<1>2. t \in QueueEntry
  BY DEF QueueInv, QueueTypes
<1>3. low \in Level
  BY <1>2, EntryFields, QueuesAssumption DEF Level
<1> HIDE DEF low
<1>4. e \in QueueEntry /\ e.id = t.id /\ e.priority = low
  BY <1>2, <1>3 DEF QueueEntry
<1> HIDE DEF e
<1>5. /\ levels' \in [Level -> SUBSET QueueEntry]
      /\ \A k \in Level : levels'[k] = IF k = low THEN levels[k] \cup {e} ELSE levels[k]
  BY ZenonT(30), <1>1, <1>3, <1>4 DEF QueueInv, QueueTypes
<1>6. QueueTypes'
  BY <1>1, <1>5 DEF QueueInv, QueueTypes
<1>7. Distinct(queue)' /\ InOrder(queue)' /\ Elements(queue)' = Elements(queue)
  BY <1>1, NextList DEF QueueInv, QueueShape
<1>8. QueueShape'
  BY <1>1, <1>4, <1>5, <1>7 DEF QueueInv, QueueShape
<1>9. \A s : (\E k \in Level : s \in levels'[k]) <=> (\E k \in Level : s \in levels[k]) \/ s = e
  BY Zenon, <1>3, <1>5
<1>10. \A s : s \in InQueue' <=> s \in InQueue \/ s = e
  BY Zenon, <1>7, <1>9, InQueueIs, InQueueNext
<1> QED BY Zenon, <1>1, <1>4, <1>6, <1>8, <1>10 DEF QueueInv

\* A step that leaves the queue alone.
LEMMA QuietKeeps ==
    ASSUME QueueInv, UNCHANGED <<algorithm, enqueued, levels, queue, running>>,
           index' \in Nat, instant' \in Nat, instant' >= instant, turns' \in [QueuedTask -> Nat]
    PROVE  QueueInv' /\ InQueue' = InQueue
<1>1. algorithm' = algorithm /\ enqueued' = enqueued /\ levels' = levels /\ queue' = queue /\ running' = running
  OBVIOUS
<1>2. InQueue' = InQueue
  BY Zenon, <1>1 DEF InQueue
<1>3. QueueTypes'
  BY SMTT(30), <1>1 DEF QueueInv, QueueTypes
<1>4. Distinct(queue)' /\ InOrder(queue)' /\ Elements(queue)' = Elements(queue)
  BY <1>1, NextList DEF QueueInv, QueueShape
<1>5. \A t \in enqueued : t.submitted \in Nat
  BY EntryFields DEF QueueInv, QueueTypes
<1>6. QueueShape'
  BY <1>1, <1>4, <1>5 DEF QueueInv, QueueTypes, QueueShape
<1> QED BY <1>2, <1>3, <1>6 DEF QueueInv

\* next_task and time.
LEMMA QuietSteps ==
    ASSUME QueueInv, next_task \/ TimePasses \/ UNCHANGED queueVars
    PROVE  /\ QueueInv' /\ InQueue' = InQueue /\ running' = running /\ enqueued' = enqueued
           /\ algorithm' = algorithm /\ queue' = queue
<1>1. UNCHANGED <<algorithm, enqueued, levels, queue, running>>
  BY DEF next_task, TimePasses, queueVars
<1>2. index' \in Nat /\ instant' \in Nat /\ instant' >= instant
  BY DEF next_task, TimePasses, queueVars, QueueInv, QueueTypes
<1>3. turns' \in [QueuedTask -> Nat]
  <2>1. CASE next_task
    <3>1. \E d : d = queue[(index % Len(queue)) + 1].id
      BY Zenon
    <3>1a. PICK d : d = queue[(index % Len(queue)) + 1].id
      BY Zenon, <3>1
    <3>2. turns' = [turns EXCEPT ![d] = @ + 1]
      BY <2>1, <3>1a, Zenon DEF next_task
    <3>3. turns \in [QueuedTask -> Nat]
      BY DEF QueueInv, QueueTypes
    <3>4. CASE d \in QueuedTask
      BY <3>2, <3>3, <3>4
    <3>5. CASE d \notin QueuedTask
      BY Zenon, <3>2, <3>3, <3>5
    <3> QED BY <3>4, <3>5
  <2>2. CASE ~next_task
    BY <2>2 DEF TimePasses, queueVars, QueueInv, QueueTypes
  <2> QED BY <2>1, <2>2
<1>4. QueueInv' /\ InQueue' = InQueue
  BY <1>1, <1>2, <1>3, QuietKeeps, Zenon
<1> QED BY <1>1, <1>4

\* The queues are in order at the start.
LEMMA QueueInvInit ==
    ASSUME QueuesInit PROVE QueueInv
<1>1. QueueTypes
  <2>1. levels \in [Level -> SUBSET QueueEntry] /\ turns \in [QueuedTask -> Nat]
    BY DEF QueuesInit, NoTurns
  <2>2. enqueued \in SUBSET QueueEntry /\ IsFiniteSet(enqueued) /\ running \in SUBSET QueueEntry
    BY FS_EmptySet DEF QueuesInit
  <2>3. index \in Nat /\ instant \in Nat /\ queue \in Seq(QueueEntry) /\ algorithm \in {"mlfq", "sjf", "fifo", "rr"}
    BY DEF QueuesInit
  <2> QED BY <2>1, <2>2, <2>3 DEF QueueTypes
<1>2. Elements(queue) = {} /\ Distinct(queue) /\ InOrder(queue)
  BY DEF QueuesInit, Elements, Distinct, InOrder
<1>3. QueueShape
  BY <1>2 DEF QueuesInit, QueueShape
<1> QED BY <1>1, <1>3 DEF QueueInv

\* Every operation leaves the queues in order.
LEMMA QueueInvStep ==
    ASSUME QueueInv, [QueuesNext]_queueVars PROVE QueueInv'
<1>1. ASSUME NEW t \in QueueEntry, t.submitted = instant, enqueue(t) PROVE QueueInv'
  BY Zenon, <1>1, enqueueKeeps
<1>2. ASSUME NEW l \in Level, NEW t \in InQueue, DequeueLevel(l, t) PROVE QueueInv'
  BY Zenon, <1>2, DequeueLevelKeeps
<1>3. ASSUME NEW t \in running, demote(t) PROVE QueueInv'
  BY Zenon, <1>3, DemotionKeeps
<1>4. ASSUME NEW t \in InQueue, complete(t) PROVE QueueInv'
  BY Zenon, <1>4, completeKeeps
<1>5. CASE DequeueFirst
  BY Zenon, <1>5, DequeueFirstKeeps
<1>6. CASE next_task \/ TimePasses \/ UNCHANGED queueVars
  BY Zenon, <1>6, QuietSteps
<1> QED BY Zenon, <1>1, <1>2, <1>3, <1>4, <1>5, <1>6 DEF QueuesNext

\* Always, the queues have their types and their lists are in order.
LEMMA QueueInvariance == QueuesSpec => []QueueInv
BY QueueInvInit, QueueInvStep, PTL DEF QueuesSpec

-----------------------------------------------------------------------------
\* MLFQueue.dequeue, SJFScheduler.dequeue and FIFOScheduler.dequeue never pass
\* over a task that has to come first, for any number of levels and tasks.
THEOREM MostUrgentIsFirst == QueuesSpec => MostUrgentFirst
<1> DEFINE Ok == \A t \in running' \ running : \A s \in InQueue : ~MustPrecede(s, t)
<1>1. ASSUME QueueInv, [QueuesNext]_queueVars PROVE Ok \/ UNCHANGED queueVars
  <2>1. ASSUME NEW t \in QueueEntry, t.submitted = instant, enqueue(t) PROVE Ok
    BY <2>1 DEF enqueue
  <2>2. ASSUME NEW l \in Level, NEW t \in InQueue, DequeueLevel(l, t) PROVE Ok
    <3>1. algorithm = "mlfq" /\ t \in QueueEntry
      BY Zenon, <1>1, <2>2, DequeueLevelKeeps
    <3>2. \A s : s \in InQueue => \E k \in Level : s \in levels[k]
      BY <1>1, <3>1, InQueueIs DEF QueueInv, QueueShape, Elements
    <3>3. ASSUME NEW s \in InQueue PROVE ~Before(s, t)
      <4>1. PICK k \in Level : s \in levels[k]
        BY <3>2
      <4>2. s.priority = k /\ t.priority = l /\ k \in Int /\ l \in Int /\ ~(k < l)
        BY <1>1, <2>2, <4>1 DEF QueueInv, QueueShape, DequeueLevel, Level
      <4>3. k = l => ~Before(s, t)
        BY <2>2, <4>1 DEF DequeueLevel
      <4> QED BY <4>2, <4>3 DEF Before
    <3>4. running' \ running \subseteq {t}
      BY <2>2 DEF DequeueLevel
    <3>5. \A s \in InQueue : ~MustPrecede(s, t)
      BY <3>1, <3>3 DEF MustPrecede
    <3> QED BY Zenon, <3>4, <3>5
  <2>3. CASE DequeueFirst
    <3>1. 1 \in DOMAIN queue /\ running' = running \cup {queue[1]} /\ algorithm \in {"sjf", "fifo"}
      BY <1>1, <2>3, DequeueFirstKeeps DEF DequeueFirst
    <3>2. ASSUME NEW s \in InQueue PROVE ~MustPrecede(s, queue[1])
      <4>1. PICK j \in DOMAIN queue : s = queue[j]
        <5>1. s \in Elements(queue)
          BY <1>1, <3>1, InQueueIs DEF QueueInv, QueueShape
        <5> QED BY <5>1 DEF Elements
      <4>2. j = 1 \/ 1 < j
        BY <1>1 DEF QueueInv, QueueTypes
      <4>3. j = 1 \/ NotAfter(queue[1], s)
        BY SMTT(30), <1>1, <3>1, <4>1, <4>2 DEF QueueInv, QueueShape, InOrder
      <4>4. s \in QueueEntry /\ queue[1] \in QueueEntry
        BY <1>1, <3>1, <4>1 DEF QueueInv, QueueTypes
      <4>5. /\ s.submitted \in Nat /\ s.duration \in Nat
            /\ queue[1].submitted \in Nat /\ queue[1].duration \in Nat
        BY <4>4, EntryFields
      <4> QED BY <3>1, <4>1, <4>3, <4>5 DEF NotAfter, MustPrecede
    <3> QED BY <3>1, <3>2
  <2>4. ASSUME NEW t \in running, demote(t) PROVE Ok
    BY <2>4 DEF demote
  <2>5. ASSUME NEW t \in InQueue, complete(t) PROVE Ok
    BY <2>5 DEF complete, MustPrecede
  <2>6. CASE next_task \/ TimePasses
    BY <2>6 DEF next_task, TimePasses
  <2> HIDE DEF Ok
  <2> QED BY Zenon, <1>1, <2>1, <2>2, <2>3, <2>4, <2>5, <2>6 DEF QueuesNext
<1>2. QueueInv /\ [QueuesNext]_queueVars => [Ok]_queueVars
  BY Zenon, <1>1
<1> QED BY <1>2, QueueInvariance, PTL DEF QueuesSpec, MostUrgentFirst

-----------------------------------------------------------------------------
\* The places of tasks, by their numbers: Q in the queue, R handed out, E enqueued.
Places(Q, R, E) ==
    /\ \A s \in Q, t \in R : s.id # t.id
    /\ \A s, t \in Q : s.id = t.id => s = t
    /\ \A s, t \in R : s.id = t.id => s = t
    /\ \A n : (\E s \in Q \cup R : s.id = n) <=> (\E s \in E : s.id = n)

NoTwins == \A s, t \in enqueued : Equal(s, t) => s = t
PlacesInv == NoTwins => Places(InQueue, running, enqueued)

\* A task is enqueued, handed out, or comes back under its number.
LEMMA PlacesMove ==
    ASSUME NEW Q, NEW R, NEW E, Places(Q, R, E), NEW Q1
    PROVE  /\ \A t : (\A s \in E : s.id # t.id) /\ (\A s : s \in Q1 <=> s \in Q \/ s = t) => Places(Q1, R, E \cup {t})
           /\ \A t \in Q : (\A s : s \in Q1 <=> s \in Q /\ s # t) => Places(Q1, R \cup {t}, E)
           /\ \A t \in R : \A e : e.id = t.id /\ (\A s : s \in Q1 <=> s \in Q \/ s = e) => Places(Q1, R \ {t}, E)
<1> USE DEF Places
<1>1. ASSUME NEW t, \A s \in E : s.id # t.id, \A s : s \in Q1 <=> s \in Q \/ s = t
      PROVE  Places(Q1, R, E \cup {t})
  <2>1. \A s \in Q \cup R : s.id # t.id
    BY Zenon, <1>1
  <2> QED BY ZenonT(30), <1>1, <2>1
<1>2. ASSUME NEW t \in Q, \A s : s \in Q1 <=> s \in Q /\ s # t
      PROVE  Places(Q1, R \cup {t}, E)
  <2>1. \A n : (\E s \in Q1 \cup (R \cup {t}) : s.id = n) <=> (\E s \in Q \cup R : s.id = n)
    BY ZenonT(30), <1>2
  <2>2. \A s \in Q1, r \in R \cup {t} : s.id # r.id
    BY ZenonT(30), <1>2
  <2>3. \A s, r \in R \cup {t} : s.id = r.id => s = r
    BY ZenonT(30), <1>2
  <2> QED BY ZenonT(30), <1>2, <2>1, <2>2, <2>3
<1>3. ASSUME NEW t \in R, NEW e, e.id = t.id, \A s : s \in Q1 <=> s \in Q \/ s = e
      PROVE  Places(Q1, R \ {t}, E)
  <2>1. \A n : (\E s \in Q1 \cup (R \ {t}) : s.id = n) <=> (\E s \in Q \cup R : s.id = n)
    BY ZenonT(30), <1>3
  <2>2. \A s \in Q1, r \in R \ {t} : s.id # r.id
    BY ZenonT(30), <1>3
  <2>3. \A s, r \in Q1 : s.id = r.id => s = r
    BY ZenonT(30), <1>3
  <2> QED BY ZenonT(30), <1>3, <2>1, <2>2, <2>3
<1> HIDE DEF Places
<1> QED BY Zenon, <1>1, <1>2, <1>3

\* Every operation leaves each task in the one place it belongs to.
LEMMA PlacesStep ==
    ASSUME QueueInv, PlacesInv, [QueuesNext]_queueVars PROVE PlacesInv'
<1> DEFINE Goal == Places(InQueue', running', enqueued')
<1>0. SUFFICES ASSUME NoTwins' PROVE Goal
  BY Zenon DEF PlacesInv
<1> HIDE DEF Goal
<1>1. enqueued \subseteq enqueued'
  BY DEF QueuesNext, queueVars, enqueue, DequeueLevel, DequeueFirst, demote, complete, next_task, TimePasses
<1>2. NoTwins
  BY Zenon, <1>0, <1>1 DEF NoTwins, Equal
<1>3. Places(InQueue, running, enqueued)
  BY Zenon, <1>2 DEF PlacesInv
<1>5. ASSUME NEW t \in QueueEntry, t.submitted = instant, enqueue(t) PROVE Goal
  <2>1. \A s : s \in InQueue' <=> s \in InQueue \/ s = t
    BY Zenon, <1>5, enqueueKeeps
  <2>2. running' = running /\ enqueued' = enqueued \cup {t} /\ t.id = Cardinality(enqueued) + 1
    BY <1>5 DEF enqueue
  <2>3. \A s \in enqueued : s.id # t.id
    <3>1. Cardinality(enqueued) \in Nat /\ \A s \in enqueued : s.id \in Nat /\ s.id <= Cardinality(enqueued)
      BY FS_CardinalityType, EntryFields DEF QueueInv, QueueTypes, QueueShape
    <3> QED BY SMTT(30), <2>2, <3>1
  <2> QED BY Zenon, <1>3, <2>1, <2>2, <2>3, PlacesMove DEF Goal
<1>6. ASSUME NEW l \in Level, NEW t \in InQueue, DequeueLevel(l, t) PROVE Goal
  <2>1. \A s : s \in InQueue' <=> s \in InQueue /\ s # t
    BY Zenon, <1>6, DequeueLevelKeeps
  <2>2. running' = running \cup {t} /\ enqueued' = enqueued
    BY <1>6 DEF DequeueLevel
  <2> QED BY Zenon, <1>3, <2>1, <2>2, PlacesMove DEF Goal
<1>7. CASE DequeueFirst
  <2>1. 1 \in DOMAIN queue /\ running' = running \cup {queue[1]} /\ \A s : s \in InQueue' <=> s \in InQueue /\ s # queue[1]
    BY Zenon, <1>7, DequeueFirstKeeps
  <2>2. enqueued' = enqueued /\ queue[1] \in InQueue
    BY <1>7, <2>1, InQueueIs DEF DequeueFirst, Elements
  <2> QED BY Zenon, <1>3, <2>1, <2>2, PlacesMove DEF Goal
<1>8. ASSUME NEW t \in running, demote(t) PROVE Goal
  <2>1. PICK e \in QueueEntry : e.id = t.id /\ \A s : s \in InQueue' <=> s \in InQueue \/ s = e
    BY Zenon, <1>8, DemotionKeeps
  <2>2. running' = running \ {t} /\ enqueued' = enqueued
    BY <1>8 DEF demote
  <2> QED BY Zenon, <1>3, <2>1, <2>2, PlacesMove DEF Goal
<1>9. ASSUME NEW t \in InQueue, complete(t) PROVE Goal
  <2>1. PICK k \in DOMAIN queue : Equal(queue[k], t) /\ \A s : s \in InQueue' <=> s \in InQueue /\ s # queue[k]
    BY Zenon, <1>9, completeKeeps
  <2>2. running' = running \cup {t} /\ enqueued' = enqueued /\ algorithm = "rr"
    BY SMTT(30), <1>9 DEF complete
  <2>3. t \in Elements(queue) /\ queue[k] \in Elements(queue)
    BY SMTT(30), <2>2, InQueueIs DEF QueueInv, QueueShape, Elements
  <2>4. queue[k] = t
    BY <1>2, <2>1, <2>3 DEF QueueInv, QueueShape, NoTwins
  <2> QED BY Zenon, <1>3, <2>1, <2>2, <2>4, PlacesMove DEF Goal
<1>10. CASE next_task \/ TimePasses \/ UNCHANGED queueVars
  <2>1. InQueue' = InQueue /\ running' = running /\ enqueued' = enqueued
    BY Zenon, <1>10, QuietSteps
  <2> QED BY Zenon, <1>3, <2>1 DEF Goal
<1> QED BY Zenon, <1>5, <1>6, <1>7, <1>8, <1>9, <1>10 DEF QueuesNext

\* Whichever class serves it, a task is either still queued or handed out, as long
\* as no two tasks compare equal: list.remove then removes the one that is meant.
THEOREM OnePlaceAlways == QueuesSpec => []OnePlace
<1>1. QueuesInit => PlacesInv
  <2> SUFFICES ASSUME QueuesInit PROVE PlacesInv
    OBVIOUS
  <2>1. \A s : s \notin InQueue
    BY InQueueIs DEF QueuesInit, Elements
  <2>2. running = {} /\ enqueued = {}
    BY DEF QueuesInit
  <2> QED BY Zenon, <2>1, <2>2 DEF PlacesInv, Places
<1>2. PlacesInv => OnePlace
  <2> SUFFICES ASSUME Places(InQueue, running, enqueued)
               PROVE  /\ Ids(InQueue) \cap Ids(running) = {}
                      /\ Ids(InQueue) \cup Ids(running) = Ids(enqueued)
    BY Zenon DEF PlacesInv, OnePlace, NoTwins
  <2>2. \A S : \A n : n \in Ids(S) <=> \E s \in S : s.id = n
    BY Zenon DEF Ids
  <2>1. ASSUME NEW n, n \in Ids(InQueue), n \in Ids(running) PROVE FALSE
    <3>1. PICK s \in InQueue : s.id = n
      BY Zenon, <2>1, <2>2
    <3>2. PICK t \in running : t.id = n
      BY Zenon, <2>1, <2>2
    <3>3. s.id # t.id
      BY Zenon DEF Places
    <3> QED BY Zenon, <3>1, <3>2, <3>3
  <2>3. \A n : n \in Ids(InQueue) \cup Ids(running) <=> \E s \in InQueue \cup running : s.id = n
    BY Zenon, <2>2
  <2>4. \A n : n \in Ids(InQueue) \cup Ids(running) <=> n \in Ids(enqueued)
    BY Zenon, <2>2, <2>3 DEF Places
  <2> QED BY Zenon, <2>1, <2>4
<1> QED BY <1>1, <1>2, PlacesStep, QueueInvariance, PTL DEF QueuesSpec

-----------------------------------------------------------------------------
\* The positions that had one turn more than the others are those from start up to
\* the position of index, around the list.
Arc(x, start, next) == IF start <= next THEN start <= x /\ x < next ELSE start <= x \/ x < next

TurnsTaken(c, start) ==
    \A i \in DOMAIN queue :
        turns[queue[i].id] = IF Arc(i - 1, start, index % Len(queue)) THEN c + 1 ELSE c

TurnsInv ==
    \/ turns = NoTurns
    \/ algorithm = "rr" /\ queue # <<>> /\ \E c \in Nat, start \in 0..Len(queue) - 1 : TurnsTaken(c, start)

\* The list is not empty.
LEMMA TurnFacts ==
    ASSUME QueueInv, queue # <<>>
    PROVE  /\ Len(queue) \in Nat \ {0} /\ DOMAIN queue = 1..Len(queue)
           /\ index \in Nat /\ index % Len(queue) \in 0..Len(queue) - 1
           /\ \A i \in DOMAIN queue : queue[i].id \in QueuedTask
<1>1. queue \in Seq(QueueEntry) /\ index \in Nat
  BY DEF QueueInv, QueueTypes
<1>2. \A i \in DOMAIN queue : queue[i].id \in QueuedTask
  BY <1>1, EntryFields
<1> DEFINE E == QueueEntry
<1> HIDE DEF E
<1>3. Len(queue) \in Nat \ {0} /\ DOMAIN queue = 1..Len(queue)
  <2>1. queue \in Seq(E)
    BY <1>1 DEF E
  <2> QED BY <2>1
<1>4. index % Len(queue) \in 0..Len(queue) - 1
  BY Zenon, <1>1, <1>3, NextRemainder
<1> QED BY SMTT(30), <1>1, <1>2, <1>3, <1>4

\* A turn extends the arc by the position whose turn it is, and closes it when it
\* comes around to its start.
LEMMA TurnStep ==
    ASSUME QueueInv, TurnsInv, next_task PROVE TurnsInv'
<1>1. /\ algorithm = "rr" /\ queue # <<>> /\ index' = index + 1 /\ queue' = queue /\ algorithm' = algorithm
      /\ turns' = [turns EXCEPT ![queue[(index % Len(queue)) + 1].id] = @ + 1]
  BY Zenon DEF next_task
<1> DEFINE L == Len(queue)
           p == index % L
           n == (index + 1) % L
<1>2. /\ L \in Nat \ {0} /\ DOMAIN queue = 1..L /\ p \in 0..L - 1
      /\ \A i \in DOMAIN queue : queue[i].id \in QueuedTask
  BY <1>1, TurnFacts
<1>3. n = IF p = L - 1 THEN 0 ELSE p + 1
  BY Zenon, <1>2, TurnFacts, <1>1, NextRemainder
<1>4. index' % Len(queue') = n /\ DOMAIN queue' = DOMAIN queue /\ Len(queue') = L
  BY Zenon, <1>1
<1>5. \A i, j \in DOMAIN queue : queue[i].id = queue[j].id => i = j
  BY DEF QueueInv, QueueShape, Distinct
<1>6. PICK c \in Nat, start \in 0..L - 1 : 
        \A i \in DOMAIN queue : turns[queue[i].id] = IF Arc(i - 1, start, p) THEN c + 1 ELSE c
  <2>1. CASE turns = NoTurns
    <3>1. \A i \in DOMAIN queue : turns[queue[i].id] = 0
      BY <1>2, <2>1 DEF NoTurns
    <3>2. \A i \in DOMAIN queue : ~Arc(i - 1, p, p)
      BY <1>2 DEF Arc
    <3>3. \A i \in DOMAIN queue : turns[queue[i].id] = IF Arc(i - 1, p, p) THEN 0 + 1 ELSE 0
      BY Zenon, <3>1, <3>2
    <3>4. 0 \in Nat
      OBVIOUS
    <3> QED BY Zenon, <1>2, <3>3, <3>4
  <2>2. CASE \E c \in Nat, start \in 0..Len(queue) - 1 : TurnsTaken(c, start)
    BY Zenon, <2>2 DEF TurnsTaken
  <2> QED BY Zenon, <2>1, <2>2 DEF TurnsInv
<1> HIDE DEF p, n, L
<1>7. p + 1 \in DOMAIN queue
  BY <1>2
<1>8. \A i \in DOMAIN queue : turns'[queue[i].id] = IF i = p + 1 THEN turns[queue[i].id] + 1 ELSE turns[queue[i].id]
  <2>1. turns' = [turns EXCEPT ![queue[p + 1].id] = @ + 1] /\ turns \in [QueuedTask -> Nat]
    BY <1>1 DEF p, L, QueueInv, QueueTypes
  <2>2. PICK d : d = queue[p + 1].id
    OBVIOUS
  <2>3. turns' = [turns EXCEPT ![d] = @ + 1] /\ d \in QueuedTask
    BY Zenon, <1>2, <1>7, <2>1, <2>2
  <2>4. \A k \in QueuedTask : turns'[k] = IF k = d THEN turns[k] + 1 ELSE turns[k]
    BY <2>1, <2>3
  <2>5. \A i \in DOMAIN queue : queue[i].id \in QueuedTask /\ (queue[i].id = d <=> i = p + 1)
    BY Zenon, <1>2, <1>5, <1>7, <2>2
  <2> QED BY Zenon, <2>4, <2>5
<1>9. CASE n # start
  <2>1. ASSUME NEW i \in DOMAIN queue PROVE Arc(i - 1, start, n) <=> Arc(i - 1, start, p) \/ i = p + 1
    BY <1>2, <1>3, <1>9 DEF Arc
  <2>3. ASSUME NEW i \in DOMAIN queue PROVE turns'[queue[i].id] = IF Arc(i - 1, start, n) THEN c + 1 ELSE c
    <3>1. turns[queue[i].id] = IF Arc(i - 1, start, p) THEN c + 1 ELSE c
      BY Zenon, <1>6
    <3>2. CASE i = p + 1
      <4>1. turns'[queue[i].id] = turns[queue[i].id] + 1
        BY Zenon, <1>8, <3>2
      <4>2. ~Arc(i - 1, start, p)
        BY <1>2, <3>2 DEF Arc
      <4> QED BY Zenon, <2>1, <3>1, <3>2, <4>1, <4>2
    <3>3. CASE i # p + 1
      <4>1. turns'[queue[i].id] = turns[queue[i].id]
        BY Zenon, <1>8, <3>3
      <4> QED BY Zenon, <2>1, <3>1, <3>3, <4>1
    <3> QED BY Zenon, <3>2, <3>3
  <2>4. \A i \in DOMAIN queue' : turns'[queue'[i].id] = IF Arc(i - 1, start, index' % Len(queue')) THEN c + 1 ELSE c
    BY Zenon, <1>1, <1>4, <2>3
  <2>5. TurnsTaken(c, start)' /\ start \in 0..Len(queue') - 1
    BY Zenon, <1>4, <2>4 DEF TurnsTaken
  <2> QED BY Zenon, <1>1, <2>5 DEF TurnsInv
<1>10. CASE n = start
  <2>1. ASSUME NEW i \in DOMAIN queue PROVE /\ i # p + 1 => Arc(i - 1, start, p)
                                            /\ ~Arc(i - 1, start, n)
    BY <1>2, <1>3, <1>10 DEF Arc
  <2>3. ASSUME NEW i \in DOMAIN queue PROVE turns'[queue[i].id] = IF Arc(i - 1, start, n) THEN c + 1 + 1 ELSE c + 1
    <3>1. turns[queue[i].id] = IF Arc(i - 1, start, p) THEN c + 1 ELSE c
      BY Zenon, <1>6
    <3>2. CASE i = p + 1
      <4>1. turns'[queue[i].id] = turns[queue[i].id] + 1
        BY Zenon, <1>8, <3>2
      <4>2. ~Arc(i - 1, start, p)
        BY <1>2, <3>2 DEF Arc
      <4> QED BY ZenonT(30), <2>1, <3>1, <3>2, <4>1, <4>2
    <3>3. CASE i # p + 1
      <4>1. turns'[queue[i].id] = turns[queue[i].id]
        BY Zenon, <1>8, <3>3
      <4> QED BY Zenon, <2>1, <3>1, <3>3, <4>1
    <3> QED BY Zenon, <3>2, <3>3
  <2>4. \A i \in DOMAIN queue' : turns'[queue'[i].id] = IF Arc(i - 1, start, index' % Len(queue')) THEN c + 1 + 1 ELSE c + 1
    BY Zenon, <1>1, <1>4, <2>3
  <2>5. TurnsTaken(c + 1, start)' /\ start \in 0..Len(queue') - 1
    BY Zenon, <1>4, <2>4 DEF TurnsTaken
  <2>6. c + 1 \in Nat
    OBVIOUS
  <2> QED BY Zenon, <1>1, <2>5, <2>6 DEF TurnsInv
<1> QED BY <1>9, <1>10

\* Every operation leaves the turns in step with the index.
LEMMA TurnsStep ==
    ASSUME QueueInv, TurnsInv, [QueuesNext]_queueVars PROVE TurnsInv'
<1>1. ASSUME NEW t \in QueueEntry, enqueue(t) PROVE TurnsInv'
  BY <1>1 DEF enqueue, TurnsInv, NoTurns
<1>2. ASSUME NEW t \in InQueue, complete(t) PROVE TurnsInv'
  BY <1>2, Zenon DEF complete, TurnsInv, NoTurns
<1>3. ASSUME turns' = turns, turns = NoTurns PROVE TurnsInv'
  BY <1>3 DEF TurnsInv, NoTurns
<1>4. ASSUME NEW l \in Level, NEW t \in InQueue, DequeueLevel(l, t) PROVE TurnsInv'
  <2>1. algorithm = "mlfq" /\ turns' = turns
    BY Zenon, <1>4, DequeueLevelKeeps DEF DequeueLevel
  <2> QED BY SMTT(30), <1>3, <2>1 DEF TurnsInv
<1>5. CASE DequeueFirst
  BY <1>3, <1>5 DEF TurnsInv, DequeueFirst
<1>6. ASSUME NEW t \in running, demote(t) PROVE TurnsInv'
  BY <1>3, <1>6 DEF TurnsInv, demote
<1>7. CASE next_task
  BY <1>7, TurnStep
<1>8. CASE TimePasses \/ UNCHANGED queueVars
  <2>1. algorithm' = algorithm /\ queue' = queue /\ index' = index /\ turns' = turns
    BY <1>8 DEF TimePasses, queueVars
  <2> QED BY Zenon, <2>1 DEF TurnsInv, TurnsTaken, NoTurns
<1> QED BY ZenonT(30), <1>1, <1>2, <1>4, <1>5, <1>6, <1>7, <1>8 DEF QueuesNext

\* RoundRobinScheduler gives every task in its list its turn before any other gets
\* a second one more, however long the list and wherever its index stood.
THEOREM RoundRobinIsFair == QueuesSpec => []RoundRobinTakesTurns
<1>1. QueuesInit => TurnsInv
  BY DEF QueuesInit, TurnsInv
<1>2. ASSUME QueueInv, TurnsInv PROVE RoundRobinTakesTurns
  <2> SUFFICES ASSUME NEW i \in DOMAIN queue, NEW j \in DOMAIN queue
               PROVE  turns[queue[i].id] <= turns[queue[j].id] + 1
    BY DEF RoundRobinTakesTurns
  <2>1. CASE turns = NoTurns
    <3>1. queue[i].id \in QueuedTask /\ queue[j].id \in QueuedTask
      BY <1>2, EntryFields DEF QueueInv, QueueTypes
    <3> QED BY SMTT(30), <2>1, <3>1 DEF NoTurns
  <2>2. ASSUME NEW c \in Nat, NEW start \in 0..Len(queue) - 1, TurnsTaken(c, start)
        PROVE  turns[queue[i].id] <= turns[queue[j].id] + 1
    <3>1. turns[queue[i].id] \in {c, c + 1} /\ turns[queue[j].id] \in {c, c + 1}
      BY Zenon, <2>2 DEF TurnsTaken
    <3> QED BY <3>1
  <2> QED BY <1>2, <2>1, <2>2, Zenon DEF TurnsInv
<1> QED BY <1>1, <1>2, TurnsStep, QueueInvariance, PTL DEF QueuesSpec
=============================================================================
