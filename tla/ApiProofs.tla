----------------------------- MODULE ApiProofs -----------------------------
(***************************************************************************)
(* Theorems about the two ends of Module 2: Module1Client, for any         *)
(* callers, retry limit and threshold, and TaskApi, for any number of      *)
(* clients, names, requests and incarnations.                              *)
(***************************************************************************)
EXTENDS Module1Client, TaskApi, FiniteLemmas, TLAPS

\* How the attempts of a call, and its executions by Module 1, stand to where
\* the call is.
CallInv ==
    \A c \in Caller :
        /\ pc[c] \in {"ensure", "dial", "check"} => attempt[c] = 0 /\ executed[c] = 0
        /\ pc[c] = "backoff" => attempt[c] < MaxRetries
        /\ pc[c] = "success" => executed[c] >= 1
        /\ pc[c] = "call" => executed[c] <= attempt[c]
        /\ executed[c] <= attempt[c] + 1

Inv == TypeOK /\ CallInv

\* Every action keeps the types and CallInv.
LEMMA InvStep == Inv /\ [Next]_vars => Inv'
<1> SUFFICES ASSUME Inv, [Next]_vars PROVE Inv'
  OBVIOUS
<1> USE ClientAssumption
<1>1. CASE UNCHANGED vars
  BY <1>1 DEF Inv, TypeOK, CallInv, vars
<1>2. ASSUME NEW c \in Caller, Begin(c) PROVE Inv'
  <2>1. TypeOK'
    BY <1>2 DEF Inv, TypeOK, Begin, Go, breaker, network
  <2>2. CallInv'
    BY <1>2 DEF Inv, TypeOK, CallInv, Begin, Go
  <2> QED BY <2>1, <2>2 DEF Inv
<1>3. ASSUME NEW c \in Caller, ensureConnected(c) \/ connectWithRetry(c) PROVE Inv'
  <2>1. TypeOK'
    BY <1>3 DEF Inv, TypeOK, ensureConnected, connectWithRetry, Go, breaker, network, call
  <2>2. CallInv'
    BY <1>3 DEF Inv, TypeOK, CallInv, ensureConnected, connectWithRetry, Go, call
  <2> QED BY <2>1, <2>2 DEF Inv
<1>4. ASSUME NEW c \in Caller, checkCircuitBreaker(c) PROVE Inv'
  <2>1. TypeOK'
    BY <1>4 DEF Inv, TypeOK, checkCircuitBreaker, Return, Go, network, call
  <2>2. CallInv'
    BY <1>4 DEF Inv, TypeOK, CallInv, checkCircuitBreaker, Return, Go, call
  <2> QED BY <2>1, <2>2 DEF Inv
<1>5. ASSUME NEW c \in Caller, callFunc(c) PROVE Inv'
  <2>1. CallInv'
    BY <1>5 DEF Inv, TypeOK, CallInv, callFunc, Failed, MoreAttempts, Go
  <2>2. executed' \in [Caller -> 0..(MaxRetries + 1)]
    BY <1>5 DEF Inv, TypeOK, CallInv, callFunc
  <2>3. TypeOK'
    BY <1>5, <2>2 DEF Inv, TypeOK, callFunc, Failed, Go, breaker
  <2> QED BY <2>1, <2>3 DEF Inv
<1>6. ASSUME NEW c \in Caller, Backoff(c) PROVE Inv'
  <2>1. TypeOK'
    BY <1>6 DEF Inv, TypeOK, CallInv, Backoff, Return, Go, breaker, network
  <2>2. CallInv'
    BY <1>6 DEF Inv, TypeOK, CallInv, Backoff, Return, Go
  <2> QED BY <2>1, <2>2 DEF Inv
<1>7. ASSUME NEW c \in Caller, recordSuccess(c) \/ recordFailure(c) PROVE Inv'
  <2>1. TypeOK'
    <3>1. CASE recordSuccess(c)
      BY <3>1 DEF Inv, TypeOK, recordSuccess, Return, Go, network, call
    <3>2. CASE recordFailure(c)
      <4>1. consecutiveErr' \in Nat /\ circuitState' \in {"closed", "open", "half-open"}
        BY <3>2 DEF Inv, TypeOK, recordFailure
      <4> QED BY Zenon, <3>2, <4>1 DEF Inv, TypeOK, recordFailure, Return, Go, network, call
    <3> QED BY <1>7, <3>1, <3>2
  <2>2. CallInv'
    BY <1>7 DEF Inv, TypeOK, CallInv, recordSuccess, recordFailure, Return, Go, call
  <2> QED BY <2>1, <2>2 DEF Inv
<1>8. CASE Close \/ RecoverTimePasses \/ ServerChanges \/ ConnectionChanges
  BY Zenon, <1>8 DEF Inv, TypeOK, CallInv, Close, RecoverTimePasses, ServerChanges, ConnectionChanges,
     breaker, network, call
<1> QED
  BY <1>1, <1>2, <1>3, <1>4, <1>5, <1>6, <1>7, <1>8 DEF Next, callWithRetry

\* Inv holds from the start.
LEMMA InvInit == Init => Inv
<1>1. Init => TypeOK
  <2>1. 0 \in Nat /\ 0 \in 0..MaxRetries /\ 0 \in 0..(MaxRetries + 1) /\ 0 \in 0..MaxLost
    BY ClientAssumption
  <2> QED BY Zenon, <2>1 DEF Init, TypeOK
<1>2. Init => CallInv
  BY DEF Init, CallInv
<1> QED BY <1>1, <1>2 DEF Inv

\* Every variable keeps its type, and a call makes at most MaxRetries + 1
\* attempts.
THEOREM TypeCorrect == Spec => []TypeOK
<1>1. Inv => TypeOK
  BY DEF Inv
<1> QED BY <1>1, InvInit, InvStep, PTL DEF Spec

\* callWithRetry reports success only for a call that Module 1 has run, and has
\* it run at most once for each attempt.
THEOREM CallIsRunAtLeastOnce == Spec => []AtLeastOnce
<1>1. Inv => AtLeastOnce
  BY DEF Inv, CallInv, AtLeastOnce
<1> QED BY <1>1, InvInit, InvStep, PTL DEF Spec

\* OpenAtThreshold is kept by every action.
LEMMA OpenAtThresholdStep ==
    ASSUME Inv, OpenAtThreshold, [Next]_vars PROVE OpenAtThreshold'
<1> USE ClientAssumption DEF OpenAtThreshold
<1>1. CASE UNCHANGED <<circuitState, consecutiveErr>>
  BY <1>1
<1>2. ASSUME NEW c \in Caller,
             connectWithRetry(c) \/ checkCircuitBreaker(c) \/ recordSuccess(c)
      PROVE  OpenAtThreshold'
  BY <1>2 DEF connectWithRetry, checkCircuitBreaker, recordSuccess
<1>3. ASSUME NEW c \in Caller, recordFailure(c) PROVE OpenAtThreshold'
  BY <1>3 DEF recordFailure
<1> QED
  BY <1>1, <1>2, <1>3 DEF Next, callWithRetry, vars, breaker, Begin, ensureConnected, callFunc,
     Backoff, Close, RecoverTimePasses, ServerChanges, ConnectionChanges

\* At and above MaxConsecutiveErr the breaker is open, in every interleaving of
\* recordSuccess, recordFailure, checkCircuitBreaker and connectWithRetry.
THEOREM BreakerOpensAtThreshold == Spec => []OpenAtThreshold
<1>1. Init => OpenAtThreshold
  BY ClientAssumption DEF Init, OpenAtThreshold
<1> QED BY <1>1, InvInit, InvStep, OpenAtThresholdStep, PTL DEF Spec

-----------------------------------------------------------------------------
\* The calls that the breaker has let through and that are not over.
Inside == {c \in Caller : pc[c] \in {"call", "backoff", "success", "failure"}}

\* While the breaker is open, the errors counted and those still to come are
\* less than the threshold and the callers together: the caller whose failure
\* opened it is outside.
RoomLeft ==
    circuitState = "open" =>
        consecutiveErr + Cardinality(Inside) < MaxConsecutiveErr + Cardinality(Caller)

\* The calls inside are some of the callers.
LEMMA InsideFinite ==
    ASSUME NEW S \in SUBSET Caller
    PROVE  /\ IsFiniteSet(S) /\ Cardinality(S) \in Nat /\ Cardinality(Caller) \in Nat
           /\ Cardinality(S) <= Cardinality(Caller)
           /\ \A T \in SUBSET S : Cardinality(T) <= Cardinality(S)
           /\ \A c \in Caller \ S : Cardinality(S) < Cardinality(Caller)
           /\ \A c \in S : Cardinality(S \ {c}) = Cardinality(S) - 1
<1>1. IsFiniteSet(S) /\ Cardinality(S) <= Cardinality(Caller)
  BY ClientAssumption, FS_Subset
<1>2. Cardinality(S) \in Nat /\ Cardinality(Caller) \in Nat
  BY <1>1, ClientAssumption, FS_CardinalityType
<1>3. \A T \in SUBSET S : Cardinality(T) <= Cardinality(S)
  BY <1>1, FS_Subset
<1>4. \A c \in Caller \ S : Cardinality(S) < Cardinality(Caller)
  BY <1>1, <1>2, ClientAssumption, FS_Subset
<1>5. \A c \in S : Cardinality(S \ {c}) = Cardinality(S) - 1
  BY <1>1, FS_RemoveElement
<1> QED BY <1>1, <1>2, <1>3, <1>4, <1>5

\* RoomLeft is kept by every action.
LEMMA RoomLeftStep ==
    ASSUME Inv, OpenAtThreshold, RoomLeft, [Next]_vars PROVE RoomLeft'
<1> USE ClientAssumption
<1>0. /\ Inside \in SUBSET Caller /\ Inside' \in SUBSET Caller
      /\ consecutiveErr \in Nat
      /\ Cardinality(Inside) \in Nat /\ Cardinality(Inside') \in Nat /\ Cardinality(Caller) \in Nat
  <2>1. Inside \in SUBSET Caller /\ Inside' \in SUBSET Caller
    BY DEF Inside
  <2> QED BY <2>1, InsideFinite DEF Inv, TypeOK
<1>1. ASSUME Inside' \subseteq Inside, UNCHANGED <<circuitState, consecutiveErr>> PROVE RoomLeft'
  <2>1. Cardinality(Inside') <= Cardinality(Inside)
    BY <1>0, <1>1, InsideFinite
  <2>2. circuitState' = circuitState /\ consecutiveErr' = consecutiveErr
    BY <1>1
  <2> HIDE DEF Inside
  <2> QED BY <1>0, <2>1, <2>2 DEF RoomLeft
<1>2. ASSUME NEW c \in Caller, recordSuccess(c) PROVE RoomLeft'
  <2>1. c \notin Inside' /\ consecutiveErr' = 0
    BY <1>2 DEF Inside, recordSuccess, Return, Go, Inv, TypeOK
  <2>2. Cardinality(Inside') < Cardinality(Caller)
    BY <1>0, <2>1, InsideFinite
  <2> QED BY <1>0, <2>1, <2>2 DEF RoomLeft
<1>3. ASSUME NEW c \in Caller, recordFailure(c) PROVE RoomLeft'
  <2>1. c \in Inside /\ Inside' = Inside \ {c} /\ consecutiveErr' = consecutiveErr + 1
    BY <1>3 DEF Inside, recordFailure, Return, Go, Inv, TypeOK
  <2>2. Cardinality(Inside') = Cardinality(Inside) - 1 /\ Cardinality(Inside) <= Cardinality(Caller)
    BY <1>0, <2>1, InsideFinite
  <2>3. CASE circuitState = "open"
    BY <1>0, <2>1, <2>2, <2>3 DEF RoomLeft
  <2>4. CASE circuitState # "open"
    <3>1. consecutiveErr < MaxConsecutiveErr
      BY <1>0, <2>4 DEF OpenAtThreshold
    <3> QED BY <1>0, <2>1, <2>2, <3>1 DEF RoomLeft
  <2> QED BY <2>3, <2>4
<1>4. ASSUME NEW c \in Caller, connectWithRetry(c) PROVE RoomLeft'
  BY <1>4 DEF connectWithRetry, RoomLeft
<1>5. ASSUME NEW c \in Caller, checkCircuitBreaker(c) PROVE RoomLeft'
  <2>1. CASE circuitState = "open" /\ ~recovered
    <3>1. Inside' \subseteq Inside /\ UNCHANGED <<circuitState, consecutiveErr>>
      BY <1>5, <2>1 DEF checkCircuitBreaker, Return, Go, Inside, Inv, TypeOK
    <3> QED BY <3>1, <1>1
  <2>2. CASE ~(circuitState = "open" /\ ~recovered)
    BY <1>5, <2>2 DEF checkCircuitBreaker, RoomLeft
  <2> QED BY <2>1, <2>2
<1>6. ASSUME NEW c \in Caller, Begin(c) \/ ensureConnected(c) \/ callFunc(c) \/ Backoff(c) PROVE RoomLeft'
  <2>1. Inside' \subseteq Inside
    BY <1>6 DEF Begin, ensureConnected, callFunc, Backoff, Failed, Return, Go, Inside, Inv, TypeOK
  <2>2. UNCHANGED <<circuitState, consecutiveErr>>
    BY <1>6 DEF Begin, ensureConnected, callFunc, Backoff, breaker
  <2> QED BY <2>1, <2>2, <1>1
<1>7. CASE Close \/ RecoverTimePasses \/ ServerChanges \/ ConnectionChanges \/ UNCHANGED vars
  <2>1. pc' = pc /\ UNCHANGED <<circuitState, consecutiveErr>>
    BY <1>7 DEF Close, RecoverTimePasses, ServerChanges, ConnectionChanges, vars, breaker
  <2>2. Inside' \subseteq Inside
    BY <2>1 DEF Inside
  <2> QED BY <2>1, <2>2, <1>1
<1> QED BY <1>2, <1>3, <1>4, <1>5, <1>6, <1>7 DEF Next, callWithRetry

\* However many calls fail at once, the count of errors stays below the threshold
\* and the number of callers together: once recordFailure has opened the breaker,
\* only the calls that are already inside can add to it.
THEOREM ErrorsStayBounded == Spec => []ErrorsBounded
<1>1. Init => OpenAtThreshold /\ RoomLeft
  BY ClientAssumption DEF Init, OpenAtThreshold, RoomLeft
<1>2. Inv /\ OpenAtThreshold /\ RoomLeft => ErrorsBounded
  <2> HAVE Inv /\ OpenAtThreshold /\ RoomLeft
  <2>1. Inside \in SUBSET Caller
    BY DEF Inside
  <2>2. /\ Cardinality(Inside) \in Nat /\ Cardinality(Caller) \in Nat
        /\ Cardinality(Inside) <= Cardinality(Caller)
    BY <2>1, InsideFinite
  <2>3. Cardinality(Caller) > 0
    BY <2>2, ClientAssumption, FS_EmptySet
  <2> QED BY <2>2, <2>3, ClientAssumption DEF Inv, TypeOK, OpenAtThreshold, RoomLeft, ErrorsBounded
<1> QED BY <1>1, <1>2, InvInit, InvStep, OpenAtThresholdStep, RoomLeftStep, PTL DEF Spec
-----------------------------------------------------------------------------
TaskApiSpec == TaskApiInit /\ [][TaskApiNext]_taskApiVars

Task == [uid : Nat, own : BOOLEAN, phase : {"", "Running"}, marked : BOOLEAN]
Call == [pc : {"idle", "create", "get", "delete", "answered"}, op : {"", "create", "get", "logs", "delete"},
         name : Int, uid : Nat, answer : Nat]
Pager == [pc : {"idle", "reading", "read"}, status : {"", "Running"}, offset : Nat,
          began : SUBSET Nat, seen : SUBSET Nat, removed : BOOLEAN]

\* Every incarnation has a uid of its own.
TasksInv ==
    /\ tasks \in [TaskName -> Task] /\ made \in Nat
    /\ \A n \in TaskName : tasks[n].uid <= made
    /\ \A n, k \in Present : tasks[n].uid = tasks[k].uid => n = k

\* What a request knows of the task it made, is about to delete or deleted.
Fits(r) ==
    /\ r \in Call
    /\ r.uid <= made
    /\ r.pc \in {"create", "get", "delete"} => r.name \in TaskName
    /\ r.pc # "answered" => r.answer = 0
    /\ r.pc = "delete" => \A n \in Present : tasks[n].uid = r.uid => n = r.name
    /\ r.answer = 201 =>
          r.uid # 0 /\ \A n \in Present : tasks[n].uid = r.uid => n = r.name /\ tasks[n].own
    /\ r.answer = 204 => \A n \in Present : tasks[n].uid = r.uid => tasks[n].marked

CallsInv ==
    /\ calls \in [Client -> Call]
    /\ \A c \in Client : Fits(calls[c])
    /\ \A c, d \in Client :
          c # d /\ calls[c].answer = 201 /\ calls[d].answer = 201 => calls[c].uid # calls[d].uid

\* How a step changes the tasks: incarnations go, come with a new uid, and stay who
\* they are.
Moves ==
    /\ made' \in Nat /\ made <= made'
    /\ tasks' \in [TaskName -> Task]
    /\ \A n \in TaskName :
          \/ tasks'[n].uid = 0
          \/ tasks'[n].uid > made /\ tasks'[n].uid <= made'
          \/ /\ tasks'[n].uid = tasks[n].uid /\ tasks'[n].own = tasks[n].own
             /\ tasks[n].marked => tasks'[n].marked

\* A step that makes no incarnation.
Fades == Moves /\ made' = made

\* One request changes, and how.
Call1(c, r) == calls' = [calls EXCEPT ![c] = r]

\* What a request knows stays true.
LEMMA FitsStays ==
    ASSUME TasksInv, Moves, NEW r, Fits(r)
    PROVE  Fits(r)'
<1>1. made \in Nat /\ r.uid \in Nat /\ r.uid <= made
  BY Zenon DEF TasksInv, Fits, Call
<1>2. ASSUME NEW n \in Present', tasks'[n].uid = r.uid
      PROVE  /\ n \in Present /\ tasks[n].uid = r.uid /\ tasks'[n].own = tasks[n].own
             /\ tasks[n].marked => tasks'[n].marked
  <2>1. n \in TaskName /\ tasks'[n].uid # 0
    BY DEF Present
  <2>2. ~(tasks'[n].uid > made)
    BY <1>1, <1>2
  <2> QED BY <1>2, <2>1, <2>2 DEF Moves, Present
<1>3. r.uid <= made'
  BY <1>1 DEF Moves
<1> QED BY Zenon, <1>2, <1>3 DEF Fits

\* The tasks stay in order when none is made.
LEMMA TasksStay ==
    ASSUME TasksInv, Fades
    PROVE  TasksInv'
<1>1. made \in Nat /\ \A n \in TaskName : tasks'[n].uid \in Nat
  BY Zenon DEF TasksInv, Fades, Moves, Task
<1>2. \A n \in TaskName : tasks'[n].uid = 0 \/ tasks'[n].uid = tasks[n].uid
  BY <1>1 DEF Fades, Moves
<1>3. \A n \in TaskName : tasks'[n].uid <= made'
  BY <1>1, <1>2 DEF TasksInv, Fades
<1>4. \A n, k \in Present' : tasks'[n].uid = tasks'[k].uid => n = k
  <2>1. \A n \in Present' : n \in Present /\ tasks'[n].uid = tasks[n].uid
    BY <1>2 DEF Present
  <2> QED BY <2>1 DEF TasksInv
<1> QED BY <1>3, <1>4 DEF TasksInv, Fades, Moves

\* Make gives a free name a new incarnation.
LEMMA MakeMoves ==
    ASSUME TasksInv, NEW n \in TaskName, tasks[n].uid = 0, NEW own \in BOOLEAN, Make(n, own)
    PROVE  /\ Moves /\ TasksInv'
           /\ made' = made + 1 /\ tasks'[n].uid = made + 1 /\ tasks'[n].own = own
           /\ \A k \in TaskName \ {n} : tasks'[k] = tasks[k]
<1>0. made + 1 \in Nat
  BY DEF TasksInv
<1> DEFINE t == [uid |-> made + 1, own |-> own, phase |-> "", marked |-> FALSE]
<1>1. made' = made + 1 /\ made \in Nat /\ tasks' = [tasks EXCEPT ![n] = t]
  BY DEF Make, TasksInv
<1>2. t \in Task /\ t.uid = made + 1 /\ t.own = own
  BY Zenon, <1>0 DEF Task
<1> HIDE DEF t
<1>3. tasks' \in [TaskName -> Task] /\ tasks'[n] = t /\ \A k \in TaskName \ {n} : tasks'[k] = tasks[k]
  BY <1>1, <1>2 DEF TasksInv
<1>4. \A k \in TaskName : tasks[k].uid <= made /\ tasks[k].uid \in Nat
  BY Zenon DEF TasksInv, Task
<1>5. Moves
  BY <1>1, <1>2, <1>3 DEF Moves
<1>6. \A k \in TaskName : tasks'[k].uid <= made'
  BY <1>1, <1>2, <1>3, <1>4
<1>7. \A k, l \in Present' : tasks'[k].uid = tasks'[l].uid => k = l
  <2>1. \A k \in TaskName \ {n} : tasks'[k].uid # tasks'[n].uid
    BY <1>1, <1>2, <1>3, <1>4
  <2> QED BY <1>3, <2>1 DEF TasksInv, Present
<1>8. TasksInv'
  BY <1>1, <1>3, <1>6, <1>7 DEF TasksInv
<1> QED BY <1>1, <1>2, <1>3, <1>5, <1>8

\* A deletion marks or removes one incarnation.
LEMMA DeletedFades ==
    ASSUME TasksInv, NEW n \in TaskName, Deleted(n), made' = made
    PROVE  /\ Fades
           /\ tasks'[n].uid = 0 \/ tasks'[n].marked
           /\ \A k \in TaskName \ {n} : tasks'[k] = tasks[k]
<1>1. CASE tasks' = [tasks EXCEPT ![n].marked = TRUE]
  <2>1. /\ tasks' \in [TaskName -> Task] /\ tasks'[n].marked
        /\ tasks'[n].uid = tasks[n].uid /\ tasks'[n].own = tasks[n].own
        /\ \A k \in TaskName \ {n} : tasks'[k] = tasks[k]
    BY Zenon, <1>1 DEF TasksInv, Task
  <2>2. Moves
    BY <2>1 DEF Moves, TasksInv
  <2> QED BY <2>1, <2>2 DEF Fades
<1>2. CASE tasks' = [tasks EXCEPT ![n] = None]
  <2>1. None \in Task /\ None.uid = 0
    BY DEF None, Task
  <2>2. /\ tasks' \in [TaskName -> Task] /\ tasks'[n].uid = 0
        /\ \A k \in TaskName \ {n} : tasks'[k] = tasks[k]
    BY <1>2, <2>1 DEF TasksInv
  <2>3. Moves
    BY <2>2 DEF Moves, TasksInv
  <2> QED BY <2>2, <2>3 DEF Fades
<1> QED BY <1>1, <1>2 DEF Deleted, Removed

\* A step that leaves the tasks alone.
LEMMA StillFades ==
    ASSUME TasksInv, tasks' = tasks, made' = made
    PROVE  Fades
BY DEF TasksInv, Fades, Moves

\* The requests other than the one that changes.
LEMMA OneCall ==
    ASSUME TasksInv, CallsInv, Moves, NEW c \in Client, NEW r \in Call, Call1(c, r), Fits(r)',
           r.answer = 201 => \A d \in Client \ {c} : calls[d].answer = 201 => r.uid # calls[d].uid
    PROVE  CallsInv'
<1>1. /\ calls' \in [Client -> Call] /\ calls'[c] = r
      /\ \A d \in Client \ {c} : calls'[d] = calls[d]
  BY DEF CallsInv, Call1
<1>2. ASSUME NEW d \in Client PROVE Fits(calls[d])'
  <2>1. CASE d = c
    BY <1>1, <2>1 DEF Fits
  <2>2. CASE d # c
    <3>1. PICK q : q = calls[d]
      OBVIOUS
    <3>2. Fits(q)'
      BY <3>1, FitsStays DEF CallsInv
    <3>3. calls'[d] = q
      BY <1>1, <2>2, <3>1
    <3> QED BY Zenon, <3>2, <3>3 DEF Fits
  <2> QED BY SMTT(30), <2>1, <2>2
<1>3. ASSUME NEW d \in Client, NEW e \in Client, d # e, calls'[d].answer = 201, calls'[e].answer = 201
      PROVE  calls'[d].uid # calls'[e].uid
  BY <1>1, <1>3 DEF CallsInv
<1> QED BY <1>1, <1>2, <1>3 DEF CallsInv

\* No request changes.
LEMMA NoCall ==
    ASSUME TasksInv, CallsInv, Moves, calls' = calls
    PROVE  CallsInv'
<1>1. ASSUME NEW d \in Client PROVE Fits(calls[d])'
  <2>1. PICK q : q = calls[d]
    OBVIOUS
  <2>2. Fits(q)'
    BY <2>1, FitsStays DEF CallsInv
  <2> QED BY Zenon, <2>1, <2>2 DEF Fits
<1> QED BY <1>1 DEF CallsInv

\* An answer without a task, and a request on its way to Kubernetes.
LEMMA PlainFits ==
    ASSUME NEW r \in Call, r.uid = 0, TasksInv, r.answer \notin {201, 204}, r.pc # "delete",
           r.pc # "answered" => r.answer = 0, r.pc \in {"create", "get"} => r.name \in TaskName
    PROVE  Fits(r)
BY DEF Fits, TasksInv

\* A request arrives.
LEMMA ArrivesKeeps ==
    ASSUME TasksInv, CallsInv, NEW c \in Client, NEW name \in Int, NEW status \in {0, 200, 400, 401, 403},
           NEW op \in {"create", "get", "logs", "delete"}, NEW next \in {"create", "get"},
           Arrives(c, op, name, status, next), status = 200 => name \in TaskName
    PROVE  TasksInv' /\ CallsInv'
<1>1. Fades
  BY StillFades DEF Arrives
<1>2. TasksInv'
  BY <1>1, TasksStay
<1>3. PICK r \in Call : /\ Call1(c, r) /\ r.uid = 0 /\ r.answer \notin {201, 204} /\ r.pc # "delete"
                        /\ r.pc # "answered" => r.answer = 0
                        /\ r.pc \in {"create", "get"} => r.name \in TaskName
  <2>1. CASE status = 200
    <3> DEFINE r == [pc |-> next, op |-> op, name |-> name, uid |-> 0, answer |-> 0]
    <3>1. r \in Call /\ r.uid = 0 /\ r.answer = 0 /\ r.pc # "delete" /\ r.name = name
      BY Zenon DEF Call
    <3>2. Call1(c, r)
      BY Zenon, <2>1 DEF Arrives, Call1
    <3> HIDE DEF r
    <3> QED BY <2>1, <3>1, <3>2
  <2>2. CASE status # 200
    <3> DEFINE r == [pc |-> "answered", op |-> "", name |-> 0, uid |-> 0, answer |-> status]
    <3>1. r \in Call /\ r.uid = 0 /\ r.answer = status /\ r.pc = "answered"
      BY DEF Call
    <3>2. Call1(c, r)
      BY Zenon, <2>2 DEF Arrives, Done, Answer, Call1
    <3> HIDE DEF r
    <3> QED BY <2>2, <3>1, <3>2
  <2> QED BY <2>1, <2>2
<1>4. Fits(r)'
  <2>1. Fits(r)
    BY SMTT(30), <1>3, PlainFits
  <2> QED BY <2>1, <1>1, FitsStays DEF Fades
<1>5. CallsInv'
  BY SMTT(30), <1>1, <1>3, <1>4, OneCall DEF Fades
<1> QED BY <1>2, <1>5

\* An answer that tells of no task.
LEMMA DoneKeeps ==
    ASSUME TasksInv, CallsInv, Moves, TasksInv', NEW c \in Client, NEW status \in {0, 200, 500}, Done(c, status)
    PROVE  CallsInv'
<1> DEFINE r == [pc |-> "answered", op |-> "", name |-> 0, uid |-> 0, answer |-> status]
<1>1. r \in Call /\ r.uid = 0 /\ r.answer = status /\ r.pc = "answered"
  BY DEF Call
<1>2. Call1(c, r)
  BY Zenon DEF Done, Answer, Call1
<1> HIDE DEF r
<1>3. Fits(r)
  BY <1>1, PlainFits
<1>4. Fits(r)'
  BY <1>3, FitsStays
<1> QED BY <1>1, <1>2, <1>4, OneCall

\* CreateTask answers 201 with the incarnation it made.
LEMMA CreateTaskKeeps ==
    ASSUME TasksInv, CallsInv, NEW c \in Client, CreateTask(c)
    PROVE  TasksInv' /\ CallsInv'
<1> DEFINE n == calls[c].name
<1>1. n \in TaskName /\ made \in Nat
  BY DEF CreateTask, CallsInv, Fits, TasksInv
<1>2. CASE tasks[n].uid = 0 /\ Make(n, TRUE) /\ Answer(c, 201, n, made + 1)
  <2>1. /\ Moves /\ TasksInv'
        /\ made' = made + 1 /\ tasks'[n].uid = made + 1 /\ tasks'[n].own
        /\ \A k \in TaskName \ {n} : tasks'[k] = tasks[k]
    BY Zenon, <1>1, <1>2, MakeMoves
  <2>r. PICK r : r = [pc |-> "answered", op |-> "", name |-> n, uid |-> made + 1, answer |-> 201]
    BY Zenon
  <2>2. r \in Call /\ r.uid = made + 1 /\ r.answer = 201 /\ r.pc = "answered" /\ r.name = n
    <3>1. n \in Int /\ made + 1 \in Nat
      BY <1>1 DEF TaskName
    <3> QED BY ZenonT(30), <2>r, <3>1 DEF Call
  <2>3. Call1(c, r)
    BY Zenon, <1>2, <2>r DEF Answer, Call1
  <2>4. \A k \in TaskName \ {n} : tasks'[k].uid # made + 1
    <3>1. \A k \in TaskName : tasks[k].uid \in Nat /\ tasks[k].uid <= made
      BY Zenon DEF TasksInv, Task
    <3>2. \A k \in TaskName : tasks[k].uid # made + 1
      BY <1>1, <3>1
    <3> QED BY <2>1, <3>2
  <2>5. \A d \in Client : calls[d].uid # made + 1
    <3>1. \A d \in Client : calls[d].uid \in Nat /\ calls[d].uid <= made
      BY Zenon DEF CallsInv, Fits, Call
    <3> QED BY SMTT(30), <1>1, <3>1
  <2>6. Fits(r)'
    <3>1. r.uid <= made' /\ r.uid # 0
      BY SMTT(30), <1>1, <2>1, <2>2
    <3>2. \A k \in Present' : tasks'[k].uid = r.uid => k = r.name /\ tasks'[k].own
      BY <2>1, <2>2, <2>4 DEF Present
    <3>3. r.answer # 204 /\ r.pc \notin {"create", "get", "delete"}
      BY <2>2
    <3> QED BY Zenon, <2>2, <3>1, <3>2, <3>3 DEF Fits
  <2>7. \A d \in Client : r.uid # calls[d].uid
    BY <2>2, <2>5
  <2>8. CallsInv'
    BY ZenonT(30), <2>1, <2>2, <2>3, <2>6, <2>7, OneCall
  <2> QED BY SMTT(30), <2>1, <2>8
<1>3. CASE tasks[n].uid = 0 /\ Make(n, TRUE) /\ Done(c, 500)
  BY ZenonT(30), <1>1, <1>3, MakeMoves, DoneKeeps
<1>4. CASE (Done(c, writeError(409, FALSE)) \/ Done(c, 500)) /\ UNCHANGED <<tasks, made>>
  <2>1. Fades /\ TasksInv'
    BY <1>4, StillFades, TasksStay
  <2> QED BY <1>4, <2>1, DoneKeeps DEF writeError, Aborted, Fades
<1> QED BY Zenon, <1>2, <1>3, <1>4 DEF CreateTask

\* The handlers that only look at the task, and DeleteTask as long as it does.
LEMMA GetsKeep ==
    ASSUME TasksInv, CallsInv, NEW c \in Client, GetTask(c) \/ GetTaskLogs(c) \/ DeleteTaskGets(c)
    PROVE  TasksInv' /\ CallsInv'
<1> DEFINE n == calls[c].name
<1>1. Fades /\ TasksInv'
  BY StillFades, TasksStay DEF GetTask, GetTaskLogs, DeleteTaskGets
<1>2. CASE NotServed(c) \/ Done(c, 200)
  BY <1>1, <1>2, DoneKeeps DEF NotServed, writeError, Aborted, Fades
<1>3. CASE DeleteTaskGets(c) /\ Own(c) /\ calls' = [calls EXCEPT ![c].pc = "delete", ![c].uid = tasks[n].uid]
  <2>1. n \in TaskName /\ calls[c] \in Call
    BY <1>3 DEF DeleteTaskGets, CallsInv, Fits
  <2>2. tasks[n].uid \in Nat /\ tasks[n].uid <= made
    BY Zenon, <2>1 DEF TasksInv, Task
  <2>r. PICK r : r = [calls[c] EXCEPT !.pc = "delete", !.uid = tasks[n].uid]
    OBVIOUS
  <2>3. Call1(c, r)
    BY Zenon, <1>3, <2>r DEF Call1
  <2>4. r \in Call /\ r.uid = tasks[n].uid /\ r.pc = "delete" /\ r.name = n /\ r.answer = calls[c].answer
    BY Zenon, <2>1, <2>2, <2>r DEF Call
  <2>5. calls[c].answer \notin {201, 204}
    BY <1>3 DEF DeleteTaskGets, CallsInv, Fits
  <2>6. \A k \in Present : tasks[k].uid = r.uid => k = r.name
    BY SMTT(30), <1>3, <2>1, <2>4 DEF Own, Present, TasksInv
  <2>7. Fits(r)
    <3>1. r.answer \notin {201, 204} /\ r.uid <= made /\ (r.pc # "answered" => r.answer = 0)
      BY SMTT(30), <1>3, <2>2, <2>4, <2>5 DEF DeleteTaskGets, CallsInv, Fits
    <3> QED BY <2>1, <2>4, <2>6, <3>1 DEF Fits
  <2> QED BY <1>1, <2>3, <2>4, <2>5, <2>7, FitsStays, OneCall DEF Fades
<1> QED BY Zenon, <1>2, <1>3 DEF GetTask, GetTaskLogs, DeleteTaskGets

\* DeleteTask answers 204 when what it read is marked or gone.
LEMMA DeleteTaskKeeps ==
    ASSUME TasksInv, CallsInv, NEW c \in Client, DeleteTask(c)
    PROVE  TasksInv' /\ CallsInv'
<1> DEFINE n == calls[c].name
<1>1. /\ n \in TaskName /\ calls[c] \in Call /\ calls[c].uid <= made
      /\ \A k \in Present : tasks[k].uid = calls[c].uid => k = n
  BY SMTT(30) DEF DeleteTask, CallsInv, Fits
<1>2. made' = made
  BY DEF DeleteTask
<1>3. /\ Fades
      /\ Done(c, 500) \/ (Answer(c, 204, n, calls[c].uid) /\ (tasks'[n].uid = 0 \/ tasks'[n].marked))
  <2>1. CASE Deleted(n) /\ (Answer(c, 204, n, calls[c].uid) \/ Done(c, 500))
    BY SMTT(30), <1>1, <1>2, <2>1, DeletedFades
  <2>2. CASE tasks[n].uid = 0 /\ Answer(c, 204, n, calls[c].uid) /\ UNCHANGED <<tasks, pager>>
    BY <1>2, <2>2, StillFades
  <2>3. CASE Done(c, 500) /\ UNCHANGED <<tasks, pager>>
    BY SMTT(30), <1>2, <2>3, StillFades
  <2> QED BY Zenon, <2>1, <2>2, <2>3 DEF DeleteTask
<1>4. TasksInv'
  BY SMTT(30), <1>3, TasksStay
<1>5. CASE Done(c, 500)
  BY SMTT(30), <1>3, <1>4, <1>5, DoneKeeps DEF Fades
<1>6. CASE Answer(c, 204, n, calls[c].uid) /\ (tasks'[n].uid = 0 \/ tasks'[n].marked)
  <2>r. PICK r : r = [pc |-> "answered", op |-> "", name |-> n, uid |-> calls[c].uid, answer |-> 204]
    BY Zenon
  <2>1. r \in Call /\ r.uid = calls[c].uid /\ r.answer = 204 /\ r.pc = "answered"
    BY ZenonT(30), <1>1, <2>r DEF Call, TaskName
  <2>2. Call1(c, r)
    BY Zenon, <1>6, <2>r DEF Answer, Call1
  <2>3. \A k \in Present' : tasks'[k].uid = r.uid => tasks'[k].marked
    <3>1. \A k \in Present' : k \in Present /\ tasks'[k].uid = tasks[k].uid
      <4>1. \A k \in TaskName : tasks'[k].uid \in Nat /\ made \in Nat
        BY Zenon, <1>4 DEF TasksInv, Task
      <4>2. \A k \in TaskName : tasks'[k].uid = 0 \/ tasks'[k].uid = tasks[k].uid
        BY <1>2, <1>3, <4>1 DEF Fades, Moves
      <4> QED BY <4>2 DEF Present
    <3>2. \A k \in Present' : tasks'[k].uid = r.uid => k = n
      BY <1>1, <2>1, <3>1
    <3> QED BY <1>6, <3>2 DEF Present
  <2>4. Fits(r)'
    <3>1. r.answer # 201 /\ r.pc \notin {"create", "get", "delete"} /\ r.uid <= made'
      BY <1>1, <1>2, <2>1
    <3> QED BY Zenon, <2>1, <2>3, <3>1 DEF Fits
  <2> QED BY SMTT(30), <1>3, <1>4, <2>1, <2>2, <2>4, OneCall DEF Fades
<1> QED BY SMTT(30), <1>3, <1>4, <1>5, <1>6

\* What happens outside of the API.
LEMMA ClusterKeeps ==
    ASSUME TasksInv, CallsInv, ClusterNext
    PROVE  TasksInv' /\ CallsInv'
<1>1. PICK n \in TaskName : (\E own \in BOOLEAN : Apply(n, own)) \/ Run(n) \/ Withdraw(n) \/ FinishDeletion(n)
  BY DEF ClusterNext
<1>2. calls' = calls
  BY <1>1 DEF Apply, Run, Withdraw, FinishDeletion
<1>3. CASE \E own \in BOOLEAN : Apply(n, own)
  BY <1>2, <1>3, MakeMoves, NoCall DEF Apply
<1>4. CASE Run(n)
  <2>1. /\ tasks' \in [TaskName -> Task] /\ made' = made /\ tasks'[n].uid = tasks[n].uid
        /\ tasks'[n].own = tasks[n].own /\ tasks'[n].marked = tasks[n].marked
        /\ \A k \in TaskName \ {n} : tasks'[k] = tasks[k]
    BY Zenon, <1>4 DEF Run, TasksInv, Task
  <2>2. Fades
    BY <2>1 DEF Fades, Moves, TasksInv
  <2> QED BY <1>2, <2>2, TasksStay, NoCall DEF Fades
<1>5. CASE Withdraw(n) \/ FinishDeletion(n)
  <2>1. Deleted(n) /\ made' = made
    BY <1>5 DEF Withdraw, FinishDeletion, Deleted
  <2> QED BY <1>2, <2>1, DeletedFades, TasksStay, NoCall DEF Fades
<1> QED BY <1>1, <1>3, <1>4, <1>5

\* A request keeps what is known.
LEMMA RequestsKeep ==
    ASSUME TasksInv, CallsInv, RequestNext
    PROVE  TasksInv' /\ CallsInv'
<1>1. ASSUME NEW header \in Header PROVE Through(header) \subseteq {200, 401, 403}
  BY DEF Through, rateLimitMiddleware, authMiddleware, extractBearerToken, ValidateToken, Header
<1>2. ASSUME NEW c \in Client, NEW header \in Header, NEW body \in Request, CreateArrives(c, header, body)
      PROVE  TasksInv' /\ CallsInv'
  <2>1. PICK through \in {200, 401, 403} :
          Arrives(c, "create", TaskID(body), IF through = 200 THEN Refusal(body) ELSE through, "create")
    BY <1>1, <1>2 DEF CreateArrives
  <2>2. TaskID(body) \in Int
    BY TaskApiAssumption DEF TaskID, TaskName
  <2>3. /\ Refusal(body) \in {0, 200, 400}
        /\ Refusal(body) = 200 => TaskID(body) \in TaskName
    BY DEF Refusal, writeError, Aborted, ValidateTaskID
  <2>4. PICK status : status = IF through = 200 THEN Refusal(body) ELSE through
    OBVIOUS
  <2>5. status \in {0, 200, 400, 401, 403} /\ (status = 200 => TaskID(body) \in TaskName)
    BY <2>1, <2>3, <2>4
  <2>6. Arrives(c, "create", TaskID(body), status, "create")
    BY <2>1, <2>4
  <2> QED BY <2>2, <2>5, <2>6, ArrivesKeeps
<1>3. ASSUME NEW c \in Client, NEW header \in Header, NEW op \in {"get", "logs", "delete"},
             NEW name \in 1..LastName + 1, NamedArrives(c, header, op, name)
      PROVE  TasksInv' /\ CallsInv'
  <2>1. PICK through \in {200, 401, 403} :
          Arrives(c, op, name, IF through = 200 /\ ~ValidateTaskID(name) THEN 400 ELSE through, "get")
    BY <1>1, <1>3 DEF NamedArrives
  <2>2. PICK status : status = IF through = 200 /\ ~ValidateTaskID(name) THEN 400 ELSE through
    OBVIOUS
  <2>3. status \in {0, 200, 400, 401, 403} /\ (status = 200 => name \in TaskName)
    BY <2>1, <2>2 DEF ValidateTaskID
  <2>4. Arrives(c, op, name, status, "get")
    BY <2>1, <2>2
  <2> QED BY <2>3, <2>4, ArrivesKeeps
<1> QED BY Zenon, <1>2, <1>3, CreateTaskKeeps, GetsKeep, DeleteTaskKeeps DEF RequestNext

\* Every incarnation has its uid and every request knows what became of its own.
LEMMA RequestsStayKnown == TaskApiSpec => [](TasksInv /\ CallsInv)
<1>1. TaskApiInit => TasksInv /\ CallsInv
  <2> SUFFICES ASSUME TaskApiInit PROVE TasksInv /\ CallsInv
    OBVIOUS
  <2>1. None \in Task /\ None.uid = 0
    BY DEF None, Task
  <2>2. TasksInv
    <3>1. \A n \in TaskName : tasks[n] = None
      BY Zenon DEF TaskApiInit
    <3>2. tasks \in [TaskName -> Task] /\ made = 0
      BY Zenon, <2>1 DEF TaskApiInit
    <3>3. Present = {}
      BY <2>1, <3>1 DEF Present
    <3> QED BY SMTT(30), <2>1, <3>1, <3>2, <3>3 DEF TasksInv
  <2> DEFINE r == [pc |-> "idle", op |-> "", name |-> 0, uid |-> 0, answer |-> 0]
  <2>3. r \in Call /\ r.uid = 0 /\ r.answer = 0 /\ r.pc = "idle"
    BY DEF Call
  <2>4. calls = [c \in Client |-> r]
    BY Zenon DEF TaskApiInit
  <2> HIDE DEF r
  <2>5. Fits(r)
    BY <2>2, <2>3, PlainFits
  <2> QED BY <2>2, <2>3, <2>4, <2>5 DEF CallsInv
<1>2. TasksInv /\ CallsInv /\ [TaskApiNext]_taskApiVars => (TasksInv /\ CallsInv)'
  <2> SUFFICES ASSUME TasksInv, CallsInv, [TaskApiNext]_taskApiVars PROVE TasksInv' /\ CallsInv'
    OBVIOUS
  <2>1. CASE ReaderNext \/ UNCHANGED taskApiVars
    <3>1. tasks' = tasks /\ made' = made /\ calls' = calls
      BY Zenon, <2>1 DEF ReaderNext, StartReading, ListTasks, taskApiVars
    <3> QED BY <3>1, StillFades, TasksStay, NoCall DEF Fades
  <2> QED BY <2>1, RequestsKeep, ClusterKeeps DEF TaskApiNext
<1> QED BY <1>1, <1>2, PTL DEF TaskApiSpec

\* 201 and 204 are true: of an incarnation that this request made, and of the one
\* that DeleteTask read, whatever other requests, kubectl and the operator do
\* between its two calls of Kubernetes and afterwards.
THEOREM AnswersStayTrue == TaskApiSpec => []AnswersAreTrue
<1>1. TasksInv /\ CallsInv => AnswersAreTrue
  <2> SUFFICES ASSUME TasksInv, CallsInv, NEW c \in Client
               PROVE  /\ calls[c].answer = 201 =>
                            /\ calls[c].uid \in 1..made
                            /\ \A d \in Client \ {c} : calls[d].answer = 201 => calls[d].uid # calls[c].uid
                            /\ \A n \in Present : tasks[n].uid = calls[c].uid => n = calls[c].name /\ tasks[n].own
                      /\ calls[c].answer = 204 =>
                            \A n \in Present : tasks[n].uid = calls[c].uid => tasks[n].marked
    BY DEF AnswersAreTrue
  <2>1. Fits(calls[c])
    BY DEF CallsInv
  <2>2. calls[c].answer = 201 => calls[c].uid \in 1..made
    <3>1. calls[c].answer = 201 => calls[c].uid # 0
      BY SMTT(30), <2>1 DEF Fits
    <3>2. calls[c].uid \in Nat /\ calls[c].uid <= made /\ made \in Nat
      BY Zenon, <2>1 DEF Fits, Call, TasksInv
    <3> QED BY <3>1, <3>2
  <2>3. calls[c].answer = 201 => \A d \in Client \ {c} : calls[d].answer = 201 => calls[d].uid # calls[c].uid
    BY DEF CallsInv
  <2> QED BY Zenon, <2>1, <2>2, <2>3 DEF Fits
<1> QED BY <1>1, RequestsStayKnown, PTL

-----------------------------------------------------------------------------
\* Positions are counts of names, and grow with the name and with the set.
LEMMA PositionCounts ==
    ASSUME NEW S \in SUBSET TaskName, NEW n \in Nat
    PROVE  /\ Position(n, S) \in Nat /\ IsFiniteSet({m \in S : m <= n})
           /\ n \in S => Position(n, S) >= 1
           /\ \A T \in SUBSET S : Position(n, T) <= Position(n, S)
           /\ \A k \in Nat : k <= n => Position(k, S) <= Position(n, S)
<1>1. IsFiniteSet(TaskName)
  BY TaskApiAssumption, FS_Interval DEF TaskName
<1>2. \A U \in SUBSET TaskName : IsFiniteSet(U) /\ Cardinality(U) \in Nat
  BY <1>1, FS_Subset, FS_CardinalityType
<1>3. \A U, V \in SUBSET TaskName : U \subseteq V => Cardinality(U) <= Cardinality(V)
  BY <1>2, FS_Subset
<1>4. \A m \in S : m \in Nat
  BY TaskApiAssumption DEF TaskName
<1>5. ASSUME n \in S PROVE Position(n, S) >= 1
  <2>1. n \in {m \in S : m <= n}
    BY <1>5
  <2>2. Cardinality({m \in S : m <= n}) # 0
    BY <1>2, <2>1, FS_EmptySet
  <2> QED BY <1>2, <2>2 DEF Position
<1>6. ASSUME NEW T \in SUBSET S PROVE Position(n, T) <= Position(n, S)
  BY <1>3 DEF Position
<1>7. ASSUME NEW k \in Nat, k <= n PROVE Position(k, S) <= Position(n, S)
  <2>1. \A m \in S : m <= k => m <= n
    BY <1>4, <1>7
  <2>2. {m \in S : m <= k} \subseteq {m \in S : m <= n}
    BY <2>1
  <2> QED BY <1>3, <2>2 DEF Position
<1> QED BY SMTT(30), <1>2, <1>5, <1>6, <1>7 DEF Position

\* The next name is one further on if it is in the set.
LEMMA PositionNext ==
    ASSUME NEW S \in SUBSET TaskName, NEW n \in Nat \ {0}
    PROVE  Position(n, S) = Position(n - 1, S) + (IF n \in S THEN 1 ELSE 0)
<1>1. n - 1 \in Nat /\ \A m \in S : m \in Nat /\ (m <= n <=> m <= n - 1 \/ m = n)
  BY TaskApiAssumption DEF TaskName
<1>2. IsFiniteSet({m \in S : m <= n - 1}) /\ Position(n - 1, S) \in Nat
  BY Zenon, <1>1, PositionCounts
<1>3. CASE n \in S
  <2>1. {m \in S : m <= n} = {m \in S : m <= n - 1} \cup {n} /\ n \notin {m \in S : m <= n - 1}
    <3>1. ~(n <= n - 1)
      OBVIOUS
    <3> QED BY Zenon, <1>1, <1>3, <3>1
  <2> QED BY Zenon, <1>2, <1>3, <2>1, FS_AddElement DEF Position
<1>4. CASE n \notin S
  <2>1. {m \in S : m <= n} = {m \in S : m <= n - 1}
    BY Zenon, <1>1, <1>4
  <2>2. Position(n, S) = Position(n - 1, S)
    BY Zenon, <2>1 DEF Position
  <2> QED BY <1>2, <1>4, <2>2
<1> QED BY <1>3, <1>4

\* Every position up to that of a name is taken.
LEMMA PositionTaken ==
    ASSUME NEW S \in SUBSET TaskName, NEW n \in S, NEW k \in 1..Position(n, S)
    PROVE  \E m \in S : Position(m, S) = k
<1>0. \A m \in S : m \in Nat \ {0} /\ ~(m <= 0)
  BY TaskApiAssumption DEF TaskName
<1>1. \A m \in Nat : Position(m, S) \in Nat
  BY Zenon, PositionCounts
<1>2. Position(0, S) = 0
  <2>1. {m \in S : m <= 0} = {}
    BY Zenon, <1>0
  <2> QED BY <2>1, FS_EmptySet DEF Position
<1> DEFINE T == {m \in Nat : Position(m, S) >= k}
<1>3. n \in T /\ k \in Nat /\ k >= 1
  BY <1>0, <1>1
<1>4. PICK x \in T : \A y \in T : x <= y
  BY Zenon, <1>3, Least
<1>5. x \in Nat \ {0} /\ Position(x, S) >= k
  BY <1>2, <1>3, <1>4
<1>6. x - 1 \in Nat /\ Position(x - 1, S) < k
  <2>1. x - 1 \in Nat /\ x - 1 \notin T
    BY <1>4, <1>5
  <2> QED BY <1>1, <1>3, <2>1
<1>7. x \in S /\ Position(x, S) = k
  <2>1. Position(x, S) = Position(x - 1, S) + (IF x \in S THEN 1 ELSE 0)
    BY <1>5, PositionNext
  <2>2. Position(x, S) \in Nat /\ Position(x - 1, S) \in Nat
    BY <1>1, <1>5, <1>6
  <2> HIDE DEF T
  <2> QED BY SMTT(30), <1>3, <1>5, <1>6, <2>1, <2>2
<1> QED BY <1>7

\* A page before the position of a name is full.
LEMMA PageFull ==
    ASSUME NEW S \in SUBSET TaskName, NEW offset \in Nat, NEW limit \in Nat \ {0},
           NEW n \in S, Position(n, S) > offset + limit
    PROVE  Cardinality({m \in S : Position(m, S) \in offset + 1..offset + limit}) >= limit
<1> DEFINE P == {m \in S : Position(m, S) \in offset + 1..offset + limit}
           K == offset + 1..offset + limit
           f == [k \in K |-> CHOOSE m \in S : Position(m, S) = k]
<1>1. Position(n, S) \in Nat /\ n \in Nat
  <2>1. n \in Nat
    BY TaskApiAssumption DEF TaskName
  <2> QED BY Zenon, <2>1, PositionCounts
<1>2. \A k \in K : k \in 1..Position(n, S)
  BY <1>1
<1>3. \A k \in K : \E m \in S : Position(m, S) = k
  BY <1>2, PositionTaken
<1>4. \A k \in K : f[k] \in S /\ Position(f[k], S) = k
  BY <1>3
<1>5. f \in [K -> P]
  BY <1>4
<1>6. \A k, l \in K : f[k] = f[l] => k = l
  BY <1>4
<1> HIDE DEF f
<1>7. f \in Injection(K, P)
  BY <1>5, <1>6 DEF Injection, IsInjective
<1>8. IsFiniteSet(P) /\ Cardinality(P) \in Nat
  <2>1. IsFiniteSet(TaskName)
    BY TaskApiAssumption, FS_Interval DEF TaskName
  <2>2. P \subseteq TaskName
    OBVIOUS
  <2> QED BY SMTT(30), <2>1, <2>2, FS_Subset, FS_CardinalityType
<1>9. Cardinality(K) <= Cardinality(P)
  BY <1>7, <1>8, FS_Injection
<1>10. Cardinality(K) = limit
  BY FS_Interval
<1> QED BY <1>9, <1>10

\* Without a status the page has the names at its positions.
LEMMA ItemsArePositions ==
    ASSUME NEW offset \in Nat, NEW limit \in Nat
    PROVE  Items("", limit, offset) = {n \in Present : Position(n, Present) \in offset + 1..offset + limit}
<1> DEFINE F == {n \in Present : Position(n, Present) <= limit + offset}
<1>0. Present \subseteq TaskName /\ TaskName \subseteq Nat
  BY TaskApiAssumption DEF Present, TaskName
<1>1. {n \in F : "" \in {"", tasks[n].phase}} = F
  OBVIOUS
<1>2. \A n \in Present : Position(n, Present) \in Nat
  BY Zenon, <1>0, PositionCounts
<1>3. ASSUME NEW n \in F PROVE Position(n, F) = Position(n, Present)
  <2>1. \A m \in Present : m <= n => Position(m, Present) <= Position(n, Present)
    BY Zenon, <1>0, PositionCounts
  <2>2. \A m \in Present : m <= n => m \in F
    BY <1>2, <2>1
  <2>3. {m \in F : m <= n} = {m \in Present : m <= n}
    BY <2>2
  <2> HIDE DEF F
  <2> QED BY <2>3 DEF Position
<1>4. {n \in F : Position(n, F) \in offset + 1..offset + limit}
        = {n \in Present : Position(n, Present) \in offset + 1..offset + limit}
  <2>1. \A n \in Present : Position(n, Present) \in offset + 1..offset + limit => n \in F
    BY <1>2
  <2>2. F \subseteq Present
    OBVIOUS
  <2> HIDE DEF F
  <2> QED BY <1>3, <2>1, <2>2
<1> HIDE DEF F
<1>5. Items("", limit, offset) = {n \in F : Position(n, F) \in offset + 1..offset + limit}
  BY <1>1 DEF Items, F
<1> QED BY Zenon, <1>4, <1>5

\* What the reader has not seen of the tasks of the start is still to come.
PagerInv ==
    /\ pager \in Pager
    /\ pager.pc = "reading" /\ pager.status = "" /\ ~pager.removed =>
          \A u \in pager.began :
              u \in pager.seen \/ \E n \in Present : tasks[n].uid = u /\ Position(n, Present) > pager.offset
    /\ ListingMissesNothing

\* No task goes and the reader waits, or one goes and the reader will know.
Grows == pager' = pager /\ \A n \in Present : n \in Present' /\ tasks'[n].uid = tasks[n].uid
Shrinks == pager' = [pager EXCEPT !.removed = @ \/ pager.pc = "reading"]

\* What is created moves the others only further from the start.
LEMMA GrowsKeeps ==
    ASSUME PagerInv, Grows \/ Shrinks
    PROVE  PagerInv'
<1>1. pager \in Pager
  BY Zenon DEF PagerInv
<1>2. CASE Grows
  <2>1. pager' = pager /\ Present \subseteq Present' /\ Present \subseteq TaskName /\ Present' \subseteq TaskName
    BY <1>2 DEF Grows, Present
  <2>2. ASSUME NEW n \in Present PROVE Position(n, Present) \in Nat /\ Position(n, Present) <= Position(n, Present')
                                       /\ Position(n, Present') \in Nat
    <3>1. n \in Nat
      BY <2>1, TaskApiAssumption DEF TaskName
    <3> QED BY Zenon, <2>1, <3>1, PositionCounts
  <2>3. pager.offset \in Nat
    BY Zenon, <1>1 DEF Pager
  <2>4. ASSUME NEW u, NEW n \in Present, tasks[n].uid = u, Position(n, Present) > pager.offset
        PROVE  n \in Present' /\ tasks'[n].uid = u /\ Position(n, Present') > pager.offset
    <3>1. Position(n, Present') > pager.offset
      BY <2>2, <2>3, <2>4
    <3> QED BY <1>2, <2>4, <3>1 DEF Grows
  <2>5. ListingMissesNothing'
    BY Zenon, <2>1 DEF PagerInv, ListingMissesNothing
  <2>6. pager.pc = "reading" /\ pager.status = "" /\ ~pager.removed =>
          \A u \in pager.began :
              u \in pager.seen \/ \E n \in Present' : tasks'[n].uid = u /\ Position(n, Present') > pager.offset
    <3> SUFFICES ASSUME pager.pc = "reading", pager.status = "", ~pager.removed, NEW u \in pager.began, u \notin pager.seen
                 PROVE  \E n \in Present' : tasks'[n].uid = u /\ Position(n, Present') > pager.offset
      BY Zenon
    <3>1. PICK n \in Present : tasks[n].uid = u /\ Position(n, Present) > pager.offset
      BY Zenon DEF PagerInv
    <3> QED BY Zenon, <2>4, <3>1
  <2> QED BY Zenon, <1>1, <2>1, <2>5, <2>6 DEF PagerInv, Position
<1>3. CASE Shrinks
  <2>1. /\ pager' \in Pager /\ pager'.pc = pager.pc /\ pager'.status = pager.status
        /\ pager'.began = pager.began /\ pager'.seen = pager.seen
        /\ pager.pc = "reading" => pager'.removed
        /\ pager.removed => pager'.removed
    BY Zenon, <1>1, <1>3 DEF Shrinks, Pager
  <2> QED BY Zenon, <2>1 DEF PagerInv, ListingMissesNothing
<1> QED BY <1>2, <1>3

\* Names and positions of the tasks there are.
LEMMA PresentPositions ==
    /\ Present \in SUBSET TaskName
    /\ \A n \in Present : n \in Nat /\ Position(n, Present) \in Nat /\ Position(n, Present) > 0
<1>1. Present \in SUBSET TaskName
  BY DEF Present
<1>2. \A n \in TaskName : n \in Nat
  BY TaskApiAssumption DEF TaskName
<1>3. \A n \in Present : n \in Nat /\ Position(n, Present) \in Nat /\ Position(n, Present) >= 1
  BY Zenon, <1>1, <1>2, PositionCounts
<1> QED BY <1>1, <1>3

\* A new reader has everything to come.
LEMMA StartKeeps ==
    ASSUME TasksInv, NEW status \in {"", "Running"}, StartReading(status)
    PROVE  PagerInv'
<1>1. \A n \in Present : n \in TaskName /\ tasks[n].uid \in Nat
  BY Zenon DEF TasksInv, Task, Present
<1>2. PICK b : b = {tasks[n].uid : n \in Present}
  BY Zenon
<1>3. pager' = [pc |-> "reading", status |-> status, offset |-> 0, began |-> b, seen |-> {}, removed |-> FALSE]
      /\ tasks' = tasks
  BY Zenon, <1>2 DEF StartReading
<1>4. b \in SUBSET Nat
  BY Zenon, <1>1, <1>2
<1>5. /\ pager' \in Pager /\ pager'.offset = 0 /\ pager'.began = b /\ pager'.pc = "reading"
  BY Zenon, <1>3, <1>4 DEF Pager
<1>6. \A n \in Present : Position(n, Present) > 0
  BY Zenon, PresentPositions
<1>7. \A u \in b : \E n \in Present : tasks[n].uid = u /\ Position(n, Present) > 0
  BY Zenon, <1>2, <1>6
<1>8. Present' = Present
  BY Zenon, <1>3 DEF Present
<1>9. \A u \in pager'.began : \E n \in Present' : tasks'[n].uid = u /\ Position(n, Present)' > pager'.offset
  BY ZenonT(30), <1>3, <1>5, <1>7, <1>8 DEF Position
<1> QED BY Zenon, <1>5, <1>9 DEF PagerInv, ListingMissesNothing

\* A page shows what is up to its end; after the last one nothing is to come.
LEMMA ListKeeps ==
    ASSUME TasksInv, PagerInv, ListTasks
    PROVE  PagerInv'
<1>1. PICK items : items = Items(pager.status, PageLimit, pager.offset)
  OBVIOUS
<1>2. PICK s : s = {tasks[n].uid : n \in items}
  BY Zenon
<1>3. /\ pager.pc = "reading" /\ tasks' = tasks
      /\ pager' = [pager EXCEPT !.seen = @ \cup s, !.offset = @ + PageLimit,
                                !.pc = IF Cardinality(items) < PageLimit THEN "read" ELSE "reading"]
  BY <1>1, <1>2 DEF ListTasks
<1>4. pager \in Pager /\ pager.offset \in Nat /\ PageLimit \in Nat \ {0}
  <2>1. pager \in Pager
    BY Zenon DEF PagerInv
  <2>2. PageLimit \in Nat \ {0}
    BY TaskApiAssumption
  <2> QED BY Zenon, <2>1, <2>2 DEF Pager
<1>5. Present \in SUBSET TaskName /\ \A n \in Present : n \in Nat /\ tasks[n].uid \in Nat
  <2>1. \A n \in TaskName : tasks[n].uid \in Nat
    BY Zenon DEF TasksInv, Task
  <2> QED BY Zenon, <2>1, PresentPositions
<1>6. items \subseteq Present
  BY Zenon, <1>1 DEF Items
<1>7. s \in SUBSET Nat
  BY <1>2, <1>5, <1>6
<1>8. /\ pager' \in Pager /\ pager'.seen = pager.seen \cup s /\ pager'.offset = pager.offset + PageLimit
      /\ pager'.began = pager.began /\ pager'.status = pager.status /\ pager'.removed = pager.removed
      /\ pager'.pc = IF Cardinality(items) < PageLimit THEN "read" ELSE "reading"
  <2>1. PICK next \in {"read", "reading"} : next = IF Cardinality(items) < PageLimit THEN "read" ELSE "reading"
    OBVIOUS
  <2>2. pager' = [pager EXCEPT !.seen = @ \cup s, !.offset = @ + PageLimit, !.pc = next]
    BY <1>3, <2>1
  <2>3. pager.seen \cup s \in SUBSET Nat /\ pager.offset + PageLimit \in Nat
    <3>1. pager.seen \subseteq Nat /\ pager.offset \in Nat
      BY Zenon, <1>4 DEF Pager
    <3>2. pager.seen \cup s \subseteq Nat
      BY Zenon, <1>7, <3>1
    <3> QED BY <1>4, <3>1, <3>2
  <2> QED BY Zenon, <1>4, <2>1, <2>2, <2>3 DEF Pager
<1>9. Present' = Present
  BY <1>3 DEF Present
<1>10. ASSUME pager.status = "", ~pager.removed
       PROVE  /\ \A u \in pager.began :
                    u \in pager'.seen \/ \E n \in Present : tasks[n].uid = u /\ Position(n, Present) > pager'.offset
              /\ Cardinality(items) < PageLimit => pager.began \subseteq pager'.seen
  <2>1. items = {n \in Present : Position(n, Present) \in pager.offset + 1..pager.offset + PageLimit}
    BY Zenon, <1>1, <1>4, <1>10, ItemsArePositions
  <2>2. \A n \in Present : Position(n, Present) \in Nat
    BY Zenon, <1>5, PositionCounts
  <2>3. ASSUME NEW n \in Present, Position(n, Present) > pager.offset, ~(Position(n, Present) > pager.offset + PageLimit)
        PROVE  tasks[n].uid \in s
    <3>1. Position(n, Present) \in pager.offset + 1..pager.offset + PageLimit
      BY <1>4, <2>2, <2>3
    <3> QED BY <1>2, <2>1, <3>1
  <2>4. ASSUME NEW u \in pager.began
        PROVE  u \in pager'.seen \/ \E n \in Present : tasks[n].uid = u /\ Position(n, Present) > pager'.offset
    <3>1. u \in pager.seen \/ \E n \in Present : tasks[n].uid = u /\ Position(n, Present) > pager.offset
      BY Zenon, <1>3, <1>10 DEF PagerInv
    <3> QED BY <1>8, <2>3, <3>1
  <2>5. ASSUME Cardinality(items) < PageLimit, NEW n \in Present, Position(n, Present) > pager'.offset
        PROVE  FALSE
    <3>1. Cardinality(items) >= PageLimit
      <4>1. Position(n, Present) > pager.offset + PageLimit
        BY <1>8, <2>5
      <4>2. PICK o \in Nat : o = pager.offset
        BY <1>4
      <4>3. Cardinality({m \in Present : Position(m, Present) \in o + 1..o + PageLimit}) >= PageLimit
        BY ZenonT(30), <1>4, <1>5, <4>1, <4>2, PageFull
      <4> QED BY SMTT(30), <2>1, <4>2, <4>3
    <3>2. Cardinality(items) \in Nat
      <4>1. IsFiniteSet(TaskName)
        BY TaskApiAssumption, FS_Interval DEF TaskName
      <4> QED BY <1>5, <1>6, <4>1, FS_Subset, FS_CardinalityType
    <3> QED BY <1>4, <2>5, <3>1, <3>2
  <2> QED BY <2>4, <2>5
<1>11. pager'.pc = "reading" /\ pager'.status = "" /\ ~pager'.removed =>
          \A u \in pager'.began :
              u \in pager'.seen \/ \E n \in Present' : tasks'[n].uid = u /\ Position(n, Present') > pager'.offset
  BY Zenon, <1>3, <1>8, <1>9, <1>10
<1>12. ListingMissesNothing'
  BY Zenon, <1>8, <1>10 DEF ListingMissesNothing
<1> QED BY Zenon, <1>8, <1>11, <1>12 DEF PagerInv, Position

\* Every step but those of the reader lets the tasks grow or tells the reader.
LEMMA OthersGrow ==
    ASSUME TasksInv, CallsInv, RequestNext \/ ClusterNext
    PROVE  Grows \/ Shrinks
<1>1. ASSUME pager' = pager, tasks' = tasks PROVE Grows
  BY <1>1 DEF Grows, Present
<1>2. ASSUME NEW n \in TaskName, tasks[n].uid = 0, NEW own \in BOOLEAN, Make(n, own), pager' = pager PROVE Grows
  <2>1. \A k \in TaskName \ {n} : tasks'[k] = tasks[k]
    BY <1>2, MakeMoves
  <2> QED BY <1>2, <2>1 DEF Grows, Present
<1>3. ASSUME NEW n \in TaskName, Deleted(n) PROVE Grows \/ Shrinks
  <2>1. CASE tasks' = [tasks EXCEPT ![n].marked = TRUE] /\ pager' = pager
    <3>1. \A k \in TaskName : tasks'[k].uid = tasks[k].uid
      BY Zenon, <2>1 DEF TasksInv, Task
    <3> QED BY <2>1, <3>1 DEF Grows, Present
  <2>2. CASE Removed(n)
    BY SMTT(30), <2>2 DEF Removed, Shrinks
  <2> QED BY <1>3, <2>1, <2>2 DEF Deleted
<1>4. \A c \in Client : calls[c].pc \in {"create", "delete"} => calls[c].name \in TaskName
  BY SMTT(30) DEF CallsInv, Fits
<1>5. ASSUME NEW c \in Client, CreateTask(c) PROVE Grows
  <2>1. calls[c].name \in TaskName /\ pager' = pager
    BY <1>4, <1>5 DEF CreateTask
  <2> QED BY ZenonT(30), <1>1, <1>2, <1>5, <2>1 DEF CreateTask
<1>6. ASSUME NEW c \in Client, DeleteTask(c) PROVE Grows \/ Shrinks
  <2>1. calls[c].name \in TaskName
    BY <1>4, <1>6 DEF DeleteTask
  <2> QED BY <1>1, <1>3, <1>6, <2>1 DEF DeleteTask
<1>7. CASE RequestNext
  <2>1. ASSUME NEW c \in Client, NEW header \in Header, NEW body \in Request, CreateArrives(c, header, body)
        PROVE  pager' = pager /\ tasks' = tasks
    BY <2>1 DEF CreateArrives, Arrives
  <2>2. ASSUME NEW c \in Client, NEW header \in Header, NEW op, NEW name, NamedArrives(c, header, op, name)
        PROVE  pager' = pager /\ tasks' = tasks
    BY <2>2 DEF NamedArrives, Arrives
  <2>3. ASSUME NEW c \in Client, GetTask(c) \/ GetTaskLogs(c) \/ DeleteTaskGets(c)
        PROVE  pager' = pager /\ tasks' = tasks
    BY <2>3 DEF GetTask, GetTaskLogs, DeleteTaskGets
  <2> QED BY Zenon, <1>1, <1>5, <1>6, <1>7, <2>1, <2>2, <2>3 DEF RequestNext
<1>8. CASE ClusterNext
  <2>1. PICK n \in TaskName : (\E own \in BOOLEAN : Apply(n, own)) \/ Run(n) \/ Withdraw(n) \/ FinishDeletion(n)
    BY <1>8 DEF ClusterNext
  <2>2. CASE \E own \in BOOLEAN : Apply(n, own)
    BY <1>2, <2>2 DEF Apply
  <2>3. CASE Run(n)
    <3>1. \A k \in TaskName : tasks'[k].uid = tasks[k].uid
      BY Zenon, <2>3 DEF Run, TasksInv, Task
    <3> QED BY <2>3, <3>1 DEF Run, Grows, Present
  <2>4. CASE Withdraw(n) \/ FinishDeletion(n)
    BY <1>3, <2>4 DEF Withdraw, FinishDeletion, Deleted
  <2> QED BY <2>1, <2>2, <2>3, <2>4
<1> QED BY <1>7, <1>8

\* Who reads the listing page by page without a status misses no task of the start
\* while nothing is removed: pages go by the offset, and what is created between two
\* pages only moves the others further on.
THEOREM ListingIsComplete == TaskApiSpec => []ListingMissesNothing
<1>1. TaskApiInit => PagerInv
  <2> SUFFICES ASSUME TaskApiInit PROVE PagerInv
    OBVIOUS
  <2>1. pager = [pc |-> "idle", status |-> "", offset |-> 0, began |-> {}, seen |-> {}, removed |-> FALSE]
    BY Zenon DEF TaskApiInit
  <2>2. pager \in Pager /\ pager.pc = "idle"
    BY Zenon, <2>1 DEF Pager
  <2> QED BY <2>2 DEF PagerInv, ListingMissesNothing
<1>2. TasksInv /\ CallsInv /\ PagerInv /\ [TaskApiNext]_taskApiVars => PagerInv'
  <2> SUFFICES ASSUME TasksInv, CallsInv, PagerInv, [TaskApiNext]_taskApiVars PROVE PagerInv'
    OBVIOUS
  <2>1. CASE UNCHANGED taskApiVars
    <3>1. Grows
      BY <2>1 DEF taskApiVars, Grows, Present
    <3> QED BY <3>1, GrowsKeeps
  <2>2. CASE ReaderNext
    BY Zenon, <2>2, StartKeeps, ListKeeps DEF ReaderNext
  <2> QED BY Zenon, <2>1, <2>2, OthersGrow, GrowsKeeps DEF TaskApiNext
<1>3. PagerInv => ListingMissesNothing
  BY Zenon DEF PagerInv
<1> QED BY <1>1, <1>2, <1>3, RequestsStayKnown, PTL DEF TaskApiSpec
=============================================================================
