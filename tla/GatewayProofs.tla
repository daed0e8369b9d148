---------------------------- MODULE GatewayProofs ----------------------------
(***************************************************************************)
(* Theorems about Gateway, for any number of requests, tenants, attempts,  *)
(* cancellations and minutes, and for all limits.                          *)
(***************************************************************************)
EXTENDS Gateway, FiniteLemmas, TLAPS

Status == {"Pending", "Running", "Completed", "Failed"}
TaskName == Name \cup ({"prefill"} \X (1..Prefill))
SubmitCall == Request \X (0..MaxRetries)
Task == [name : TaskName, call : SubmitCall \cup {<<>>}, status : Status, goroutine : Goroutine]
Req == [pc : Pc, tenant : Tenant, name : Name, minute : Minute, sent : 0..MaxResends + 1,
        count : Nat, attempt : 0..MaxRetries, code : Code, reply : Code, expired : BOOLEAN]

Types ==
    /\ limits \in Limits
    /\ now \in Minute
    /\ minuteCount \in [Tenant -> [Minute -> Nat]]
    /\ hourCount \in [Tenant -> [Minute -> Nat]]
    /\ tasks \in Seq(Task)
    /\ queueDepth \in Int
    /\ published \in [Channel -> Nat]
    /\ req \in [Request -> Req]
    /\ unread \subseteq Request \X Sends \X Key
    /\ inflight \subseteq SubmitCall

-----------------------------------------------------------------------------
\* An hour has no greater number than its minutes.
LEMMA HourOfType == ASSUME NEW m \in Minute PROVE HourOf(m) \in Minute
BY LimiterAssumption DEF HourOf, Minute

\* The pipeline is sent again.
Resend(r) ==
    /\ req[r].sent \in 1..MaxResends
    /\ req' = [req EXCEPT ![r].pc = "minute", ![r].count = 0, ![r].sent = @ + 1]

\* What a step of a request does to it: the tenant and the name stay, and nothing
\* happens to the other requests.
LEMMA RequestMoves ==
    ASSUME Types, NEW r \in Request, Handle(r)
    PROVE  /\ req' \in [Request -> Req]
           /\ req'[r].tenant = req[r].tenant /\ req'[r].name = req[r].name
           /\ \A q \in Request : q # r => req'[q] = req[q]
           /\ UNCHANGED <<limits, now, tasks, queueDepth, published, limiter, client>>
<1>0. req \in [Request -> Req] /\ req[r] \in Req
  BY DEF Types
<1>1. UNCHANGED <<limits, now, tasks, queueDepth, published, limiter, client>>
  BY DEF Handle, AuthMiddleware, withRateLimit, AllowMinute, AllowHour, AllowFails, HandleCreateTask,
         SubmitTaskCall, Accepted, AttemptFails, limiterVars, mockVars, config
<1>8. ASSUME Resend(r) PROVE
         /\ req' \in [Request -> Req] /\ \A q \in Request : q # r => req'[q] = req[q]
         /\ req'[r].tenant = req[r].tenant /\ req'[r].name = req[r].name
  <2>1. PICK next \in 0..MaxResends + 1 : next = req[r].sent + 1
    BY <1>8, GatewayAssumption DEF Resend
  <2>2. req' = [req EXCEPT ![r].pc = "minute", ![r].count = 0, ![r].sent = next]
    BY Zenon, <1>8, <2>1 DEF Resend
  <2>3. 0 \in Nat
    OBVIOUS
  <2> QED BY Zenon, <1>0, <2>2, <2>3 DEF Req, Pc
<1>2. ASSUME NEW where \in Pc, Goto(r, where) PROVE
         /\ req' \in [Request -> Req] /\ \A q \in Request : q # r => req'[q] = req[q]
         /\ req'[r].tenant = req[r].tenant /\ req'[r].name = req[r].name
  BY Zenon, <1>0, <1>2 DEF Goto, Req
<1>3. ASSUME NEW code \in Code, Answer(r, code) PROVE
         /\ req' \in [Request -> Req] /\ \A q \in Request : q # r => req'[q] = req[q]
         /\ req'[r].tenant = req[r].tenant /\ req'[r].name = req[r].name
  <2>1. PICK reply \in Code : reply = IF req[r].expired THEN 0 ELSE code
    BY DEF Code
  <2>2. req' = [req EXCEPT ![r].pc = "done", ![r].count = 0, ![r].code = code, ![r].reply = reply]
    BY Zenon, <1>3, <2>1 DEF Answer
  <2>3. 0 \in Nat
    OBVIOUS
  <2> QED BY Zenon, <1>0, <2>2, <2>3 DEF Req, Pc
<1>4. CASE AuthMiddleware(r) \/ AllowFails(r) \/ HandleCreateTask(r) \/ SubmitTaskCall(r) \/ Accepted(r)
           \/ AllowHour(r)
  <2>1. \/ \E where \in Pc : Goto(r, where)
        \/ \E code \in Code : Answer(r, code)
        \/ Resend(r)
    BY <1>4 DEF AuthMiddleware, AllowFails, HandleCreateTask, SubmitTaskCall, Accepted, AllowHour,
                PipelineFails, Resend, Pc, Code
  <2> QED BY <1>1, <1>2, <1>3, <1>8, <2>1
<1>5. CASE withRateLimit(r)
  <2>1. PICK where \in Pc, sent \in 0..MaxResends + 1 :
            req' = [req EXCEPT ![r].pc = where, ![r].minute = now, ![r].sent = sent]
    <3>1. 0 \in 0..MaxResends + 1 /\ 1 \in 0..MaxResends + 1
      BY GatewayAssumption
    <3> QED BY Zenon, <1>5, <3>1 DEF withRateLimit, Pc
  <2>2. now \in Minute
    BY DEF Types
  <2> QED BY Zenon, <1>0, <1>1, <2>1, <2>2 DEF Req
<1>6. CASE AllowMinute(r)
  <2>1. minuteCount'[req[r].tenant][req[r].minute] \in Nat
    BY <1>0, <1>6 DEF AllowMinute, IncrMinute, Types, Req
  <2>2. req' = [req EXCEPT ![r].pc = "hour", ![r].count = minuteCount'[req[r].tenant][req[r].minute]]
    BY <1>6 DEF AllowMinute
  <2> QED BY Zenon, <1>0, <1>1, <2>1, <2>2 DEF Req, Pc
<1>7. CASE AttemptFails(r)
  <2>1. CASE req[r].attempt < MaxRetries
    <3>1. req[r].attempt \in 0..MaxRetries
      BY Zenon, <1>0 DEF Req
    <3>2. PICK next \in 0..MaxRetries : next = req[r].attempt + 1
      BY <2>1, <3>1, GatewayAssumption
    <3>3. req' = [req EXCEPT ![r].pc = "call", ![r].attempt = next]
      BY Zenon, <1>7, <2>1, <3>2 DEF AttemptFails
    <3> QED BY Zenon, <1>0, <1>1, <3>3 DEF Req, Pc
  <2>2. CASE ~(req[r].attempt < MaxRetries)
    BY <1>1, <1>3, <1>7, <2>2 DEF AttemptFails, Code
  <2> QED BY <2>1, <2>2
<1> QED BY <1>4, <1>5, <1>6, <1>7 DEF Handle

-----------------------------------------------------------------------------
(* The mock of Module 1. *)

MockInv ==
    /\ DepthIsTasksLessEvents
    /\ \A i \in DOMAIN tasks : tasks[i].goroutine = "returned" => tasks[i].status \in {"Completed", "Failed"}

\* A step of the mock: a task is added, or one is changed that has not ended.
MockStep ==
    \/ \E call \in inflight : Serve(call)
    \/ \E i \in DOMAIN tasks : Transition(i)
    \/ \E n \in {tasks[i].name : i \in DOMAIN tasks} : Cancel(n)

\* The two forms of such a step.
Adds(new) ==
    /\ tasks' = Append(tasks, new)
    /\ queueDepth' = queueDepth + 1
    /\ UNCHANGED published

Changes(i, status, goroutine) ==
    /\ tasks' = [tasks EXCEPT ![i].status = status, ![i].goroutine = goroutine]
    /\ i \in DOMAIN tasks => tasks[i].goroutine # "returned"
    /\ \/ goroutine = "running" /\ UNCHANGED <<queueDepth, published>>
       \/ /\ status \in {"Completed", "Failed"}
          /\ queueDepth' = queueDepth - 1
          /\ \E ch \in Channel : published' = [published EXCEPT ![ch] = @ + 1]

\* Every step of the mock has one of the forms.
LEMMA MockForms ==
    ASSUME Types, MockInv, MockStep
    PROVE  /\ \/ \E call \in inflight : /\ Adds(NewTask(req[call[1]].name, call, "queued"))
                                         /\ inflight' = inflight \ {call}
              \/ \E i : \E status \in Status, goroutine \in Goroutine : Changes(i, status, goroutine)
           /\ inflight' \subseteq inflight
           /\ UNCHANGED <<limiterVars, config, req, unread>>
<1>1. CASE \E call \in inflight : Serve(call)
  BY <1>1 DEF Serve, SubmitTask, Adds
<1>2. CASE \E i \in DOMAIN tasks : Transition(i)
  <2>1. PICK i \in DOMAIN tasks : Transition(i)
    BY <1>2
  <2>2. CASE TransitionToRunning(i)
    <3>1. Changes(i, "Running", "running")
      BY <2>2 DEF TransitionToRunning, Changes
    <3> QED BY <2>1, <3>1 DEF Transition, Status, Goroutine
  <2>3. CASE TransitionToEnd(i)
    <3>1. PICK end \in {<<"Failed", "failed">>, <<"Completed", "completed">>} :
             /\ tasks' = [tasks EXCEPT ![i].status = end[1], ![i].goroutine = "returned"]
             /\ publishEvent(end[2])
      BY Zenon, <2>3 DEF TransitionToEnd
    <3>2. end[1] \in {"Completed", "Failed"} /\ end[2] \in Channel
      BY DEF Channel
    <3>3. Changes(i, end[1], "returned")
      BY Zenon, <2>3, <3>1, <3>2 DEF TransitionToEnd, Changes, publishEvent
    <3> QED BY <2>1, <3>2, <3>3 DEF Transition, Status, Goroutine
  <2> QED BY <2>1, <2>2, <2>3 DEF Transition, scheduleTaskTransition
<1>3. CASE \E n \in {tasks[i].name : i \in DOMAIN tasks} : Cancel(n)
  <2>1. PICK n : Cancel(n)
    BY <1>3
  <2> DEFINE i == Stored(n)
  <2>2. /\ Cancellable(i) /\ tasks' = [tasks EXCEPT ![i].status = "Failed"]
        /\ published' = [published EXCEPT !["cancelled"] = @ + 1] /\ queueDepth' = queueDepth - 1
        /\ UNCHANGED <<limiterVars, config, req, unread, inflight>>
    BY <2>1 DEF Cancel, CancelTask, publishEvent
  <2> HIDE DEF i
  <2>3. CASE i \in DOMAIN tasks
    <3>1. tasks[i] \in Task
      BY <2>3 DEF Types
    <3>2. tasks[i].goroutine \in Goroutine /\ tasks[i].goroutine # "returned"
      BY <2>2, <2>3, <3>1 DEF Cancellable, MockInv, Task
    <3>3. tasks' = [tasks EXCEPT ![i].status = "Failed", ![i].goroutine = tasks[i].goroutine]
      BY Zenon, <2>2, <2>3, <3>1 DEF Task
    <3>4. Changes(i, "Failed", tasks[i].goroutine)
      BY Zenon, <2>2, <3>2, <3>3 DEF Changes, Channel
    <3> QED BY <2>2, <3>2, <3>4 DEF Status
  <2>4. CASE i \notin DOMAIN tasks
    <3>1. tasks' = [tasks EXCEPT ![i].status = "Failed", ![i].goroutine = "none"]
      BY Zenon, <2>2, <2>4 DEF Types
    <3>2. Changes(i, "Failed", "none")
      BY Zenon, <2>2, <2>4, <3>1 DEF Changes, Channel
    <3> QED BY <2>2, <3>2 DEF Status, Goroutine
  <2> QED BY <2>3, <2>4
<1> QED BY <1>1, <1>2, <1>3 DEF MockStep

\* A task that is added.
LEMMA AddsKeeps ==
    ASSUME Types, MockInv, NEW call \in inflight, Adds(NewTask(req[call[1]].name, call, "queued"))
    PROVE  /\ tasks' \in Seq(Task) /\ queueDepth' \in Int /\ published' \in [Channel -> Nat]
           /\ MockInv'
           /\ \A i \in DOMAIN tasks : i \in DOMAIN tasks' /\ tasks'[i] = tasks[i]
           /\ \A i \in DOMAIN tasks' : i \notin DOMAIN tasks => tasks'[i].call = call
<1> DEFINE new == NewTask(req[call[1]].name, call, "queued")
<1>1. call \in SubmitCall /\ req[call[1]].name \in Name
  BY DEF Types, SubmitCall, Req
<1>2. new \in Task /\ new.call = call /\ new.goroutine = "queued"
  BY <1>1 DEF NewTask, Task, TaskName, Status, Goroutine
<1> HIDE DEF new
<1>3. tasks' = Append(tasks, new) /\ queueDepth' = queueDepth + 1 /\ published' = published
  BY DEF Adds, new
<1>4. /\ tasks' \in Seq(Task) /\ Len(tasks') = Len(tasks) + 1 /\ Len(tasks) \in Nat
      /\ \A i \in 1..Len(tasks) : tasks'[i] = tasks[i]
      /\ tasks'[Len(tasks) + 1] = new
  BY <1>2, <1>3 DEF Types
<1>5. DOMAIN tasks = 1..Len(tasks) /\ DOMAIN tasks' = 1..(Len(tasks) + 1)
  BY <1>4 DEF Types
<1>6. DepthIsTasksLessEvents'
  BY SMTT(30), <1>3, <1>4 DEF MockInv, DepthIsTasksLessEvents, Types, Channel
<1>7. \A i \in DOMAIN tasks' : i \notin DOMAIN tasks => tasks'[i] = new
  BY <1>4, <1>5
<1>8. \A i \in DOMAIN tasks' : tasks'[i].goroutine = "returned" => tasks'[i].status \in {"Completed", "Failed"}
  BY <1>2, <1>4, <1>5, <1>7 DEF MockInv
<1> QED BY <1>2, <1>3, <1>4, <1>5, <1>6, <1>7, <1>8 DEF MockInv, Types

\* A task that is changed.
LEMMA ChangesKeeps ==
    ASSUME Types, MockInv, NEW i, NEW status \in Status, NEW goroutine \in Goroutine,
           Changes(i, status, goroutine)
    PROVE  /\ tasks' \in Seq(Task) /\ queueDepth' \in Int /\ published' \in [Channel -> Nat]
           /\ MockInv'
           /\ DOMAIN tasks' = DOMAIN tasks
           /\ \A j \in DOMAIN tasks : /\ tasks'[j].call = tasks[j].call
                                      /\ tasks[j].goroutine = "returned" => tasks'[j] = tasks[j]
<1>1. Len(tasks) \in Nat /\ DOMAIN tasks = 1..Len(tasks) /\ \A j \in DOMAIN tasks : tasks[j] \in Task
  BY DEF Types
<1>2. DOMAIN tasks' = DOMAIN tasks
  BY <1>1 DEF Changes, Types
<1>3. \A j \in DOMAIN tasks :
         \/ tasks'[j] = tasks[j] /\ j # i
         \/ /\ j = i /\ tasks[j].goroutine # "returned"
            /\ tasks'[j] = [tasks[j] EXCEPT !.status = status, !.goroutine = goroutine]
  BY Zenon, <1>1 DEF Changes
<1>4. \A j \in DOMAIN tasks :
         /\ tasks'[j] \in Task /\ tasks'[j].call = tasks[j].call
         /\ j = i => tasks'[j].status = status /\ tasks'[j].goroutine = goroutine
  BY Zenon, <1>1, <1>3 DEF Task
<1>5. tasks' \in Seq(Task) /\ Len(tasks') = Len(tasks)
  <2>1. tasks' = [j \in 1..Len(tasks) |-> tasks'[j]]
    BY Zenon, <1>1 DEF Changes, Types
  <2> QED BY <1>1, <1>2, <1>4, <2>1
<1>6. queueDepth' \in Int /\ published' \in [Channel -> Nat]
  BY DEF Types, Changes
<1>7. DepthIsTasksLessEvents'
  <2>0. /\ published \in [Channel -> Nat] /\ queueDepth \in Int
        /\ queueDepth = Len(tasks) - published["completed"] - published["failed"] - published["cancelled"]
    BY DEF MockInv, DepthIsTasksLessEvents, Types
  <2>1. CASE UNCHANGED <<queueDepth, published>>
    BY <1>5, <2>0, <2>1 DEF DepthIsTasksLessEvents
  <2>2. ASSUME NEW ch \in Channel, published' = [published EXCEPT ![ch] = @ + 1], queueDepth' = queueDepth - 1
        PROVE  DepthIsTasksLessEvents'
    <3>1. \A c \in Channel : published[c] \in Nat /\ published'[c] = IF c = ch THEN published[c] + 1 ELSE published[c]
      BY <2>0, <2>2
    <3>2. "completed" \in Channel /\ "failed" \in Channel /\ "cancelled" \in Channel
          /\ (ch = "completed" \/ ch = "failed" \/ ch = "cancelled")
      BY DEF Channel
    <3> QED BY <1>1, <1>5, <2>0, <2>2, <3>1, <3>2 DEF DepthIsTasksLessEvents
  <2> QED BY <2>1, <2>2 DEF Changes
<1>8. \A j \in DOMAIN tasks' : tasks'[j].goroutine = "returned" => tasks'[j].status \in {"Completed", "Failed"}
  BY Zenon, <1>2, <1>3, <1>4 DEF Changes, MockInv
<1> QED BY Zenon, <1>2, <1>3, <1>4, <1>5, <1>6, <1>7, <1>8 DEF MockInv

Base == Types /\ MockInv

\* The steps that only time, Redis or the server take.
Aside ==
    \/ UNCHANGED vars
    \/ Clock
    \/ \E r \in Request : WriteTimeout(r)
    \/ \E command \in unread : RedisRunsLate(command)

\* Two states of a request that differ in the deadline for its answer at most.
Alike(c, d) ==
    /\ c.pc = d.pc /\ c.tenant = d.tenant /\ c.name = d.name /\ c.minute = d.minute /\ c.sent = d.sent
    /\ c.count = d.count /\ c.attempt = d.attempt /\ c.code = d.code

\* Such a step changes nothing else of the requests, and no task.
LEMMA AsideMoves ==
    ASSUME Types, Aside
    PROVE  /\ req' \in [Request -> Req] /\ \A q \in Request : Alike(req'[q], req[q])
           /\ UNCHANGED <<limits, tasks, queueDepth, published, inflight, limiter, client>>
<1>0. req \in [Request -> Req]
  BY DEF Types
<1>1. CASE UNCHANGED vars \/ Clock \/ \E command \in unread : RedisRunsLate(command)
  <2>1. req' = req /\ UNCHANGED <<limits, tasks, queueDepth, published, inflight, limiter, client>>
    BY Zenon, <1>1 DEF vars, Clock, MinutePasses, RedisRunsLate, limiterVars, mockVars, config
  <2> QED BY Zenon, <1>0, <2>1 DEF Alike
<1>2. ASSUME NEW r \in Request, WriteTimeout(r)
      PROVE  /\ req' \in [Request -> Req] /\ \A q \in Request : Alike(req'[q], req[q])
             /\ UNCHANGED <<limits, tasks, queueDepth, published, inflight, limiter, client>>
  <2>1. /\ req' = [req EXCEPT ![r].expired = TRUE]
        /\ UNCHANGED <<limits, tasks, queueDepth, published, inflight, limiter, client>>
    BY Zenon, <1>2 DEF WriteTimeout, limiterVars, mockVars, config
  <2> QED BY ZenonT(30), <1>0, <2>1 DEF Req, Alike
<1> QED BY <1>1, <1>2 DEF Aside

\* A pipeline that was given up was sent, and is not the one that is waited for.
Given(u) ==
    /\ u[2] <= req[u[1]].sent
    /\ req[u[1]].pc \in {"minute", "hour"} => u[2] < req[u[1]].sent

PipeInv ==
    /\ \A r \in Request :
           /\ req[r].pc \in {"new", "limit"} => req[r].sent = 0
           /\ req[r].pc \in {"minute", "hour"} => req[r].sent > 0
    /\ \A u \in unread : Given(u)

\* A step of a request keeps the types of the counters and of the calls.
LEMMA HandleKeepsBase == ASSUME Base, PipeInv, NEW r \in Request, Handle(r) PROVE Base'
<1>0. Types /\ MockInv /\ req[r] \in Req
  BY DEF Base, Types
<1>1. /\ req' \in [Request -> Req]
      /\ UNCHANGED <<limits, now, tasks, queueDepth, published>>
  BY <1>0, RequestMoves
<1>2. inflight' \subseteq SubmitCall
  <2>1. <<r, req[r].attempt>> \in SubmitCall
    BY <1>0 DEF SubmitCall, Req
  <2> QED
    BY Zenon, <1>0, <2>1 DEF Types, Handle, AuthMiddleware, withRateLimit, AllowMinute, AllowHour, AllowFails,
       HandleCreateTask, SubmitTaskCall, Accepted, AttemptFails
<1>6. unread' \subseteq Request \X Sends \X Key
  <2>1. ASSUME NEW keys \in SUBSET Key, req[r].sent \in Nat \ {0}, PipelineFails(r, keys)
        PROVE  unread' \subseteq Request \X Sends \X Key
    <3>1. req[r].sent \in Sends
      BY <1>0, <2>1 DEF Req, Sends
    <3>2. \A key \in keys : <<r, req[r].sent, key>> \in Request \X Sends \X Key
      BY Zenon, <3>1
    <3> QED BY Zenon, <1>0, <2>1, <3>2 DEF Types, PipelineFails
  <2>2. CASE req[r].pc \notin {"minute", "hour"} \/ AllowMinute(r)
    <3>1. unread' = unread
      BY <2>2 DEF Handle, AuthMiddleware, withRateLimit, AllowMinute, AllowHour, AllowFails,
         HandleCreateTask, SubmitTaskCall, Accepted, AttemptFails
    <3> QED BY <1>0, <3>1 DEF Types
  <2>3. CASE AllowHour(r) \/ AllowFails(r)
    <3>1. req[r].sent \in Nat \ {0}
      <4>1. req[r].pc \in {"minute", "hour"}
        BY <2>3 DEF AllowHour, AllowFails
      <4>2. req[r].sent \in 0..MaxResends + 1 /\ req[r].sent > 0
        BY Zenon, <1>0, <4>1 DEF PipeInv, Req
      <4> QED BY <4>2, GatewayAssumption
    <3>2. \/ \E keys \in SUBSET Key : PipelineFails(r, keys)
          \/ unread' = unread
      BY <2>3 DEF AllowHour, AllowFails, Key
    <3> QED BY <1>0, <2>1, <3>1, <3>2 DEF Types
  <2> QED BY <2>2, <2>3 DEF Handle, AuthMiddleware, withRateLimit, AllowMinute,
             HandleCreateTask, SubmitTaskCall, Accepted, AttemptFails
<1>3. minuteCount' \in [Tenant -> [Minute -> Nat]]
  <2>1. CASE AllowMinute(r)
    BY <1>0, <2>1 DEF AllowMinute, IncrMinute, Types, Req
  <2>2. CASE ~AllowMinute(r)
    BY <1>0, <2>2 DEF Types, Handle, AuthMiddleware, withRateLimit, AllowHour, AllowFails,
       HandleCreateTask, SubmitTaskCall, Accepted, AttemptFails, limiterVars
  <2> QED BY <2>1, <2>2
<1>4. hourCount' \in [Tenant -> [Minute -> Nat]]
  <2>1. CASE AllowHour(r)
    BY <1>0, <2>1, HourOfType DEF AllowHour, IncrHour, Types, Req
  <2>2. CASE ~AllowHour(r)
    BY <1>0, <2>2 DEF Types, Handle, AuthMiddleware, withRateLimit, AllowMinute, AllowFails,
       HandleCreateTask, SubmitTaskCall, Accepted, AttemptFails, limiterVars
  <2> QED BY <2>1, <2>2
<1>5. MockInv'
  BY <1>0, <1>1 DEF MockInv, DepthIsTasksLessEvents
<1> QED BY <1>0, <1>1, <1>2, <1>3, <1>4, <1>5, <1>6 DEF Base, Types

\* So does a step of the mock.
LEMMA MockKeepsBase == ASSUME Base, MockStep PROVE Base'
<1>1. inflight' \subseteq inflight /\ UNCHANGED <<limiterVars, config, req, unread>>
  BY MockForms DEF Base
<1>2. tasks' \in Seq(Task) /\ queueDepth' \in Int /\ published' \in [Channel -> Nat] /\ MockInv'
  <2>1. CASE \E call \in inflight : Adds(NewTask(req[call[1]].name, call, "queued"))
    BY <2>1, AddsKeeps DEF Base
  <2>2. CASE \E i : \E status \in Status, goroutine \in Goroutine : Changes(i, status, goroutine)
    BY <2>2, ChangesKeeps DEF Base
  <2> QED BY <2>1, <2>2, MockForms DEF Base
<1> QED BY <1>1, <1>2 DEF Base, Types, limiterVars

\* And the others.
LEMMA AsideKeepsBase == ASSUME Base, Aside PROVE Base'
<1>0. Types /\ MockInv
  BY DEF Base
<1>1. /\ req' \in [Request -> Req]
      /\ UNCHANGED <<limits, tasks, queueDepth, published, inflight>>
  BY <1>0, AsideMoves
<1>2. now' \in Minute
  BY <1>0, LimiterAssumption DEF Types, Minute, Aside, vars, limiterVars, Clock, MinutePasses, WriteTimeout, RedisRunsLate
<1>3. unread' \subseteq Request \X Sends \X Key
  BY Zenon, <1>0 DEF Types, Aside, vars, Clock, WriteTimeout, RedisRunsLate
<1>4. minuteCount' \in [Tenant -> [Minute -> Nat]] /\ hourCount' \in [Tenant -> [Minute -> Nat]]
  <2>1. CASE UNCHANGED vars \/ Clock \/ \E r \in Request : WriteTimeout(r)
    <3>1. minuteCount' = minuteCount /\ hourCount' = hourCount
      BY Zenon, <2>1 DEF vars, limiterVars, Clock, MinutePasses, WriteTimeout
    <3> QED BY <1>0, <3>1 DEF Types
  <2>2. ASSUME NEW command \in unread, RedisRunsLate(command)
        PROVE  minuteCount' \in [Tenant -> [Minute -> Nat]] /\ hourCount' \in [Tenant -> [Minute -> Nat]]
    <3>1. PICK t \in Tenant, m \in Minute : t = req[command[1]].tenant /\ m = req[command[1]].minute
      <4>1. command[1] \in Request
        BY <1>0 DEF Types
      <4> QED BY Zenon, <1>0, <4>1 DEF Types, Req
    <3>2. \/ IncrMinute(t, m) /\ hourCount' = hourCount
          \/ IncrHour(t, m) /\ minuteCount' = minuteCount
      BY Zenon, <2>2, <3>1 DEF RedisRunsLate
    <3>3. CASE IncrMinute(t, m) /\ hourCount' = hourCount
      BY <1>0, <3>3 DEF Types, IncrMinute
    <3>4. CASE IncrHour(t, m) /\ minuteCount' = minuteCount
      <4>1. HourOf(m) \in Minute
        BY HourOfType
      <4> QED BY <1>0, <3>4, <4>1 DEF Types, IncrHour
    <3> QED BY Zenon, <3>2, <3>3, <3>4
  <2> QED BY <2>1, <2>2 DEF Aside
<1>5. MockInv'
  BY <1>0, <1>1 DEF MockInv, DepthIsTasksLessEvents
<1> QED BY <1>0, <1>1, <1>2, <1>3, <1>4, <1>5 DEF Base, Types

\* The steps there are.
LEMMA Steps ==
    ASSUME [Next]_vars
    PROVE  Aside \/ (\E r \in Request : Handle(r)) \/ MockStep
BY Zenon DEF Next, MockStep, Aside

\* At the start.
LEMMA InitBase == ASSUME Init PROVE Base
<1>1. tasks \in Seq(Task) /\ Len(tasks) = Prefill /\ \A i \in DOMAIN tasks : tasks[i].goroutine = "none"
  <2>1. \A i \in 1..Prefill : AddPendingTask(i) \in Task /\ AddPendingTask(i).goroutine = "none"
    BY DEF AddPendingTask, NewTask, Task, TaskName, Status, Goroutine
  <2>2. tasks = [i \in 1..Prefill |-> AddPendingTask(i)] /\ Prefill \in Nat
    BY MockAssumption DEF Init, MockInit
  <2> QED BY <2>1, <2>2
<1>2. req \in [Request -> Req]
  <2>1. [pc : {"new"}, tenant : Tenant, name : Name, minute : {0}, sent : {0},
         count : {0}, attempt : {0}, code : {0}, reply : {0}, expired : {FALSE}] \subseteq Req
    <3>1. /\ 0 \in Minute /\ 0 \in 0..MaxResends + 1 /\ 0 \in Nat /\ 0 \in 0..MaxRetries /\ 0 \in Code
          /\ "new" \in Pc
      BY LimiterAssumption, GatewayAssumption DEF Minute, Pc, Code
    <3> QED BY Zenon, <3>1 DEF Req
  <2> QED BY Zenon, <2>1 DEF Init
<1>3. /\ limits \in Limits /\ now \in Minute /\ inflight \subseteq SubmitCall
      /\ unread \subseteq Request \X Sends \X Key
      /\ minuteCount \in [Tenant -> [Minute -> Nat]] /\ hourCount \in [Tenant -> [Minute -> Nat]]
  BY LimiterAssumption DEF Init, LimiterInit, Minute
<1>4. queueDepth \in Int /\ published \in [Channel -> Nat] /\ queueDepth = Prefill
      /\ published["completed"] = 0 /\ published["failed"] = 0 /\ published["cancelled"] = 0
  BY MockAssumption DEF Init, MockInit, Channel
<1>5. MockInv
  BY <1>1, <1>4, MockAssumption DEF MockInv, DepthIsTasksLessEvents
<1> QED BY <1>1, <1>2, <1>3, <1>4, <1>5 DEF Base, Types

\* So is PipeInv at the start.
LEMMA InitPipes == ASSUME Init PROVE PipeInv
<1>1. unread = {} /\ \A r \in Request : req[r].pc = "new" /\ req[r].sent = 0
  BY Zenon DEF Init
<1> QED BY Zenon, <1>1 DEF PipeInv, Given

\* A step of a request keeps PipeInv.
LEMMA HandleKeepsPipes == ASSUME Base, PipeInv, NEW r \in Request, Handle(r) PROVE PipeInv'
<1>0. /\ req \in [Request -> Req] /\ req[r] \in Req /\ \A q \in Request : q # r => req'[q] = req[q]
      /\ unread \subseteq Request \X Sends \X Key
  BY RequestMoves DEF Base, Types
<1>1. PICK n \in Nat : n = req[r].sent
  BY <1>0 DEF Req
<1>2. /\ req[r].pc \in {"new", "limit"} => n = 0
      /\ req[r].pc \in {"minute", "hour"} => n > 0
      /\ \A u \in unread : u[1] = r => u[2] <= n /\ (req[r].pc \in {"minute", "hour"} => u[2] < n)
  BY Zenon, <1>1 DEF PipeInv, Given
<1>3. \A u \in unread : u[1] \in Request /\ u[2] \in Nat /\ u[2] > 0
  BY <1>0 DEF Sends
<1>4. ASSUME unread' = unread,
             req'[r].pc \in {"new", "limit"} => req'[r].sent = 0,
             req'[r].pc \in {"minute", "hour"} => req'[r].sent > 0,
             \A u \in unread : u[1] = r =>
                 u[2] <= req'[r].sent /\ (req'[r].pc \in {"minute", "hour"} => u[2] < req'[r].sent)
      PROVE  PipeInv'
  BY Zenon, <1>0, <1>3, <1>4 DEF PipeInv, Given
<1>5. CASE AuthMiddleware(r)
  <2>1. req'[r].sent = n /\ req'[r].pc \notin {"minute", "hour"} /\ n = 0 /\ unread' = unread
    BY <1>0, <1>1, <1>2, <1>5 DEF AuthMiddleware, Goto, Answer, Req
  <2> QED BY <1>2, <1>4, <2>1
<1>6. CASE withRateLimit(r)
  <2>1. /\ n = 0 /\ unread' = unread
        /\ (req'[r].sent = 1 /\ req'[r].pc = "minute") \/ (req'[r].sent = 0 /\ req'[r].pc = "handle")
    BY <1>0, <1>1, <1>2, <1>6 DEF withRateLimit, Req
  <2>2. \A u \in unread : u[1] # r
    BY <1>2, <1>3, <2>1
  <2> QED BY <1>4, <2>1, <2>2
<1>7. CASE AllowMinute(r)
  <2>1. req'[r].sent = n /\ req'[r].pc = "hour" /\ req[r].pc = "minute" /\ unread' = unread
    BY <1>0, <1>1, <1>7 DEF AllowMinute, Req
  <2> QED BY <1>2, <1>4, <2>1
<1>8. CASE HandleCreateTask(r) \/ SubmitTaskCall(r) \/ Accepted(r) \/ AttemptFails(r)
  <2>1. req'[r].sent = n /\ req'[r].pc \in {"call", "wait", "done"} /\ unread' = unread
    BY <1>0, <1>1, <1>8 DEF HandleCreateTask, SubmitTaskCall, Accepted, AttemptFails, Goto, Answer, Req
  <2> QED BY <1>2, <1>4, <2>1
<1>9. ASSUME NEW keys, PipelineFails(r, keys), req[r].pc \in {"minute", "hour"} PROVE PipeInv'
  <2>1. unread' = unread \cup {<<r, n, key>> : key \in keys}
    BY Zenon, <1>1, <1>9 DEF PipelineFails
  <2>2. \/ req'[r].sent = n + 1 /\ req'[r].pc = "minute"
        \/ req'[r].sent = n /\ req'[r].pc = "done"
    BY <1>0, <1>1, <1>9 DEF PipelineFails, Answer, Req
  <2>3. ASSUME NEW u \in unread' PROVE Given(u)'
    <3>1. CASE u \in unread /\ u[1] # r
      <4>1. Given(u) /\ req'[u[1]] = req[u[1]]
        BY Zenon, <1>0, <1>3, <3>1 DEF PipeInv
      <4> QED BY Zenon, <4>1 DEF Given
    <3>2. CASE u \in unread /\ u[1] = r
      <4>1. u[2] \in Nat /\ u[2] < n
        BY <1>2, <1>3, <1>9, <3>2
      <4> QED BY <2>2, <3>2, <4>1 DEF Given
    <3>3. CASE u \notin unread
      <4>1. u[1] = r /\ u[2] = n
        BY <2>1, <3>3
      <4> QED BY <2>2, <4>1 DEF Given
    <3> QED BY Zenon, <3>1, <3>2, <3>3
  <2>4. ASSUME NEW q \in Request
        PROVE  /\ req'[q].pc \in {"new", "limit"} => req'[q].sent = 0
               /\ req'[q].pc \in {"minute", "hour"} => req'[q].sent > 0
    <3>1. CASE q = r
      BY <2>2, <3>1
    <3>2. CASE q # r
      <4>1. req'[q] = req[q]
        BY <1>0, <3>2
      <4> QED BY <4>1 DEF PipeInv
    <3> QED BY <3>1, <3>2
  <2> QED BY Zenon, <2>3, <2>4 DEF PipeInv
<1>10. CASE AllowHour(r) \/ AllowFails(r)
  <2>1. req[r].pc \in {"minute", "hour"}
    BY <1>10 DEF AllowHour, AllowFails
  <2>2. CASE \E keys : PipelineFails(r, keys)
    BY Zenon, <1>9, <2>1, <2>2
  <2>3. CASE AllowHour(r) /\ unread' = unread /\ (Goto(r, "handle") \/ Answer(r, 429))
    <3>1. req'[r].sent = n /\ req'[r].pc \in {"handle", "done"}
      BY <1>0, <1>1, <2>3 DEF Goto, Answer, Req
    <3> QED BY <1>2, <1>4, <2>3, <3>1
  <2> QED BY Zenon, <1>10, <2>2, <2>3 DEF AllowHour, AllowFails
<1> QED BY <1>5, <1>6, <1>7, <1>8, <1>10 DEF Handle

\* So do the other steps.
LEMMA OthersKeepPipes == ASSUME Base, PipeInv, Aside \/ MockStep PROVE PipeInv'
<1>1. (\A q \in Request : Alike(req'[q], req[q])) /\ unread' \subseteq unread
  <2>1. CASE Aside
    <3>1. unread' \subseteq unread
      BY Zenon, <2>1 DEF Aside, vars, Clock, WriteTimeout, RedisRunsLate
    <3> QED BY Zenon, <2>1, <3>1, AsideMoves DEF Base
  <2>2. CASE MockStep
    BY Zenon, <2>2, MockForms DEF Base, Alike
  <2> QED BY <2>1, <2>2
<1>2. \A u \in unread : u[1] \in Request
  BY DEF Base, Types
<1>3. \A q \in Request : req'[q].pc = req[q].pc /\ req'[q].sent = req[q].sent
  BY Zenon, <1>1 DEF Alike
<1> QED BY Zenon, <1>1, <1>2, <1>3 DEF PipeInv, Given

\* Base and PipeInv are inductive.
LEMMA BaseInvariance == Spec => [](Base /\ PipeInv)
<1>1. Init => Base /\ PipeInv
  BY InitBase, InitPipes
<1>2. Base /\ PipeInv /\ [Next]_vars => Base' /\ PipeInv'
  BY Steps, HandleKeepsBase, MockKeepsBase, AsideKeepsBase, HandleKeepsPipes, OthersKeepPipes
<1> QED BY <1>1, <1>2, PTL DEF Spec

\* Every variable keeps its type; in particular the client of the gateway makes no
\* more than MaxRetries + 1 attempts.
THEOREM TypeCorrect == Spec => []GatewayTypeOK
<1>1. Base => GatewayTypeOK
  <2> SUFFICES ASSUME Base PROVE GatewayTypeOK
    OBVIOUS
  <2>1. \A i \in DOMAIN tasks : tasks[i] \in Task
    BY DEF Base, Types
  <2> QED BY SMTT(30), <2>1 DEF Base, Types, GatewayTypeOK, Task, Req, SubmitCall, Status
<1> QED BY <1>1, BaseInvariance, PTL

\* The depth that the mock reports is always the tasks it made less the events it
\* published, also when a task is cancelled while its goroutine sleeps.
THEOREM DepthIsExact == Spec => []DepthIsTasksLessEvents
<1>1. Base => DepthIsTasksLessEvents
  BY DEF Base, MockInv
<1> QED BY <1>1, BaseInvariance, PTL

\* A task whose goroutine has returned never changes again.
THEOREM FinishedStays == Spec => FinishedIsFinal
<1>1. ASSUME Base, Next, NEW i \in DOMAIN tasks, tasks[i].goroutine = "returned"
      PROVE  tasks'[i] = tasks[i]
  <2>1. CASE \E r \in Request : Handle(r)
    BY <1>1, <2>1, RequestMoves DEF Base
  <2>2. CASE MockStep
    <3>1. CASE \E call \in inflight : Adds(NewTask(req[call[1]].name, call, "queued"))
      BY <1>1, <3>1, AddsKeeps DEF Base
    <3>2. CASE \E j : \E status \in Status, goroutine \in Goroutine : Changes(j, status, goroutine)
      BY Zenon, <1>1, <3>2, ChangesKeeps DEF Base
    <3> QED BY <1>1, <2>2, <3>1, <3>2, MockForms DEF Base
  <2>3. CASE Aside
    BY Zenon, <2>3, <1>1, AsideMoves DEF Base
  <2> QED BY Zenon, <1>1, <2>1, <2>2, <2>3, Steps
<1>2. Base /\ [Next]_vars =>
      [\A i \in DOMAIN tasks : tasks[i].goroutine = "returned" => tasks'[i] = tasks[i]]_vars
  BY SMTT(30), <1>1
<1> QED BY <1>2, BaseInvariance, PTL DEF Spec, FinishedIsFinal

-----------------------------------------------------------------------------
(* The calls to Module 1. *)

\* A call that was sent is of a request that got past the handler; a request that
\* is about to send has not sent that attempt yet; and a call is run once.
Sent(c) == c \in inflight \/ \E i \in DOMAIN tasks : tasks[i].call = c

CallInv ==
    /\ \A r \in Request : req[r].pc # "done" => req[r].code = 0
    /\ \A r \in Request, a \in 0..MaxRetries : Sent(<<r, a>>) =>
           /\ req[r].pc \in {"call", "wait", "done"}
           /\ req[r].code \in {0, 202, 503}
           /\ a <= req[r].attempt
           /\ req[r].pc = "call" => a < req[r].attempt
    /\ \A c \in inflight, i \in DOMAIN tasks : tasks[i].call # c
    /\ \A i, j \in DOMAIN tasks : tasks[i].call # <<>> /\ tasks[j].call = tasks[i].call => j = i

\* What a step does to the code, the attempt and the place of a request.
LEMMA HandleMoves ==
    ASSUME Base, NEW r \in Request, Handle(r)
    PROVE  \/ /\ req[r].pc \notin {"call", "wait", "done"} /\ inflight' = inflight
              /\ req'[r].pc # "done" => req'[r].code = req[r].code
           \/ /\ req[r].pc = "call" /\ inflight' = inflight \cup {<<r, req[r].attempt>>}
              /\ req'[r].pc = "wait" /\ req'[r].code = req[r].code /\ req'[r].attempt = req[r].attempt
           \/ /\ req[r].pc \in {"call", "wait"} /\ inflight' = inflight
              /\ req'[r].pc = "done" /\ req'[r].code \in {202, 503} /\ req'[r].attempt = req[r].attempt
           \/ /\ req[r].pc = "wait" /\ inflight' = inflight
              /\ req'[r].pc = "call" /\ req'[r].code = req[r].code /\ req'[r].attempt = req[r].attempt + 1
<1>0. req \in [Request -> Req] /\ req[r] \in Req
  BY DEF Base, Types
<1>1. CASE AuthMiddleware(r) \/ withRateLimit(r) \/ AllowMinute(r) \/ AllowHour(r) \/ AllowFails(r)
           \/ HandleCreateTask(r)
  BY <1>0, <1>1 DEF AuthMiddleware, withRateLimit, AllowMinute, AllowHour, AllowFails, HandleCreateTask,
                    PipelineFails, Goto, Answer, Req
<1>2. CASE SubmitTaskCall(r)
  BY <1>0, <1>2 DEF SubmitTaskCall, Goto, Answer, Req
<1>3. CASE Accepted(r) \/ AttemptFails(r)
  BY <1>0, <1>3 DEF Accepted, AttemptFails, Answer, Req
<1> QED BY <1>1, <1>2, <1>3 DEF Handle

\* A step of a request keeps what is known of the calls.
LEMMA HandleKeepsCalls == ASSUME Base, CallInv, NEW r \in Request, Handle(r) PROVE CallInv'
<1>0. /\ tasks' = tasks /\ req[r] \in Req /\ \A q \in Request : q # r => req'[q] = req[q]
      /\ req[r].attempt \in Nat /\ MaxRetries \in Nat
  BY SMTT(30), RequestMoves, GatewayAssumption DEF Base, Types, Req
<1>1. \A q \in Request : req'[q].pc # "done" => req'[q].code = 0
  BY <1>0, HandleMoves DEF CallInv
<1>2. \A q \in Request, a \in 0..MaxRetries : Sent(<<q, a>>)' =>
         Sent(<<q, a>>) \/ (q = r /\ a = req[r].attempt /\ req[r].pc = "call" /\ req'[r].pc = "wait")
  BY <1>0, HandleMoves DEF Sent
<1>3. ASSUME NEW q \in Request, NEW a \in 0..MaxRetries, Sent(<<q, a>>)'
      PROVE  /\ req'[q].pc \in {"call", "wait", "done"}
             /\ req'[q].code \in {0, 202, 503}
             /\ a <= req'[q].attempt
             /\ req'[q].pc = "call" => a < req'[q].attempt
  <2>1. CASE q # r
    BY <1>0, <1>2, <1>3, <2>1 DEF CallInv
  <2>2. CASE q = r
    BY SMTT(30), <1>0, <1>2, <1>3, <2>2, HandleMoves DEF CallInv
  <2> QED BY <2>1, <2>2
<1>4. \A c \in inflight', i \in DOMAIN tasks' : tasks'[i].call # c
  <2>1. req[r].pc = "call" => ~Sent(<<r, req[r].attempt>>)
    BY <1>0 DEF CallInv, Req
  <2> QED BY <1>0, <2>1, HandleMoves DEF CallInv, Sent
<1>5. \A i, j \in DOMAIN tasks' : tasks'[i].call # <<>> /\ tasks'[j].call = tasks'[i].call => j = i
  BY <1>0 DEF CallInv
<1> QED BY <1>1, <1>3, <1>4, <1>5 DEF CallInv

\* So does a step of the mock.
LEMMA MockKeepsCalls == ASSUME Base, CallInv, MockStep PROVE CallInv'
<1>0. req' = req /\ inflight' \subseteq inflight
  BY MockForms DEF Base
<1>1. CASE \E call \in inflight : /\ Adds(NewTask(req[call[1]].name, call, "queued"))
                                  /\ inflight' = inflight \ {call}
  <2>1. PICK call \in inflight : /\ Adds(NewTask(req[call[1]].name, call, "queued"))
                                 /\ inflight' = inflight \ {call}
    BY <1>1
  <2>2. /\ \A i \in DOMAIN tasks : i \in DOMAIN tasks' /\ tasks'[i] = tasks[i]
        /\ \A i \in DOMAIN tasks' : i \notin DOMAIN tasks => tasks'[i].call = call
        /\ \A i, j \in DOMAIN tasks' : i \notin DOMAIN tasks /\ j \notin DOMAIN tasks => i = j
    <3>1. DOMAIN tasks = 1..Len(tasks) /\ Len(tasks) \in Nat /\ DOMAIN tasks' = 1..(Len(tasks) + 1)
      BY <2>1 DEF Base, Types, Adds
    <3> QED BY <2>1, <3>1, AddsKeeps DEF Base
  <2>3. \A c : Sent(c)' => Sent(c)
    BY <2>1, <2>2 DEF Sent
  <2>4. \A c \in inflight', i \in DOMAIN tasks' : tasks'[i].call # c
    BY <2>1, <2>2 DEF CallInv
  <2>5. \A i, j \in DOMAIN tasks' : tasks'[i].call # <<>> /\ tasks'[j].call = tasks'[i].call => j = i
    BY <2>1, <2>2 DEF CallInv
  <2> QED BY <1>0, <2>3, <2>4, <2>5 DEF CallInv
<1>2. CASE \E i : \E status \in Status, goroutine \in Goroutine : Changes(i, status, goroutine)
  <2>1. DOMAIN tasks' = DOMAIN tasks /\ \A j \in DOMAIN tasks : tasks'[j].call = tasks[j].call
    BY <1>2, ChangesKeeps DEF Base
  <2>2. \A c : Sent(c)' => Sent(c)
    BY <1>0, <2>1 DEF Sent
  <2>3. \A c \in inflight', i \in DOMAIN tasks' : tasks'[i].call # c
    BY <1>0, <2>1 DEF CallInv
  <2>4. \A i, j \in DOMAIN tasks' : tasks'[i].call # <<>> /\ tasks'[j].call = tasks'[i].call => j = i
    BY <2>1 DEF CallInv
  <2> QED BY <1>0, <2>2, <2>3, <2>4 DEF CallInv
<1> QED BY <1>1, <1>2, MockForms DEF Base

\* CallInv is inductive, given Base.
LEMMA CallInvariance == Spec => [](Base /\ PipeInv /\ CallInv)
<1>1. Init => CallInv
  <2> SUFFICES ASSUME Init PROVE CallInv
    OBVIOUS
  <2>1. \A i \in DOMAIN tasks : tasks[i].call = <<>>
    BY DEF Init, MockInit, AddPendingTask, NewTask
  <2>2. \A r \in Request : req[r].pc = "new" /\ req[r].code = 0
    BY Zenon DEF Init
  <2>3. \A r, a : ~Sent(<<r, a>>)
    BY <2>1 DEF Init, Sent
  <2> QED BY <2>1, <2>2, <2>3 DEF Init, CallInv
<1>2. Base /\ CallInv /\ [Next]_vars => CallInv'
  <2>1. ASSUME Base, CallInv, Aside PROVE CallInv'
    <3>1. /\ tasks' = tasks /\ inflight' = inflight
          /\ \A q \in Request : req'[q].pc = req[q].pc /\ req'[q].code = req[q].code /\ req'[q].attempt = req[q].attempt
      BY Zenon, <2>1, AsideMoves DEF Base, Alike
    <3>2. \A c : Sent(c)' = Sent(c)
      BY Zenon, <3>1 DEF Sent
    <3>3. ASSUME NEW r \in Request, NEW a \in 0..MaxRetries, Sent(<<r, a>>)'
          PROVE  (/\ req[r].pc \in {"call", "wait", "done"}
                  /\ req[r].code \in {0, 202, 503}
                  /\ a <= req[r].attempt
                  /\ req[r].pc = "call" => a < req[r].attempt)'
      BY <2>1, <3>1, <3>2, <3>3 DEF CallInv
    <3>4. /\ \A r \in Request : req'[r].pc # "done" => req'[r].code = 0
          /\ \A c \in inflight', i \in DOMAIN tasks' : tasks'[i].call # c
          /\ \A i, j \in DOMAIN tasks' : tasks'[i].call # <<>> /\ tasks'[j].call = tasks'[i].call => j = i
      BY <2>1, <3>1 DEF CallInv
    <3> QED BY <3>3, <3>4 DEF CallInv
  <2> QED BY <2>1, Steps, HandleKeepsCalls, MockKeepsCalls
<1> QED BY <1>1, <1>2, BaseInvariance, PTL DEF Spec

\* Module 1 runs only submissions of requests that were not refused, and each
\* attempt of them once, although attempts time out and calls arrive late.
THEOREM OnlyAdmittedAreRun == Spec => []OnlyAdmittedReachModule1
<1>1. Base /\ CallInv => OnlyAdmittedReachModule1
  <2> SUFFICES ASSUME Base, CallInv, NEW i \in DOMAIN tasks, tasks[i].call # <<>>
               PROVE  /\ req[tasks[i].call[1]].code \in {0, 202, 503}
                      /\ \A j \in DOMAIN tasks : tasks[j].call = tasks[i].call => j = i
    BY DEF OnlyAdmittedReachModule1
  <2>1. tasks[i].call \in SubmitCall
    <3>1. tasks[i] \in Task
      BY DEF Base, Types
    <3> QED BY <3>1 DEF Task
  <2>2. PICK r \in Request, a \in 0..MaxRetries : tasks[i].call = <<r, a>>
    BY <2>1 DEF SubmitCall
  <2>3. req[r].code \in {0, 202, 503}
    <3>1. Sent(<<r, a>>)
      BY <2>2 DEF Sent
    <3> QED BY <3>1 DEF CallInv
  <2> QED BY <2>2, <2>3 DEF CallInv
<1> QED BY <1>1, CallInvariance, PTL

-----------------------------------------------------------------------------
(* The limits. *)

\* What the forms of a step leave alone.
Placed(r) ==
    req'[r].tenant = req[r].tenant /\ req'[r].minute = req[r].minute

\* A step to the next place.
LEMMA GotoMoves ==
    ASSUME req \in [Request -> Req], NEW r \in Request, NEW where, Goto(r, where)
    PROVE  /\ req'[r].pc = where /\ req'[r].code = req[r].code /\ req'[r].sent = req[r].sent
           /\ Placed(r)
BY Zenon DEF Goto, Req, Placed

\* An answer.
LEMMA AnswerMoves ==
    ASSUME req \in [Request -> Req], NEW r \in Request, NEW code, Answer(r, code)
    PROVE  /\ req'[r].pc = "done" /\ req'[r].code = code /\ req'[r].sent = req[r].sent
           /\ Placed(r)
<1>1. PICK reply : req' = [req EXCEPT ![r].pc = "done", ![r].count = 0, ![r].code = code, ![r].reply = reply]
  BY Zenon DEF Answer
<1> QED BY Zenon, <1>1 DEF Req, Placed

\* A pipeline that is given up: sent again, or answered with 500.
LEMMA FailMoves ==
    ASSUME req \in [Request -> Req], NEW r \in Request, NEW keys, PipelineFails(r, keys)
    PROVE  /\ unread' = unread \cup {<<r, req[r].sent, key>> : key \in keys}
           /\ Placed(r)
           /\ \/ req'[r].pc = "done" /\ req'[r].code = 500 /\ req'[r].sent = req[r].sent
              \/ req'[r].pc = "minute" /\ req'[r].code = req[r].code /\ req'[r].sent = req[r].sent + 1
<1>1. unread' = unread \cup {<<r, req[r].sent, key>> : key \in keys}
  BY Zenon DEF PipelineFails
<1>2. CASE Answer(r, 500)
  <2>1. req'[r].pc = "done" /\ req'[r].code = 500 /\ req'[r].sent = req[r].sent /\ Placed(r)
    BY ZenonT(30), <1>2, AnswerMoves
  <2> QED BY Zenon, <1>1, <2>1
<1>3. CASE req' = [req EXCEPT ![r].pc = "minute", ![r].count = 0, ![r].sent = @ + 1]
  <2>1. PICK next : next = req[r].sent + 1
    BY Zenon
  <2>2. req' = [req EXCEPT ![r].pc = "minute", ![r].count = 0, ![r].sent = next]
    BY Zenon, <1>3, <2>1
  <2>3. req'[r].pc = "minute" /\ req'[r].sent = next /\ req'[r].code = req[r].code /\ Placed(r)
    BY Zenon, <2>2 DEF Req, Placed
  <2> QED BY Zenon, <1>1, <2>1, <2>3
<1> QED BY Zenon, <1>2, <1>3 DEF PipelineFails

\* The first command of the pipeline.
LEMMA MinuteMoves ==
    ASSUME Base, NEW r \in Request, AllowMinute(r)
    PROVE  /\ req[r].pc = "minute" /\ req'[r].pc = "hour" /\ req'[r].code = req[r].code
           /\ req'[r].sent = req[r].sent /\ Placed(r) /\ unread' = unread
           /\ req'[r].count = minuteCount'[req[r].tenant][req[r].minute]
           /\ IncrMinute(req[r].tenant, req[r].minute) /\ hourCount' = hourCount
<1>1. req \in [Request -> Req]
  BY Zenon DEF Base, Types
<1>2. PICK n : n = minuteCount'[req[r].tenant][req[r].minute]
  BY Zenon
<1>3. req' = [req EXCEPT ![r].pc = "hour", ![r].count = n]
  BY Zenon, <1>2 DEF AllowMinute
<1>4. /\ req[r].pc = "minute" /\ unread' = unread /\ hourCount' = hourCount
      /\ IncrMinute(req[r].tenant, req[r].minute)
  BY Zenon DEF AllowMinute
<1> QED BY Zenon, <1>1, <1>2, <1>3, <1>4 DEF Req, Placed

\* The second command: admitted, denied, or its answer lost.
LEMMA HourMoves ==
    ASSUME Base, NEW r \in Request, AllowHour(r)
    PROVE  /\ req[r].pc = "hour" /\ Placed(r) /\ unread' = unread
           /\ IncrHour(req[r].tenant, req[r].minute) /\ minuteCount' = minuteCount
           /\ \/ /\ req'[r].pc = "handle" /\ req'[r].code = req[r].code /\ req'[r].sent = req[r].sent
                 /\ WithinLimits(req[r].count, hourCount'[req[r].tenant][HourOf(req[r].minute)])
              \/ /\ req'[r].pc = "done" /\ req'[r].code = 429 /\ req'[r].sent = req[r].sent
                 /\ ~WithinLimits(req[r].count, hourCount'[req[r].tenant][HourOf(req[r].minute)])
              \/ req'[r].pc = "done" /\ req'[r].code = 500 /\ req'[r].sent = req[r].sent
              \/ req'[r].pc = "minute" /\ req'[r].code = req[r].code /\ req'[r].sent = req[r].sent + 1
<1>1. req \in [Request -> Req]
  BY Zenon DEF Base, Types
<1>2. /\ req[r].pc = "hour" /\ IncrHour(req[r].tenant, req[r].minute) /\ minuteCount' = minuteCount
  BY Zenon DEF AllowHour
<1>3. CASE /\ WithinLimits(req[r].count, hourCount'[req[r].tenant][HourOf(req[r].minute)])
           /\ Goto(r, "handle") /\ unread' = unread
  BY Zenon, <1>1, <1>2, <1>3, GotoMoves
<1>4. CASE /\ ~WithinLimits(req[r].count, hourCount'[req[r].tenant][HourOf(req[r].minute)])
           /\ Answer(r, 429) /\ unread' = unread
  <2>1. req'[r].pc = "done" /\ req'[r].code = 429 /\ req'[r].sent = req[r].sent /\ Placed(r)
    BY ZenonT(30), <1>1, <1>4, AnswerMoves
  <2> QED BY Zenon, <1>2, <1>4, <2>1
<1>5. CASE PipelineFails(r, {})
  <2>1. unread' = unread \cup {<<r, req[r].sent, key>> : key \in {}}
    BY Zenon, <1>1, <1>5, FailMoves
  <2>2. unread' = unread
    BY <2>1
  <2> QED BY Zenon, <1>1, <1>2, <1>5, <2>2, FailMoves
<1> QED BY Zenon, <1>3, <1>4, <1>5 DEF AllowHour

\* A pipeline that fails before its second command was run.
LEMMA LostMoves ==
    ASSUME Base, NEW r \in Request, AllowFails(r)
    PROVE  /\ minuteCount' = minuteCount /\ hourCount' = hourCount /\ Placed(r)
           /\ \/ req'[r].pc = "done" /\ req'[r].code = 500 /\ req'[r].sent = req[r].sent
              \/ req'[r].pc = "minute" /\ req'[r].code = req[r].code /\ req'[r].sent = req[r].sent + 1
           /\ \/ req[r].pc = "hour" /\ unread' = unread \cup {<<r, req[r].sent, "hour">>}
              \/ /\ req[r].pc = "minute"
                 /\ unread' = unread \cup {<<r, req[r].sent, "minute">>, <<r, req[r].sent, "hour">>}
<1>1. req \in [Request -> Req]
  BY Zenon DEF Base, Types
<1>2. minuteCount' = minuteCount /\ hourCount' = hourCount
  BY Zenon DEF AllowFails, limiterVars
<1>3. CASE req[r].pc = "minute" /\ PipelineFails(r, Key)
  <2>1. {<<r, req[r].sent, key>> : key \in Key} = {<<r, req[r].sent, "minute">>, <<r, req[r].sent, "hour">>}
    BY Zenon DEF Key
  <2> QED BY Zenon, <1>1, <1>2, <1>3, <2>1, FailMoves
<1>4. CASE req[r].pc = "hour" /\ PipelineFails(r, {"hour"})
  <2>1. {<<r, req[r].sent, key>> : key \in {"hour"}} = {<<r, req[r].sent, "hour">>}
    BY Zenon
  <2> QED BY Zenon, <1>1, <1>2, <1>4, <2>1, FailMoves
<1> QED BY Zenon, <1>3, <1>4 DEF AllowFails

Earlier(r) == AuthMiddleware(r) \/ withRateLimit(r)
Later(r) == HandleCreateTask(r) \/ SubmitTaskCall(r) \/ Accepted(r) \/ AttemptFails(r)

\* The steps before the pipeline, of which the last sends it.
LEMMA EarlierMoves ==
    ASSUME Base, NEW r \in Request, Earlier(r)
    PROVE  /\ req[r].pc \in {"new", "limit"} /\ unread' = unread
           /\ minuteCount' = minuteCount /\ hourCount' = hourCount
           /\ \/ /\ req'[r].pc \in {"limit", "done"} /\ req'[r].code \in {req[r].code, 401, 403}
                 /\ req'[r].sent = req[r].sent
              \/ /\ req'[r].code = req[r].code
                 /\ IF limiter THEN req'[r].pc = "minute" /\ req'[r].sent = 1
                               ELSE req'[r].pc = "handle" /\ req'[r].sent = 0
<1>1. req \in [Request -> Req]
  BY Zenon DEF Base, Types
<1>2. /\ req[r].pc \in {"new", "limit"} /\ unread' = unread
      /\ minuteCount' = minuteCount /\ hourCount' = hourCount
  BY Zenon DEF Earlier, AuthMiddleware, withRateLimit, limiterVars
<1>3. CASE AuthMiddleware(r)
  <2>1. Answer(r, 401) \/ Answer(r, 403) \/ Goto(r, "limit")
    BY Zenon, <1>3 DEF AuthMiddleware
  <2>2. /\ req'[r].pc \in {"limit", "done"} /\ req'[r].code \in {req[r].code, 401, 403}
        /\ req'[r].sent = req[r].sent
    BY <1>1, <2>1, GotoMoves, AnswerMoves
  <2> QED BY Zenon, <1>2, <2>2
<1>4. CASE withRateLimit(r)
  <2>1. PICK where, sent : /\ req' = [req EXCEPT ![r].pc = where, ![r].minute = now, ![r].sent = sent]
                           /\ where = (IF limiter THEN "minute" ELSE "handle")
                           /\ sent = (IF limiter THEN 1 ELSE 0)
    BY Zenon, <1>4 DEF withRateLimit
  <2>2. req'[r].pc = where /\ req'[r].sent = sent /\ req'[r].code = req[r].code
    BY Zenon, <1>1, <2>1 DEF Req
  <2> QED BY Zenon, <1>2, <2>1, <2>2
<1> QED BY Zenon, <1>3, <1>4 DEF Earlier

\* The steps after the pipeline do not touch it.
LEMMA LaterMoves ==
    ASSUME Base, NEW r \in Request, Later(r)
    PROVE  /\ req[r].pc \in {"handle", "call", "wait"} /\ unread' = unread
           /\ minuteCount' = minuteCount /\ hourCount' = hourCount
           /\ Placed(r) /\ req'[r].sent = req[r].sent
           /\ req'[r].pc \in {"call", "wait", "done"} /\ req'[r].code \in {req[r].code, 202, 400, 503}
<1>1. req \in [Request -> Req]
  BY Zenon DEF Base, Types
<1>2. /\ req[r].pc \in {"handle", "call", "wait"} /\ unread' = unread
      /\ minuteCount' = minuteCount /\ hourCount' = hourCount
  BY Zenon DEF Later, HandleCreateTask, SubmitTaskCall, Accepted, AttemptFails, limiterVars
<1>3. \/ \E where \in {"call", "wait"} : Goto(r, where)
      \/ \E code \in {202, 400, 503} : Answer(r, code)
      \/ \E next : req' = [req EXCEPT ![r].pc = "call", ![r].attempt = next]
  BY ZenonT(30) DEF Later, HandleCreateTask, SubmitTaskCall, Accepted, AttemptFails
<1>4. ASSUME NEW where \in {"call", "wait"}, Goto(r, where)
      PROVE  /\ Placed(r) /\ req'[r].sent = req[r].sent
             /\ req'[r].pc \in {"call", "wait", "done"} /\ req'[r].code \in {req[r].code, 202, 400, 503}
  BY <1>1, <1>4, GotoMoves
<1>5. ASSUME NEW code \in {202, 400, 503}, Answer(r, code)
      PROVE  /\ Placed(r) /\ req'[r].sent = req[r].sent
             /\ req'[r].pc \in {"call", "wait", "done"} /\ req'[r].code \in {req[r].code, 202, 400, 503}
  BY <1>1, <1>5, AnswerMoves
<1>6. ASSUME NEW next, req' = [req EXCEPT ![r].pc = "call", ![r].attempt = next]
      PROVE  /\ Placed(r) /\ req'[r].sent = req[r].sent
             /\ req'[r].pc \in {"call", "wait", "done"} /\ req'[r].code \in {req[r].code, 202, 400, 503}
  <2>1. req'[r].sent = req[r].sent /\ req'[r].pc = "call" /\ req'[r].code = req[r].code /\ Placed(r)
    BY Zenon, <1>1, <1>6 DEF Req, Placed
  <2> QED BY Zenon, <2>1
<1> QED BY <1>2, <1>3, <1>4, <1>5, <1>6

\* Every step of a request is of one of these kinds.
LEMMA Kinds ==
    ASSUME NEW r \in Request, Handle(r)
    PROVE  Earlier(r) \/ AllowMinute(r) \/ AllowHour(r) \/ AllowFails(r) \/ Later(r)
BY Zenon DEF Handle, Earlier, Later

\* What the step of one request does to the size of a set of requests.
LEMMA OneMoves ==
    ASSUME NEW S \in SUBSET Request, NEW T \in SUBSET Request, NEW r \in Request,
           \A q \in Request : q # r => (q \in T <=> q \in S)
    PROVE  /\ Cardinality(S) \in Nat /\ Cardinality(T) \in Nat
           /\ (r \in T => r \in S) => Cardinality(T) <= Cardinality(S)
           /\ (r \in S => r \in T) => Cardinality(S) <= Cardinality(T)
           /\ Cardinality(T) <= Cardinality(S) + 1
           /\ r \notin S /\ r \in T => Cardinality(T) = Cardinality(S) + 1
<1>0. IsFiniteSet(S) /\ IsFiniteSet(T)
  BY GatewayAssumption, FS_Subset
<1>1. Cardinality(S) \in Nat /\ Cardinality(T) \in Nat
  BY <1>0, FS_CardinalityType
<1>2. (r \in T => r \in S) => Cardinality(T) <= Cardinality(S)
  <2>1. (r \in T => r \in S) => T \in SUBSET S
    OBVIOUS
  <2> QED BY <1>0, <2>1, FS_Subset
<1>3. (r \in S => r \in T) => Cardinality(S) <= Cardinality(T)
  <2>1. (r \in S => r \in T) => S \in SUBSET T
    OBVIOUS
  <2> QED BY <1>0, <2>1, FS_Subset
<1>4. r \notin S /\ r \in T => Cardinality(T) = Cardinality(S) + 1
  <2>1. r \notin S /\ r \in T => T = S \cup {r}
    OBVIOUS
  <2> QED BY <1>0, <2>1, FS_AddElement
<1> QED BY <1>1, <1>2, <1>3, <1>4

\* Requests that take a place in the minute, or in the hour.
Passing(c) == c.pc \in {"handle", "call", "wait"} \/ c.code \in {202, 400, 503}

MinutePlaces(t, m) ==
    {q \in Request : /\ req[q].tenant = t /\ req[q].minute = m
                     /\ Passing(req[q]) \/ (req[q].pc = "hour" /\ req[q].count <= PerMinute)}
HourPlaces(t, h) == {q \in Request : req[q].tenant = t /\ HourOf(req[q].minute) = h /\ Passing(req[q])}

PlacesInv ==
    limiter => \A t \in Tenant, m \in Minute :
        /\ Cardinality(MinutePlaces(t, m)) <= PerMinute
        /\ Cardinality(MinutePlaces(t, m)) <= minuteCount[t][m]
        /\ Cardinality(HourPlaces(t, m)) <= PerHour
        /\ Cardinality(HourPlaces(t, m)) <= hourCount[t][m]

\* The pipelines that were sent in a minute, and in an hour; those of which Redis may
\* have run the first command, and the second.
Pipe == Request \X Sends
Came(t, m) == {p \in Pipe : req[p[1]].tenant = t /\ req[p[1]].minute = m /\ p[2] <= req[p[1]].sent}
CameHour(t, h) ==
    {p \in Pipe : req[p[1]].tenant = t /\ HourOf(req[p[1]].minute) = h /\ p[2] <= req[p[1]].sent}
MinuteRan(p) ==
    /\ <<p[1], p[2], "minute">> \notin unread
    /\ p[2] = req[p[1]].sent => req[p[1]].pc # "minute"
HourRan(p) ==
    /\ <<p[1], p[2], "hour">> \notin unread
    /\ p[2] = req[p[1]].sent => req[p[1]].pc \notin {"minute", "hour"}
MinuteCounted(t, m) == {p \in Came(t, m) : MinuteRan(p)}
HourCounted(t, h) == {p \in CameHour(t, h) : HourRan(p)}

CountedInv ==
    /\ \A t \in Tenant, m \in Minute :
           /\ minuteCount[t][m] <= Cardinality(MinuteCounted(t, m))
           /\ hourCount[t][m] <= Cardinality(HourCounted(t, m))
    /\ \A r \in Request : req[r].pc = "hour" => req[r].count <= minuteCount[req[r].tenant][req[r].minute]

\* Sets of pipelines are finite.
LEMMA PipesFinite ==
    ASSUME NEW S \in SUBSET Pipe, NEW T \in SUBSET Pipe, S \subseteq T
    PROVE  /\ IsFiniteSet(S) /\ IsFiniteSet(T)
           /\ Cardinality(S) \in Nat /\ Cardinality(T) \in Nat /\ Cardinality(S) <= Cardinality(T)
           /\ \A p \in T : p \notin S => Cardinality(S) + 1 <= Cardinality(T)
<1>1. IsFiniteSet(Sends)
  <2>1. 1 \in Int /\ MaxResends + 1 \in Int
    BY GatewayAssumption
  <2> QED BY Zenon, <2>1, FS_Interval DEF Sends
<1>2. IsFiniteSet(Pipe)
  BY Zenon, <1>1, GatewayAssumption, FS_Product DEF Pipe
<1>3. IsFiniteSet(S) /\ IsFiniteSet(T) /\ Cardinality(S) \in Nat /\ Cardinality(T) \in Nat
  BY Zenon, <1>2, FS_Subset, FS_CardinalityType
<1>4. Cardinality(S) <= Cardinality(T)
  <2>1. S \in SUBSET T
    BY Zenon
  <2> QED BY Zenon, <1>3, <2>1, FS_Subset
<1>5. ASSUME NEW p \in T, p \notin S PROVE Cardinality(S) + 1 <= Cardinality(T)
  <2>1. S \cup {p} \in SUBSET T
    BY Zenon, <1>5
  <2>2. Cardinality(S \cup {p}) = Cardinality(S) + 1
    BY Zenon, <1>3, <1>5, FS_AddElement
  <2>3. Cardinality(S \cup {p}) <= Cardinality(T)
    BY Zenon, <1>3, <2>1, FS_Subset
  <2> QED BY Zenon, <2>2, <2>3
<1> QED BY Zenon, <1>3, <1>4, <1>5

\* The places of a minute.
LEMMA MinutePlacesKept ==
    ASSUME Base, CallInv, PlacesInv, limiter, NEW r \in Request, Handle(r), NEW t \in Tenant, NEW m \in Minute
    PROVE  /\ Cardinality(MinutePlaces(t, m)') <= PerMinute
           /\ Cardinality(MinutePlaces(t, m)') <= minuteCount'[t][m]
<1> DEFINE S == MinutePlaces(t, m)
           T == MinutePlaces(t, m)'
<1>0. /\ req \in [Request -> Req] /\ req[r] \in Req /\ req' \in [Request -> Req] /\ limits' = limits
      /\ PerMinute \in Nat /\ minuteCount[t][m] \in Nat /\ minuteCount \in [Tenant -> [Minute -> Nat]]
      /\ req'[r].tenant = req[r].tenant /\ \A q \in Request : q # r => req'[q] = req[q]
  BY Zenon, RequestMoves, LimiterAssumption DEF Base, Types, PerMinute
<1>1. S \in SUBSET Request /\ T \in SUBSET Request /\ \A q \in Request : q # r => (q \in T <=> q \in S)
  <2>1. S \in SUBSET Request /\ T \in SUBSET Request
    BY DEF MinutePlaces
  <2> QED BY <1>0, <2>1 DEF MinutePlaces, Passing, PerMinute
<1>2. Cardinality(S) <= PerMinute /\ Cardinality(S) <= minuteCount[t][m]
  BY DEF PlacesInv
<1> HIDE DEF S, T
<1>3. CASE AllowMinute(r) /\ req[r].tenant = t /\ req[r].minute = m
  <2>1. minuteCount'[t][m] = minuteCount[t][m] + 1
    BY <1>0, <1>3 DEF AllowMinute, IncrMinute
  <2>2. req'[r].pc = "hour" /\ req'[r].count = minuteCount'[t][m] /\ req'[r].code = 0
        /\ req[r].pc = "minute" /\ req[r].code = 0
    <3>1. req[r].pc = "minute" /\ req[r].code = 0
      BY <1>3 DEF AllowMinute, CallInv
    <3> QED BY <1>3, <3>1, MinuteMoves
  <2>3. r \in T => minuteCount[t][m] + 1 <= PerMinute
    BY <1>0, <2>1, <2>2 DEF T, MinutePlaces, Passing, PerMinute
  <2>4. r \notin S
    BY <2>2 DEF S, MinutePlaces, Passing
  <2> QED BY <1>0, <1>1, <1>2, <2>1, <2>3, <2>4, OneMoves DEF T
<1>4. CASE ~(AllowMinute(r) /\ req[r].tenant = t /\ req[r].minute = m)
  <2>1. minuteCount'[t][m] = minuteCount[t][m]
    <3>1. CASE AllowMinute(r)
      <4>1. req[r].tenant \in Tenant /\ req[r].minute \in Minute
        BY Zenon, <1>0 DEF Req
      <4>2. IncrMinute(req[r].tenant, req[r].minute)
        BY Zenon, <3>1, MinuteMoves
      <4> QED BY <1>0, <1>4, <3>1, <4>1, <4>2 DEF IncrMinute
    <3>2. CASE ~AllowMinute(r)
      BY Zenon, <3>2, Kinds, EarlierMoves, HourMoves, LostMoves, LaterMoves
    <3> QED BY Zenon, <3>1, <3>2
  <2>2. r \in T => r \in S
    <3>1. req[r].pc \notin {"handle", "call", "wait"} => req[r].code = 0
      BY DEF CallInv, Handle, AuthMiddleware, withRateLimit, AllowMinute, AllowHour, AllowFails,
             HandleCreateTask, SubmitTaskCall, Accepted, AttemptFails
    <3>2. CASE Earlier(r)
      BY <3>1, <3>2, EarlierMoves DEF T, MinutePlaces, Passing
    <3>3. CASE AllowFails(r)
      BY <3>1, <3>3, LostMoves DEF T, MinutePlaces, Passing
    <3>4. CASE AllowMinute(r)
      BY <1>4, <3>4, MinuteMoves DEF T, MinutePlaces, Placed
    <3>5. CASE AllowHour(r)
      BY <3>1, <3>5, HourMoves DEF S, T, MinutePlaces, Passing, Placed, WithinLimits
    <3>6. CASE Later(r)
      BY <3>6, LaterMoves DEF S, T, MinutePlaces, Passing, Placed
    <3> QED BY ZenonT(30), <3>2, <3>3, <3>4, <3>5, <3>6, Kinds
  <2> QED BY SMTT(30), <1>0, <1>1, <1>2, <2>1, <2>2, OneMoves DEF T
<1> QED BY <1>3, <1>4

\* The places of an hour.
LEMMA HourPlacesKept ==
    ASSUME Base, CallInv, PlacesInv, limiter, NEW r \in Request, Handle(r), NEW t \in Tenant, NEW h \in Minute
    PROVE  /\ Cardinality(HourPlaces(t, h)') <= PerHour
           /\ Cardinality(HourPlaces(t, h)') <= hourCount'[t][h]
<1> DEFINE S == HourPlaces(t, h)
           T == HourPlaces(t, h)'
<1>0. /\ req \in [Request -> Req] /\ req[r] \in Req /\ req' \in [Request -> Req]
      /\ PerHour \in Nat /\ hourCount[t][h] \in Nat /\ hourCount \in [Tenant -> [Minute -> Nat]]
      /\ req'[r].tenant = req[r].tenant /\ \A q \in Request : q # r => req'[q] = req[q]
  BY Zenon, RequestMoves, LimiterAssumption DEF Base, Types, PerHour
<1>1. S \in SUBSET Request /\ T \in SUBSET Request /\ \A q \in Request : q # r => (q \in T <=> q \in S)
  <2>1. S \in SUBSET Request /\ T \in SUBSET Request
    BY DEF HourPlaces
  <2> QED BY <1>0, <2>1 DEF HourPlaces, Passing
<1>2. Cardinality(S) <= PerHour /\ Cardinality(S) <= hourCount[t][h]
  BY DEF PlacesInv
<1> HIDE DEF S, T
<1>3. CASE AllowHour(r) /\ req[r].tenant = t /\ HourOf(req[r].minute) = h
  <2>1. hourCount'[t][h] = hourCount[t][h] + 1
    <3>1. IncrHour(req[r].tenant, req[r].minute)
      BY Zenon, <1>3, HourMoves
    <3> QED BY <1>0, <1>3, <3>1 DEF IncrHour
  <2>2. req[r].pc = "hour" /\ req[r].code = 0
    BY SMTT(30), <1>3 DEF AllowHour, CallInv
  <2>3. r \in T => hourCount[t][h] + 1 <= PerHour
    BY <1>0, <1>3, <2>1, <2>2, HourMoves DEF T, HourPlaces, Passing, Placed, WithinLimits
  <2>4. r \notin S
    BY <2>2 DEF S, HourPlaces, Passing
  <2> QED BY SMTT(30), <1>0, <1>1, <1>2, <2>1, <2>3, <2>4, OneMoves DEF T
<1>4. CASE ~(AllowHour(r) /\ req[r].tenant = t /\ HourOf(req[r].minute) = h)
  <2>1. hourCount'[t][h] = hourCount[t][h]
    <3>1. CASE AllowHour(r)
      <4>1. PICK u \in Tenant, v \in Minute : u = req[r].tenant /\ v = HourOf(req[r].minute)
        BY Zenon, <1>0, HourOfType DEF Req
      <4>2. hourCount' = [hourCount EXCEPT ![u][v] = @ + 1]
        BY Zenon, <3>1, <4>1, HourMoves DEF IncrHour
      <4>3. u # t \/ v # h
        BY Zenon, <1>4, <3>1, <4>1
      <4> QED BY <1>0, <4>2, <4>3
    <3>2. CASE ~AllowHour(r)
      BY ZenonT(30), <3>2, Kinds, EarlierMoves, MinuteMoves, LostMoves, LaterMoves
    <3> QED BY <3>1, <3>2
  <2>2. r \in T => r \in S
    <3>1. req[r].pc \notin {"handle", "call", "wait"} => req[r].code = 0
      BY DEF CallInv, Handle, AuthMiddleware, withRateLimit, AllowMinute, AllowHour, AllowFails,
             HandleCreateTask, SubmitTaskCall, Accepted, AttemptFails
    <3>2. CASE Earlier(r)
      BY <3>1, <3>2, EarlierMoves DEF T, HourPlaces, Passing
    <3>3. CASE AllowFails(r)
      BY SMTT(30), <3>1, <3>3, LostMoves DEF T, HourPlaces, Passing
    <3>4. CASE AllowMinute(r)
      BY <3>1, <3>4, MinuteMoves DEF T, HourPlaces, Passing
    <3>5. CASE AllowHour(r)
      BY <1>4, <3>5, HourMoves DEF T, HourPlaces, Placed
    <3>6. CASE Later(r)
      BY <3>6, LaterMoves DEF S, T, HourPlaces, Passing, Placed
    <3> QED BY Zenon, <3>2, <3>3, <3>4, <3>5, <3>6, Kinds
  <2> QED BY <1>0, <1>1, <1>2, <2>1, <2>2, OneMoves DEF T
<1> QED BY <1>3, <1>4

\* What a step of a request does to its pipelines.
LEMMA PipelineMoves ==
    ASSUME Base, PipeInv, NEW r \in Request, Handle(r)
    PROVE  /\ req[r].sent \in Nat /\ req'[r].sent \in Nat /\ req[r].pc # "done"
           /\ \/ /\ req[r].sent = 0 /\ unread' = unread /\ ~AllowMinute(r) /\ ~AllowHour(r)
                 /\ req'[r].sent = 1 => req'[r].pc = "minute"
                 /\ req'[r].sent \in {0, 1}
              \/ /\ req'[r].minute = req[r].minute /\ req'[r].sent = req[r].sent /\ unread' = unread
                 /\ req'[r].pc = "minute" => req[r].pc = "minute" /\ ~AllowMinute(r)
                 /\ req'[r].pc \in {"minute", "hour"} => req[r].pc \in {"minute", "hour"} /\ ~AllowHour(r)
              \/ /\ req'[r].minute = req[r].minute /\ req[r].sent > 0
                 /\ ~AllowMinute(r)
                 /\ \/ req'[r].sent = req[r].sent /\ req'[r].pc = "done"
                    \/ req'[r].sent = req[r].sent + 1 /\ req'[r].pc = "minute"
                 /\ \/ AllowHour(r) /\ req[r].pc = "hour" /\ unread' = unread
                    \/ ~AllowHour(r) /\ req[r].pc = "hour" /\ unread' = unread \cup {<<r, req[r].sent, "hour">>}
                    \/ ~AllowHour(r) /\ req[r].pc = "minute"
                       /\ unread' = unread \cup {<<r, req[r].sent, "minute">>, <<r, req[r].sent, "hour">>}
<1>1. req[r].sent \in Nat /\ req'[r].sent \in Nat
  <2>1. req[r] \in Req /\ req'[r] \in Req
    BY Zenon, RequestMoves DEF Base, Types
  <2>2. req[r].sent \in 0..MaxResends + 1 /\ req'[r].sent \in 0..MaxResends + 1
    BY Zenon, <2>1 DEF Req
  <2> QED BY <2>2, GatewayAssumption
<1>2. req[r].pc # "done"
  BY DEF Handle, AuthMiddleware, withRateLimit, AllowMinute, AllowHour, AllowFails, HandleCreateTask,
         SubmitTaskCall, Accepted, AttemptFails
<1>3. /\ req[r].pc \in {"new", "limit"} => req[r].sent = 0
      /\ req[r].pc \in {"minute", "hour"} => req[r].sent > 0
  BY Zenon DEF PipeInv
<1>4. /\ AllowMinute(r) => req[r].pc = "minute"
      /\ AllowHour(r) => req[r].pc = "hour"
  BY Zenon, MinuteMoves, HourMoves
<1>5. CASE Earlier(r)
  <2>1. /\ req[r].pc \in {"new", "limit"} /\ unread' = unread
        /\ \/ req'[r].sent = req[r].sent
           \/ req'[r].sent = 0
           \/ req'[r].sent = 1 /\ req'[r].pc = "minute"
    BY ZenonT(30), <1>5, EarlierMoves
  <2> QED BY <1>1, <1>2, <1>3, <1>4, <2>1
<1>6. CASE AllowMinute(r)
  BY SMTT(30), <1>1, <1>2, <1>4, <1>6, MinuteMoves DEF Placed
<1>7. CASE Later(r)
  BY SMTT(30), <1>1, <1>2, <1>7, LaterMoves DEF Placed
<1>8. CASE AllowHour(r)
  BY SMTT(30), <1>1, <1>2, <1>3, <1>4, <1>8, HourMoves DEF Placed
<1>9. CASE AllowFails(r)
  <2>1. ASSUME AllowHour(r) PROVE FALSE
    <3>1. req[r].tenant \in Tenant /\ req[r].minute \in Minute
      BY Zenon DEF Base, Types, Req
    <3>2. PICK t \in Tenant, h \in Minute : t = req[r].tenant /\ h = HourOf(req[r].minute)
      BY Zenon, <3>1, HourOfType
    <3>3. hourCount' = [hourCount EXCEPT ![t][h] = @ + 1] /\ hourCount' = hourCount
      BY Zenon, <1>9, <2>1, <3>2, HourMoves, LostMoves DEF IncrHour
    <3>4. hourCount \in [Tenant -> [Minute -> Nat]]
      BY Zenon DEF Base, Types
    <3>5. hourCount[t][h] = hourCount[t][h] + 1 /\ hourCount[t][h] \in Nat
      BY <3>3, <3>4
    <3> QED BY <3>5
  <2>2. ASSUME AllowMinute(r) PROVE FALSE
    <3>1. PICK t \in Tenant, m \in Minute : t = req[r].tenant /\ m = req[r].minute
      BY Zenon DEF Base, Types, Req
    <3>2. minuteCount' = [minuteCount EXCEPT ![t][m] = @ + 1] /\ minuteCount' = minuteCount
      BY Zenon, <1>9, <2>2, <3>1, MinuteMoves, LostMoves DEF IncrMinute
    <3>3. minuteCount \in [Tenant -> [Minute -> Nat]]
      BY Zenon DEF Base, Types
    <3>4. minuteCount[t][m] = minuteCount[t][m] + 1 /\ minuteCount[t][m] \in Nat
      BY <3>2, <3>3
    <3> QED BY <3>4
  <2>3. req[r].pc \in {"minute", "hour"}
    BY Zenon, <1>9, LostMoves
  <2> QED BY SMTT(30), <1>1, <1>2, <1>3, <1>9, <2>1, <2>2, <2>3, LostMoves DEF Placed
<1> QED BY Zenon, <1>5, <1>6, <1>7, <1>8, <1>9, Kinds

\* A pipeline that was sent stays sent, in its minute.
LEMMA CameStays ==
    ASSUME Base, PipeInv, NEW r \in Request, Handle(r), NEW p \in Pipe, p[2] <= req[p[1]].sent
    PROVE  /\ p[2] <= req'[p[1]].sent /\ req'[p[1]].minute = req[p[1]].minute
           /\ req'[p[1]].tenant = req[p[1]].tenant
           /\ p[2] < req[p[1]].sent => p[2] < req'[p[1]].sent
<1>1. p[1] \in Request /\ p[2] \in Nat /\ p[2] > 0
  BY DEF Pipe, Sends
<1>2. req'[r].tenant = req[r].tenant /\ \A q \in Request : q # r => req'[q] = req[q]
  BY RequestMoves DEF Base
<1>3. CASE p[1] # r
  BY <1>1, <1>2, <1>3
<1>4. CASE p[1] = r
  <2>1. req[r].sent \in Nat /\ req'[r].sent \in Nat /\ req[r].sent # 0
    BY <1>1, <1>4, PipelineMoves
  <2>2. req'[r].minute = req[r].minute /\ (req'[r].sent = req[r].sent \/ req'[r].sent = req[r].sent + 1)
    BY <2>1, PipelineMoves
  <2> QED BY SMTT(30), <1>1, <1>2, <1>4, <2>1, <2>2
<1> QED BY <1>3, <1>4

\* What Redis may have run it may have run for ever, and what Allow is answered was
\* not run before.
LEMMA RanStays ==
    ASSUME Base, PipeInv, NEW r \in Request, Handle(r), NEW p \in Pipe, p[2] <= req[p[1]].sent
    PROVE  /\ MinuteRan(p) => MinuteRan(p)'
           /\ HourRan(p) => HourRan(p)'
           /\ AllowMinute(r) /\ p = <<r, req[r].sent>> => ~MinuteRan(p) /\ MinuteRan(p)'
           /\ AllowHour(r) /\ p = <<r, req[r].sent>> => ~HourRan(p) /\ HourRan(p)'
<1>1. p[1] \in Request /\ p[2] \in Nat /\ p[2] > 0
  BY DEF Pipe, Sends
<1>2. \A q \in Request : q # r => req'[q] = req[q]
  BY RequestMoves DEF Base
<1>3. CASE p[1] # r
  <2>1. \A key : <<p[1], p[2], key>> \in unread' => <<p[1], p[2], key>> \in unread
    <3>1. ASSUME NEW key, <<p[1], p[2], key>> \in unread', <<p[1], p[2], key>> \notin unread PROVE FALSE
      <4>1. \/ unread' = unread
            \/ unread' = unread \cup {<<r, req[r].sent, "hour">>}
            \/ unread' = unread \cup {<<r, req[r].sent, "minute">>, <<r, req[r].sent, "hour">>}
        BY PipelineMoves
      <4>2. <<p[1], p[2], key>> # <<r, req[r].sent, "hour">> /\ <<p[1], p[2], key>> # <<r, req[r].sent, "minute">>
        BY <1>3
      <4> QED BY Zenon, <3>1, <4>1, <4>2
    <3> QED BY <3>1
  <2>2. req'[p[1]] = req[p[1]] /\ p # <<r, req[r].sent>>
    BY <1>1, <1>2, <1>3
  <2> QED BY Zenon, <2>1, <2>2 DEF MinuteRan, HourRan
<1>4. CASE p[1] = r
  <2>1. PICK k \in Nat : k = p[2] /\ k > 0 /\ k <= req[r].sent
    BY <1>1, <1>4
  <2>2. PICK n \in Nat : n = req[r].sent /\ n > 0
    BY <2>1, PipelineMoves
  <2>3. \A key : <<r, n, key>> \in unread => req[r].pc \notin {"minute", "hour"}
    <3>1. ASSUME NEW key, <<r, n, key>> \in unread, req[r].pc \in {"minute", "hour"} PROVE FALSE
      <4>1. Given(<<r, n, key>>)
        BY Zenon, <3>1 DEF PipeInv
      <4>2. n < n
        BY <2>2, <3>1, <4>1 DEF Given
      <4> QED BY <4>2
    <3> QED BY <3>1
  <2>4. /\ MinuteRan(p) <=> <<r, k, "minute">> \notin unread /\ (k = n => req[r].pc # "minute")
        /\ HourRan(p) <=> <<r, k, "hour">> \notin unread /\ (k = n => req[r].pc \notin {"minute", "hour"})
        /\ MinuteRan(p)' <=> <<r, k, "minute">> \notin unread' /\ (k = req'[r].sent => req'[r].pc # "minute")
        /\ HourRan(p)' <=> <<r, k, "hour">> \notin unread' /\ (k = req'[r].sent => req'[r].pc \notin {"minute", "hour"})
    BY Zenon, <1>4, <2>1, <2>2 DEF MinuteRan, HourRan
  <2>5. AllowMinute(r) \/ AllowHour(r) => (p = <<r, req[r].sent>> => k = n)
    BY <2>1, <2>2
  <2>6. AllowMinute(r) => req[r].pc = "minute"
    BY SMTT(30) DEF AllowMinute
  <2>7. AllowHour(r) => req[r].pc = "hour"
    BY DEF AllowHour
  <2>8. CASE /\ req'[r].sent = n /\ unread' = unread
             /\ req'[r].pc = "minute" => req[r].pc = "minute" /\ ~AllowMinute(r)
             /\ req'[r].pc \in {"minute", "hour"} => req[r].pc \in {"minute", "hour"} /\ ~AllowHour(r)
    BY SMTT(30), <2>3, <2>4, <2>5, <2>6, <2>7, <2>8
  <2>9. CASE /\ ~AllowMinute(r)
             /\ \/ req'[r].sent = n /\ req'[r].pc = "done"
                \/ req'[r].sent = n + 1 /\ req'[r].pc = "minute"
             /\ \/ AllowHour(r) /\ req[r].pc = "hour" /\ unread' = unread
                \/ ~AllowHour(r) /\ req[r].pc = "hour" /\ unread' = unread \cup {<<r, n, "hour">>}
                \/ ~AllowHour(r) /\ req[r].pc = "minute"
                   /\ unread' = unread \cup {<<r, n, "minute">>, <<r, n, "hour">>}
    <3>1. k = req'[r].sent => k = n /\ req'[r].pc = "done"
      BY <2>1, <2>2, <2>9
    <3>2. /\ <<r, k, "minute">> \in unread' => <<r, k, "minute">> \in unread \/ (k = n /\ req[r].pc = "minute")
          /\ <<r, k, "hour">> \in unread' =>
                 \/ <<r, k, "hour">> \in unread
                 \/ k = n /\ req[r].pc \in {"minute", "hour"} /\ ~AllowHour(r)
      BY <2>9
    <3>3. MinuteRan(p) => MinuteRan(p)'
      BY <2>4, <3>1, <3>2
    <3>4. HourRan(p) => HourRan(p)'
      BY SMTT(30), <2>4, <3>1, <3>2
    <3>5. AllowHour(r) /\ k = n => ~HourRan(p) /\ HourRan(p)'
      BY <2>3, <2>4, <2>7, <3>1, <3>2
    <3> QED BY SMTT(30), <2>5, <2>9, <3>3, <3>4, <3>5
  <2>10. req[r].sent # 0
    BY <2>2
  <2> QED BY Zenon, <2>2, <2>8, <2>9, <2>10, PipelineMoves
<1> QED BY Zenon, <1>3, <1>4

\* More pipelines are no fewer.
LEMMA MorePipes ==
    ASSUME NEW S, NEW T, S \in SUBSET Pipe, T \in SUBSET Pipe, S \subseteq T
    PROVE  Cardinality(S) <= Cardinality(T) /\ Cardinality(S) \in Nat /\ Cardinality(T) \in Nat
BY Zenon, PipesFinite

\* The counter of a minute.
LEMMA MinuteCountedKept ==
    ASSUME Base, PipeInv, CountedInv, NEW r \in Request, Handle(r), NEW t \in Tenant, NEW m \in Minute
    PROVE  minuteCount'[t][m] <= Cardinality(MinuteCounted(t, m)')
<1> DEFINE S == MinuteCounted(t, m)
           T == MinuteCounted(t, m)'
<1>0. /\ req[r] \in Req /\ minuteCount[t][m] \in Nat /\ minuteCount \in [Tenant -> [Minute -> Nat]]
  BY DEF Base, Types
<1>1. S \in SUBSET Pipe /\ T \in SUBSET Pipe /\ S \subseteq T
  <2>1. S \in SUBSET Pipe /\ T \in SUBSET Pipe
    BY Zenon DEF MinuteCounted, Came
  <2>2. ASSUME NEW p \in S PROVE p \in T
    <3>1. p \in Pipe /\ req[p[1]].tenant = t /\ req[p[1]].minute = m /\ p[2] <= req[p[1]].sent /\ MinuteRan(p)
      BY Zenon DEF MinuteCounted, Came
    <3>2. p[2] <= req'[p[1]].sent /\ req'[p[1]].minute = m /\ req'[p[1]].tenant = t /\ MinuteRan(p)'
      BY Zenon, <3>1, CameStays, RanStays
    <3> QED BY Zenon, <3>1, <3>2 DEF MinuteCounted, Came
  <2> QED BY Zenon, <2>1, <2>2
<1>2. minuteCount[t][m] <= Cardinality(S)
  BY DEF CountedInv
<1>3. Cardinality(S) \in Nat /\ Cardinality(T) \in Nat /\ Cardinality(S) <= Cardinality(T)
  BY Zenon, <1>1, PipesFinite
<1>4. CASE AllowMinute(r) /\ req[r].tenant = t /\ req[r].minute = m
  <2>1. minuteCount'[t][m] = minuteCount[t][m] + 1
    <3>1. IncrMinute(t, m)
      BY Zenon, <1>4, MinuteMoves
    <3> QED BY <1>0, <3>1 DEF IncrMinute
  <2>2. PICK p : p = <<r, req[r].sent>>
    BY Zenon
  <2>3. p \in Pipe /\ p[1] = r /\ p[2] = req[r].sent /\ p[2] <= req[p[1]].sent
    <3>1. req[r].pc = "minute"
      BY Zenon, <1>4, MinuteMoves
    <3>2. req[r].sent > 0 /\ req[r].sent \in 0..MaxResends + 1
      BY Zenon, <1>0, <3>1 DEF PipeInv, Req
    <3>3. req[r].sent \in Sends /\ req[r].sent <= req[r].sent
      BY <3>2, GatewayAssumption DEF Sends
    <3> QED BY <2>2, <3>3 DEF Pipe
  <2>4. ~MinuteRan(p) /\ MinuteRan(p)'
    BY Zenon, <1>4, <2>2, <2>3, RanStays
  <2>5. p[2] <= req'[p[1]].sent /\ req'[p[1]].minute = m /\ req'[p[1]].tenant = t
    BY Zenon, <1>4, <2>3, CameStays
  <2>6. p \in T /\ p \notin S
    BY Zenon, <2>3, <2>4, <2>5 DEF MinuteCounted, Came
  <2> HIDE DEF S, T
  <2>7. Cardinality(S) + 1 <= Cardinality(T)
    BY Zenon, <1>1, <2>6, PipesFinite
  <2>8. minuteCount'[t][m] <= Cardinality(T)
    BY <1>0, <1>2, <1>3, <2>1, <2>7
  <2> QED BY Zenon, <2>8 DEF T
<1>5. CASE ~(AllowMinute(r) /\ req[r].tenant = t /\ req[r].minute = m)
  <2>1. minuteCount'[t][m] = minuteCount[t][m]
    <3>1. CASE AllowMinute(r)
      <4>1. req[r].tenant \in Tenant /\ req[r].minute \in Minute
        BY Zenon, <1>0 DEF Req
      <4>2. IncrMinute(req[r].tenant, req[r].minute)
        BY Zenon, <3>1, MinuteMoves
      <4> QED BY <1>0, <1>5, <3>1, <4>1, <4>2 DEF IncrMinute
    <3>2. CASE ~AllowMinute(r)
      BY Zenon, <3>2, Kinds, EarlierMoves, HourMoves, LostMoves, LaterMoves
    <3> QED BY Zenon, <3>1, <3>2
  <2> HIDE DEF S, T
  <2>2. minuteCount'[t][m] <= Cardinality(T)
    BY <1>0, <1>2, <1>3, <2>1
  <2> QED BY Zenon, <2>2 DEF T
<1> QED BY <1>4, <1>5

\* The counter of an hour.
LEMMA HourCountedKept ==
    ASSUME Base, PipeInv, CountedInv, NEW r \in Request, Handle(r), NEW t \in Tenant, NEW h \in Minute
    PROVE  hourCount'[t][h] <= Cardinality(HourCounted(t, h)')
<1> DEFINE S == HourCounted(t, h)
           T == HourCounted(t, h)'
<1>0. req[r] \in Req /\ hourCount[t][h] \in Nat /\ hourCount \in [Tenant -> [Minute -> Nat]]
  BY DEF Base, Types
<1>1. S \in SUBSET Pipe /\ T \in SUBSET Pipe /\ S \subseteq T
  <2>1. S \in SUBSET Pipe /\ T \in SUBSET Pipe
    BY Zenon DEF HourCounted, CameHour
  <2>2. ASSUME NEW p \in S PROVE p \in T
    <3>1. p \in Pipe /\ req[p[1]].tenant = t /\ HourOf(req[p[1]].minute) = h /\ p[2] <= req[p[1]].sent /\ HourRan(p)
      BY Zenon DEF HourCounted, CameHour
    <3>2. p[2] <= req'[p[1]].sent /\ HourOf(req'[p[1]].minute) = h /\ req'[p[1]].tenant = t /\ HourRan(p)'
      BY Zenon, <3>1, CameStays, RanStays
    <3> QED BY Zenon, <3>1, <3>2 DEF HourCounted, CameHour
  <2> QED BY Zenon, <2>1, <2>2
<1>2. hourCount[t][h] <= Cardinality(S)
  BY DEF CountedInv
<1>3. Cardinality(S) \in Nat /\ Cardinality(T) \in Nat /\ Cardinality(S) <= Cardinality(T)
  BY Zenon, <1>1, PipesFinite
<1>4. CASE AllowHour(r) /\ req[r].tenant = t /\ HourOf(req[r].minute) = h
  <2>1. hourCount'[t][h] = hourCount[t][h] + 1
    <3>1. hourCount' = [hourCount EXCEPT ![t][h] = @ + 1]
      BY Zenon, <1>4, HourMoves DEF IncrHour
    <3> QED BY <1>0, <3>1
  <2>2. PICK p : p = <<r, req[r].sent>>
    BY Zenon
  <2>3. p \in Pipe /\ p[1] = r /\ p[2] = req[r].sent /\ p[2] <= req[p[1]].sent
    <3>1. req[r].pc = "hour"
      BY Zenon, <1>4, HourMoves
    <3>2. req[r].sent > 0 /\ req[r].sent \in 0..MaxResends + 1
      BY Zenon, <1>0, <3>1 DEF PipeInv, Req
    <3>3. req[r].sent \in Sends /\ req[r].sent <= req[r].sent
      BY <3>2, GatewayAssumption DEF Sends
    <3> QED BY <2>2, <3>3 DEF Pipe
  <2>4. ~HourRan(p) /\ HourRan(p)'
    BY Zenon, <1>4, <2>2, <2>3, RanStays
  <2>5. p[2] <= req'[p[1]].sent /\ HourOf(req'[p[1]].minute) = h /\ req'[p[1]].tenant = t
    BY Zenon, <1>4, <2>3, CameStays
  <2>6. p \in T /\ p \notin S
    BY ZenonT(30), <2>3, <2>4, <2>5 DEF HourCounted, CameHour
  <2> HIDE DEF S, T
  <2>7. Cardinality(S) + 1 <= Cardinality(T)
    BY Zenon, <1>1, <2>6, PipesFinite
  <2>8. hourCount'[t][h] <= Cardinality(T)
    BY SMTT(30), <1>0, <1>2, <1>3, <2>1, <2>7
  <2> QED BY Zenon, <2>8 DEF T
<1>5. CASE ~(AllowHour(r) /\ req[r].tenant = t /\ HourOf(req[r].minute) = h)
  <2>1. hourCount'[t][h] = hourCount[t][h]
    <3>1. CASE AllowHour(r)
      <4>1. PICK u \in Tenant, v \in Minute : u = req[r].tenant /\ v = HourOf(req[r].minute)
        BY Zenon, <1>0, HourOfType DEF Req
      <4>2. hourCount' = [hourCount EXCEPT ![u][v] = @ + 1]
        BY Zenon, <3>1, <4>1, HourMoves DEF IncrHour
      <4>3. u # t \/ v # h
        BY Zenon, <1>5, <3>1, <4>1
      <4> QED BY <1>0, <4>2, <4>3
    <3>2. CASE ~AllowHour(r)
      BY Zenon, <3>2, Kinds, EarlierMoves, MinuteMoves, LostMoves, LaterMoves
    <3> QED BY <3>1, <3>2
  <2> HIDE DEF S, T
  <2>2. hourCount'[t][h] <= Cardinality(T)
    BY <1>0, <1>2, <1>3, <2>1
  <2> QED BY Zenon, <2>2 DEF T
<1> QED BY <1>4, <1>5

DeniedInv ==
    \A r \in Request : req[r].code = 429 =>
        \/ Cardinality(Came(req[r].tenant, req[r].minute)) > PerMinute
        \/ Cardinality(CameHour(req[r].tenant, HourOf(req[r].minute))) > PerHour

\* No pipeline that was sent is forgotten.
LEMMA CameGrows ==
    ASSUME Base, PipeInv, NEW r \in Request, Handle(r), NEW t, NEW m
    PROVE  /\ Cardinality(Came(t, m)) \in Nat /\ Cardinality(Came(t, m)') \in Nat
           /\ Cardinality(CameHour(t, m)) \in Nat /\ Cardinality(CameHour(t, m)') \in Nat
           /\ Cardinality(Came(t, m)) <= Cardinality(Came(t, m)')
           /\ Cardinality(CameHour(t, m)) <= Cardinality(CameHour(t, m)')
<1>1. /\ Came(t, m) \in SUBSET Pipe /\ Came(t, m)' \in SUBSET Pipe
      /\ CameHour(t, m) \in SUBSET Pipe /\ CameHour(t, m)' \in SUBSET Pipe
  BY Zenon DEF Came, CameHour
<1>2. Came(t, m) \subseteq Came(t, m)'
  BY Zenon, CameStays DEF Came
<1>3. CameHour(t, m) \subseteq CameHour(t, m)'
  BY Zenon, CameStays DEF CameHour
<1> QED BY Zenon, <1>1, <1>2, <1>3, PipesFinite

\* What a request was told is no more than the counter says.
LEMMA ToldKept ==
    ASSUME Base, CountedInv, NEW r \in Request, Handle(r), NEW q \in Request, req'[q].pc = "hour"
    PROVE  req'[q].count <= minuteCount'[req'[q].tenant][req'[q].minute]
<1>0. /\ req \in [Request -> Req] /\ req[q] \in Req /\ req[r] \in Req /\ req' \in [Request -> Req]
      /\ minuteCount \in [Tenant -> [Minute -> Nat]]
      /\ \A p \in Request : p # r => req'[p] = req[p]
  BY RequestMoves DEF Base, Types
<1>1. CASE AllowMinute(r)
  <2>1. CASE q = r
    <3>1. req'[q].count = minuteCount'[req[q].tenant][req[q].minute] /\ req'[q].tenant = req[q].tenant
          /\ req'[q].minute = req[q].minute
      BY <1>1, <2>1, MinuteMoves DEF Placed
    <3>2. req'[q].count \in Nat
      BY <1>0 DEF Req
    <3> QED BY <3>1, <3>2
  <2>2. CASE q # r
    <3>1. req'[q] = req[q] /\ req[q].count <= minuteCount[req[q].tenant][req[q].minute]
      BY <1>0, <2>2 DEF CountedInv
    <3>2. req[q].tenant \in Tenant /\ req[q].minute \in Minute /\ req[q].count \in Nat
      BY ZenonT(30), <1>0 DEF Req
    <3>3. /\ minuteCount[req[q].tenant][req[q].minute] \in Nat
          /\ \/ minuteCount'[req[q].tenant][req[q].minute] = minuteCount[req[q].tenant][req[q].minute] + 1
             \/ minuteCount'[req[q].tenant][req[q].minute] = minuteCount[req[q].tenant][req[q].minute]
      <4>1. req[r].tenant \in Tenant /\ req[r].minute \in Minute
        BY Zenon DEF Base, Types, Req
      <4>2. IncrMinute(req[r].tenant, req[r].minute)
        BY Zenon, <1>1, MinuteMoves
      <4>3. minuteCount \in [Tenant -> [Minute -> Nat]]
        BY Zenon DEF Base, Types
      <4> QED BY <3>2, <4>1, <4>2, <4>3 DEF IncrMinute
    <3> QED BY SMTT(30), <3>1, <3>2, <3>3
  <2> QED BY <2>1, <2>2
<1>2. CASE ~AllowMinute(r)
  <2>1. minuteCount' = minuteCount
    BY <1>2, Kinds, EarlierMoves, HourMoves, LostMoves, LaterMoves
  <2>2. q # r
    <3>1. req'[r].pc # "hour"
      BY SMTT(30), <1>2, Kinds, EarlierMoves, HourMoves, LostMoves, LaterMoves
    <3> QED BY ZenonT(30), <1>0, <3>1
  <2> QED BY SMTT(30), <1>0, <2>1, <2>2 DEF CountedInv
<1> QED BY <1>1, <1>2

\* A denial that is new.
LEMMA DenialIsJust ==
    ASSUME Base, PipeInv, CountedInv, NEW r \in Request, Handle(r), req[r].code # 429, req'[r].code = 429
    PROVE  (\/ Cardinality(Came(req[r].tenant, req[r].minute)) > PerMinute
            \/ Cardinality(CameHour(req[r].tenant, HourOf(req[r].minute))) > PerHour)'
<1>0. req \in [Request -> Req] /\ req[r] \in Req
  BY SMTT(30) DEF Base, Types
<1>1. AllowHour(r)
  BY SMTT(30), Kinds, EarlierMoves, MinuteMoves, LostMoves, LaterMoves
<1>2. PICK t \in Tenant, m \in Minute : t = req[r].tenant /\ m = req[r].minute
  BY <1>0 DEF Req
<1>3. /\ req'[r].tenant = t /\ req'[r].minute = m /\ req[r].pc = "hour" /\ limits' = limits
      /\ minuteCount' = minuteCount
      /\ ~WithinLimits(req[r].count, hourCount'[t][HourOf(m)])
  <2>1. limits' = limits
    BY RequestMoves DEF Base
  <2>2. ~WithinLimits(req[r].count, hourCount'[req[r].tenant][HourOf(req[r].minute)])
    BY <1>1, HourMoves
  <2>3. Placed(r) /\ req[r].pc = "hour" /\ minuteCount' = minuteCount
    BY <1>1, HourMoves
  <2> QED BY Zenon, <1>2, <2>1, <2>2, <2>3 DEF Placed
<1>4. HourOf(m) \in Minute
  BY HourOfType
<1>5. /\ req[r].count \in Nat /\ minuteCount[t][m] \in Nat /\ PerMinute \in Nat /\ PerHour \in Nat
      /\ hourCount'[t][HourOf(m)] \in Nat
  <2>1. req[r].count \in Nat /\ minuteCount[t][m] \in Nat
    BY SMTT(30), <1>0 DEF Base, Types, Req
  <2>2. PerMinute \in Nat /\ PerHour \in Nat
    BY LimiterAssumption DEF Base, Types, PerMinute, PerHour
  <2>3. hourCount' \in [Tenant -> [Minute -> Nat]]
    BY SMTT(30), HandleKeepsBase DEF Base, Types
  <2> QED BY SMTT(30), <1>4, <2>1, <2>2, <2>3
<1>6. req[r].count <= minuteCount'[t][m]
  BY SMTT(30), <1>2, <1>3 DEF CountedInv
<1>7. /\ minuteCount'[t][m] <= Cardinality(MinuteCounted(t, m)')
      /\ hourCount'[t][HourOf(m)] <= Cardinality(HourCounted(t, HourOf(m))')
  BY SMTT(30), <1>4, MinuteCountedKept, HourCountedKept
<1>8. /\ MinuteCounted(t, m)' \in SUBSET Pipe /\ Came(t, m)' \in SUBSET Pipe
      /\ MinuteCounted(t, m)' \subseteq Came(t, m)'
      /\ HourCounted(t, HourOf(m))' \in SUBSET Pipe /\ CameHour(t, HourOf(m))' \in SUBSET Pipe
      /\ HourCounted(t, HourOf(m))' \subseteq CameHour(t, HourOf(m))'
  BY Zenon DEF MinuteCounted, HourCounted, Came, CameHour
<1>10. /\ Cardinality(MinuteCounted(t, m)') <= Cardinality(Came(t, m)')
       /\ Cardinality(MinuteCounted(t, m)') \in Nat /\ Cardinality(Came(t, m)') \in Nat
  <2> DEFINE A == MinuteCounted(t, m)'
             B == Came(t, m)'
  <2>1. A \in SUBSET Pipe /\ B \in SUBSET Pipe /\ A \subseteq B
    BY Zenon, <1>8
  <2> HIDE DEF A, B
  <2>2. Cardinality(A) <= Cardinality(B) /\ Cardinality(A) \in Nat /\ Cardinality(B) \in Nat
    BY <2>1, MorePipes
  <2> QED BY Zenon, <2>2 DEF A, B
<1>11. /\ Cardinality(HourCounted(t, HourOf(m))') <= Cardinality(CameHour(t, HourOf(m))')
       /\ Cardinality(HourCounted(t, HourOf(m))') \in Nat /\ Cardinality(CameHour(t, HourOf(m))') \in Nat
  <2> DEFINE A == HourCounted(t, HourOf(m))'
             B == CameHour(t, HourOf(m))'
  <2>1. A \in SUBSET Pipe /\ B \in SUBSET Pipe /\ A \subseteq B
    BY ZenonT(30), <1>8
  <2> HIDE DEF A, B
  <2>2. Cardinality(A) <= Cardinality(B) /\ Cardinality(A) \in Nat /\ Cardinality(B) \in Nat
    BY <2>1, MorePipes
  <2> QED BY Zenon, <2>2 DEF A, B
<1>12. \/ Cardinality(Came(t, m)') > PerMinute
       \/ Cardinality(CameHour(t, HourOf(m))') > PerHour
  BY SMTT(30), <1>3, <1>5, <1>6, <1>7, <1>10, <1>11 DEF WithinLimits
<1>13. /\ Came(req[r].tenant, req[r].minute)' = Came(t, m)'
       /\ CameHour(req[r].tenant, HourOf(req[r].minute))' = CameHour(t, HourOf(m))'
       /\ PerMinute' = PerMinute /\ PerHour' = PerHour
  BY <1>3 DEF Came, CameHour, PerMinute, PerHour
<1> QED BY SMTT(30), <1>12, <1>13

LimitInv == PlacesInv /\ CountedInv /\ DeniedInv

\* A step of a request keeps the limits.
LEMMA HandleKeepsLimits == ASSUME Base, PipeInv, CallInv, LimitInv, NEW r \in Request, Handle(r) PROVE LimitInv'
<1>0. /\ limits' = limits /\ limiter' = limiter /\ PerMinute' = PerMinute /\ PerHour' = PerHour
      /\ \A q \in Request : q # r => req'[q] = req[q]
      /\ PlacesInv /\ CountedInv /\ DeniedInv
  BY RequestMoves DEF Base, LimitInv, PerMinute, PerHour
<1>1. PlacesInv'
  <2> SUFFICES ASSUME limiter', NEW t \in Tenant, NEW m \in Minute
               PROVE  (/\ Cardinality(MinutePlaces(t, m)) <= PerMinute
                       /\ Cardinality(MinutePlaces(t, m)) <= minuteCount[t][m]
                       /\ Cardinality(HourPlaces(t, m)) <= PerHour
                       /\ Cardinality(HourPlaces(t, m)) <= hourCount[t][m])'
    BY DEF PlacesInv
  <2> QED BY <1>0, MinutePlacesKept, HourPlacesKept
<1>2. CountedInv'
  <2>1. \A t \in Tenant, m \in Minute :
           /\ minuteCount'[t][m] <= Cardinality(MinuteCounted(t, m)')
           /\ hourCount'[t][m] <= Cardinality(HourCounted(t, m)')
    BY <1>0, MinuteCountedKept, HourCountedKept
  <2>2. \A q \in Request : req'[q].pc = "hour" => req'[q].count <= minuteCount'[req'[q].tenant][req'[q].minute]
    BY <1>0, ToldKept
  <2> QED BY <2>1, <2>2 DEF CountedInv
<1>3. DeniedInv'
  <2> SUFFICES ASSUME NEW q \in Request, req'[q].code = 429
               PROVE  (\/ Cardinality(Came(req[q].tenant, req[q].minute)) > PerMinute
                       \/ Cardinality(CameHour(req[q].tenant, HourOf(req[q].minute))) > PerHour)'
    BY DEF DeniedInv
  <2>1. CASE req[q].code # 429
    <3>1. q = r
      BY <1>0, <2>1
    <3> QED BY <1>0, <2>1, <3>1, DenialIsJust
  <2>2. CASE req[q].code = 429
    <3>1. req'[q] = req[q]
      <4>1. req[r].pc # "done"
        BY PipelineMoves
      <4> QED BY SMTT(30), <1>0, <2>2, <4>1 DEF CallInv
    <3>2. PICK t, m, h : t = req[q].tenant /\ m = req[q].minute /\ h = HourOf(req[q].minute)
      BY SMTT(30)
    <3>3. Cardinality(Came(t, m)) > PerMinute \/ Cardinality(CameHour(t, h)) > PerHour
      BY <1>0, <2>2, <3>2 DEF DeniedInv
    <3>4. PerMinute \in Nat /\ PerHour \in Nat
      BY SMTT(30), LimiterAssumption DEF Base, Types, PerMinute, PerHour
    <3>5. /\ Cardinality(Came(t, m)) \in Nat /\ Cardinality(Came(t, m)') \in Nat
          /\ Cardinality(Came(t, m)) <= Cardinality(Came(t, m)')
      BY CameGrows
    <3>6. /\ Cardinality(CameHour(t, h)) \in Nat /\ Cardinality(CameHour(t, h)') \in Nat
          /\ Cardinality(CameHour(t, h)) <= Cardinality(CameHour(t, h)')
      BY CameGrows
    <3>7. Cardinality(Came(t, m)') > PerMinute \/ Cardinality(CameHour(t, h)') > PerHour
      BY SMTT(30), <3>3, <3>4, <3>5, <3>6
    <3>8. /\ Came(req[q].tenant, req[q].minute)' = Came(t, m)'
          /\ CameHour(req[q].tenant, HourOf(req[q].minute))' = CameHour(t, h)'
      BY <3>1, <3>2 DEF Came, CameHour, HourOf
    <3> QED BY SMTT(30), <1>0, <3>7, <3>8
  <2> QED BY <2>1, <2>2
<1> QED BY <1>1, <1>2, <1>3 DEF LimitInv

\* Redis runs a command of a pipeline that was given up: it is counted from now on.
LEMMA LateKeepsLimits ==
    ASSUME Base, PipeInv, LimitInv, NEW command \in unread, RedisRunsLate(command)
    PROVE  LimitInv'
<1>0. /\ req' = req /\ limits' = limits /\ limiter' = limiter /\ unread' = unread \ {command}
      /\ PerMinute' = PerMinute /\ PerHour' = PerHour
  BY Zenon DEF RedisRunsLate, config, PerMinute, PerHour
<1>1. /\ minuteCount \in [Tenant -> [Minute -> Nat]] /\ hourCount \in [Tenant -> [Minute -> Nat]]
      /\ req \in [Request -> Req] /\ unread \subseteq Request \X Sends \X Key
  BY DEF Base, Types
<1>2. PICK q \in Request, k \in Sends, key \in Key : command = <<q, k, key>>
  BY <1>1
<1>3. PICK t \in Tenant, m \in Minute : t = req[q].tenant /\ m = req[q].minute
  BY Zenon, <1>1 DEF Req
<1>4. PICK h \in Minute : h = HourOf(m)
  BY HourOfType
<1>5. \/ key = "minute" /\ minuteCount' = [minuteCount EXCEPT ![t][m] = @ + 1] /\ hourCount' = hourCount
      \/ key = "hour" /\ hourCount' = [hourCount EXCEPT ![t][h] = @ + 1] /\ minuteCount' = minuteCount
  <2>1. command[1] = q /\ command[3] = key
    BY <1>2
  <2> QED BY Zenon, <1>3, <1>4, <2>1 DEF RedisRunsLate, IncrMinute, IncrHour
<1>6. ASSUME NEW u \in Tenant, NEW v \in Minute
      PROVE  /\ minuteCount[u][v] \in Nat /\ hourCount[u][v] \in Nat
             /\ minuteCount'[u][v] = minuteCount[u][v] + (IF key = "minute" /\ u = t /\ v = m THEN 1 ELSE 0)
             /\ hourCount'[u][v] = hourCount[u][v] + (IF key = "hour" /\ u = t /\ v = h THEN 1 ELSE 0)
  <2>1. CASE key = "minute" /\ minuteCount' = [minuteCount EXCEPT ![t][m] = @ + 1] /\ hourCount' = hourCount
    BY <1>1, <2>1
  <2>2. CASE key = "hour" /\ hourCount' = [hourCount EXCEPT ![t][h] = @ + 1] /\ minuteCount' = minuteCount
    BY <1>1, <2>2
  <2> QED BY <1>5, <2>1, <2>2
<1>7. \A u, v : /\ MinutePlaces(u, v)' = MinutePlaces(u, v) /\ HourPlaces(u, v)' = HourPlaces(u, v)
                /\ Came(u, v)' = Came(u, v) /\ CameHour(u, v)' = CameHour(u, v)
  BY Zenon, <1>0 DEF MinutePlaces, HourPlaces, Came, CameHour, PerMinute
<1>8. PlacesInv'
  <2> SUFFICES ASSUME limiter, NEW u \in Tenant, NEW v \in Minute
               PROVE  /\ Cardinality(MinutePlaces(u, v)) <= PerMinute
                      /\ Cardinality(MinutePlaces(u, v)) <= minuteCount'[u][v]
                      /\ Cardinality(HourPlaces(u, v)) <= PerHour
                      /\ Cardinality(HourPlaces(u, v)) <= hourCount'[u][v]
    BY Zenon, <1>0, <1>7 DEF PlacesInv
  <2>1. /\ Cardinality(MinutePlaces(u, v)) <= PerMinute
        /\ Cardinality(MinutePlaces(u, v)) <= minuteCount[u][v]
        /\ Cardinality(HourPlaces(u, v)) <= PerHour
        /\ Cardinality(HourPlaces(u, v)) <= hourCount[u][v]
    BY Zenon DEF LimitInv, PlacesInv
  <2>2. Cardinality(MinutePlaces(u, v)) \in Nat /\ Cardinality(HourPlaces(u, v)) \in Nat
    <3>1. MinutePlaces(u, v) \in SUBSET Request /\ HourPlaces(u, v) \in SUBSET Request
      BY Zenon DEF MinutePlaces, HourPlaces
    <3> QED BY Zenon, <3>1, GatewayAssumption, FS_Subset, FS_CardinalityType
  <2> QED BY <1>6, <2>1, <2>2
<1>9. PICK p : p = <<q, k>>
  BY Zenon
<1>10. /\ p \in Pipe /\ p[1] = q /\ p[2] = k /\ k <= req[q].sent
       /\ req[q].pc \in {"minute", "hour"} => k # req[q].sent
  <2>1. p \in Pipe /\ p[1] = q /\ p[2] = k
    BY <1>9 DEF Pipe
  <2>2. Given(command) /\ command[1] = q /\ command[2] = k /\ k \in Nat
    BY <1>2 DEF PipeInv, Sends
  <2>3. k <= req[q].sent /\ (req[q].pc \in {"minute", "hour"} => k < req[q].sent)
    BY Zenon, <2>2 DEF Given
  <2>4. req[q].pc \in {"minute", "hour"} => k # req[q].sent
    BY <2>2, <2>3
  <2> QED BY Zenon, <2>1, <2>3, <2>4
<1>11. \A x : (MinuteRan(x) => MinuteRan(x)') /\ (HourRan(x) => HourRan(x)')
  BY Zenon, <1>0 DEF MinuteRan, HourRan
<1>12. ASSUME NEW u \in Tenant, NEW v \in Minute PROVE minuteCount'[u][v] <= Cardinality(MinuteCounted(u, v)')
  <2> DEFINE S == MinuteCounted(u, v)
             T == MinuteCounted(u, v)'
  <2>1. S \in SUBSET Pipe /\ T \in SUBSET Pipe /\ S \subseteq T
    <3>1. T = {x \in Came(u, v) : MinuteRan(x)'}
      BY Zenon, <1>7 DEF MinuteCounted
    <3> QED BY Zenon, <1>11, <3>1 DEF MinuteCounted, Came
  <2>2. minuteCount[u][v] <= Cardinality(S)
    BY Zenon DEF LimitInv, CountedInv
  <2>3. key = "minute" /\ u = t /\ v = m => p \in T /\ p \notin S
    <3>1. SUFFICES ASSUME key = "minute", u = t, v = m PROVE p \in T /\ p \notin S
      BY Zenon
    <3>2. p \in Came(u, v)
      BY Zenon, <1>3, <1>10, <3>1 DEF Came
    <3>3. ~MinuteRan(p)
      BY Zenon, <1>2, <1>10, <3>1 DEF MinuteRan
    <3>4. MinuteRan(p)'
      <4>1. <<q, k, "minute">> \notin unread'
        BY Zenon, <1>0, <1>2, <3>1
      <4>2. k = req[q].sent => req[q].pc # "minute"
        BY Zenon, <1>10
      <4> QED BY Zenon, <1>0, <1>10, <4>1, <4>2 DEF MinuteRan
    <3> QED BY Zenon, <1>7, <3>2, <3>3, <3>4 DEF MinuteCounted
  <2> HIDE DEF S, T
  <2>4. Cardinality(S) \in Nat /\ Cardinality(T) \in Nat /\ Cardinality(S) <= Cardinality(T)
    BY Zenon, <2>1, PipesFinite
  <2>5. key = "minute" /\ u = t /\ v = m => Cardinality(S) + 1 <= Cardinality(T)
    BY ZenonT(30), <2>1, <2>3, PipesFinite
  <2>6. minuteCount'[u][v] <= Cardinality(T)
    BY <1>6, <2>2, <2>4, <2>5
  <2> QED BY Zenon, <2>6 DEF T
<1>13. ASSUME NEW u \in Tenant, NEW v \in Minute PROVE hourCount'[u][v] <= Cardinality(HourCounted(u, v)')
  <2> DEFINE S == HourCounted(u, v)
             T == HourCounted(u, v)'
  <2>1. S \in SUBSET Pipe /\ T \in SUBSET Pipe /\ S \subseteq T
    <3>1. T = {x \in CameHour(u, v) : HourRan(x)'}
      BY Zenon, <1>7 DEF HourCounted
    <3> QED BY Zenon, <1>11, <3>1 DEF HourCounted, CameHour
  <2>2. hourCount[u][v] <= Cardinality(S)
    BY Zenon DEF LimitInv, CountedInv
  <2>3. key = "hour" /\ u = t /\ v = h => p \in T /\ p \notin S
    <3>1. SUFFICES ASSUME key = "hour", u = t, v = h PROVE p \in T /\ p \notin S
      BY Zenon
    <3>2. p \in CameHour(u, v)
      BY Zenon, <1>3, <1>4, <1>10, <3>1 DEF CameHour
    <3>3. ~HourRan(p)
      BY Zenon, <1>2, <1>10, <3>1 DEF HourRan
    <3>4. HourRan(p)'
      <4>1. <<q, k, "hour">> \notin unread'
        BY Zenon, <1>0, <1>2, <3>1
      <4>2. k = req[q].sent => req[q].pc \notin {"minute", "hour"}
        BY Zenon, <1>10
      <4> QED BY Zenon, <1>0, <1>10, <4>1, <4>2 DEF HourRan
    <3> QED BY Zenon, <1>7, <3>2, <3>3, <3>4 DEF HourCounted
  <2> HIDE DEF S, T
  <2>4. Cardinality(S) \in Nat /\ Cardinality(T) \in Nat /\ Cardinality(S) <= Cardinality(T)
    BY Zenon, <2>1, PipesFinite
  <2>5. key = "hour" /\ u = t /\ v = h => Cardinality(S) + 1 <= Cardinality(T)
    BY Zenon, <2>1, <2>3, PipesFinite
  <2>6. hourCount'[u][v] <= Cardinality(T)
    BY SMTT(30), <1>6, <2>2, <2>4, <2>5
  <2> QED BY Zenon, <2>6 DEF T
<1>14. ASSUME NEW r \in Request, req[r].pc = "hour" PROVE req[r].count <= minuteCount'[req[r].tenant][req[r].minute]
  <2>1. req[r].count <= minuteCount[req[r].tenant][req[r].minute]
    BY Zenon, <1>14 DEF LimitInv, CountedInv
  <2>2. req[r].tenant \in Tenant /\ req[r].minute \in Minute /\ req[r].count \in Nat
    BY Zenon, <1>1 DEF Req
  <2> QED BY <1>6, <2>1, <2>2
<1>15. CountedInv'
  BY Zenon, <1>0, <1>12, <1>13, <1>14 DEF CountedInv
<1>16. DeniedInv'
  <2>1. ASSUME NEW r \in Request, req'[r].code = 429
        PROVE  \/ Cardinality(Came(req[r].tenant, req[r].minute)') > PerMinute'
               \/ Cardinality(CameHour(req[r].tenant, HourOf(req[r].minute))') > PerHour'
    BY Zenon, <1>0, <1>7, <2>1 DEF LimitInv, DeniedInv
  <2> QED BY Zenon, <1>0, <1>7, <2>1 DEF LimitInv, DeniedInv, Came, CameHour, PerMinute, PerHour
<1> QED BY Zenon, <1>8, <1>15, <1>16 DEF LimitInv

\* The other steps have nothing to do with the limiter but the clock.
LEMMA OthersKeepLimits ==
    ASSUME LimitInv, UNCHANGED <<limits, limiter, minuteCount, hourCount, unread>>,
           \A q \in Request : Alike(req'[q], req[q])
    PROVE  LimitInv'
<1>0. /\ PerMinute' = PerMinute /\ PerHour' = PerHour
      /\ \A q \in Request : /\ req'[q].pc = req[q].pc /\ req'[q].tenant = req[q].tenant
                            /\ req'[q].minute = req[q].minute /\ req'[q].sent = req[q].sent
                            /\ req'[q].count = req[q].count /\ req'[q].code = req[q].code
  BY Zenon DEF Alike, PerMinute, PerHour
<1>1. \A t, m : MinutePlaces(t, m)' = MinutePlaces(t, m) /\ HourPlaces(t, m)' = HourPlaces(t, m)
  <2>1. \A t, m : \A q \in Request : /\ q \in MinutePlaces(t, m)' <=> q \in MinutePlaces(t, m)
                                     /\ q \in HourPlaces(t, m)' <=> q \in HourPlaces(t, m)
    BY <1>0 DEF MinutePlaces, HourPlaces, Passing
  <2>2. \A t, m : /\ MinutePlaces(t, m) \subseteq Request /\ MinutePlaces(t, m)' \subseteq Request
                  /\ HourPlaces(t, m) \subseteq Request /\ HourPlaces(t, m)' \subseteq Request
    BY Zenon DEF MinutePlaces, HourPlaces
  <2>3. ASSUME NEW t, NEW m PROVE MinutePlaces(t, m)' = MinutePlaces(t, m)
    BY <2>1, <2>2
  <2>4. ASSUME NEW t, NEW m PROVE HourPlaces(t, m)' = HourPlaces(t, m)
    BY <2>1, <2>2
  <2> QED BY Zenon, <2>3, <2>4
<1>2. \A p \in Pipe : p[1] \in Request
  BY DEF Pipe
<1>3. \A t, m : Came(t, m)' = Came(t, m) /\ CameHour(t, m)' = CameHour(t, m)
  BY Zenon, <1>0, <1>2 DEF Came, CameHour
<1>4. \A t, m : MinuteCounted(t, m)' = MinuteCounted(t, m) /\ HourCounted(t, m)' = HourCounted(t, m)
  <2>1. \A p \in Pipe : (MinuteRan(p)' <=> MinuteRan(p)) /\ (HourRan(p)' <=> HourRan(p))
    BY Zenon, <1>0, <1>2 DEF MinuteRan, HourRan
  <2>2. \A t, m : Came(t, m) \subseteq Pipe /\ CameHour(t, m) \subseteq Pipe
    BY Zenon DEF Came, CameHour
  <2> QED BY Zenon, <1>3, <2>1, <2>2 DEF MinuteCounted, HourCounted
<1>5. PlacesInv'
  BY Zenon, <1>0, <1>1 DEF LimitInv, PlacesInv
<1>6. CountedInv'
  BY Zenon, <1>0, <1>4 DEF LimitInv, CountedInv
<1>7. DeniedInv'
  <2> SUFFICES ASSUME NEW r \in Request, req'[r].code = 429
               PROVE  (\/ Cardinality(Came(req[r].tenant, req[r].minute)) > PerMinute
                       \/ Cardinality(CameHour(req[r].tenant, HourOf(req[r].minute))) > PerHour)'
    BY Zenon DEF DeniedInv
  <2>1. \E t, m : t = req[r].tenant /\ m = req[r].minute
    OBVIOUS
  <2>2. PICK t, m : t = req[r].tenant /\ m = req[r].minute
    BY Zenon, <2>1
  <2>3. t = req'[r].tenant /\ m = req'[r].minute /\ req[r].code = 429
    BY Zenon, <1>0, <2>2
  <2>4. Cardinality(Came(t, m)) > PerMinute \/ Cardinality(CameHour(t, HourOf(m))) > PerHour
    BY Zenon, <2>2, <2>3 DEF LimitInv, DeniedInv
  <2>5. Cardinality(Came(t, m)') > PerMinute' \/ Cardinality(CameHour(t, HourOf(m))') > PerHour'
    BY Zenon, <1>0, <1>3, <2>4
  <2> QED BY Zenon, <2>3, <2>5 DEF Came, CameHour, HourOf
<1> QED BY Zenon, <1>5, <1>6, <1>7 DEF LimitInv

\* LimitInv is inductive, given Base and CallInv.
LEMMA LimitInvariance == Spec => [](Base /\ LimitInv)
<1>1. Init => LimitInv
  <2> SUFFICES ASSUME Init PROVE LimitInv
    OBVIOUS
  <2>1. \A q \in Request : req[q].pc = "new" /\ req[q].code = 0 /\ req[q].sent = 0
    BY Zenon DEF Init
  <2>2. \A t, m : /\ MinutePlaces(t, m) = {} /\ HourPlaces(t, m) = {}
                  /\ MinuteCounted(t, m) = {} /\ HourCounted(t, m) = {}
    <3>1. \A t, m : MinutePlaces(t, m) = {} /\ HourPlaces(t, m) = {}
      BY <2>1 DEF MinutePlaces, HourPlaces, Passing
    <3>2. \A p \in Pipe : ~(p[2] <= req[p[1]].sent)
      BY <2>1 DEF Pipe, Sends
    <3> QED BY Zenon, <3>1, <3>2 DEF MinuteCounted, HourCounted, Came, CameHour
  <2>3. Cardinality({}) = 0
    BY FS_EmptySet
  <2>4. /\ PerMinute \in Nat /\ PerHour \in Nat
        /\ \A t \in Tenant, m \in Minute : minuteCount[t][m] = 0 /\ hourCount[t][m] = 0
    BY LimiterAssumption DEF Init, LimiterInit, PerMinute, PerHour
  <2>5. PlacesInv
    <3> SUFFICES ASSUME NEW t \in Tenant, NEW m \in Minute
                 PROVE  /\ Cardinality(MinutePlaces(t, m)) <= PerMinute
                        /\ Cardinality(MinutePlaces(t, m)) <= minuteCount[t][m]
                        /\ Cardinality(HourPlaces(t, m)) <= PerHour
                        /\ Cardinality(HourPlaces(t, m)) <= hourCount[t][m]
      BY DEF PlacesInv
    <3>1. Cardinality(MinutePlaces(t, m)) = 0 /\ Cardinality(HourPlaces(t, m)) = 0
      BY <2>2, <2>3, Zenon
    <3> QED BY <2>4, <3>1
  <2>6. CountedInv
    <3>1. ASSUME NEW t \in Tenant, NEW m \in Minute
          PROVE  /\ minuteCount[t][m] <= Cardinality(MinuteCounted(t, m))
                 /\ hourCount[t][m] <= Cardinality(HourCounted(t, m))
      <4>1. Cardinality(MinuteCounted(t, m)) = 0 /\ Cardinality(HourCounted(t, m)) = 0
        BY <2>2, <2>3, Zenon
      <4> QED BY <2>4, <4>1
    <3> QED BY <2>1, <3>1 DEF CountedInv
  <2>7. DeniedInv
    BY <2>1 DEF DeniedInv
  <2> QED BY SMTT(30), <2>5, <2>6, <2>7 DEF LimitInv
<1>2. Base /\ PipeInv /\ CallInv /\ LimitInv /\ [Next]_vars => LimitInv'
  <2> SUFFICES ASSUME Base, PipeInv, CallInv, LimitInv, [Next]_vars PROVE LimitInv'
    OBVIOUS
  <2>1. CASE \E r \in Request : Handle(r)
    BY Zenon, <2>1, HandleKeepsLimits
  <2>2. CASE \E command \in unread : RedisRunsLate(command)
    BY Zenon, <2>2, LateKeepsLimits
  <2>3. CASE UNCHANGED vars \/ Clock \/ \E r \in Request : WriteTimeout(r)
    <3>1. UNCHANGED <<limits, limiter, minuteCount, hourCount, unread>>
      BY Zenon, <2>3 DEF vars, limiterVars, config, Clock, MinutePasses, WriteTimeout
    <3>2. \A q \in Request : Alike(req'[q], req[q])
      BY Zenon, <2>3, AsideMoves DEF Aside, Base
    <3> QED BY Zenon, <3>1, <3>2, OthersKeepLimits
  <2>4. CASE MockStep
    <3>1. UNCHANGED <<limits, limiter, minuteCount, hourCount, unread, req>>
      BY Zenon, <2>4, MockForms DEF Base, limiterVars, config
    <3>2. \A q \in Request : Alike(req'[q], req[q])
      BY Zenon, <3>1 DEF Alike
    <3> QED BY Zenon, <3>1, <3>2, OthersKeepLimits
  <2> QED BY Zenon, <2>1, <2>2, <2>3, <2>4, Steps DEF Aside
<1> QED BY <1>1, <1>2, CallInvariance, PTL DEF Spec

\* The limiter holds: although Allow increments two counters in a pipeline that is
\* no transaction, no more requests of a tenant pass in a minute, or in an hour,
\* than the limit says, however many run at the same time.
THEOREM LimitsHold == Spec => []LimitHolds
<1>1. Base /\ LimitInv => LimitHolds
  <2> SUFFICES ASSUME Base, LimitInv, limiter, NEW t \in Tenant, NEW m \in Minute
               PROVE  /\ Cardinality({r \in Request : Admitted(r) /\ req[r].tenant = t /\ req[r].minute = m}) <= PerMinute
                      /\ Cardinality({r \in Request : Admitted(r) /\ req[r].tenant = t
                                                      /\ HourOf(req[r].minute) = HourOf(m)}) <= PerHour
    BY Zenon DEF LimitHolds
  <2> DEFINE A == {r \in Request : Admitted(r) /\ req[r].tenant = t /\ req[r].minute = m}
             B == {r \in Request : Admitted(r) /\ req[r].tenant = t /\ HourOf(req[r].minute) = HourOf(m)}
  <2>1. A \in SUBSET MinutePlaces(t, m) /\ B = HourPlaces(t, HourOf(m))
    BY DEF MinutePlaces, HourPlaces, Passing, Admitted
  <2>2. MinutePlaces(t, m) \in SUBSET Request
    BY DEF MinutePlaces
  <2>3. IsFiniteSet(MinutePlaces(t, m))
    BY <2>2, GatewayAssumption, FS_Subset
  <2> HIDE DEF A, B
  <2>4. Cardinality(A) <= Cardinality(MinutePlaces(t, m)) /\ IsFiniteSet(A)
    BY <2>1, <2>3, FS_Subset
  <2>5. Cardinality(A) \in Nat /\ Cardinality(MinutePlaces(t, m)) \in Nat
    BY <2>3, <2>4, FS_CardinalityType
  <2>6. Cardinality(MinutePlaces(t, m)) <= PerMinute /\ Cardinality(HourPlaces(t, HourOf(m))) <= PerHour
    BY HourOfType DEF LimitInv, PlacesInv
  <2>7. PerMinute \in Nat
    BY LimiterAssumption DEF Base, Types, PerMinute
  <2>8. Cardinality(A) <= PerMinute /\ Cardinality(B) <= PerHour
    BY <2>1, <2>4, <2>5, <2>6, <2>7
  <2> QED BY <2>8 DEF A, B
<1> QED BY <1>1, LimitInvariance, PTL

\* And it denies nobody without reason: a 429 is answered only when more pipelines
\* than the limit were sent in that minute, or in that hour, of which one that the
\* Redis client sent again counts again, whenever Redis runs what was given up.
THEOREM DenialsAreJust == Spec => []DeniedOnlyOverLimit
<1>1. LimitInv => DeniedOnlyOverLimit
  <2> SUFFICES ASSUME LimitInv, NEW r \in Request, req[r].code = 429
               PROVE  LET sent == Pipelines(req[r].tenant)
                      IN  \/ Cardinality({p \in sent : req[p[1]].minute = req[r].minute}) > PerMinute
                          \/ Cardinality({p \in sent : HourOf(req[p[1]].minute) = HourOf(req[r].minute)}) > PerHour
    BY Zenon DEF DeniedOnlyOverLimit
  <2>1. /\ {p \in Pipelines(req[r].tenant) : req[p[1]].minute = req[r].minute} = Came(req[r].tenant, req[r].minute)
        /\ {p \in Pipelines(req[r].tenant) : HourOf(req[p[1]].minute) = HourOf(req[r].minute)}
           = CameHour(req[r].tenant, HourOf(req[r].minute))
    BY Zenon DEF Came, CameHour, Pipelines, Pipe
  <2> QED BY Zenon, <2>1 DEF LimitInv, DeniedInv
<1> QED BY <1>1, LimitInvariance, PTL

-----------------------------------------------------------------------------
(* The two numbers of GetQueueDepth. *)

\* The goroutines that have not returned, the ones of AddPendingTask, which never
\* start, among them.
Busy == {i \in DOMAIN tasks : tasks[i].goroutine # "returned"}

DepthInv ==
    published["cancelled"] = 0 =>
        /\ queueDepth = Cardinality(Busy)
        /\ \A i \in DOMAIN tasks : tasks[i].status \in {"Pending", "Running"} <=> tasks[i].goroutine # "returned"

\* As long as nothing is cancelled the counter follows the goroutines.
LEMMA MockKeepsDepth ==
    ASSUME Base, DepthInv, MockStep PROVE DepthInv'
<1>0. /\ tasks \in Seq(Task) /\ Len(tasks) \in Nat /\ DOMAIN tasks = 1..Len(tasks)
      /\ published \in [Channel -> Nat] /\ \A i \in DOMAIN tasks : tasks[i] \in Task
      /\ queueDepth \in Int
  BY DEF Base, Types
<1>1. IsFiniteSet(Busy) /\ Cardinality(Busy) \in Nat
  <2>1. IsFiniteSet(1..Len(tasks))
    BY <1>0, FS_Interval
  <2>2. Busy \in SUBSET (1..Len(tasks))
    BY <1>0 DEF Busy
  <2> QED BY Zenon, <2>1, <2>2, FS_Subset, FS_CardinalityType
<1>2. ASSUME NEW call \in inflight, Serve(call) PROVE DepthInv'
  <2>1. PICK new : new = NewTask(req[call[1]].name, call, "queued")
    OBVIOUS
  <2>2. tasks' = Append(tasks, new) /\ queueDepth' = queueDepth + 1 /\ published' = published
    BY <1>2, <2>1 DEF Serve, SubmitTask
  <2>3. new.goroutine # "returned" /\ new.status = "Pending"
    BY <2>1 DEF NewTask
  <2>4. /\ DOMAIN tasks' = 1..Len(tasks) + 1
        /\ \A i \in DOMAIN tasks : tasks'[i] = tasks[i]
        /\ tasks'[Len(tasks) + 1] = new
    BY SMTT(30), <1>0, <2>2
  <2>5. Busy' = Busy \cup {Len(tasks) + 1} /\ Len(tasks) + 1 \notin Busy
    <3>1. Busy' = {i \in DOMAIN tasks' : tasks'[i].goroutine # "returned"}
      BY Zenon DEF Busy
    <3> QED BY <1>0, <2>3, <2>4, <3>1 DEF Busy
  <2>6. Cardinality(Busy') = Cardinality(Busy) + 1
    BY SMTT(30), <1>1, <2>5, FS_AddElement
  <2>7. published["cancelled"] = 0 =>
          \A i \in DOMAIN tasks' : tasks'[i].status \in {"Pending", "Running"} <=> tasks'[i].goroutine # "returned"
    BY <1>0, <2>3, <2>4 DEF DepthInv
  <2> QED BY <2>2, <2>6, <2>7 DEF DepthInv
<1>3. ASSUME NEW i \in DOMAIN tasks, TransitionToRunning(i) PROVE DepthInv'
  <2>1. /\ tasks' = [tasks EXCEPT ![i].status = "Running", ![i].goroutine = "running"]
        /\ queueDepth' = queueDepth /\ published' = published /\ tasks[i].goroutine = "queued"
    BY <1>3 DEF TransitionToRunning
  <2>2. /\ DOMAIN tasks' = DOMAIN tasks
        /\ \A j \in DOMAIN tasks : j # i => tasks'[j] = tasks[j]
        /\ tasks'[i].status = "Running" /\ tasks'[i].goroutine = "running"
    BY <1>0, <2>1 DEF Task
  <2>3. Busy' = Busy
    BY <2>1, <2>2 DEF Busy
  <2>4. published["cancelled"] = 0 =>
          \A j \in DOMAIN tasks' : tasks'[j].status \in {"Pending", "Running"} <=> tasks'[j].goroutine # "returned"
    BY <2>2 DEF DepthInv
  <2> QED BY <2>1, <2>3, <2>4 DEF DepthInv
<1>4. ASSUME NEW i \in DOMAIN tasks, TransitionToEnd(i) PROVE DepthInv'
  <2>1. PICK end \in {<<"Failed", "failed">>, <<"Completed", "completed">>} :
          /\ tasks' = [tasks EXCEPT ![i].status = end[1], ![i].goroutine = "returned"]
          /\ published' = [published EXCEPT ![end[2]] = @ + 1]
    BY Zenon, <1>4 DEF TransitionToEnd, publishEvent
  <2>2. queueDepth' = queueDepth - 1 /\ tasks[i].goroutine = "running"
    BY <1>4 DEF TransitionToEnd
  <2>3. /\ DOMAIN tasks' = DOMAIN tasks
        /\ \A j \in DOMAIN tasks : j # i => tasks'[j] = tasks[j]
        /\ tasks'[i].status \in {"Failed", "Completed"} /\ tasks'[i].goroutine = "returned"
    BY <1>0, <2>1 DEF Task
  <2>4. published'["cancelled"] = published["cancelled"]
    BY <1>0, <2>1 DEF Channel
  <2>5. Busy' = Busy \ {i} /\ i \in Busy
    BY <2>2, <2>3 DEF Busy
  <2>6. Cardinality(Busy') = Cardinality(Busy) - 1
    BY <1>1, <2>5, FS_RemoveElement
  <2>7. published["cancelled"] = 0 =>
          \A j \in DOMAIN tasks' : tasks'[j].status \in {"Pending", "Running"} <=> tasks'[j].goroutine # "returned"
    BY <2>3 DEF DepthInv
  <2> QED BY <2>2, <2>4, <2>6, <2>7 DEF DepthInv
<1>5. ASSUME NEW n, Cancel(n) PROVE DepthInv'
  <2>1. published' = [published EXCEPT !["cancelled"] = @ + 1]
    BY <1>5 DEF Cancel, CancelTask, publishEvent
  <2>2. published'["cancelled"] # 0
    BY <1>0, <2>1 DEF Channel
  <2> QED BY <2>2 DEF DepthInv
<1> QED BY <1>2, <1>3, <1>4, <1>5 DEF MockStep, Transition, scheduleTaskTransition

\* The depth that GetQueueDepth reports is never below the tasks that it counts as
\* pending and running, as long as nothing was cancelled, whatever is retried.
THEOREM DepthCoversTheListing == Spec => []DepthCoversListing
<1>1. ASSUME Init PROVE DepthInv
  <2>1. /\ DOMAIN tasks = 1..Prefill /\ queueDepth = Prefill
        /\ \A i \in DOMAIN tasks : tasks[i].goroutine = "none" /\ tasks[i].status = "Pending"
    BY <1>1 DEF Init, MockInit, AddPendingTask, NewTask
  <2>2. Busy = 1..Prefill
    BY <2>1 DEF Busy
  <2>3. Cardinality(1..Prefill) = Prefill
    BY FS_Interval, MockAssumption
  <2> QED BY <2>1, <2>2, <2>3 DEF DepthInv
<1>2. Base /\ DepthInv /\ [Next]_vars => DepthInv'
  <2>1. ASSUME Base, DepthInv, Aside \/ \E r \in Request : Handle(r) PROVE DepthInv'
    <3>1. tasks' = tasks /\ published' = published /\ queueDepth' = queueDepth
      BY Zenon, <2>1, RequestMoves, AsideMoves DEF Base
    <3> QED BY Zenon, <2>1, <3>1 DEF DepthInv, Busy
  <2> QED BY Zenon, <2>1, Steps, MockKeepsDepth
<1>3. ASSUME Base, DepthInv PROVE DepthCoversListing
  <2> SUFFICES ASSUME published["cancelled"] = 0
               PROVE  /\ queueDepth >= Cardinality(PendingOrRunning)
                      /\ Listed = DOMAIN tasks => queueDepth = Cardinality(PendingOrRunning)
    BY DEF DepthCoversListing
  <2>1. /\ queueDepth = Cardinality(Busy)
        /\ \A i \in DOMAIN tasks : tasks[i].status \in {"Pending", "Running"} <=> tasks[i].goroutine # "returned"
    BY <1>3 DEF DepthInv
  <2>2. PendingOrRunning \in SUBSET Busy /\ (Listed = DOMAIN tasks => PendingOrRunning = Busy)
    BY <2>1 DEF PendingOrRunning, Listed, Busy
  <2>3. IsFiniteSet(Busy)
    <3>1. Len(tasks) \in Nat /\ Busy \in SUBSET (1..Len(tasks))
      BY <1>3 DEF Base, Types, Busy
    <3>2. IsFiniteSet(1..Len(tasks))
      BY <3>1, FS_Interval
    <3> QED BY Zenon, <3>1, <3>2, FS_Subset
  <2>4. Cardinality(PendingOrRunning) <= Cardinality(Busy) /\ Cardinality(Busy) \in Nat
        /\ Cardinality(PendingOrRunning) \in Nat
    BY <2>2, <2>3, FS_Subset, FS_CardinalityType
  <2> QED BY <2>1, <2>2, <2>4
<1> QED BY <1>1, <1>2, <1>3, BaseInvariance, PTL DEF Spec
=============================================================================
