------------------------------- MODULE Gateway -------------------------------
(***************************************************************************)
(* The path of POST /tasks/create through the Go gateway to Module 1:      *)
(* module2-orchestrator/cmd/api-gateway/main.go, pkg/auth/middleware.go    *)
(* and pkg/api/handlers.go, on top of the limiter (module RateLimiter),    *)
(* the retries of the Module 1 client (module Module1Client, of which only *)
(* the attempts are seen here) and the mock of Module 1 (module            *)
(* MockScheduler).                                                         *)
(*                                                                         *)
(* Requests run concurrently.  A call that was sent may be run by Module 1 *)
(* at any later time, also after the attempt has timed out, or never; its  *)
(* answer may be lost.  The same holds of the pipelines of the limiter,    *)
(* which the Redis client sends again when an answer is lost or late.      *)
(***************************************************************************)
EXTENDS RateLimiter, MockScheduler

CONSTANTS Request,
          MaxResends,     \* the Redis client sends a pipeline up to MaxResends + 1 times
          MaxRetries,     \* the Module 1 client makes up to MaxRetries + 1 attempts
          MaxServed       \* bound: calls that Module 1 runs, the others are lost

ASSUME GatewayAssumption ==
    /\ IsFiniteSet(Request)
    /\ MaxResends \in Nat
    /\ MaxRetries \in Nat
    /\ MaxServed \in Nat

VARIABLES
    limiter,     \* Redis answered at the start, so there is a rate limiter
    client,      \* the Module 1 client was created at the start
    req,         \* req[r]: where request r is and what it holds
    unread,      \* commands of pipelines given up that Redis has not run: <<r, pipeline, key>>
    inflight     \* calls sent to Module 1 that it has not run

vars == <<limiterVars, mockVars, limiter, client, req, unread, inflight>>
config == <<limiter, client>>

Pc == {"new", "limit", "minute", "hour", "handle", "call", "wait", "done"}
\* The pipelines of a request: the Redis client of main has its default options, with
\* which a command that failed is sent again.
Sends == 1..MaxResends + 1
Key == {"minute", "hour"}
Code == {0, 202, 400, 401, 403, 429, 500, 503}

\* main: without Redis there is no limiter, without Module 1 no client.
Init ==
    /\ LimiterInit
    /\ MockInit
    /\ limiter \in BOOLEAN
    /\ client \in BOOLEAN
    /\ unread = {}
    /\ inflight = {}
    /\ req \in [Request -> [pc : {"new"}, tenant : Tenant, name : Name, minute : {0}, sent : {0},
                            count : {0}, attempt : {0}, code : {0}, reply : {0}, expired : {FALSE}]]

\* "count" is a local variable of Allow: it is forgotten afterwards.
Goto(r, where) == req' = [req EXCEPT ![r].pc = where, ![r].count = 0]

\* The handler writes its answer and ends; the client reads it unless the deadline
\* for writing has passed.
Answer(r, code) == req' = [req EXCEPT ![r].pc = "done", ![r].count = 0, ![r].code = code,
                                      ![r].reply = IF req[r].expired THEN 0 ELSE code]

\* WriteTimeout of the server, 15 seconds; the handler is not told.
WriteTimeout(r) ==
    /\ req[r].pc # "done" /\ ~req[r].expired
    /\ req' = [req EXCEPT ![r].expired = TRUE]
    /\ UNCHANGED <<limiterVars, mockVars, config, unread, inflight>>

\* No token: 401.  A token that is not valid: 403.
AuthMiddleware(r) ==
    /\ req[r].pc = "new"
    /\ Answer(r, 401) \/ Answer(r, 403) \/ Goto(r, "limit")
    /\ UNCHANGED <<limiterVars, mockVars, config, unread, inflight>>

\* Without a limiter the request goes on; otherwise Allow reads the clock.
withRateLimit(r) ==
    /\ req[r].pc = "limit"
    /\ req' = [req EXCEPT ![r].pc = IF limiter THEN "minute" ELSE "handle",
                          ![r].minute = now, ![r].sent = IF limiter THEN 1 ELSE 0]
    /\ UNCHANGED <<limiterVars, mockVars, config, unread, inflight>>

\* Mutant: the clock is read again for every command of the pipeline.
AllowMinuteLate(r) ==
    /\ req[r].pc = "minute"
    /\ IncrMinute(req[r].tenant, now)
    /\ req' = [req EXCEPT ![r].pc = "hour", ![r].count = minuteCount'[req[r].tenant][now]]
    /\ UNCHANGED <<limits, now, hourCount, mockVars, config, unread, inflight>>

\* Allow: the first command of the pipeline.
AllowMinute(r) ==
    LET t == req[r].tenant  m == req[r].minute
    IN  /\ req[r].pc = "minute"
        /\ IncrMinute(t, m)
        /\ req' = [req EXCEPT ![r].pc = "hour", ![r].count = minuteCount'[t][m]]
        /\ UNCHANGED <<limits, now, hourCount, mockVars, config, unread, inflight>>

\* Mutant: the handler is run after a 429 was written, for want of a return.
AllowHourGoesOn(r) ==
    LET t == req[r].tenant  m == req[r].minute
    IN  /\ req[r].pc = "hour"
        /\ IncrHour(t, m)
        /\ req' = [req EXCEPT ![r].pc = "handle",
                              ![r].code = IF WithinLimits(req[r].count, hourCount'[t][HourOf(m)]) THEN 0 ELSE 429]
        /\ UNCHANGED <<limits, now, minuteCount, mockVars, config, unread, inflight>>

\* The Redis client gives up a pipeline of which Redis has not run the commands for
\* keys: it sends it again, with the same minute, or Allow returns the error.
PipelineFails(r, keys) ==
    /\ unread' = unread \cup {<<r, req[r].sent, key>> : key \in keys}
    /\ \/ /\ req[r].sent \in 1..MaxResends
          /\ req' = [req EXCEPT ![r].pc = "minute", ![r].count = 0, ![r].sent = @ + 1]
       \/ Answer(r, 500)

\* Allow: the second command, and the verdict; or the answers are lost.
AllowHour(r) ==
    LET t == req[r].tenant  m == req[r].minute
    IN  /\ req[r].pc = "hour"
        /\ IncrHour(t, m)
        /\ \/ /\ WithinLimits(req[r].count, hourCount'[t][HourOf(m)])
              /\ Goto(r, "handle")
              /\ UNCHANGED unread
           \/ /\ ~WithinLimits(req[r].count, hourCount'[t][HourOf(m)])
              /\ Answer(r, 429)
              /\ UNCHANGED unread
           \/ PipelineFails(r, {})
        /\ UNCHANGED <<limits, now, minuteCount, mockVars, config, inflight>>

\* Allow: the pipeline fails, or times out, before Redis has run all of it.
AllowFails(r) ==
    /\ \/ req[r].pc = "minute" /\ PipelineFails(r, Key)
       \/ req[r].pc = "hour" /\ PipelineFails(r, {"hour"})
    /\ UNCHANGED <<limiterVars, mockVars, config, inflight>>

\* Redis runs a command of a pipeline that was given up.
RedisRunsLate(command) ==
    LET t == req[command[1]].tenant  m == req[command[1]].minute
    IN  /\ command \in unread
        /\ unread' = unread \ {command}
        /\ \/ command[3] = "minute" /\ IncrMinute(t, m) /\ UNCHANGED hourCount
           \/ command[3] = "hour" /\ IncrHour(t, m) /\ UNCHANGED minuteCount
        /\ UNCHANGED <<limits, now, mockVars, config, req, inflight>>

\* A body that is not a task: 400.  No client: 503.
HandleCreateTask(r) ==
    /\ req[r].pc = "handle"
    /\ \/ Answer(r, 400)
       \/ ~client /\ Answer(r, 503)
       \/ client /\ Goto(r, "call")
    /\ UNCHANGED <<limiterVars, mockVars, config, unread, inflight>>

\* An attempt is sent, or the client gives up: not connected, breaker open, or
\* the 30 seconds of the call are over.
SubmitTaskCall(r) ==
    /\ req[r].pc = "call"
    /\ \/ Goto(r, "wait") /\ inflight' = inflight \cup {<<r, req[r].attempt>>}
       \/ Answer(r, 503) /\ UNCHANGED inflight
    /\ UNCHANGED <<limiterVars, mockVars, config, unread>>

MaxTasks == Prefill + MaxServed

\* Module 1 runs a call.
Serve(call) ==
    /\ call \in inflight
    /\ Len(tasks) < MaxTasks
    /\ inflight' = inflight \ {call}
    /\ SubmitTask(req[call[1]].name, call)
    /\ UNCHANGED <<limiterVars, config, unread, req>>

\* Module 1 has run the attempt that is waited for.
Served(r) == \E i \in DOMAIN tasks : tasks[i].call = <<r, req[r].attempt>>

\* Accepted: 202.
Accepted(r) ==
    /\ req[r].pc = "wait"
    /\ Served(r)
    /\ Answer(r, 202)
    /\ UNCHANGED <<limiterVars, mockVars, config, unread, inflight>>

\* Mutant: attempts are not counted.
AttemptFailsUncounted(r) ==
    /\ req[r].pc = "wait"
    /\ Goto(r, "call")
    /\ UNCHANGED <<limiterVars, mockVars, config, unread, inflight>>

\* An attempt fails or times out: another one, or 503.
AttemptFails(r) ==
    /\ req[r].pc = "wait"
    /\ IF req[r].attempt < MaxRetries
         THEN req' = [req EXCEPT ![r].pc = "call", ![r].attempt = @ + 1]
         ELSE Answer(r, 503)
    /\ UNCHANGED <<limiterVars, mockVars, config, unread, inflight>>

Handle(r) ==
    \/ AuthMiddleware(r) \/ withRateLimit(r) \/ AllowMinute(r) \/ AllowHour(r) \/ AllowFails(r)
    \/ HandleCreateTask(r) \/ SubmitTaskCall(r) \/ Accepted(r) \/ AttemptFails(r)

Transition(i) == scheduleTaskTransition(i) /\ UNCHANGED <<limiterVars, config, req, unread, inflight>>
Cancel(n) == CancelTask(n) /\ UNCHANGED <<limiterVars, config, req, unread, inflight>>
Clock == MinutePasses /\ UNCHANGED <<mockVars, config, req, unread, inflight>>

Next ==
    \/ \E r \in Request : Handle(r) \/ WriteTimeout(r)
    \/ \E command \in unread : RedisRunsLate(command)
    \/ \E call \in inflight : Serve(call)
    \/ \E i \in DOMAIN tasks : Transition(i)
    \/ \E n \in {tasks[i].name : i \in DOMAIN tasks} : Cancel(n)
    \/ Clock

\* A goroutine of the gateway and one of the mock go on; nothing is assumed of
\* the network, of Redis, of who cancels, or of the clock.
Fairness ==
    /\ \A r \in Request : WF_vars(Handle(r))
    /\ \A i \in Prefill + 1..MaxTasks : WF_vars(i \in DOMAIN tasks /\ Transition(i))

Spec == Init /\ [][Next]_vars /\ Fairness

-----------------------------------------------------------------------------
\* Every variable keeps its type; in particular callWithRetry makes no more than
\* MaxRetries + 1 attempts, and every answer is one of the codes of the chain.
GatewayTypeOK ==
    /\ limits \in Limits
    /\ now \in Minute
    /\ minuteCount \in [Tenant -> [Minute -> Nat]]
    /\ hourCount \in [Tenant -> [Minute -> Nat]]
    /\ \A i \in DOMAIN tasks :
           /\ tasks[i].status \in {"Pending", "Running", "Completed", "Failed"}
           /\ tasks[i].goroutine \in Goroutine
    /\ queueDepth \in Int
    /\ published \in [Channel -> Nat]
    /\ req \in [Request -> [pc : Pc, tenant : Tenant, name : Name, minute : Minute, sent : 0..MaxResends + 1,
                            count : Nat, attempt : 0..MaxRetries, code : Code, reply : Code, expired : BOOLEAN]]
    /\ unread \subseteq Request \X Sends \X Key
    /\ inflight \subseteq Request \X (0..MaxRetries)

\* Module 1 never runs a submission of a request that was refused (400, 401, 403,
\* 429, 500), at no time, and it runs each attempt once.
OnlyAdmittedReachModule1 ==
    \A i \in DOMAIN tasks : tasks[i].call # <<>> =>
        /\ req[tasks[i].call[1]].code \in {0, 202, 503}
        /\ \A j \in DOMAIN tasks : tasks[j].call = tasks[i].call => j = i

\* The requests that the limiter let through.
Admitted(r) == req[r].pc \in {"handle", "call", "wait"} \/ req[r].code \in {202, 400, 503}

\* Although the increments of concurrent requests interleave, at most PerMinute
\* requests of a tenant pass in a minute and PerHour in an hour.
LimitHolds ==
    limiter => \A t \in Tenant, m \in Minute :
        /\ Cardinality({r \in Request : Admitted(r) /\ req[r].tenant = t /\ req[r].minute = m}) <= PerMinute
        /\ Cardinality({r \in Request : Admitted(r) /\ req[r].tenant = t
                                        /\ HourOf(req[r].minute) = HourOf(m)}) <= PerHour

\* The pipelines that were sent for the requests of a tenant.
Pipelines(t) == {p \in Request \X Sends : req[p[1]].tenant = t /\ p[2] <= req[p[1]].sent}

\* A request is denied only when more pipelines than the limit were sent in its own
\* minute, or in its own hour, by the clock each request read once.  Without an
\* error of Redis that is one for each request; a request whose pipeline was sent
\* again counts as often as it was sent, although Redis may run the commands of the
\* given up pipelines at any time, between those of any others.
DeniedOnlyOverLimit ==
    \A r \in Request : req[r].code = 429 =>
        LET sent == Pipelines(req[r].tenant)
        IN  \/ Cardinality({p \in sent : req[p[1]].minute = req[r].minute}) > PerMinute
            \/ Cardinality({p \in sent : HourOf(req[p[1]].minute) = HourOf(req[r].minute)}) > PerHour

\* The depth that the mock reports is the tasks made less the events published:
\* no step of SubmitTask, CancelTask or the goroutines forgets one of the two.
DepthIsTasksLessEvents ==
    queueDepth = Len(tasks) - published["completed"] - published["failed"] - published["cancelled"]

\* GetQueueDepth answers with the counter and with a count of the map.  As long as
\* nothing was cancelled the counter is never the smaller one, and the two agree
\* unless a name was submitted twice.
DepthCoversListing ==
    published["cancelled"] = 0 =>
        /\ queueDepth >= Cardinality(PendingOrRunning)
        /\ Listed = DOMAIN tasks => queueDepth = Cardinality(PendingOrRunning)

\* Once its goroutine has ended a task it never changes again: not by a late
\* CancelTask, not by a retried submission of the same name.
FinishedIsFinal ==
    [][\A i \in DOMAIN tasks : tasks[i].goroutine = "returned" => tasks'[i] = tasks[i]]_vars

\* Every handler comes to its end, whatever Redis and Module 1 do, and its client has
\* read an answer, unless the deadline for writing it passed before.
EveryHandlerEnds ==
    <>(\A r \in Request : req[r].pc = "done" /\ (req[r].reply # 0 \/ req[r].expired))

\* Every task that a submission made ends, and is reported as ended from then on.
SubmittedTasksEnd ==
    \A i \in Prefill + 1..MaxTasks :
        i \in DOMAIN tasks ~> [](i \in DOMAIN tasks /\ tasks[i].status \in {"Completed", "Failed"})
=============================================================================
