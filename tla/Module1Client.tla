---------------------------- MODULE Module1Client ----------------------------
(***************************************************************************)
(* The gRPC client of Module 1 with its circuit breaker:                   *)
(* module2-orchestrator/pkg/grpc/module1_client.go.                        *)
(*                                                                         *)
(* Callers (request handlers and the health check goroutine) run           *)
(* SubmitTask, GetTaskStatus, CancelTask or GetQueueDepth, which differ    *)
(* only in what counts as an error.  A critical section of c.mu is a step, *)
(* an attempt on the network is a step.  Time is the single fact the       *)
(* breaker asks for: whether CircuitRecoverTime has passed since           *)
(* lastFailTime.                                                           *)
(***************************************************************************)
EXTENDS Naturals, FiniteSets

CONSTANTS Caller,
          HealthCheck,        \* the caller that is healthCheckLoop
          Canceller,          \* callers of CancelTask, which Module 1 may reject
          MaxRetries,
          MaxConsecutiveErr,
          MaxLost             \* bound: answers lost by a working network

ASSUME ClientAssumption ==
    /\ IsFiniteSet(Caller)
    /\ HealthCheck \in Caller
    /\ Canceller \subseteq Caller \ {HealthCheck}
    /\ MaxRetries \in Nat \ {0}      \* with 0 there is no client: it never dials
    /\ MaxConsecutiveErr \in Nat \ {0}
    /\ MaxLost \in Nat

VARIABLES
    circuitState,
    consecutiveErr,
    recovered,   \* CircuitRecoverTime has passed since lastFailTime
    conn,        \* connectivity of the connection
    closed,      \* Close has been called
    up,          \* Module 1 answers
    lost,        \* answers lost so far
    pc,          \* pc[c]: where caller c is
    attempt,     \* attempt[c]: the attempt caller c is at
    executed     \* history: executed[c]: how often Module 1 ran the call of c

vars == <<circuitState, consecutiveErr, recovered, conn, closed, up, lost, pc, attempt, executed>>
breaker == <<circuitState, consecutiveErr, recovered>>
network == <<conn, closed, up, lost>>
call == <<attempt, executed>>

Init ==
    /\ circuitState = "closed"
    /\ consecutiveErr = 0
    /\ recovered = FALSE
    /\ conn = "fine"
    /\ closed = FALSE
    /\ up = TRUE
    /\ lost = 0
    /\ pc = [c \in Caller |-> "idle"]
    /\ attempt = [c \in Caller |-> 0]
    /\ executed = [c \in Caller |-> 0]

-----------------------------------------------------------------------------
(* A call. *)

Go(c, where) == pc' = [pc EXCEPT ![c] = where]

\* The call returns to its caller.
Return(c) == Go(c, "idle")

\* A new call; healthCheckLoop ends when the client is closed.
Begin(c) ==
    /\ pc[c] = "idle"
    /\ c = HealthCheck => ~closed
    /\ Go(c, "ensure")
    /\ attempt' = [attempt EXCEPT ![c] = 0]
    /\ executed' = [executed EXCEPT ![c] = 0]
    /\ UNCHANGED <<breaker, network>>

\* The state of the connection is read, under the read lock.
ensureConnected(c) ==
    /\ pc[c] = "ensure"
    /\ Go(c, IF conn = "fine" THEN "check" ELSE "dial")
    /\ UNCHANGED <<breaker, network, call>>

\* A new connection, and a new breaker.  The dial does not block, so that for
\* an address that is well formed it succeeds whether Module 1 is there or not.
connectWithRetry(c) ==
    /\ pc[c] = "dial"
    /\ conn' = "fine"
    /\ circuitState' = "closed"
    /\ consecutiveErr' = 0
    /\ Go(c, "check")
    /\ UNCHANGED <<recovered, closed, up, lost, call>>

\* Mutant: an open breaker lets calls through.
checkCircuitBreakerOpen(c) ==
    /\ pc[c] = "check"
    /\ Go(c, "call")
    /\ UNCHANGED <<breaker, network, call>>

\* Open, and the time has not passed: rejected.  Otherwise let through.
checkCircuitBreaker(c) ==
    /\ pc[c] = "check"
    /\ \/ /\ circuitState = "open" /\ ~recovered
          /\ Return(c)
          /\ UNCHANGED <<circuitState, consecutiveErr>>
       \/ /\ circuitState = "open" /\ recovered
          /\ circuitState' = "half-open"
          /\ consecutiveErr' = 0
          /\ Go(c, "call")
       \/ /\ circuitState # "open"
          /\ Go(c, "call")
          /\ UNCHANGED <<circuitState, consecutiveErr>>
    /\ UNCHANGED <<recovered, network, call>>

MoreAttempts(c) == attempt[c] < MaxRetries

\* Mutant: the last error is dropped.
FailedSilently(c) == Go(c, IF MoreAttempts(c) THEN "backoff" ELSE "success")

\* After an error: wait and try again, or give up.
Failed(c) == Go(c, IF MoreAttempts(c) THEN "backoff" ELSE "failure")

\* One attempt: it succeeds, its answer is lost, it is rejected (CancelTask), or
\* it does not reach Module 1.
callFunc(c) ==
    /\ pc[c] = "call"
    /\ \/ /\ up /\ conn = "fine"
          /\ executed' = [executed EXCEPT ![c] = @ + 1]
          /\ \/ Go(c, "success") /\ UNCHANGED lost
             \/ lost < MaxLost /\ lost' = lost + 1 /\ Failed(c)
             \/ c \in Canceller /\ Failed(c) /\ UNCHANGED lost
       \/ /\ ~up \/ conn # "fine"
          /\ Failed(c)
          /\ UNCHANGED <<executed, lost>>
    /\ UNCHANGED <<breaker, conn, closed, up, attempt>>

\* The backoff ends, or the context of the call does; then nothing is recorded.
Backoff(c) ==
    /\ pc[c] = "backoff"
    /\ \/ Go(c, "call") /\ attempt' = [attempt EXCEPT ![c] = @ + 1]
       \/ Return(c) /\ UNCHANGED attempt
    /\ UNCHANGED <<breaker, network, executed>>

\* Mutant: a success does not close the breaker.
recordSuccessStays(c) ==
    /\ pc[c] = "success"
    /\ consecutiveErr' = 0
    /\ Return(c)
    /\ UNCHANGED <<circuitState, recovered, network, call>>

recordSuccess(c) ==
    /\ pc[c] = "success"
    /\ circuitState' = IF circuitState = "half-open" THEN "closed" ELSE circuitState
    /\ consecutiveErr' = 0
    /\ Return(c)
    /\ UNCHANGED <<recovered, network, call>>

recordFailure(c) ==
    /\ pc[c] = "failure"
    /\ consecutiveErr' = consecutiveErr + 1
    /\ recovered' = FALSE
    /\ circuitState' = IF consecutiveErr' >= MaxConsecutiveErr THEN "open" ELSE circuitState
    /\ Return(c)
    /\ UNCHANGED <<network, call>>

\* callWithRetry, and the call around it.
callWithRetry(c) ==
    \/ ensureConnected(c) \/ connectWithRetry(c) \/ checkCircuitBreaker(c)
    \/ callFunc(c) \/ Backoff(c) \/ recordSuccess(c) \/ recordFailure(c)

Close ==
    /\ ~closed
    /\ closed' = TRUE
    /\ conn' = "shutdown"
    /\ UNCHANGED <<breaker, up, lost, pc, call>>

-----------------------------------------------------------------------------
(* The environment: time, Module 1, the connection. *)

RecoverTimePasses ==
    /\ ~recovered
    /\ recovered' = TRUE
    /\ UNCHANGED <<circuitState, consecutiveErr, network, pc, call>>

ServerChanges ==
    /\ up' = ~up
    /\ UNCHANGED <<breaker, conn, closed, lost, pc, call>>

\* The connection notices that Module 1 is gone (TransientFailure) or back.
ConnectionChanges ==
    /\ \/ conn = "fine" /\ ~up /\ conn' = "failing"
       \/ conn = "failing" /\ up /\ conn' = "fine"
    /\ UNCHANGED <<breaker, closed, up, lost, pc, call>>

Next ==
    \/ \E c \in Caller : Begin(c) \/ callWithRetry(c)
    \/ Close \/ RecoverTimePasses \/ ServerChanges \/ ConnectionChanges

Spec == Init /\ [][Next]_vars

\* Goroutines run, time passes, the health check ticks and the connection
\* notices; callers, Module 1 and Close owe nothing.
Fairness ==
    /\ \A c \in Caller : WF_vars(callWithRetry(c))
    /\ WF_vars(Begin(HealthCheck))
    /\ WF_vars(RecoverTimePasses)
    /\ WF_vars(ConnectionChanges)

FairSpec == Spec /\ Fairness

-----------------------------------------------------------------------------
(* Properties. *)

\* Every variable keeps its type; callWithRetry makes no more than MaxRetries + 1
\* attempts.
TypeOK ==
    /\ circuitState \in {"closed", "open", "half-open"}
    /\ consecutiveErr \in Nat
    /\ recovered \in BOOLEAN
    /\ conn \in {"fine", "failing", "shutdown"}
    /\ closed \in BOOLEAN
    /\ up \in BOOLEAN
    /\ lost \in 0..MaxLost
    /\ pc \in [Caller -> {"idle", "ensure", "dial", "check", "call", "backoff", "success",
                          "failure"}]
    /\ attempt \in [Caller -> 0..MaxRetries]
    /\ executed \in [Caller -> 0..(MaxRetries + 1)]

\* The breaker lets calls through only below its threshold, however the
\* records of concurrent calls, reconnects and probes interleave.
OpenAtThreshold == consecutiveErr >= MaxConsecutiveErr => circuitState = "open"

\* At its threshold the breaker is open, and from there on only failures of calls
\* that were let through before are counted: one for each, and no new call joins
\* them.
ErrorsBounded == OpenAtThreshold /\ consecutiveErr < MaxConsecutiveErr + Cardinality(Caller)

\* A call is run at least once when it is reported as a success, and never more
\* often than it was attempted: the price of retrying a call whose answer was
\* lost is at most MaxRetries repetitions.
AtLeastOnce ==
    \A c \in Caller :
        /\ pc[c] = "success" => executed[c] >= 1
        /\ executed[c] <= attempt[c] + 1
        /\ pc[c] = "call" => executed[c] <= attempt[c]

\* When Module 1 stays up, the health check alone gets the breaker closed again
\* and again, whatever was recorded before; but a rejected CancelTask is recorded
\* as a failure like any other, so they must have come to an end.
BreakerRecovers ==
    <>[](up /\ ~closed /\ \A c \in Canceller : pc[c] = "idle") => []<>(circuitState = "closed")

\* DOCUMENTATION.md, "Circuit Breaker": open, calls are rejected until the
\* recovery time has passed.
OpenUntilRecovered ==
    [][circuitState = "open" /\ ~recovered => circuitState' = "open"]_vars
=============================================================================
