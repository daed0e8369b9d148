--------------------------- MODULE DepthPublisher ---------------------------
(***************************************************************************)
(* The periodic publisher of the queue depth for KEDA:                     *)
(* module2-orchestrator/pkg/scaling/keda_scaler.go.                        *)
(*                                                                         *)
(* One goroutine calls StartQueueDepthPublisher, Stop and Close, and every *)
(* start makes a goroutine that runs publishLoop.  isRunning is read and   *)
(* written by both without a lock; stopCh is closed once and never made    *)
(* again.                                                                  *)
(***************************************************************************)
EXTENDS Naturals, FiniteSets

CONSTANT MaxStarts     \* bound: loops that are started

ASSUME PublisherAssumption == MaxStarts \in Nat

VARIABLES
    isRunning,
    stopClosed,    \* stopCh is closed
    loop,          \* loop[k] of the k-th start: "none", "select", "busy", "ended"
    ctxDone,       \* ctxDone[k]: its context has ended
    redisOpen,     \* the Redis client is not closed
    panicked       \* stopCh was closed twice, the process is gone

publisherVars == <<isRunning, stopClosed, loop, ctxDone, redisOpen, panicked>>

Loop == 1..MaxStarts
Alive == {k \in Loop : loop[k] \in {"select", "busy"}}

PublisherInit ==
    /\ isRunning = FALSE
    /\ stopClosed = FALSE
    /\ loop = [k \in Loop |-> "none"]
    /\ ctxDone = [k \in Loop |-> FALSE]
    /\ redisOpen = TRUE
    /\ panicked = FALSE

\* Mutant: isRunning is left to the goroutine.
StartLate(k) ==
    /\ ~isRunning
    /\ loop[k] = "none"
    /\ \A j \in Loop : j < k => loop[j] # "none"
    /\ loop' = [loop EXCEPT ![k] = "select"]
    /\ isRunning' \in {isRunning, TRUE}
    /\ UNCHANGED <<stopClosed, ctxDone, redisOpen, panicked>>

\* An error if it is running.
StartQueueDepthPublisher(k) ==
    /\ ~isRunning
    /\ loop[k] = "none"
    /\ \A j \in Loop : j < k => loop[j] # "none"
    /\ loop' = [loop EXCEPT ![k] = "select"]
    /\ isRunning' = TRUE
    /\ UNCHANGED <<stopClosed, ctxDone, redisOpen, panicked>>

\* publishLoop: the ticker fires, and the depth is asked for.
Tick(k) ==
    /\ loop[k] = "select"
    /\ loop' = [loop EXCEPT ![k] = "busy"]
    /\ UNCHANGED <<isRunning, stopClosed, ctxDone, redisOpen, panicked>>

\* publishLoop: the depth is published, or one of the two calls fails.
PublishDepth(k) ==
    /\ loop[k] = "busy"
    /\ loop' = [loop EXCEPT ![k] = "select"]
    /\ UNCHANGED <<isRunning, stopClosed, ctxDone, redisOpen, panicked>>

\* Mutant: the loop watches its context only.
LoopEndsByContext(k) ==
    /\ loop[k] = "select"
    /\ ctxDone[k]
    /\ loop' = [loop EXCEPT ![k] = "ended"]
    /\ isRunning' = FALSE
    /\ UNCHANGED <<stopClosed, ctxDone, redisOpen, panicked>>

\* publishLoop: stopCh is closed or the context has ended.
LoopEnds(k) ==
    /\ loop[k] = "select"
    /\ stopClosed \/ ctxDone[k]
    /\ loop' = [loop EXCEPT ![k] = "ended"]
    /\ isRunning' = FALSE
    /\ UNCHANGED <<stopClosed, ctxDone, redisOpen, panicked>>

\* An error if it is not running; closing stopCh again panics.
Stop ==
    /\ isRunning
    /\ stopClosed' = TRUE
    /\ panicked' = stopClosed
    /\ UNCHANGED <<isRunning, loop, ctxDone, redisOpen>>

\* Stop if it is running, and then the client is closed.
CloseScaler ==
    /\ redisOpen
    /\ stopClosed' = (stopClosed \/ isRunning)
    /\ panicked' = (isRunning /\ stopClosed)
    /\ redisOpen' = (isRunning /\ stopClosed)
    /\ UNCHANGED <<isRunning, loop, ctxDone>>

ContextEnds(k) ==
    /\ loop[k] # "none"
    /\ ~ctxDone[k]
    /\ ctxDone' = [ctxDone EXCEPT ![k] = TRUE]
    /\ UNCHANGED <<isRunning, stopClosed, loop, redisOpen, panicked>>

PublisherNext ==
    /\ ~panicked
    /\ \/ Stop \/ CloseScaler
       \/ \E k \in Loop : \/ StartQueueDepthPublisher(k) \/ ContextEnds(k)
                          \/ Tick(k) \/ PublishDepth(k) \/ LoopEnds(k)

\* The functions that a loop calls return, and select, which chooses at random
\* among the cases that are ready, does not pass one over for ever.
PublisherFairness ==
    \A k \in Loop : /\ WF_publisherVars(~panicked /\ PublishDepth(k))
                    /\ SF_publisherVars(~panicked /\ LoopEnds(k))
-----------------------------------------------------------------------------
\* There is never more than one loop, also when a new one is started while an old
\* one is ending, and isRunning tells whether there is one: an answer "already
\* running" or "not running" is true.
OneLoop == Cardinality(Alive) = IF isRunning THEN 1 ELSE 0

\* Once stopCh is closed no loop stays: every loop ends, also one that was started
\* later, unless the process panics.
StopEndsEveryLoop == stopClosed ~> (Alive = {} \/ panicked)
=============================================================================
