----------------------------- MODULE MCServices -----------------------------
(***************************************************************************)
(* Instances of the components that do not interact with each other, side  *)
(* by side: each behaviour is one of one of them, and the others rest.     *)
(* The API's requests and the reader of its listing do not meet but in the *)
(* CloudTasks, and ClusterNext changes these in all the ways they do.  Of  *)
(* the history there are two instances: "history" is without a reader, and *)
(* as only a reader tells the instants of rows apart they all have one; in *)
(* "paging" two executions go on until the reader has come to its end.     *)
(***************************************************************************)
EXTENDS SchedulerApi, PriorityQueues, WorkerRunner, TokenBucket,
        PubSub, Autoscaling, DepthPublisher, ExecutionHistory, TaskApi

VARIABLE component

MCTotal == [n1 |-> 2, n2 |-> 3]
MCSize == [a |-> 1, b |-> 2]
MCTaskOf == [e \in Execution |-> "t1"]
MCPodOf == [e1 |-> "p1", e2 |-> "p1", e3 |-> "p2"]
MCAny == [status |-> "any", onlyFailed |-> FALSE, start |-> 0, end |-> 0, pods |-> {"p1", "p2"}]
MCFilter == {MCAny, [MCAny EXCEPT !.onlyFailed = TRUE],
             [status |-> "Running", onlyFailed |-> FALSE, start |-> 2, end |-> 3, pods |-> {"p1"}]}
MCBody == [json |-> TRUE, image |-> "valid", command |-> "valid", resources |-> "absent", timeout |-> "absent",
           priority |-> 100, retries |-> 10, own |-> TRUE, name |-> 0]
MCRequest == {[MCBody EXCEPT !.name = n] : n \in 0..LastName + 1}
                \cup {[MCBody EXCEPT !.json = FALSE], [MCBody EXCEPT !.image = "absent"], [MCBody EXCEPT !.timeout = "malformed"],
                      [MCBody EXCEPT !.priority = 101], [MCBody EXCEPT !.retries = 11], [MCBody EXCEPT !.own = FALSE]}

Component == {"scheduler", "queues", "worker", "bucket", "pubsub", "scaling", "publisher", "history", "paging", "api", "listing"}

\* What varies in the initial states of a component is fixed where it rests.
Resting ==
    /\ component # "scheduler" => redisUp
    /\ component # "queues" => algorithm = "mlfq"
    /\ component # "scaling" => /\ replicas = minReplicas
                                /\ metrics = CHOOSE m \in Snapshot : TRUE

Init ==
    /\ component \in Component
    /\ SchedInit /\ QueuesInit /\ WorkerInit /\ BucketInit
    /\ PubSubInit /\ ScalingInit /\ PublisherInit /\ HistoryInit /\ TaskApiInit
    /\ Resting

Next ==
    \/ /\ component = "scheduler" /\ SchedNext
       /\ UNCHANGED <<component, queueVars, workerVars, bucketVars, pubsubVars, scalingVars, publisherVars, historyVars, taskApiVars>>
    \/ /\ component = "queues" /\ QueuesNext
       /\ UNCHANGED <<component, schedVars, workerVars, bucketVars, pubsubVars, scalingVars, publisherVars, historyVars, taskApiVars>>
    \/ /\ component = "worker" /\ WorkerNext
       /\ UNCHANGED <<component, schedVars, queueVars, bucketVars, pubsubVars, scalingVars, publisherVars, historyVars, taskApiVars>>
    \/ /\ component = "bucket" /\ BucketNext
       /\ UNCHANGED <<component, schedVars, queueVars, workerVars, pubsubVars, scalingVars, publisherVars, historyVars, taskApiVars>>
    \/ /\ component = "pubsub" /\ PubSubNext
       /\ UNCHANGED <<component, schedVars, queueVars, workerVars, bucketVars, scalingVars, publisherVars, historyVars, taskApiVars>>
    \/ /\ component = "scaling" /\ ScalingNext
       /\ UNCHANGED <<component, schedVars, queueVars, workerVars, bucketVars, pubsubVars, publisherVars, historyVars, taskApiVars>>
    \/ /\ component = "publisher" /\ PublisherNext
       /\ UNCHANGED <<component, schedVars, queueVars, workerVars, bucketVars, pubsubVars, scalingVars, historyVars, taskApiVars>>
    \/ /\ \/ /\ component = "history"
             /\ (\E e \in Execution : ExecutionNext(e)) \/ CloseStore
             /\ \A i \in DOMAIN rows' : rows'[i].created = 1
          \/ /\ component = "paging"
             /\ \/ reader.pc # "done" /\ \E e \in {"e1", "e3"} : ExecutionNext(e)
                \/ \E f \in Filter : GetTaskHistory(f)
       /\ UNCHANGED <<component, schedVars, queueVars, workerVars, bucketVars, pubsubVars, scalingVars, publisherVars, taskApiVars>>
    \/ /\ (component = "api" /\ RequestNext) \/ (component = "listing" /\ ReaderNext)
             \/ (component \in {"api", "listing"} /\ ClusterNext)
       /\ UNCHANGED <<component, schedVars, queueVars, workerVars, bucketVars, pubsubVars, scalingVars, publisherVars, historyVars>>

allVars == <<component, schedVars, queueVars, workerVars, bucketVars, pubsubVars, scalingVars, publisherVars, historyVars, taskApiVars>>

Spec == Init /\ [][Next]_allVars /\ PublisherFairness
=============================================================================
