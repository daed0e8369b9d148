----------------------------- MODULE Autoscaling -----------------------------
(***************************************************************************)
(* The scaling decisions of Module 2:                                      *)
(* module2-orchestrator/pkg/scaling/hpa_calculator.go.  The caller applies *)
(* every decision to the deployment.                                       *)
(*                                                                         *)
(* Utilisations are whole numbers and quotients exact: where the code      *)
(* computes with floating point numbers, an instance has to use thresholds *)
(* that are powers of two, for which they are exact as well.               *)
(***************************************************************************)
EXTENDS Integers

CONSTANTS minReplicas, maxReplicas, itemsPerPod, cpuThreshold, memThreshold,
          Utilisation,   \* values of CPU and memory use
          QueueDepth     \* values of the queue depth

ASSUME ScalingAssumption ==
    /\ minReplicas \in Nat /\ maxReplicas \in Nat /\ minReplicas <= maxReplicas
    /\ itemsPerPod \in Nat \ {0}
    /\ cpuThreshold \in Nat \ {0} /\ memThreshold \in Nat \ {0}
    /\ Utilisation \subseteq Nat
    /\ QueueDepth \subseteq Nat

VARIABLES
    replicas,    \* of the deployment
    metrics,     \* the last snapshot
    action       \* what was decided on it

scalingVars == <<replicas, metrics, action>>

Snapshot == [cpu : Utilisation, mem : Utilisation, queue : QueueDepth]

Clamp(n) == IF n < minReplicas THEN minReplicas ELSE IF n > maxReplicas THEN maxReplicas ELSE n

\* One pod for itemsPerPod items, rounded up, within the limits.
CalculateDesiredReplicas(queue) ==
    IF queue = 0 THEN minReplicas ELSE Clamp((queue + itemsPerPod - 1) \div itemsPerPod)

\* int32 cuts the fraction off.
calculateFromCPU(m, current) ==
    IF m.cpu = 0 THEN minReplicas ELSE Clamp((current * m.cpu) \div cpuThreshold)
calculateFromMemory(m, current) ==
    IF m.mem = 0 THEN minReplicas ELSE Clamp((current * m.mem) \div memThreshold)

ShouldScaleUp(m, current) ==
    \/ m.cpu > cpuThreshold
    \/ m.mem > memThreshold
    \/ CalculateDesiredReplicas(m.queue) > current

\* Below half of a threshold, or below 0.6 of that of the CPU and more replicas
\* than the queue needs.
ShouldScaleDown(m, current) ==
    /\ current > minReplicas
    /\ ~ShouldScaleUp(m, current)
    /\ \/ 2 * m.cpu < cpuThreshold
       \/ 2 * m.mem < memThreshold
       \/ CalculateDesiredReplicas(m.queue) < current /\ 10 * m.cpu < 6 * cpuThreshold

\* Mutant: an idle deployment is scaled down by its use, and the queue forgotten.
ScaledDownByUse(m, current) == calculateFromCPU(m, current)

\* To what the queue needs.
ScaledDown(m, current) ==
    LET queue == CalculateDesiredReplicas(m.queue)
    IN  IF queue < minReplicas THEN minReplicas ELSE queue

\* What the queue needs, or the CPU if that is more, or else the memory.
ScaledUp(m, current) ==
    LET queue == CalculateDesiredReplicas(m.queue)
        cpu == calculateFromCPU(m, current)
        mem == calculateFromMemory(m, current)
    IN  IF cpu > queue THEN cpu ELSE IF mem > queue THEN mem ELSE queue

\* [action, replicas]
MakeScalingDecision(m, current) ==
    IF ShouldScaleUp(m, current)
      THEN [action |-> "scale-up", replicas |-> ScaledUp(m, current)]
    ELSE IF ShouldScaleDown(m, current)
      THEN [action |-> "scale-down", replicas |-> ScaledDown(m, current)]
    ELSE [action |-> "no-change", replicas |-> current]

ScalingInit ==
    /\ replicas \in minReplicas..maxReplicas
    /\ metrics \in Snapshot
    /\ action = "no-change"

\* A snapshot is taken and the decision on it is applied.
Scale(m) ==
    LET decision == MakeScalingDecision(m, replicas)
    IN  /\ replicas' = decision.replicas
        /\ action' = decision.action
        /\ metrics' = m

ScalingNext == \E m \in Snapshot : Scale(m)

ScalingSpec == ScalingInit /\ [][ScalingNext]_scalingVars
-----------------------------------------------------------------------------
\* Whatever the metrics, the deployment stays within its limits.
ReplicasInRange == replicas \in minReplicas..maxReplicas

\* Scaling down never adds a replica and never goes below what the queue needs.
ScaleDownIsSafe ==
    [][action' = "scale-down" =>
           replicas' <= replicas /\ CalculateDesiredReplicas(metrics'.queue) <= replicas']_scalingVars

\* Scaling down settles: as long as the metrics stay what they were, the replicas
\* that were removed are not asked for again.
ScaleDownSettles ==
    [][action = "scale-down" /\ metrics' = metrics => replicas' = replicas]_scalingVars

\* A scale-up never removes replicas.
ScaleUpNeverShrinks ==
    [][action' = "scale-up" => replicas' >= replicas]_scalingVars
=============================================================================
