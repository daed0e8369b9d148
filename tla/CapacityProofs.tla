--------------------------- MODULE CapacityProofs ---------------------------
(***************************************************************************)
(* Theorems about what gives capacity and what limits its use: Autoscaling *)
(* for all limits, thresholds and metrics, DepthPublisher for any number   *)
(* of starts, and TokenBucket for all limits, periods and users, and for   *)
(* as long as the clock runs.                                              *)
(***************************************************************************)
EXTENDS Autoscaling, DepthPublisher, TokenBucket, FiniteSetTheorems, TLAPS

\* After a scale-down the deployment has what the queue needs, and neither CPU nor
\* memory is above its threshold.
ScalingInv ==
    /\ replicas \in minReplicas..maxReplicas
    /\ metrics \in Snapshot
    /\ action = "scale-down" =>
           /\ replicas = CalculateDesiredReplicas(metrics.queue)
           /\ ~(metrics.cpu > cpuThreshold) /\ ~(metrics.mem > memThreshold)

\* A number is brought within the limits.
LEMMA ClampRange == ASSUME NEW n \in Int PROVE Clamp(n) \in minReplicas..maxReplicas
BY ScalingAssumption DEF Clamp

\* So is what the queue asks for.
LEMMA DesiredRange ==
    ASSUME NEW queue \in QueueDepth
    PROVE  CalculateDesiredReplicas(queue) \in minReplicas..maxReplicas
<1>1. (queue + itemsPerPod - 1) \div itemsPerPod \in Int
  BY ScalingAssumption
<1>2. minReplicas \in minReplicas..maxReplicas
  BY ScalingAssumption
<1> QED BY <1>1, <1>2, ClampRange DEF CalculateDesiredReplicas

\* And what the CPU and the memory ask for.
LEMMA UseRange ==
    ASSUME NEW m \in Snapshot, NEW current \in Nat
    PROVE  /\ calculateFromCPU(m, current) \in minReplicas..maxReplicas
           /\ calculateFromMemory(m, current) \in minReplicas..maxReplicas
<1>1. m.cpu \in Nat /\ m.mem \in Nat
  BY Zenon, ScalingAssumption DEF Snapshot
<1>2. current * m.cpu \in Int /\ current * m.mem \in Int
  BY <1>1
<1>3. (current * m.cpu) \div cpuThreshold \in Int /\ (current * m.mem) \div memThreshold \in Int
  BY <1>2, ScalingAssumption
<1>4. minReplicas \in minReplicas..maxReplicas
  BY ScalingAssumption
<1> QED BY <1>3, <1>4, ClampRange DEF calculateFromCPU, calculateFromMemory

\* Scaling down goes to what the queue needs: the lower limit is never in the way.
LEMMA ScaledDownIsDesired ==
    ASSUME NEW m \in Snapshot, NEW current
    PROVE  ScaledDown(m, current) = CalculateDesiredReplicas(m.queue)
<1>1. CalculateDesiredReplicas(m.queue) \in minReplicas..maxReplicas
  BY DesiredRange DEF Snapshot
<1>2. ~(CalculateDesiredReplicas(m.queue) < minReplicas)
  BY <1>1, ScalingAssumption
<1> QED BY <1>2 DEF ScaledDown

\* A step, by its decision.
LEMMA Decisions ==
    ASSUME ScalingInv, NEW m \in Snapshot, Scale(m)
    PROVE  /\ metrics' = m
           /\ \/ /\ action' = "scale-up" /\ ShouldScaleUp(m, replicas)
                 /\ replicas' = ScaledUp(m, replicas)
              \/ /\ action' = "scale-down" /\ ShouldScaleDown(m, replicas)
                 /\ replicas' = CalculateDesiredReplicas(m.queue)
              \/ action' = "no-change" /\ replicas' = replicas /\ ~ShouldScaleUp(m, replicas)
BY ScaledDownIsDesired DEF Scale, MakeScalingDecision

\* ScalingInv is inductive.
THEOREM ScalingInvariance == ScalingSpec => []ScalingInv
<1>1. ScalingInit => ScalingInv
  BY DEF ScalingInit, ScalingInv
<1>2. ScalingInv /\ [ScalingNext]_scalingVars => ScalingInv'
  <2> SUFFICES ASSUME ScalingInv, [ScalingNext]_scalingVars PROVE ScalingInv'
    OBVIOUS
  <2>1. CASE UNCHANGED scalingVars
    BY <2>1 DEF scalingVars, ScalingInv
  <2>2. ASSUME NEW m \in Snapshot, Scale(m) PROVE ScalingInv'
    <3>0. m.queue \in QueueDepth /\ replicas \in Nat
      BY ScalingAssumption DEF Snapshot, ScalingInv
    <3>1. CASE action' = "scale-up" /\ replicas' = ScaledUp(m, replicas) /\ metrics' = m
      BY <3>0, <3>1, UseRange, DesiredRange DEF ScalingInv, ScaledUp
    <3>2. CASE /\ action' = "scale-down" /\ ShouldScaleDown(m, replicas) /\ metrics' = m
               /\ replicas' = CalculateDesiredReplicas(m.queue)
      BY <3>0, <3>2, DesiredRange DEF ScalingInv, ShouldScaleDown, ShouldScaleUp
    <3>3. CASE action' = "no-change" /\ replicas' = replicas /\ metrics' = m
      BY <3>3 DEF ScalingInv
    <3> QED BY <2>2, <3>1, <3>2, <3>3, Decisions
  <2> QED BY <2>1, <2>2 DEF ScalingNext
<1> QED BY <1>1, <1>2, PTL DEF ScalingSpec

\* Whatever the metrics, MakeScalingDecision keeps the deployment within its limits.
THEOREM StaysInRange == ScalingSpec => []ReplicasInRange
<1>1. ScalingInv => ReplicasInRange
  BY DEF ScalingInv, ReplicasInRange
<1> QED BY <1>1, ScalingInvariance, PTL

\* A scale-down never adds a replica, and leaves what the queue needs.
THEOREM ScalingDownIsSafe == ScalingSpec => ScaleDownIsSafe
<1>1. ASSUME ScalingInv, ScalingNext, action' = "scale-down"
      PROVE  replicas' <= replicas /\ CalculateDesiredReplicas(metrics'.queue) <= replicas'
  <2>1. PICK m \in Snapshot : Scale(m)
    BY <1>1 DEF ScalingNext
  <2>2. /\ metrics' = m /\ ~ShouldScaleUp(m, replicas)
        /\ replicas' = CalculateDesiredReplicas(m.queue)
    BY <1>1, <2>1, Decisions DEF ShouldScaleDown
  <2>3. CalculateDesiredReplicas(m.queue) \in Int /\ replicas \in Int
    BY <1>1, DesiredRange DEF Snapshot, ScalingInv
  <2> QED BY <2>2, <2>3 DEF ShouldScaleUp
<1>2. ScalingInv /\ [ScalingNext]_scalingVars =>
      [action' = "scale-down" =>
           replicas' <= replicas /\ CalculateDesiredReplicas(metrics'.queue) <= replicas']_scalingVars
  BY <1>1
<1> QED BY <1>2, ScalingInvariance, PTL DEF ScalingSpec, ScaleDownIsSafe

\* A scale-down is not taken back on the same metrics.
THEOREM ScalingDownSettles == ScalingSpec => ScaleDownSettles
<1>1. ASSUME ScalingInv, ScalingNext, action = "scale-down", metrics' = metrics
      PROVE  replicas' = replicas
  <2>1. PICK m \in Snapshot : Scale(m)
    BY <1>1 DEF ScalingNext
  <2>2. m = metrics
    BY <1>1, <2>1, Decisions
  <2>3. replicas = CalculateDesiredReplicas(m.queue) /\ replicas \in Int
    BY <1>1, <2>2 DEF ScalingInv
  <2>4. ~ShouldScaleUp(m, replicas)
    BY <1>1, <2>2, <2>3 DEF ScalingInv, ShouldScaleUp
  <2> QED BY <1>1, <2>1, <2>3, <2>4, Decisions
<1>2. ScalingInv /\ [ScalingNext]_scalingVars =>
      [action = "scale-down" /\ metrics' = metrics => replicas' = replicas]_scalingVars
  BY <1>1
<1> QED BY <1>2, ScalingInvariance, PTL DEF ScalingSpec, ScaleDownSettles

-----------------------------------------------------------------------------
\* The publisher of the depth.  A loop that is there is the only one.
LoopInv ==
    /\ isRunning \in BOOLEAN
    /\ loop \in [Loop -> {"none", "select", "busy", "ended"}]
    /\ isRunning => \E k \in Loop : \A j \in Loop : loop[j] \in {"select", "busy"} <=> j = k
    /\ ~isRunning => \A j \in Loop : loop[j] \notin {"select", "busy"}

PublisherSpec == PublisherInit /\ [][PublisherNext]_publisherVars

\* Every step of the publisher keeps it.
LEMMA LoopInvStep == ASSUME LoopInv, [PublisherNext]_publisherVars PROVE LoopInv'
<1> USE DEF LoopInv
<1>1. CASE Stop
  BY <1>1 DEF Stop
<1>2. CASE CloseScaler
  BY <1>2 DEF CloseScaler
<1>3. ASSUME NEW k \in Loop, StartQueueDepthPublisher(k) PROVE LoopInv'
  BY <1>3 DEF StartQueueDepthPublisher
<1>4. ASSUME NEW k \in Loop, ContextEnds(k) PROVE LoopInv'
  BY <1>4 DEF ContextEnds
<1>5. ASSUME NEW k \in Loop, Tick(k) PROVE LoopInv'
  BY <1>5 DEF Tick
<1>6. ASSUME NEW k \in Loop, PublishDepth(k) PROVE LoopInv'
  BY <1>6 DEF PublishDepth
<1>7. ASSUME NEW k \in Loop, LoopEnds(k) PROVE LoopInv'
  BY Zenon, <1>7 DEF LoopEnds
<1>8. CASE UNCHANGED publisherVars
  BY <1>8 DEF publisherVars
<1> QED BY <1>1, <1>2, <1>3, <1>4, <1>5, <1>6, <1>7, <1>8 DEF PublisherNext

\* However often the publisher is started, stopped and closed, it has at most one
\* loop, and isRunning tells whether it has one.
THEOREM LoopIsUnique == PublisherSpec => []OneLoop
<1>1. PublisherInit => LoopInv
  BY Zenon DEF PublisherInit, LoopInv
<1>2. LoopInv => OneLoop
  <2> HAVE LoopInv
  <2>1. CASE isRunning
    <3>1. \E k \in Loop : Alive = {k}
      BY <2>1 DEF LoopInv, Alive
    <3> QED BY <2>1, <3>1, FS_Singleton DEF OneLoop
  <2>2. CASE ~isRunning
    <3>1. Alive = {}
      BY <2>2 DEF LoopInv, Alive
    <3> QED BY <2>2, <3>1, FS_EmptySet DEF OneLoop
  <2> QED BY <2>1, <2>2
<1> QED BY <1>1, <1>2, LoopInvStep, PTL DEF PublisherSpec

-----------------------------------------------------------------------------
\* The token bucket.
Bucket == [capacity : Nat, rate : Nat, tokens : Nat, last : Nat]

BucketTypes ==
    /\ second \in Nat
    /\ buckets \in [User -> Bucket]
    /\ allowed \in [User -> Seq(Nat)]
    /\ retryAt \in [User -> Nat]

\* A bucket that a user has.
Made(b) == b.capacity # 0 /\ b.rate > 0 /\ b.tokens <= b.capacity /\ b.last <= second

\* What passed since the i-th request and what is left in the bucket is no more
\* than a full bucket and the gain of that time.
Paid(b, a, i) == (Len(a) - i + 1) * Period + b.tokens <= b.capacity + (b.last - a[i]) * b.rate

UserInv(b, a, retry) ==
    /\ b.capacity = 0 => a = <<>> /\ retry = 0
    /\ b.capacity # 0 => Made(b)
    /\ \A i \in DOMAIN a : Paid(b, a, i)
    /\ \A i, j \in DOMAIN a : i <= j => (j - i + 1) * Period <= b.capacity + (a[j] - a[i]) * b.rate
    /\ retry # 0 => retry = b.last + RetryAfter(b)

BucketInv == BucketTypes /\ \A u \in User : UserInv(buckets[u], allowed[u], retryAt[u])

-----------------------------------------------------------------------------
\* A refilled bucket: full at most, and nothing lost.
LEMMA RefilledType ==
    ASSUME second \in Nat, NEW b \in Bucket, Made(b)
    PROVE  /\ Refilled(b) \in Bucket /\ Made(Refilled(b))
           /\ Refilled(b).capacity = b.capacity /\ Refilled(b).rate = b.rate /\ Refilled(b).last = second
           /\ Refilled(b).tokens <= b.tokens + (second - b.last) * b.rate
           /\ Refilled(b).tokens = b.capacity \/ Refilled(b).tokens = b.tokens + (second - b.last) * b.rate
<1> DEFINE gained == b.tokens + (second - b.last) * b.rate
<1>1. b.capacity \in Nat /\ b.rate \in Nat /\ b.tokens \in Nat /\ b.last \in Nat /\ second - b.last \in Nat
  BY DEF Bucket, Made
<1>2. (second - b.last) * b.rate \in Nat
  BY <1>1
<1>3. gained \in Nat
  BY <1>1, <1>2
<1> HIDE DEF gained
<1>4. Refilled(b) = [b EXCEPT !.tokens = IF gained < b.capacity THEN gained ELSE b.capacity, !.last = second]
  BY DEF Refilled, gained
<1>5. /\ Refilled(b) \in Bucket /\ Refilled(b).capacity = b.capacity /\ Refilled(b).rate = b.rate
      /\ Refilled(b).last = second
      /\ Refilled(b).tokens = IF gained < b.capacity THEN gained ELSE b.capacity
  BY Zenon, <1>1, <1>3, <1>4 DEF Bucket
<1>6. Refilled(b).tokens <= gained /\ Refilled(b).tokens <= b.capacity
      /\ (Refilled(b).tokens = b.capacity \/ Refilled(b).tokens = gained)
  BY <1>1, <1>3, <1>5
<1> QED BY <1>1, <1>5, <1>6 DEF Made, gained

\* The product of two integers is one.
LEMMA Product == ASSUME NEW m \in Int, NEW n \in Int PROVE m * n \in Int
OBVIOUS

\* The sums behind the next lemma.
LEMMA Refill ==
    ASSUME NEW w \in Int, NEW x \in Int, NEW y \in Int, NEW z \in Int,
           NEW old \in Int, NEW new \in Int, NEW full \in Int,
           w + old <= full + z, new <= old + y, x = y + z
    PROVE  w + new <= full + x
OBVIOUS

\* Refilling keeps what is known of a bucket.
LEMMA RefilledKeeps ==
    ASSUME second \in Nat, NEW b \in Bucket, Made(b), NEW a \in Seq(Nat), NEW i \in DOMAIN a, Paid(b, a, i)
    PROVE  Paid(Refilled(b), a, i)
<1> DEFINE c == Refilled(b)
<1>1. /\ c.capacity = b.capacity /\ c.rate = b.rate /\ c.last = second /\ c \in Bucket
      /\ c.tokens <= b.tokens + (second - b.last) * b.rate
  BY RefilledType
<1>2. /\ b.capacity \in Nat /\ b.rate \in Nat /\ b.tokens \in Nat /\ b.last \in Nat /\ a[i] \in Nat
      /\ c.tokens \in Nat /\ Len(a) \in Nat /\ i \in Nat
  BY SMTT(30), <1>1 DEF Bucket
<1> HIDE DEF c
<1>3. (second - a[i]) * b.rate = (second - b.last) * b.rate + (b.last - a[i]) * b.rate
  BY SMTT(30), <1>2
<1> DEFINE x == (second - a[i]) * b.rate
           y == (second - b.last) * b.rate
           z == (b.last - a[i]) * b.rate
           w == (Len(a) - i + 1) * Period
<1>4. x \in Int /\ y \in Int /\ z \in Int /\ w \in Int /\ x = y + z
  <2>1. second - a[i] \in Int /\ second - b.last \in Int /\ b.last - a[i] \in Int /\ Len(a) - i + 1 \in Int
    BY SMTT(30), <1>2
  <2>2. w \in Int
    BY <2>1, BucketAssumption
  <2>0. b.rate \in Int
    BY <1>2
  <2>3. x \in Int
    BY <2>0, <2>1, Product
  <2>4. y \in Int
    BY <2>0, <2>1, Product
  <2>5. z \in Int
    BY <2>0, <2>1, Product
  <2> QED BY <1>3, <2>2, <2>3, <2>4, <2>5
<1>5. w + b.tokens <= b.capacity + z /\ c.tokens <= b.tokens + y
  BY <1>1 DEF Paid
<1>6. w + c.tokens <= b.capacity + x
  <2>1. b.tokens \in Int /\ c.tokens \in Int /\ b.capacity \in Int
    BY <1>2
  <2> HIDE DEF x, y, z, w
  <2> QED BY SMTT(30), <1>4, <1>5, <2>1, Refill
<1> QED BY <1>1, <1>6 DEF Paid, c

\* A new bucket is full.
LEMMA NewBucket ==
    ASSUME second \in Nat, NEW limit \in RoleLimit
    PROVE  LET b == TokenBucketOf(limit) IN b \in Bucket /\ Made(b) /\ b.tokens = b.capacity /\ b.last = second
<1>1. limit \in Nat /\ limit > 0 /\ Period \in Nat /\ Period > 0
  BY BucketAssumption
<1>2. limit * Period \in Nat /\ limit * Period > 0
  BY <1>1
<1> QED BY <1>1, <1>2 DEF TokenBucketOf, Bucket, Made

\* The bucket that rate_limit_dependency works on, refilled: it is as good as the
\* one before, which was the user's or none.
LEMMA BucketReady ==
    ASSUME BucketInv, NEW u \in User, NEW limit \in RoleLimit
    PROVE  LET b == Refilled(get_bucket(u, limit))  a == allowed[u]
           IN  /\ b \in Bucket /\ Made(b) /\ b.last = second
               /\ \A i \in DOMAIN a : Paid(b, a, i)
               /\ \A i, j \in DOMAIN a : i <= j => (j - i + 1) * Period <= b.capacity + (a[j] - a[i]) * b.rate
<1>0. second \in Nat /\ buckets[u] \in Bucket /\ allowed[u] \in Seq(Nat)
      /\ UserInv(buckets[u], allowed[u], retryAt[u])
  BY DEF BucketInv, BucketTypes
<1>1. CASE buckets[u].capacity = 0
  <2>1. get_bucket(u, limit) = TokenBucketOf(limit) /\ DOMAIN allowed[u] = {}
    BY <1>0, <1>1 DEF get_bucket, UserInv
  <2>2. TokenBucketOf(limit) \in Bucket /\ Made(TokenBucketOf(limit))
    BY <1>0, NewBucket
  <2> QED BY <1>0, <2>1, <2>2, RefilledType
<1>2. CASE buckets[u].capacity # 0
  <2>1. get_bucket(u, limit) = buckets[u] /\ Made(buckets[u])
    BY <1>0, <1>2 DEF get_bucket, UserInv
  <2>2. /\ Refilled(buckets[u]) \in Bucket /\ Made(Refilled(buckets[u]))
        /\ Refilled(buckets[u]).capacity = buckets[u].capacity
        /\ Refilled(buckets[u]).rate = buckets[u].rate /\ Refilled(buckets[u]).last = second
    BY <1>0, <2>1, RefilledType
  <2>3. \A i \in DOMAIN allowed[u] : Paid(Refilled(buckets[u]), allowed[u], i)
    BY <1>0, <2>1, RefilledKeeps DEF UserInv
  <2> QED BY <1>0, <2>1, <2>2, <2>3 DEF UserInv
<1> QED BY <1>1, <1>2

\* A bucket after a token was taken.
LEMMA ConsumedType ==
    ASSUME NEW b \in Bucket, NEW t \in Nat, b.tokens - Period = t
    PROVE  /\ Consumed(b) \in Bucket /\ Consumed(b).tokens = t
           /\ Consumed(b).capacity = b.capacity /\ Consumed(b).rate = b.rate /\ Consumed(b).last = b.last
<1>1. Consumed(b) = [b EXCEPT !.tokens = t]
  BY DEF Consumed
<1> QED BY <1>1 DEF Bucket

\* A request that passes pays for itself.
LEMMA ConsumeKeeps ==
    ASSUME second \in Nat, NEW b \in Bucket, Made(b), b.last = second, CanConsume(b), NEW a \in Seq(Nat),
           \A i \in DOMAIN a : Paid(b, a, i),
           \A i, j \in DOMAIN a : i <= j => (j - i + 1) * Period <= b.capacity + (a[j] - a[i]) * b.rate
    PROVE  Consumed(b) \in Bucket /\ UserInv(Consumed(b), Append(a, second), 0)
<1> DEFINE c == Consumed(b)
           e == Append(a, second)
           n == Len(a)
<1>1. /\ b.capacity \in Nat /\ b.rate \in Nat /\ b.tokens \in Nat /\ b.tokens <= b.capacity
      /\ b.tokens >= Period /\ Period \in Nat /\ b.capacity # 0 /\ b.rate > 0
  BY BucketAssumption DEF Bucket, Made, CanConsume
<1>2. /\ c \in Bucket /\ c.capacity = b.capacity /\ c.rate = b.rate /\ c.last = second
      /\ c.tokens = b.tokens - Period
  <2>1. b.tokens - Period \in Nat
    BY <1>1
  <2> QED BY <2>1, ConsumedType
<1>3. /\ e \in Seq(Nat) /\ n \in Nat /\ Len(e) = n + 1 /\ DOMAIN e = 1..(n + 1) /\ DOMAIN a = 1..n
      /\ e[n + 1] = second /\ \A i \in 1..n : e[i] = a[i] /\ a[i] \in Nat
  OBVIOUS
<1> HIDE DEF c, e
<1>4. Made(c)
  BY <1>1, <1>2 DEF Made
<1>5. \A i \in DOMAIN e : Paid(c, e, i)
  <2> SUFFICES ASSUME NEW i \in 1..(n + 1) PROVE Paid(c, e, i)
    BY <1>3
  <2>1. CASE i = n + 1
    <3>1. (c.last - e[i]) * c.rate = 0 /\ (Len(e) - i + 1) * Period = Period
      BY <1>1, <1>2, <1>3, <2>1
    <3>2. Period + c.tokens <= c.capacity + 0
      BY <1>1, <1>2
    <3> QED BY <3>1, <3>2, Zenon DEF Paid
  <2>2. CASE i # n + 1
    <3>1. i \in 1..n /\ e[i] = a[i] /\ a[i] \in Nat /\ n - i + 1 \in Int /\ second - a[i] \in Int
      BY <1>3, <2>2
    <3> DEFINE w == (n - i + 1) * Period
               x == (second - a[i]) * b.rate
    <3>2. w \in Int /\ x \in Int
      BY <1>1, <3>1
    <3>3. w + b.tokens <= b.capacity + x
      BY Zenon, <1>3, <3>1 DEF Paid
    <3>4. (Len(e) - i + 1) * Period = w + Period
      BY <1>1, <1>3, <3>1
    <3>5. (w + Period) + (b.tokens - Period) <= b.capacity + x
      <4> HIDE DEF w, x
      <4> QED BY <1>1, <3>2, <3>3
    <3>6. (Len(e) - i + 1) * Period + c.tokens <= c.capacity + (c.last - e[i]) * c.rate
      <4>1. (c.last - e[i]) * c.rate = x
        BY <1>2, <3>1, Zenon
      <4> HIDE DEF w, x
      <4> QED BY <1>2, <3>4, <3>5, <4>1, Zenon
    <3> QED BY <3>6, Zenon DEF Paid
  <2> QED BY <2>1, <2>2
<1>6. ASSUME NEW i \in DOMAIN e, NEW j \in DOMAIN e, i <= j
      PROVE  (j - i + 1) * Period <= c.capacity + (e[j] - e[i]) * c.rate
  <2>1. CASE j # n + 1
    <3>1. i \in DOMAIN a /\ j \in DOMAIN a /\ e[i] = a[i] /\ e[j] = a[j]
      BY <1>3, <1>6, <2>1
    <3> QED BY <1>2, <1>6, <3>1
  <2>2. CASE j = n + 1
    <3>1. e[j] = c.last /\ j = Len(e) /\ c.tokens \in Nat /\ e[i] \in Nat /\ c.rate \in Nat /\ c.capacity \in Nat
      BY SMTT(30), <1>2, <1>3, <2>2 DEF Bucket
    <3>2. Paid(c, e, i)
      BY <1>5
    <3> DEFINE w == (j - i + 1) * Period
               x == (e[j] - e[i]) * c.rate
    <3>3. w + c.tokens <= c.capacity + x
      BY <3>1, <3>2 DEF Paid
    <3>4. w \in Int /\ x \in Int
      <4>1. j - i + 1 \in Int /\ e[j] - e[i] \in Int
        BY <1>3, <3>1
      <4>2. w \in Int
        BY <1>1, <4>1
      <4>3. x \in Int
        BY <3>1, <4>1
      <4> QED BY <4>2, <4>3
    <3>5. w <= c.capacity + x
      <4> HIDE DEF w, x
      <4> QED BY <3>1, <3>3, <3>4
    <3> QED BY <3>5
  <2> QED BY <2>1, <2>2
<1> QED BY SMTT(30), <1>2, <1>4, <1>5, <1>6, <1>1 DEF UserInv, c, e

\* Retry-After is a number of seconds.
LEMMA RetryAfterType == ASSUME NEW b \in Bucket, Made(b) PROVE ResetIn(b) \in Nat /\ RetryAfter(b) \in Nat
<1>1. 200 * (b.capacity - b.tokens) + b.rate \in Nat /\ 2 * b.rate \in Nat /\ 2 * b.rate > 0
  BY DEF Bucket, Made
<1>2. ResetIn(b) \in Nat
  BY <1>1 DEF ResetIn
<1>3. ResetIn(b) \div 100 \in Nat
  BY <1>2
<1> QED BY <1>2, <1>3 DEF RetryAfter

\* A check of rate_limit_dependency.
LEMMA CheckKeeps ==
    ASSUME BucketInv, NEW u \in User, NEW limit \in RoleLimit, rate_limit_dependency(u, limit)
    PROVE  BucketInv'
<1> DEFINE b == Refilled(get_bucket(u, limit))
<1>0. BucketTypes /\ second \in Nat /\ allowed[u] \in Seq(Nat)
  BY DEF BucketInv, BucketTypes
<1>1. /\ b \in Bucket /\ Made(b) /\ b.last = second
      /\ \A i \in DOMAIN allowed[u] : Paid(b, allowed[u], i)
      /\ \A i, j \in DOMAIN allowed[u] :
             i <= j => (j - i + 1) * Period <= b.capacity + (allowed[u][j] - allowed[u][i]) * b.rate
  BY BucketReady
<1>2. second' = second
  BY DEF rate_limit_dependency
<1> HIDE DEF b
<1>3. CASE /\ CanConsume(b)
           /\ buckets' = [buckets EXCEPT ![u] = Consumed(b)]
           /\ allowed' = [allowed EXCEPT ![u] = Append(@, second)]
           /\ retryAt' = [retryAt EXCEPT ![u] = 0]
  <2>1. Consumed(b) \in Bucket /\ UserInv(Consumed(b), Append(allowed[u], second), 0)
    BY <1>0, <1>1, <1>3, ConsumeKeeps
  <2>2. BucketTypes'
    BY <1>0, <1>2, <1>3, <2>1 DEF BucketTypes
  <2>3. ASSUME NEW v \in User PROVE UserInv(buckets[v], allowed[v], retryAt[v])'
    <3>1. CASE v = u
      <4>1. buckets'[v] = Consumed(b) /\ allowed'[v] = Append(allowed[u], second) /\ retryAt'[v] = 0
        BY <1>0, <1>3, <3>1 DEF BucketTypes
      <4> QED BY ZenonT(30), <1>2, <2>1, <4>1 DEF UserInv, Made, Paid, RetryAfter, ResetIn
    <3>2. CASE v # u
      <4>1. buckets'[v] = buckets[v] /\ allowed'[v] = allowed[v] /\ retryAt'[v] = retryAt[v]
        BY <1>0, <1>3, <3>2 DEF BucketTypes
      <4> QED BY <1>2, <4>1 DEF BucketInv, UserInv, Made, Paid, RetryAfter, ResetIn
    <3> QED BY <3>1, <3>2
  <2> QED BY <2>2, <2>3 DEF BucketInv
<1>4. CASE /\ buckets' = [buckets EXCEPT ![u] = b]
           /\ retryAt' = [retryAt EXCEPT ![u] = second + RetryAfter(b)]
           /\ UNCHANGED allowed
  <2>1. RetryAfter(b) \in Nat
    BY <1>1, RetryAfterType
  <2>2. UserInv(b, allowed[u], second + RetryAfter(b))
    BY <1>1 DEF UserInv, Made
  <2>3. BucketTypes'
    BY <1>0, <1>1, <1>2, <1>4, <2>1 DEF BucketTypes
  <2>4. ASSUME NEW v \in User PROVE UserInv(buckets[v], allowed[v], retryAt[v])'
    <3>1. CASE v = u
      <4>1. buckets'[v] = b /\ allowed'[v] = allowed[u] /\ retryAt'[v] = second + RetryAfter(b)
        BY <1>0, <1>4, <3>1 DEF BucketTypes
      <4> QED BY <1>2, <2>2, <4>1 DEF UserInv, Made, Paid, RetryAfter, ResetIn
    <3>2. CASE v # u
      <4>1. buckets'[v] = buckets[v] /\ allowed'[v] = allowed[v] /\ retryAt'[v] = retryAt[v]
        BY <1>0, <1>4, <3>2 DEF BucketTypes
      <4> QED BY <1>2, <4>1 DEF BucketInv, UserInv, Made, Paid, RetryAfter, ResetIn
    <3> QED BY <3>1, <3>2
  <2> QED BY <2>3, <2>4 DEF BucketInv
<1> QED BY <1>3, <1>4 DEF rate_limit_dependency, b

\* BucketInv is inductive.
THEOREM BucketInvariance == BucketSpec => []BucketInv
<1>1. BucketInit => BucketInv
  <2> SUFFICES ASSUME BucketInit PROVE BucketInv
    OBVIOUS
  <2>1. BucketTypes
    BY DEF BucketInit, BucketTypes, Bucket
  <2>2. \A u \in User : buckets[u].capacity = 0 /\ allowed[u] = <<>> /\ retryAt[u] = 0
    BY Zenon DEF BucketInit
  <2> QED BY <2>1, <2>2 DEF BucketInv, UserInv
<1>2. BucketInv /\ [BucketNext]_bucketVars => BucketInv'
  <2> SUFFICES ASSUME BucketInv, [BucketNext]_bucketVars PROVE BucketInv'
    OBVIOUS
  <2>1. CASE UNCHANGED <<buckets, allowed, retryAt>> /\ second' \in {second, second + 1}
    <3>1. BucketTypes'
      BY <2>1 DEF BucketInv, BucketTypes
    <3>2. ASSUME NEW u \in User PROVE UserInv(buckets[u], allowed[u], retryAt[u])'
      <4>1. Made(buckets[u]) => Made(buckets[u])'
        BY <2>1 DEF BucketInv, BucketTypes, Bucket, Made
      <4> QED BY <2>1, <4>1 DEF BucketInv, UserInv, Paid, RetryAfter, ResetIn
    <3> QED BY <3>1, <3>2 DEF BucketInv
  <2>2. CASE \E u \in User, limit \in RoleLimit : rate_limit_dependency(u, limit)
    BY <2>2, CheckKeeps
  <2> QED BY <2>1, <2>2 DEF BucketNext, SecondPasses, bucketVars
<1> QED BY <1>1, <1>2, PTL DEF BucketSpec

\* In every interval a user passes at most a full bucket and its gain in that time,
\* whenever the requests come and however the bucket was refilled between them.
THEOREM BurstsBounded == BucketSpec => []BurstIsBounded
<1>1. BucketInv => BurstIsBounded
  BY DEF BucketInv, UserInv, BurstIsBounded
<1> QED BY <1>1, BucketInvariance, PTL

\* What the rounding and int() cut off is made up for by the second that is added.
LEMMA RoundedUp ==
    ASSUME NEW x \in Nat, NEW r \in Nat, r > 0, NEW h \in Nat, h = (200 * x + r) \div (2 * r),
           NEW d \in Nat, d >= h \div 100 + 1
    PROVE  x <= d * r
<1>1. PICK q \in Nat : q = h \div 100
  OBVIOUS
<1>2. h <= 100 * q + 99
  BY <1>1
<1>3. PICK y \in Nat : y = 200 * x + r
  OBVIOUS
<1>4. PICK s \in Nat : s = 2 * r /\ s > 0
  OBVIOUS
<1>5. y < h * s + s
  BY <1>3, <1>4
<1>6. PICK k \in Nat : 100 * q + 99 = h + k
  <2>1. 100 * q + 99 - h \in Nat
    BY <1>2
  <2> QED BY <2>1
<1>7. (100 * q + 99) * s = h * s + k * s /\ h * s \in Nat /\ k * s \in Nat
  BY <1>6
<1>8. y < (100 * q + 99) * s + s
  BY <1>5, <1>7
<1>9. (100 * q + 99) * s = 200 * (q * r) + 198 * r /\ q * r \in Nat
  BY <1>4
<1>10. x < q * r + r
  BY <1>3, <1>4, <1>8, <1>9
<1>11. PICK n \in Nat : d = q + 1 + n
  <2>1. d - (q + 1) \in Nat
    BY <1>1
  <2> QED BY <1>1, <2>1
<1>12. d * r = q * r + r + n * r /\ n * r \in Nat
  BY <1>11
<1> QED BY <1>9, <1>10, <1>12

\* Whoever waits for as long as Retry-After says finds the bucket full.
THEOREM WaitingSuffices == BucketSpec => []RetryAfterSuffices
<1>1. BucketInv => RetryAfterSuffices
  <2> SUFFICES ASSUME BucketInv, NEW u \in User, retryAt[u] # 0, second >= retryAt[u]
               PROVE  Refilled(buckets[u]).tokens = buckets[u].capacity
    BY DEF RetryAfterSuffices
  <2> DEFINE b == buckets[u]
             x == b.capacity - b.tokens
             d == second - b.last
  <2>1. b \in Bucket /\ Made(b) /\ retryAt[u] = b.last + RetryAfter(b) /\ second \in Nat
    BY DEF BucketInv, BucketTypes, UserInv
  <2>2. x \in Nat /\ b.rate \in Nat /\ b.rate > 0 /\ d \in Nat /\ b.capacity \in Nat /\ b.tokens \in Nat
    BY <2>1 DEF Bucket, Made
  <2>3. ResetIn(b) \in Nat /\ ResetIn(b) = (200 * x + b.rate) \div (2 * b.rate) /\ d >= ResetIn(b) \div 100 + 1
    <3>1. ResetIn(b) \in Nat /\ RetryAfter(b) \in Nat /\ RetryAfter(b) = ResetIn(b) \div 100 + 1
      BY <2>1, RetryAfterType DEF RetryAfter
    <3>2. b.last \in Nat
      BY <2>1 DEF Bucket
    <3> QED BY <2>1, <3>1, <3>2 DEF ResetIn
  <2>4. x <= d * b.rate /\ d * b.rate \in Nat
    <3> DEFINE h == ResetIn(b)
               r == b.rate
    <3>1. x \in Nat /\ r \in Nat /\ r > 0 /\ d \in Nat /\ h \in Nat
          /\ h = (200 * x + r) \div (2 * r) /\ d >= h \div 100 + 1
      BY <2>2, <2>3
    <3> HIDE DEF x, d, h, r
    <3>2. x <= d * r
      BY <3>1, RoundedUp
    <3>3. d * r \in Nat
      BY <3>1
    <3> QED BY <3>2, <3>3 DEF r
  <2>5. /\ Refilled(b).tokens = b.capacity \/ Refilled(b).tokens = b.tokens + d * b.rate
        /\ Refilled(b).tokens <= b.capacity
    BY <2>1, RefilledType DEF Made
  <2> QED BY <2>2, <2>4, <2>5
<1> QED BY <1>1, BucketInvariance, PTL
=============================================================================
