----------------------------- MODULE TokenBucket -----------------------------
(***************************************************************************)
(* The limiter of the Python gateway: TokenBucket, RateLimiter and         *)
(* rate_limit_dependency of gateway/rate_limit.py.                         *)
(*                                                                         *)
(* The dependency is a coroutine without an await, so that a check is one  *)
(* step.  A bucket for "limit" requests a minute holds limit tokens and    *)
(* gains limit / Period tokens a second.  Tokens are counted in units of   *)
(* 1 / Period, which makes all amounts whole; the clock ticks in seconds.  *)
(***************************************************************************)
EXTENDS Integers, Sequences

CONSTANTS User,
          RoleLimit,    \* the values of ROLE_LIMITS
          Period,       \* 60
          MaxSecond,    \* bound: the last second of the clock
          MaxChecks     \* bound: requests of a user that are allowed

ASSUME BucketAssumption ==
    /\ RoleLimit \subseteq Nat \ {0}
    /\ Period \in Nat \ {0}
    /\ MaxSecond \in Nat
    /\ MaxChecks \in Nat

VARIABLES
    second,      \* time.monotonic()
    buckets,     \* _buckets[u]: capacity 0 if there is none
    allowed,     \* allowed[u]: the seconds in which a request was allowed
    retryAt      \* retryAt[u]: when the last denied request may be retried, or 0

bucketVars == <<second, buckets, allowed, retryAt>>

TokenBucketOf(limit) == [capacity |-> limit * Period, rate |-> limit, tokens |-> limit * Period, last |-> second]

BucketInit ==
    /\ second = 0
    /\ buckets = [u \in User |-> [capacity |-> 0, rate |-> 0, tokens |-> 0, last |-> 0]]
    /\ allowed = [u \in User |-> <<>>]
    /\ retryAt = [u \in User |-> 0]

\* The role is used for a new bucket only.
get_bucket(u, limit) == IF buckets[u].capacity = 0 THEN TokenBucketOf(limit) ELSE buckets[u]

\* Mutant: the time of the last refill is kept.
RefilledAgain(b) ==
    LET gained == b.tokens + (second - b.last) * b.rate
    IN  [b EXCEPT !.tokens = IF gained < b.capacity THEN gained ELSE b.capacity]

\* _refill
Refilled(b) ==
    LET gained == b.tokens + (second - b.last) * b.rate
    IN  [b EXCEPT !.tokens = IF gained < b.capacity THEN gained ELSE b.capacity, !.last = second]

\* consume(1): nothing is taken if there is not a whole token.
CanConsume(b) == b.tokens >= Period
Consumed(b) == [b EXCEPT !.tokens = @ - Period]

\* reset_in, rounded to hundredths of a second, which it is counted in here.
ResetIn(b) == (200 * (b.capacity - b.tokens) + b.rate) \div (2 * b.rate)

\* Mutant: Retry-After without the second that is added.
RetryAfterDown(b) == ResetIn(b) \div 100

\* int(reset_in) + 1 seconds.
RetryAfter(b) == ResetIn(b) \div 100 + 1

\* rate_limit_dependency: the request passes, or it is answered 429.
rate_limit_dependency(u, limit) ==
    LET b == Refilled(get_bucket(u, limit))
    IN  \/ /\ CanConsume(b)
           /\ Len(allowed[u]) < MaxChecks
           /\ buckets' = [buckets EXCEPT ![u] = Consumed(b)]
           /\ allowed' = [allowed EXCEPT ![u] = Append(@, second)]
           /\ retryAt' = [retryAt EXCEPT ![u] = 0]
           /\ UNCHANGED second
        \/ /\ ~CanConsume(b)
           /\ buckets' = [buckets EXCEPT ![u] = b]
           /\ retryAt' = [retryAt EXCEPT ![u] = second + RetryAfter(b)]
           /\ UNCHANGED <<second, allowed>>

SecondPasses ==
    /\ second < MaxSecond
    /\ second' = second + 1
    /\ UNCHANGED <<buckets, allowed, retryAt>>

BucketNext == SecondPasses \/ \E u \in User, limit \in RoleLimit : rate_limit_dependency(u, limit)

BucketSpec == BucketInit /\ [][BucketNext]_bucketVars
-----------------------------------------------------------------------------
\* In every interval, however it lies, a user passes at most a full bucket and
\* what the bucket gains in that time: a burst cannot be repeated sooner.
BurstIsBounded ==
    \A u \in User : \A i, j \in DOMAIN allowed[u] : i <= j =>
        (j - i + 1) * Period <= buckets[u].capacity + (allowed[u][j] - allowed[u][i]) * buckets[u].rate

\* A user that was denied and waits for as long as Retry-After says finds the
\* bucket full, so that the retry cannot be denied.
RetryAfterSuffices ==
    \A u \in User : retryAt[u] # 0 /\ second >= retryAt[u] =>
        Refilled(buckets[u]).tokens = buckets[u].capacity
=============================================================================
