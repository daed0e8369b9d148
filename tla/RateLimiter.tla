----------------------------- MODULE RateLimiter -----------------------------
(***************************************************************************)
(* The per-tenant limits of the Go gateway, counted in Redis:              *)
(* module2-orchestrator/pkg/auth/ratelimiter.go.                           *)
(*                                                                         *)
(* Allow computes the names of two windows from one reading of the clock   *)
(* and increments the counter of each.  The two increments travel in one   *)
(* pipeline, which is not a transaction: those of other requests may come  *)
(* between them.  The keys live on for at least a whole window (2 minutes, *)
(* 2 hours), so that their expiry is not modelled.                         *)
(***************************************************************************)
EXTENDS Naturals, FiniteSets

CONSTANTS Tenant,
          Limits,                \* pairs of perMinuteLimit and perHourLimit, one is chosen
          MinutesPerHour,        \* 60
          MaxMinute              \* bound: the last minute of the clock

ASSUME LimiterAssumption ==
    /\ Limits \subseteq Nat \X Nat
    /\ MinutesPerHour \in Nat \ {0}
    /\ MaxMinute \in Nat

VARIABLES
    limits,        \* the pair that the limiter was set up with
    now,           \* the minute it is
    minuteCount,   \* minuteCount[t][m]: ratelimit:minute:t:m
    hourCount      \* hourCount[t][h]: ratelimit:hour:t:h

limiterVars == <<limits, now, minuteCount, hourCount>>

Minute == 0..MaxMinute
HourOf(m) == m \div MinutesPerHour

PerMinute == limits[1]
PerHour == limits[2]

LimiterInit ==
    /\ limits \in Limits
    /\ now = 0
    /\ minuteCount = [t \in Tenant |-> [m \in Minute |-> 0]]
    /\ hourCount = [t \in Tenant |-> [h \in Minute |-> 0]]

\* The two commands of the pipeline; Redis answers with the new value.
IncrMinute(t, m) == minuteCount' = [minuteCount EXCEPT ![t][m] = @ + 1]
IncrHour(t, m) == hourCount' = [hourCount EXCEPT ![t][HourOf(m)] = @ + 1]

\* Mutant: one request more than the limit of the minute.
WithinLimitsByOne(minute, hour) == minute <= PerMinute + 1 /\ hour <= PerHour

\* The verdict of Allow on the two answers.
WithinLimits(minute, hour) == minute <= PerMinute /\ hour <= PerHour

MinutePasses ==
    /\ now < MaxMinute
    /\ now' = now + 1
    /\ UNCHANGED <<limits, minuteCount, hourCount>>
=============================================================================
