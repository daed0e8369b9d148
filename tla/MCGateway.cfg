\* Two concurrent submissions, one attempt more each, two minutes of an hour.
CONSTANTS
    Tenant = {t1}
    Name = {a}
    Request = {r1, r2}
    Limits <- MCLimits
    MinutesPerHour = 2
    MaxMinute = 1
    MaxResends = 1
    MaxRetries = 1
    MaxServed = 2
    Prefill = 1
    MaxCancels = 1
SPECIFICATION MCSpec
INVARIANTS
    OnlyAdmittedReachModule1
    LimitHolds
    DeniedOnlyOverLimit
    DepthCoversListing
PROPERTIES
    FinishedIsFinal
    EveryHandlerEnds
    SubmittedTasksEnd
CHECK_DEADLOCK FALSE
