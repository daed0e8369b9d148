CONSTANTS
    Caller = {health, a, b}
    HealthCheck = health
    Canceller = {a}
    MaxRetries = 1
    MaxConsecutiveErr = 2
    MaxLost = 1
SPECIFICATION FairSpec
INVARIANT ErrorsBounded
INVARIANT AtLeastOnce
PROPERTY BreakerRecovers
