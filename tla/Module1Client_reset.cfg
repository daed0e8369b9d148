CONSTANTS
    Caller = {health, a}
    HealthCheck = health
    Canceller = {}
    MaxRetries = 1
    MaxConsecutiveErr = 2
    MaxLost = 0
SPECIFICATION Spec
PROPERTY OpenUntilRecovered
