CONSTANTS
    RetriesAsked = {1}
    DefaultRetries = 1
    MaxRetries = 1
    MaxEdits = 0
    MaxUid = 1
    MaxFaults = 0
    MaxLost = 0
    NoTask = NoTask
    NoPod = NoPod
SPECIFICATION FairSpec
PROPERTY RetryRunsAgain
CHECK_DEADLOCK FALSE
