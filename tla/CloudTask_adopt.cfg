CONSTANTS
    RetriesAsked = {1}
    DefaultRetries = 1
    MaxRetries = 1
    MaxEdits = 0
    MaxUid = 1
    MaxFaults = 1
    MaxLost = 0
    NoTask = NoTask
    NoPod = NoPod
SPECIFICATION FairSpec
PROPERTY SuccessIsRecorded
CHECK_DEADLOCK FALSE
