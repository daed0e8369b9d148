CONSTANTS
    RetriesAsked = {0, 1, 3}
    DefaultRetries = 2
    MaxRetries = 2
    MaxEdits = 1
    MaxUid = 2
    MaxFaults = 2
    MaxLost = 1
    NoTask = NoTask
    NoPod = NoPod
SPECIFICATION FairSpec
PROPERTIES
    NoPodWithoutTask
    RetryCountedOnce
    CompletedIsFinal
    DeletionCompletes
    FirstAttemptEnds
    RaisedRetriesAreCounted
CHECK_DEADLOCK FALSE
