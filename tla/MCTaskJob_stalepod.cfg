SPECIFICATION Spec
CONSTANTS
    prep = prep
    side = side
    train = train
    Task = {prep}
    DependsOn <- NoDependencies
    HasImage = {prep}
    Deletable = {}
    MaxUid = 1
    MaxFaults = 0
    NoTask = NoTask
    NoJob = NoJob
    NoPod = NoPod
INVARIANT FailedIsMirrored
CHECK_DEADLOCK FALSE
