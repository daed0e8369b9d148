SPECIFICATION Spec
CONSTANTS
    prep = prep
    side = side
    train = train
    Task = {prep, side}
    DependsOn <- NoDependencies
    HasImage = {prep}
    Deletable = {prep}
    MaxUid = 2
    MaxFaults = 1
    NoTask = NoTask
    NoJob = NoJob
    NoPod = NoPod
PROPERTY NoLostUpdate
PROPERTY ImplementsLifecycle
CHECK_DEADLOCK FALSE
