SPECIFICATION FairSpec
CONSTANTS
    prep = prep
    side = side
    train = train
    Task = {prep, train}
    DependsOn <- TrainAfterPrep
    HasImage = {prep, train}
    Deletable = {}
    MaxUid = 1
    MaxFaults = 1
    NoTask = NoTask
    NoJob = NoJob
    NoPod = NoPod
INVARIANT DependenciesRanFirst
 
CHECK_DEADLOCK FALSE
