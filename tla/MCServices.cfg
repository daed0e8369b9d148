CONSTANTS
    \* scheduler: two threads, three submissions of two tasks, two nodes
    Thread = {th1, th2}
    TaskId = {"a", "b"}
    Node = {"n1", "n2"}
    Total <- MCTotal
    Size <- MCSize
    MaxSubmits = 3
    \* queues: three tasks, two levels and durations, three instants
    MaxQueued = 3
    Levels = 2
    Duration = {1, 2}
    MaxInstant = 2
    MaxIndex = 4
    \* worker
    MaxLines = 2
    \* token bucket: 2 or 3 requests in 4 seconds
    User = {u1}
    RoleLimit = {2, 3}
    Period = 4
    MaxSecond = 8
    MaxChecks = 6
    \* pub/sub: one event against five changes of three subscribers
    Publisher = {p1}
    Subscriber = {s1, s2, s3}
    MaxPublishes = 1
    MaxChanges = 5
    \* scaling: thresholds of 4, use up to 8
    minReplicas = 1
    maxReplicas = 6
    itemsPerPod = 2
    cpuThreshold = 4
    memThreshold = 4
    Utilisation = {0, 1, 2, 3, 4, 5, 8}
    QueueDepth = {0, 1, 4, 5, 20}
    \* depth publisher
    MaxStarts = 3
    \* history: three executions of a task, two with one pod name; pages of one row
    Execution = {"e1", "e2", "e3"}
    TaskOf <- MCTaskOf
    PodOf <- MCPodOf
    Instant = {1, 2, 3}
    Filter <- MCFilter
    PageSize = 1
    MaxRows = 3
    \* API: two requests, two names, three incarnations, pages of one task
    Client = {c1, c2}
    LastName = 2
    GeneratedName = 2
    Request <- MCRequest
    PageLimit = 1
    MaxMade = 3
    MaxRequests = 2
SPECIFICATION Spec
INVARIANTS
    CheckedGraphIsAcyclic
    OvercommitIsBounded
    QueuedIsReserved
    RoundRobinTakesTurns
    OnePlace
    WorkerTellsTheTruth
    BurstIsBounded
    RetryAfterSuffices
    OfferedToSubscribers
    UndisturbedIsExact
    OneLoop
    RowsTellTheOutcome
    PagingMissesNothing
    AnswersAreTrue
    ListingMissesNothing
PROPERTIES
    MostUrgentFirst
    ScaleDownSettles
    StopEndsEveryLoop
CHECK_DEADLOCK FALSE
