CONSTANTS
    Thread = {th1}
    TaskId = {"a", "b"}
    Node = {"n1"}
    Total <- MCTotal
    Size <- MCSize
    MaxSubmits = 3
SPECIFICATION SchedSpec
INVARIANT QueuedTasksDoNotDeadlock
CHECK_DEADLOCK FALSE
