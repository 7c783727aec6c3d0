CONSTANTS
    MaxThreads = 3
    MaxObjects = 1
    MaxSuspend = 0
    MaxRecursion = 2
    MaxRelease = 2
    MaxI32 = 7
    Kinds = {"event", "mutex", "semaphore"}
    Timeouts = {TRUE}
SPECIFICATION ThreadsSpec
CHECK_DEADLOCK FALSE
INVARIANTS NoLostWakeup
PROPERTY ReadyThreadsRun
