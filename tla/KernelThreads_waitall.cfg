CONSTANTS
    MaxThreads = 2
    MaxObjects = 2
    MaxSuspend = 0
    MaxRecursion = 1
    MaxRelease = 1
    MaxI32 = 7
    Kinds = {"event"}
    Timeouts = {FALSE}
SPECIFICATION ThreadsSpec
CHECK_DEADLOCK FALSE
PROPERTY WaitAllIsComplete
