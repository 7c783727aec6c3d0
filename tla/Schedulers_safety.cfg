SPECIFICATION SchedulersSpec
CONSTANTS
    MaxCycle = 3
    MaxId = 3
    MaxLimit = 2
    MaxThreads = 3
    MaxObjects = 1
    MaxSuspend = 1
    MaxRecursion = 1
    MaxRelease = 1
    MaxI32 = 7
    Kinds = {"mutex"}
    Timeouts = {TRUE}
PROPERTIES ThreadsTakeTurns ImplementsAgenda
CHECK_DEADLOCK FALSE
