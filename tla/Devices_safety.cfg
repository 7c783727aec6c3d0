SPECIFICATION DevicesSpec
CONSTANTS
    Ctl = ctl
    Intr = intr
    TDs = {t1, t2, t3, t4, t5}
    Null = null
    Templates <- MCTemplates
    PtrWrites <- MCPtrWrites
    PortWrites <- MCPortWrites
    Budgets <- MCBudgets
    MaxSeq = 2
    EdBudget = 3
    TdBudget = 3
    Width = 3
    Height = 1
    Buffers <- MCBuffers
    Limits <- MCLimits
    MaxDraw = 6
    MaxCalls = 2
    Screen = 2
    Grid = {0, 8, 16, 24}
    TextureSizes = {1, 2, 3, 4, 6, 8}
    Scissors <- MCScissors
 
INVARIANTS AcceptedRectsAreDrawn  RasterTouchesOnce
PROPERTIES DoneQueueIsTheFrame ReportsNeverRetreat PolledTdSettles
PROPERTIES RejectedPacketLeavesNoTrace
CHECK_DEADLOCK FALSE
