SPECIFICATION ServicesSpec
CONSTANTS
    Base = 4
    Total = 22
    Align = 2
    MaxRequest = 7
    Alignments = {4, 8}
    UserBase = 2
    UserLimit = 9
    Granule = 2
    MaxSize = 3
    Protects = {"rw"}
    Generations = 8
    MaxHandles = 2
    MaxObjects = 2
    MaxFiles = 4
    FileSize = 2
    MaxRead = 2
    Pointers = {"ram", "null", "rom", "mmio", "none"}
    Resets = TRUE
CONSTRAINT NoSharedValue
INVARIANTS BlocksDisjoint NothingLeaks RegionsDisjoint SearchFindsFirst HandlesAreExact
PROPERTIES FailureKeepsFiles PositionFollowsDelivery
CHECK_DEADLOCK FALSE
