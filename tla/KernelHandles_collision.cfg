SPECIFICATION HandlesSpec
CONSTANTS
    Generations = 8
    MaxHandles = 2
    MaxObjects = 2
    MaxFiles = 2
    FileSize = 2
    MaxRead = 2
    Pointers = {"ram", "none"}
    Resets = FALSE
PROPERTIES DoubleCloseFails
