SPECIFICATION TitleSpec
CONSTANTS
    Discs <- MCDiscs
    RootSector = 1
    MaxDepth = 3
    MaxEntries = 3
    MaxTotal = 4
    ImageEnd = 9
    Forbidden <- MCForbidden
    Nil = 100
    SpaceEnd = 14
    RamSize = 10
    ThunkSize = 2
    HeaderMin = 1
    SectionHeader = 1
    Ordinals = {10, 11}
    Media <- MCMedia
    ExtraRegions <- MCRegions
    MaxPrepares = 2
    Systems <- MCSystems
    Readable <- MCReadable
    Writable <- MCWritable
    Stack <- MCStack
    IrqCode <- MCIrqCode
    AckOf <- MCAckOf
    GpuVector = 1
    UsbVector = 2
    HleVector = 9
    MaxRaises = 2
    MaxResets = 1
    WordBits = 4
    ByteBits = 2
    NibbleBits = 1
    Streams <- MCStreams
    Bdfs = {1, 2}
    BarSize <- MCBarSize
    HasDevice <- MCHasDevice
    FixedMaps <- MCFixedMaps
    Half = 4
INVARIANTS EachDirectoryOnce ListedPathsResolve BootIsAllOrNothing InterruptsAreInvisible
INVARIANTS ArithmeticIsExact InstructionIsItsBytes 
PROPERTY FaultLeavesNoTrace
CHECK_DEADLOCK FALSE
