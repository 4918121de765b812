SPECIFICATION FairSpec
CONSTANTS
    NumBlocks = 4
    ThreadsWanted = 2
    QueueFloor = 5
    QueueCap = 1
    Sizes = {1, 2}
    BufferMaxSize = 3
    CompressionTypes = {"NONE", "BZIP2", "ZLIB", "OTHER"}
    StackSlices = TRUE
    Volumes = {1, 2}
    DiskFaults = FALSE
INVARIANTS
    TypeOK
    HeadIsNext
    SlotExclusive
    WriterWakeupPending
    CompressorWakeupPending
    BufferFits
    BlocksAreFound
    SuccessMeansStoredUnlessZlib
PROPERTIES
    AnnouncedOnce
    ImplementsReorderBuffer
    Termination
