SPECIFICATION Spec
CONSTANTS
    NumBlocks = 2
    ThreadsWanted = 1
    QueueFloor = 5
    QueueCap = 20
    Sizes = {1}
    BufferMaxSize = 2
    CompressionTypes = {"ZLIB"}
    StackSlices = FALSE
    Volumes = {1}
    DiskFaults = FALSE
INVARIANTS
    SuccessMeansStored
