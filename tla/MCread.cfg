SPECIFICATION FairSpec
CONSTANTS
    NumBlocks = 3
    ThreadsWanted = 2
    CompressionTypes = {"NONE", "BZIP2", "ZLIB", "OTHER"}
    Wants <- AnyWant
    Files <- AnyFile
    OpenFaults = TRUE
INVARIANTS
    TypeOK
    SuccessMeansRead
    SurvivorsReadAll
PROPERTIES
    ImplementsFill
    Termination
