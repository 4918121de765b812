SPECIFICATION Spec
CONSTANTS
    DataDims = 3
    ImageMax = 3
    BlockMax = 2
    ImageSizes <- MCImageSizes
    BlockSizes <- MCBlockSizes
    Regions <- MCRegions
    SliceModes = {TRUE, FALSE}
INVARIANTS
    RowsInBounds
    BlocksPartitionImage
    ReadsWhatWasWritten
PROPERTIES
    ImplementsFill
