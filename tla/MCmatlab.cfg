SPECIFICATION Spec
CONSTANTS
  Mantissa = 4
  Bits = 10
  CompressionOverhead = 5
  DataDims = 4
  SpatialDims = 3
  Arrays <- MCArrays
  BlockSizes <- MCBlockSizes
  Threads = {0, 1, 3, 40}
  HardwareThreads = {0, 2}
  Types = {1, 2}
  OptimalSize <- MCOptimalSize
  MinSlots = 2
  MaxSlots = 3
  Default = Default
INVARIANTS
  TypeOK
  CountsAreExact
  QueuesHoldBlocks
  
  ArraysFit
\* one call writes, one reads: the program stops
CHECK_DEADLOCK FALSE
