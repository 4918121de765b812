SPECIFICATION JniSpec
CONSTANTS
    Images = {img1, img2}
    ROIs = {roi}
    Whole = Whole
    BlockSizes = {b1}
    Optimal = Optimal
    ImageSize = ImageSize
    Metadata = {m1}
    Zeroes = Zeroes
    NULL = NULL
    Junk = Junk
INVARIANTS
    ArgumentsStored
