SPECIFICATION Spec
CONSTANTS
    byte = byte
    short = short
    ImageSizes <- MCImageSizes
    Regions <- Boxes
    MaxValue = 6
    Types <- MCTypes
    BytesOf <- MCBytesOf
    InPlaceSizes = {2, 6}
    Kinds = {"new"}
INVARIANTS
    RegionIsReturned
