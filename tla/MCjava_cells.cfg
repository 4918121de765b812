SPECIFICATION Spec
CONSTANTS
    byte = byte
    short = short
    ImageSizes <- MCImageSizes
    Regions <- Boxes
    MaxValue = 5
    Types <- MCTypes
    BytesOf <- MCBytesOf
    InPlaceSizes = {5}
    Kinds = {"new", "inPlace"}
INVARIANTS
    TypeOK
    ReadsFit
    ReadsTileRegion
