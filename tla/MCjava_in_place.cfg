SPECIFICATION Spec
CONSTANTS
    byte = byte
    short = short
    ImageSizes <- MCImageSizes
    Regions <- ThickBoxes
    MaxValue = 6
    Types <- MCTypes
    BytesOf <- MCBytesOf
    InPlaceSizes = {2, 6}
    Kinds = {"inPlace"}
INVARIANTS
    InPlaceReadsFit
