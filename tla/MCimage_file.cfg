SPECIFICATION Spec
CONSTANTS
    small = small
    large = large
    NoImage = NoImage
    NULL = NULL
    Empty = Empty
    NoName = NoName
    Torn = Torn
    OK = OK
    Error = Error
    Headers = {h1, h2}
    Addresses = {a1, a2}
    Files = {f1, f2}
    Images <- MCImages
    NumBlocksOf <- MCNumBlocksOf
    Plane <- MCPlane
    Planes <- MCPlanes
    Channels <- MCChannels
    Zlib = {large}
SYMMETRY Symmetric
INVARIANTS
    TypeOK
    LengthIsRight
    OwnedOnce
    TableFitsSizes
    ReadsLastWrite
    RoomSuffices
