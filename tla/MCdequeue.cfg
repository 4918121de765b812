SPECIFICATION FairSpec
CONSTANTS
    NumSlots = 3
    NumItems = 7
INVARIANTS
    TypeOK
    SlotExclusive
    NoLostWakeup
PROPERTIES
    ImplementsFifo
    AllDelivered
