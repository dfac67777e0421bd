SPECIFICATION HarnessSpec
CONSTANTS
    d1 = d1
    d2 = d2
    Data <- MCData
    DEPTH <- MCDepth
INVARIANTS
    TypeOK
    NoOverflow
    ValidIffNotEmpty
    UsedIsOccupancy
PROPERTIES
    HoldData
    ImplementsChannel
