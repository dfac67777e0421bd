SPECIFICATION FairSpec
CONSTANTS
    FIFO_DEPTH = 3
    Classes <- MCClasses
    Configs <- MCConfigs
INVARIANTS
    TypeOK
    OvertakenAtMostOnce
    OneBubblePerSwitch
PROPERTIES
    LeavesOnlyWhenDryOrOutranked
    InputNotBlocked
