SPECIFICATION Spec
CONSTANTS
    f1 = f1
    f2 = f2
    f3 = f3
    g1 = g1
    g2 = g2
    Flow <- MCFlow
    set_idx <- MCSetIdx
    NUM_SETS = 3
    NowSpace = 5
    TIMEOUT_CYCLES = 3
    MaxCount = 2
SYMMETRY Symmetry
INVARIANTS
    TypeOK
    OneEntryPerFlow
    CountsItsFlow
    LiveIffRecent
    MissTakesLastHit
