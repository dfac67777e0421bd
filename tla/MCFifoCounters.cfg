SPECIFICATION HarnessSpec
CONSTANTS
    d1 = d1
    d2 = d2
    Data <- MCData
    DEPTH <- MCDepth
INVARIANT
    PushCountGePopCount
