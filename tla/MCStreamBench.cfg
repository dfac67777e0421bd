SPECIFICATION FairSpec
CHECK_DEADLOCK FALSE
CONSTANTS
    STAGES = 8
    DEPTH = 16
    TIMEOUT = 30
    MaxFaults = 2
    Tests <- MCTests
INVARIANTS
    CorrectDutPasses
    DrainedDry
    PassMeansReceived
PROPERTIES
    ReturnsUnlessBlocked
