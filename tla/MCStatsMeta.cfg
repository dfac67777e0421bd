SPECIFICATION Spec
CONSTANTS
    Traffic <- MCTraffic
    MaxBeats = 3
    CntMax = 2
INVARIANTS
PROPERTY
    CountedUnderOwnMeta
