SPECIFICATION FairSpec
CONSTANTS
    Traffic <- MCTraffic
    MaxBeats = 3
    CntMax = 2
INVARIANTS
    TypeOK
    L4Lockstep
    MetaDescribesBeat
    PacketsCounted
    LengthStaysInEth
PROPERTIES
    ImplementsChannel
    UnrefusedBeatsModified
    AttributedUnlessFollowed
    Delivered
