CONSTANTS
    Meshes <- MCMeshes
    Infinite = 10000
    NoPacket = NoPacket
SPECIFICATION FairSpec
INVARIANTS
    TypeOK
    DistIsShortest
    TableFollowsXY
PROPERTIES
    ChannelsInOrder
    EveryHopIsCloser
    EveryPacketEjected
