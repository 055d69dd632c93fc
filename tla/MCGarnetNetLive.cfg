CONSTANTS
    a = a
    b = b
    r0 = r0
    Routers <- MCRouters
    NIs <- MCNIs
    Channels <- MCChannels
    InPorts <- MCInPorts
    OutPorts <- MCOutPorts
    Route <- MCRoute
    NumVnets = 1
    VcPerVnet = 2
    Ordered = {0}
    Buffers <- MCBuffers
    PipeStages = 2
    LinkLatency <- MCLinkLatency
    OutSize <- MCUnbounded
    Program <- MCShortProgram
    MsgVnet <- MCMsgVnet
    MsgDests <- MCMulticast
    MsgFlits <- MCMsgFlits
SPECIFICATION FairSpec
INVARIANTS
    NothingStranded
PROPERTIES
    EveryMessageDelivered
