CONSTANTS
    a = a
    b = b
    r0 = r0
    Routers <- MCRouters
    NIs <- MCNIs
    Channels <- MCChannels
    InPorts <- MCInPorts
    OutPorts <- MCOutPorts
    Route <- MCRoute
    NumVnets = 1
    VcPerVnet = 2
    Ordered = {0}
    Buffers <- MCBuffers
    PipeStages = 1
    LinkLatency <- MCLinkLatency
    OutSize <- MCOutSize
    Program <- MCShortProgram
    MsgVnet <- MCMsgVnet
    MsgDests <- MCMsgDests
    MsgFlits <- MCMsgFlits
SPECIFICATION FairSpec
PROPERTIES
    EveryMessageDelivered
