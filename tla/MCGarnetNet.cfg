CONSTANTS
    a = a
    b = b
    r0 = r0
    r1 = r1
    Routers <- MCRouters
    NIs <- MCNIs
    Channels <- MCChannels
    InPorts <- MCInPorts
    OutPorts <- MCOutPorts
    Route <- MCRoute
    NumVnets = 1
    VcPerVnet = 2
    Ordered = {0}
    Buffers <- MCBuffers
    PipeStages = 1
    LinkLatency <- MCLinkLatency
    OutSize <- MCOutSize
    Program <- MCProgram
    MsgVnet <- MCMsgVnet
    MsgDests <- MCMsgDests
    MsgFlits <- MCMsgFlits
SPECIFICATION Spec
INVARIANTS
    TypeOK
    CreditsConserved
    IdleOutVcIsUnused
    OutVcHeldOnce
    OnePacketPerVc
    OneReadyPerLink
    NothingStranded
PROPERTIES
    ImplementsService
