CONSTANTS
    a = a
    b = b
    r0 = r0
    Routers <- MCRouters
    NIs <- MCNIs
    Channels <- MCChannels
    InPorts <- MCInPorts
    OutPorts <- MCOutPorts
    Route <- MCRoute
    NumVnets = 2
    VcPerVnet = 2
    Ordered = {0}
    Buffers <- MCBuffers
    PipeStages = 1
    LinkLatency <- MCLinkLatency
    OutSize <- MCOutSize
    Program <- MCProgram
    MsgVnet <- MCMsgVnet
    MsgDests <- MCMsgDests
    MsgFlits <- MCMsgFlits
SPECIFICATION Spec
INVARIANTS
    CreditsConserved
    EjectionBufferBounded
    CallbackWhileStalled
PROPERTIES
    ImplementsService
