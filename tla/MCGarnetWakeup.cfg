SPECIFICATION FairSpec
CONSTANTS
    Never = Never
    l0 = l0
    k0 = k0
    o0 = o0
    n = n
    k = k
    Routers = {0}
    Links <- MCLinks
    OutputUnits <- MCOutputUnits
    NIs <- MCNIs
    Controllers <- MCControllers
    LinkConsumer <- MCLinkConsumer
    RouterOut <- MCRouterOut
    NIFlitLinks <- MCNIFlitLinks
    NICreditLinks <- MCNICreditLinks
    NIRouter <- MCNIRouter
    NIOf <- MCNIOf
    Period <- TwoClocks
    NetPeriod = 1
    Delays = {1}
    LinkLatency = 1
    ThinkTimes = {2}
    RingSize = 4
    NumThreads = 1
    Threshold = 2
    MaxTick = 6
INVARIANTS
    TypeOK
    PendingTicksCovered
PROPERTIES
    ImplementsWakeupService
    TicksLeaveByService
    EveryPendingTickTaken
CHECK_DEADLOCK FALSE
