SPECIFICATION Spec
CONSTANTS
    Never = Never
    l0 = l0
    l1 = l1
    n0 = n0
    n1 = n1
    k0 = k0
    k1 = k1
    Routers <- MCRouters
    Links <- MCLinks
    OutputUnits = {}
    NIs <- MCNIs
    Controllers <- MCControllers
    LinkConsumer <- MCLinkConsumer
    RouterOut <- MCRouterOut
    NIFlitLinks <- MCNIFlitLinks
    NICreditLinks <- MCNICreditLinks
    NIRouter <- MCNIRouter
    NIOf <- MCNIOf
    Period <- OneClock
    NetPeriod = 1
    Delays = {2}
    LinkLatency = 1
    ThinkTimes = {2}
    RingSize = 3
    NumThreads = 2
    Threshold = 2
    MaxTick = 3
INVARIANTS
    WokenOncePerTick
    GlobalFindsNothing
    ActiveBitmapInSync
PROPERTIES
    GlobalGoesToNextSlot
CHECK_DEADLOCK FALSE
