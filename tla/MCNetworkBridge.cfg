SPECIFICATION FairSpec
CONSTANTS
    Messages <- MCMessages
    Configs <- MCConfigs
    CdcLatency = 1
    SerDesLatency = 1
    LinkLatency = 1
    Buffers = 4
CHECK_DEADLOCK FALSE
INVARIANTS AssertionsHold PacketsArriveIntact IdleVcHasAllCredits
PROPERTIES EverythingCrosses
