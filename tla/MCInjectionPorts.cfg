SPECIFICATION FairSpec
CONSTANTS
    NumVnets = 2
    VcPerVnet = 2
    PortMaps <- MCPorts
    Ordered <- MCOrdered
    Buffers = 1
    Messages <- MCMessages
    Threshold = 1
    Watch = {0}
    MaxHeld = 2
INVARIANT AlarmMeansHeld
PROPERTIES TakenOrReported PortsAreIndependent
CHECK_DEADLOCK FALSE
