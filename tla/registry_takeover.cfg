\* A worker that replaces a dead one on the same machine; one time unit is 15 s.
SPECIFICATION FairSpec
CONSTANTS
    n1 = n1
    n2 = n2
    hw1 = hw1
    Node <- TwoNodes
    Hw <- HwShared
    NoHw = NoHw
    GpuNode <- TwoNodes
    GrpcNode = {}
    StaleAfter = 4
    HeartbeatPeriod = 2
    WatchdogPeriod = 1
    MaxDelay = 0
    CalmCap = 0
    MaxFaults = 0
PROPERTIES
    TakeoverSucceeds
