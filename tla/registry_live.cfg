\* One worker through crashes, shutdowns, lost reports and coordinator restarts;
\* one time unit is 15 s.
SPECIFICATION FairSpec
CONSTANTS
    n1 = n1
    n2 = n2
    hw1 = hw1
    Node <- OneNode
    Hw <- HwOne
    NoHw = NoHw
    GpuNode <- OneNode
    GrpcNode <- OneNode
    StaleAfter = 4
    HeartbeatPeriod = 2
    WatchdogPeriod = 1
    MaxDelay = 1
    CalmCap = 7
    MaxFaults = 2
INVARIANTS
    TypeOK
    EligibleIsRecent
    MarkedInTime
    ListedInTime
PROPERTIES
    LiveWorkerListed
    DeadWorkerMarked
