\* Two worker processes and two enrollments on one host.
SPECIFICATION FairSpec
CONSTANTS
    None = None
    Torn = Torn
    MaxSpawns = 2
    MaxEnrolls = 2
    MaxFaults = 2
INVARIANTS
    TypeOK
    UninstallCleans
    OneNodeId
    CertMatches
PROPERTIES
    WorkerStarted
