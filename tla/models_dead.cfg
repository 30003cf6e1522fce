\* A worker dies while it serves a model.
SPECIFICATION FairSpec
CONSTANTS
    Model = {m1}
    Node = {n1, n2}
    None = None
    Unknown = Unknown
    StuckAfter = 1
    MaxAdminOps = 2
    MaxFaults = 1
PROPERTIES
    DeadWorkerCleared
