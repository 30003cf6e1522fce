\* One model, two workers.
SPECIFICATION FairSpec
CONSTANTS
    Model = {m1}
    Node = {n1, n2}
    None = None
    Unknown = Unknown
    StuckAfter = 1
    MaxAdminOps = 2
    MaxFaults = 2
INVARIANTS
    TypeOK
PROPERTIES
    ReconcilerStateMachine
    JobsAsPromised
    LoadSettles
    HintIsServed
