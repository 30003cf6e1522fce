\* Three load requests for three files, two of them with one partial name.
SPECIFICATION Spec
CONSTANTS
    f1 = f1
    f2 = f2
    f3 = f3
    p1 = p1
    p2 = p2
    Job = {j1, j2, j3}
    File <- Files
    Name <- Names
    Partial <- PartialOf
    None = None
    Chunks = 2
    MaxFaults = 2
SYMMETRY Symmetry
CHECK_DEADLOCK FALSE
INVARIANTS
    TypeOK
    DestinationsComplete
PROPERTIES
    JobsImplemented
