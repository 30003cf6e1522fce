\* Two machines with up to two GPUs each.
SPECIFICATION Spec
CONSTANTS
    Node = {1, 2}
    Index = {0, 1}
    Fleet <- Fleets
    MaxLayers = 3
    MaxMemory = 3
    Word = 256
CHECK_DEADLOCK FALSE
INVARIANTS
    TypeOK
    StagesTile
    NearShare
    EligibleOnly
    GcdAgreed
    GroupsAlike
