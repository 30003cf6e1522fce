\* Three requests from two machines with two tokens.
SPECIFICATION Spec
CONSTANTS
    Hw = {h1, h2}
    Token = {t1, t2}
    Request = {q1, q2, q3}
    None = None
    Ttl = 1
    MaxFaults = 1
CHECK_DEADLOCK FALSE
INVARIANTS
    TypeOK
    IdentityNamesNode
    TokensAccountedFor
    ReuseOnlyByOverlap
PROPERTIES
    LifecycleRefined
