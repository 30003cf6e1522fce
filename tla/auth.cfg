\* Two tokens and two concurrent requests; a cache limit of one entry.
SPECIFICATION Spec
CONSTANTS
    Key = {k1, k2}
    NoKey = NoKey
    Request = {q1, q2}
    PositiveTtl = 2
    NegativeTtl = 1
    MaxAnswer = 1
    CacheLimit = 1
    MaxLifetime = 1
SYMMETRY Symmetry
INVARIANTS
    TypeOK
    InvalidStops
    ValidStarts
    RefusedStaysRefused
    CacheSwept
