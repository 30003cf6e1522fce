\* One request (requests share nothing but time); one time unit is 5 s.
SPECIFICATION FairSpec
CONSTANTS
    Request = {r1}
    Timeout = 3
    GatewayTimeout = 12
CHECK_DEADLOCK FALSE
INVARIANTS
    TypeOK
    AnsweredInTime
    LogAgrees
PROPERTIES
    EventuallyAnswered
