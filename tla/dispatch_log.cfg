\* The management backend hangs while a stream waits; one time unit is 5 s.
SPECIFICATION Spec
CONSTANTS
    Request = {r1}
    Timeout = 3
    GatewayTimeout = 12
CHECK_DEADLOCK FALSE
INVARIANTS
    LogNeverHurts
