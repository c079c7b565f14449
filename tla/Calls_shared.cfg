SPECIFICATION FairSpec
CONSTANTS
    Requests = {r1, r2}
    Callers = {c1, c2}
    NoRequest = NoRequest
    MaxStarts = 1
    MaxRetries = 1
    MaxCalls = 2
    MaxFaults = 1
INVARIANTS
    PoolOutlivesUsers
    SignedOutForAReason
PROPERTIES
    CallsEnd
CHECK_DEADLOCK FALSE
