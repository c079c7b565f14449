SPECIFICATION Spec
CONSTANTS
    Devices = {d1, d2}
    Workers = {w1, w2}
    NoDevice = NoDevice
    MaxAttempts = 1
    MaxSends = 2
    MaxCalls = 4
    MaxRepeats = 1
SYMMETRY Symmetry
INVARIANTS
    TypeOK
    ChallengeOpensOnce
    FailuresBounded
    AlarmIsGenuine
    SessionsAccounted
CHECK_DEADLOCK FALSE
