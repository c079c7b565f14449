SPECIFICATION Spec
CONSTANTS
    Processes = {p1, p2}
    Accounts = {a1, a2}
    ZeroKey = ZeroKey
    NoKey = NoKey
    MaxEdits = 1
    MaxSessions = 2
    MaxFaults = 1
SYMMETRY Symmetry
INVARIANTS
    FileOpens
CHECK_DEADLOCK FALSE
