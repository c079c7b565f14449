SPECIFICATION Spec
CONSTANTS
    Ids = {i1, i2}
    Keys = {k1, k2}
    NoKey = NoKey
    Workers = {w1, w2}
    Pullers = {p1}
    MaxBatch = 1
    MaxSends = 2
    MaxRestWrites = 0
    MaxVersion = 10
INVARIANTS
    CursorIsComplete
CHECK_DEADLOCK FALSE
