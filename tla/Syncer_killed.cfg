SPECIFICATION Spec
CONSTANTS
    Devices = {d1, d2}
    ClockSkew <- OneAhead
    ChunkSize = 1
    MaxIterations = 2
    Faults = {"crash"}
    MaxFaults = 1
    MaxEdits = 3
    MaxImports = 0
    MaxIds = 4
    MaxKeys = 2
INVARIANTS
    LostOnlyToEdits
CHECK_DEADLOCK FALSE
