SPECIFICATION TuiFairSpec
CONSTANTS
    Me = Me
    Devices = {Me}
    ClockSkew <- NoSkew
    ChunkSize = 2
    MaxIterations = 2
    Faults = {"lost"}
    MaxFaults = 1
    MaxEdits = 2
    MaxImports = 0
    MaxIds = 4
    MaxKeys = 1
INVARIANTS
    TuiTypeOK
    ListIsCurrent
    CalmEditsSurvive
    NoSelfConflict
PROPERTIES
    ActsOnItsSubject
    SyncEnds
CHECK_DEADLOCK FALSE
