SPECIFICATION FairSpec
CONSTANTS
    Devices = {d1, d2}
    ClockSkew <- OneAhead
    ChunkSize = 2
    MaxIterations = 2
    Faults = {"refused"}
    MaxFaults = 1
    MaxEdits = 4
    MaxImports = 0
    MaxIds = 4
    MaxKeys = 1
INVARIANTS
    LostOnlyToEdits
PROPERTIES
    DeletedStaysDeleted
    EarlierEditsYield
    SyncEndsClean
    BehindForAReason
    SyncedUnlessSkipped
CHECK_DEADLOCK FALSE
