SPECIFICATION MCSpec
CONSTANTS
    Ids = {i1, i2}
    Keys = {1, 2}
    NoKey = 0
    Workers = {1, 2}
    Pullers = {p1}
    MaxBatch = 2
    MaxSends = 2
    MaxRestWrites = 1
    MaxVersion = 8
CHECK_DEADLOCK FALSE
INVARIANTS
    TypeOK
    AppliedAtMostOnce
    OneLineOfWrites
    VersionsAreUnique
    AppliedIsCommitted
    ConflictIsGenuine
PROPERTIES
    ImplementsStore
    RequestsEnd
    SerialCursorIsComplete
    SerialAnswersAgree
