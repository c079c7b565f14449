SPECIFICATION MCSpec
CONSTANTS
    Lengths = {0, 6}
    MinLength = 4
    Long = 5
    VeryLong = 6
INVARIANTS
    EveryClassOccurs
    ShuffleIsFair
    CodesAreExact
CHECK_DEADLOCK FALSE
