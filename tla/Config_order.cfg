SPECIFICATION Spec
CONSTANTS
    Paths = {"p1", "p2"}
    NoPath = NoPath
    Blank = Blank
INVARIANTS
    ConfigLayers
CHECK_DEADLOCK FALSE
