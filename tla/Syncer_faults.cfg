SPECIFICATION Spec
CONSTANTS
    Devices = {d1, d2}
    ClockSkew <- NoSkew
    ChunkSize = 2
    MaxIterations = 2
    Faults = {"crash", "refused", "lost", "unrecorded", "expired"}
    MaxFaults = 2
    MaxEdits = 2
    MaxImports = 1
    MaxIds = 5
    MaxKeys = 2
SYMMETRY Symmetry
INVARIANTS
    CleanIsCommitted
    SyncedDevicesAgree
PROPERTIES
    SyncKeepsEdits
    ImplementsReplicas
CHECK_DEADLOCK FALSE
