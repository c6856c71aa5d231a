\* Two updates of one target, each with two writes, and a power failure.
SPECIFICATION Spec
CONSTANTS
    Updates = {u1, u2}
    Old = Old
    NoFile = NoFile
    Chunks = 2
    MaxCrashes = 1
SYMMETRY Symmetry
INVARIANTS
    TargetIntact
    FailureLeavesNothing
    SyncedSurvives
CHECK_DEADLOCK FALSE
