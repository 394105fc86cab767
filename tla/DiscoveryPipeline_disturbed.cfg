\* The scheduled jobs, and faults that end a handler for good.
CONSTANTS
    Item = {i1, i2}
    Copy = {c1, c2}
    MaxRetries = 0
    ChunkLimit = 2
    VideoLimit = 1
    Background = {"sweep", "recovery"}
    FaultKinds = {"starter", "queue", "permanent"}
    MaxFaults = 1
    MaxResumes = 0
SPECIFICATION Spec
SYMMETRY Interchangeable
INVARIANTS
    OutcomeNeedsBothBranches
CHECK_DEADLOCK FALSE
