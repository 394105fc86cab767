\* Two videos fetched one by one, no faults, one resumption.
CONSTANTS
    Item = {i1, i2}
    Copy = {c1, c2}
    MaxRetries = 0
    ChunkLimit = 1
    VideoLimit = 2
    Background = {}
    FaultKinds = {}
    MaxFaults = 0
    MaxResumes = 1
SPECIFICATION Spec
SYMMETRY Interchangeable
INVARIANTS
    OutcomeAfterStages
    OutcomeFitsItems
PROPERTIES
    OutcomeIsFinal
CHECK_DEADLOCK FALSE
