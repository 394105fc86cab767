\* One fault of a stage worker, which has a retry left.
CONSTANTS
    Item = {i1}
    Copy = {c1, c2}
    MaxRetries = 1
    ChunkLimit = 1
    VideoLimit = 1
    Background = {}
    FaultKinds = {"crash", "error", "youtube"}
    MaxFaults = 1
    MaxResumes = 0
SPECIFICATION FairSpec
ACTION_CONSTRAINT TwoWorkers
INVARIANTS
    ActiveHasWorker
PROPERTIES
    PipelineEnds
CHECK_DEADLOCK FALSE
