\* Two messages of any kind about one video and its comment, or one comment
\* collection of two videos.
CONSTANTS
    v1 = v1
    v2 = v2
    k1 = k1
    k2 = k2
    j1 = j1
    j2 = j2
    Video = {v1, v2}
    Comment = {k1, k2}
    VideoOf <- EachItsVideo
    Job = {j1, j2}
    MaxRetries = 2
    MaxVersion = 2
    MaxFaults = 1
    MaxPages = 2
    QuotaBudget = 3
SPECIFICATION MCSpec
INVARIANTS
    NothingLeftBehind
    StatusHasEvidence
    GatherHonest
PROPERTIES
    ResultsAreFinal
    RelevanceDecides
CHECK_DEADLOCK FALSE
