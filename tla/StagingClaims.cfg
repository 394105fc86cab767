\* One run that finds up to two videos, two collections.
CONSTANTS
    v1 = v1
    v2 = v2
    c1 = c1
    c2 = c2
    Run = {r1}
    Video = {v1, v2}
    Searcher = {s1}
    PageSize = 1
    MaxPages = 3
    MaxResults = 2
    SearchCost = 1
    QuotaBudget = 2
    MaxAttempts = 2
    Collector = {c1, c2}
    ClaimLimit = 1
    MaxFaults = 1
SPECIFICATION MCSpec
ACTION_CONSTRAINT TwoWorkers
INVARIANTS
    OneClaimant
    SettledStaysKnown
    CountsHonest
PROPERTIES
    SettledIsFinal
    EveryItemSettles
CHECK_DEADLOCK FALSE
