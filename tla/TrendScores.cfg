CONSTANTS
    s1 = s1
    o1 = o1
    x1 = x1
    x2 = x2
    g1 = g1
    g2 = g2
    g3 = g3
    v1 = v1
    v2 = v2
    Target = {s1, o1}
    Opportunity = {o1}
    Field = {f1}
    Text = {x1, x2}
    NoText = NoText
    Task = {c1, c2}
    ScanLimit = 1
    MaxTries = 1
    MaxFaults = 1
    Signal = {g1, g2, g3}
    Delivery = {d1, d2}
    MaxCases = 2
    Trait <- MCTrait
    VideoTrait <- MCVideoTrait
    ContextOf <- MCContextOf
    WindowOrder <- MCWindowOrder
    WindowLength <- MCWindowLength
    Saturation <- MCSaturation
    LogTable <- MCLogTable
    Hour = 2
    Day = 1
    MaxTime = 4
    Calculation = {k1, k2}
SPECIFICATION MCFairSpec
INVARIANTS
    OneTaskPerLease
    OneCallPerCase
    NoSignalCountedTwice
    ScoresInRange
PROPERTIES
    ShownUntilEdited
    EndedCaseStays
    RepairedByReconciliation
CHECK_DEADLOCK FALSE
