\* One batch of two children, each with a worker of its own; or two topics,
\* one edit, one callback that dies or never starts.
CONSTANTS
    t1 = t1
    Topic = {t1}
    Query = {q1, q2}
    TopicOf <- OneTopic
    Batch = {b1}
    MaxRetries = 1
    MaxFaults = 1
    ta = ta
    tb = tb
    ScheduledTopic = {ta, tb}
    Interval <- MCInterval
    Never = Never
    RowLimit = 1
    MaxQueries = 2
    MaxLate = 3
    MaxAge = 1
    MaxTrouble = 1
SPECIFICATION MCFairSpec
ACTION_CONSTRAINT UntilAnalysis
INVARIANTS
    OneRunPerPeriod
PROPERTIES
    BatchTerminates
    LastWorkerStartsPipeline
    DueIsServed
CHECK_DEADLOCK FALSE
