\* The same topics, paused and resumed.
CONSTANTS
    t1 = t1
    Topic = {t1}
    Query = {q1}
    TopicOf <- OneTopic
    Batch = {b1}
    MaxRetries = 0
    MaxFaults = 1
    ta = ta
    tb = tb
    ScheduledTopic = {ta, tb}
    Interval <- MCInterval
    Never = Never
    RowLimit = 1
    MaxQueries = 2
    MaxLate = 3
    MaxAge = 1
    MaxTrouble = 1
SPECIFICATION MCEditedSpec
PROPERTIES
    ResumedTopicHasNextRun
CHECK_DEADLOCK FALSE
