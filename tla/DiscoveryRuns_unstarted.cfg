CONSTANTS
    t1 = t1
    Topic = {t1}
    Query = {q1, q2}
    TopicOf <- OneTopic
    Batch = {b1}
    MaxRetries = 0
    MaxFaults = 0
SPECIFICATION FairSpec
ACTION_CONSTRAINT Punctual
PROPERTY PipelineFollowsCollection
CHECK_DEADLOCK FALSE
