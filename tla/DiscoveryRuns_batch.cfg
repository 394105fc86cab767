\* One batch with two children; a second one once the first was given up.
CONSTANTS
    t1 = t1
    Topic = {t1}
    Query = {q1, q2}
    TopicOf <- OneTopic
    Batch = {b1, b2}
    MaxRetries = 0
    MaxFaults = 1
SPECIFICATION Spec
ACTION_CONSTRAINT SecondBatchThere
SYMMETRY Interchangeable
INVARIANTS
    TerminalBatchSettled
    IntelligenceAfterCollection
    OneHealthyCollectorPerQuery
PROPERTIES
    SuccessIsFinal
    ContractSpec
CHECK_DEADLOCK FALSE
