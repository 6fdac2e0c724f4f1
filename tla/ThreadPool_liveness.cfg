SPECIFICATION FairSpec
CONSTANTS
    Workers = {w1, w2}
    InitialWorkers = {w1}
    Queues = {qs, qa}
    AsyncQueues = {qa}
    BodyReleased = {qa}
    Prios = {1, 2}
    MaxJobs = 2
    CompleteAll = TRUE
CHECK_DEADLOCK FALSE
INVARIANT
    CompletesAll
PROPERTY EverythingEnds
