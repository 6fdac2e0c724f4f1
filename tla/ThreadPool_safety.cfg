SPECIFICATION Spec
CONSTANTS
    Workers = {w1, w2}
    InitialWorkers = {w1, w2}
    Queues = {qs, qa}
    AsyncQueues = {qa}
    BodyReleased = {qs, qa}
    Prios = {1, 2}
    MaxJobs = 3
    CompleteAll = FALSE
SYMMETRY WorkerSymmetry
CHECK_DEADLOCK FALSE
INVARIANTS
    TypeOK
    ClaimsAccounted
    QueueCounts
    NothingRunsOnGoneQueue
    NoLostWakeup
PROPERTY KeepsContract
