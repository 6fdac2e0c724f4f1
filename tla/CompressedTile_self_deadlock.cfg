SPECIFICATION Spec
CONSTANTS
    Observers = {o1, o2}
    Workers = {w1, w2}
    Getters = {w1, w2}
    Queues = {1, 2}
    MaxJobs = 2
    None = None
INVARIANTS NoJobDeletesItsQueue
CHECK_DEADLOCK FALSE
