SPECIFICATION FairSpec
CONSTANTS
    Observers = {o1, o2}
    Workers = {w1, w2}
    Getters = {}
    Queues = {1, 2}
    MaxJobs = 1
    None = None
PROPERTIES TileGetsThere
CHECK_DEADLOCK FALSE
