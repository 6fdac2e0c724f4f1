SPECIFICATION TilesSpec
CONSTANTS
    Observers = {o1, o2}
    Workers = {w1, w2}
    Getters = {w1, w2}
    Queues = {1, 2}
    MaxJobs = 2
    None = None
    Zoomers = {z1, z2}
    Zooms = {1, 2}
    MaxEvents = 5
    StoresWeakQueue = TRUE
    NoWorker = NoWorker
    Threads = {t1, t2, t3}
    Keys = {k1, k2}
    Tokens = {a1, a2, a3, a4}
    Values = {v1, v2, v3}
    Null = Null
SYMMETRY Symmetry
INVARIANTS TileIsRight TileViewIsRight RegistrationHolds MapIsClean
CHECK_DEADLOCK FALSE
