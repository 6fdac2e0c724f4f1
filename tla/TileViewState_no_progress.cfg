SPECIFICATION TileViewFairSpec
CONSTANTS
    Zoomers = {w1, w2}
    Zooms = {1, 2}
    MaxEvents = 4
    StoresWeakQueue = FALSE
    NoWorker = NoWorker
PROPERTIES GetsDone
CHECK_DEADLOCK FALSE
