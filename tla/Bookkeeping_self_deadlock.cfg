SPECIFICATION BookFairSpec
CONSTANTS
    Threads = {t1, t2}
    Keys = {k1}
    Tokens = {a1, a2}
    Values = {v1}
    Null = Null
PROPERTIES DestroyedIsUnregistered
CHECK_DEADLOCK FALSE
