SPECIFICATION Spec
CONSTANTS
    Blobs = {b1, b2}
    Clients = {c1, c2}
    Values = {1, 2}
    Free = Free
    PagesFor <- MCPagesFor
    BlockCount = 2
    MaxBuffers = 2
    MaxJobs = 2
SYMMETRY Symmetry
INVARIANTS MemoryAccounted DataRetained IdleBuffersGo
