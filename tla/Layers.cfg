SPECIFICATION LayersSpec
CONSTANTS
    Bitmaps <- MCBitmaps
    Rows <- MCRows
    Columns <- MCColumns
    Workers = {w1, w2}
    None = None
    Tiles <- MCTiles
    Parent <- MCParent
    Reducers = {r1, r2}
    NoTile = NoTile
    TheBitmap = TheBitmap
INVARIANTS LoadingInOrder ReductionIsRight
PROPERTIES ImplementsContract LoadingEnds ReductionsStay ReductionGetsFinished
CHECK_DEADLOCK FALSE
