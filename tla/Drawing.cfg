SPECIFICATION DrawingSpec
CONSTANTS
    ViewTiles <- MCViewTiles
    ViewAreas <- MCViewAreas
    ViewZooms <- MCViewZooms
    Drawers = {w1}
    MaxRequests = 3
    Bitmaps = {b1, b2}
    BitmapTiles = 2
    PlainWindows = {p}
    OverlayWindows = {o}
    NoWindow = none
    MaxBars = 4
    Pipette = pipette
    Measure = measure
    Selections = {s1, s2}
    NoMark = none
    MaxQueued = 2
    MaxClicks = 6
INVARIANTS RedrawIsRight ProgressIsShown ToolsAgree
PROPERTIES PreparedIsKept EverythingIsShown EveryBarIsPulsed
    SwitchedOffIsIgnored PipetteGetsDone
CHECK_DEADLOCK FALSE
