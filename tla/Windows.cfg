SPECIFICATION WindowsSpec
CONSTANTS
    ViewPresentations <- MCViewPresentations
    NoPresentation = none
    WindowSizes <- MCWindowSizes
    MousePoints <- MCMousePoints
    Typed = {3, 100}
    Junk = junk
    ChosenZooms <- MCChosenZooms
    ScrolledTo = {100}
    MaxEvents = 5
    Layers <- MCLayers
    Stretching = {"frame"}
    AreaOf <- MCAreaOf
    Coloured = {"text", "photo"}
    Seethrough = {"text", "photo"}
    Palette <- MCPalette
    Black = "black"
    OverlayViews = {v1, v2}
    MaxLayers = 3
    Openers = {opener}
    Makers = {maker}
    Aggregators = {overlay}
    Colouring = {colormap}
    ToolPlugins = {tool}
    Images = {"image"}
    OtherFiles = {"text"}
    Directories <- MCDirectories
    CommandLines <- MCCommandLines
    MaxWindows = 3
    MaxPresentations = 5
INVARIANTS WindowIsRight OverlayIsRight ApplicationIsRight
PROPERTIES PointStays
CHECK_DEADLOCK FALSE
