SPECIFICATION Spec
CONSTANTS
    Missing = Missing
    TileSize = 8
    Unit = 2
    Side = 64
    PerUnit = 2
INVARIANTS
    GeometryOfSets
    BitmapIsTiled
    PixelsStayInPlace
    ColoursSurviveReduction
    FormatsFit
    RulersFit
CHECK_DEADLOCK FALSE
