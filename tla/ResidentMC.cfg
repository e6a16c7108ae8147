SPECIFICATION Spec
CONSTANTS
    x = x
    t = t
    u = u
    p = p
    NoPalette    = NoPalette
    Pictures     = 5
    Values       = {1, 2}
    Cells        = {x, t, u}
    Palettes     = {p}
    Length       <- MCLength
    XfbCells     = {x}
    TexCells     = {t}
    Draws        <- MCDraws
    Slots        <- MCSlots
    ArenaSize    <- MCArena
    DrawArena    = 4
    XfbRing      = 2
    TexRing      = 1
    Attempts     = 8
    Cow          = {TRUE, FALSE}
    Scenes       <- MCScenes
    MaxTriangles = 2
INVARIANT TypeOK
PROPERTY  ImplementsRenderer
CHECK_DEADLOCK FALSE
