\* The program may stop.
CONSTANTS
    MaxSessions = 3
    Cols = {60, 79}
    Rows = {24}
    MaxGrid = 9
    None = None
SPECIFICATION FairSpec
INVARIANTS Consistent GridTiles
PROPERTY ClosingEnds
CHECK_DEADLOCK FALSE
