SPECIFICATION Spec
CONSTANTS
    Options <- MCOptions
    Sizes = {3}
    ReadSize = 2
    OutCap = 2
    InCap = 1
    MaxEvents = 5
    MaxCols = 26
INVARIANT FilterKeepsText
CHECK_DEADLOCK FALSE
