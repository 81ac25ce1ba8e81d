SPECIFICATION FairSpec
CONSTANTS
    Options <- MCOptions
    Sizes = {1, 3}
    ReadSize = 2
    OutCap = 2
    InCap = 1
    MaxEvents = 3
    MaxCols = 26
INVARIANTS SizesAgree AnsweredOnce TitlesInStep BarFits
PROPERTIES NoticeShown ResizeArrives SessionEnds
CHECK_DEADLOCK FALSE
