CONSTANTS
    Lines <- MCLines
    Columns = 4
    Heights = {1, 3}
    ChunkRows = 2
    Selections <- MCSelections
    MaxRevision = 5
    MaxPending = 2
    Texts = {"a"}
    PaneRows = 2
    Widths = {2, 3}
    MaxLines = 6
    MaxRetained = 3
    Prefetch = 1
    MaxMail = 2
    MaxSteps = 3
    Screens <- MCScreens
    CopyColumns = 4
    NoPoint = none
SPECIFICATION MCSpec
VIEW MCShape
INVARIANTS
    RowsAreDrawn
    ReplicasFollow
    CopiesWhatIsShown
CHECK_DEADLOCK FALSE
