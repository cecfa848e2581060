\* Any leaf id may come in a FocusSurface command, any spawn may fail.
CONSTANTS
    MaxPanes = 3
    MaxTabs = 3
    MaxTabId = 3
    MaxLeafId = 1
    Layouts <- MCLayouts
    TrustedIndices = FALSE
    CreateMayFail = TRUE
    Width = 1200
    Height = 800
    TilePanes = 4
    MaxChanges = 4
    MaxShape = 7
    Points <- MCPoints
    CellSteps <- MCSteps
    RemoteRatios = {300, 2000}
SPECIFICATION MCSpec
VIEW MCShape
INVARIANTS
    TypeOK
    TabIdsIncreasing
    PanesUnique
    LeavesLive
    NothingLost
    PanesTile
PROPERTIES
    ActiveTabStable
    ExitFreesOnlyThatPane
    LayoutKeepsFocus
