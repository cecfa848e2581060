SPECIFICATION MCSpec
CONSTANTS
    Clients = {c1, c2}
    Locals = {c1, c2}
    MaxPanes = 3
    MaxTabs = 2
    MaxTabId = 2
    MaxLive = 2
INVARIANTS
    FocusIsVisible
VIEW Shape
SYMMETRY Symmetry
PROPERTIES
    ViewsAreTheirOwners
    CloseRepairsViews
    TypingRecovers
    InputReachesOwnPane
CHECK_DEADLOCK FALSE
