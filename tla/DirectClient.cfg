\* Two calls of a daemon with one tab or none, one thing done by others.
CONSTANTS
    MaxCalls = 2
    MaxTabs = 1
    MaxOthers = 1
    PaneCounts = {1, 2}
SPECIFICATION Spec
INVARIANTS
    CallsAreAnswered
PROPERTIES
    ServesTabs
CHECK_DEADLOCK FALSE
