\* Two rows of four columns, each of one of six shapes.
CONSTANTS
    Screens <- MCScreens
    Columns = 4
    NoPoint = none
SPECIFICATION Spec
INVARIANTS
    MotionsReturn
CHECK_DEADLOCK FALSE
