\* The program reads and writes as it likes.
CONSTANTS
    Sizes = {small, large}
    SomeSize = small
    PtyRoom = 1
    MaxOutput = 2
    MaxCommands = 2
SPECIFICATION Spec
INVARIANTS
    UnseenMeansWoken
    ExitComesLast
    SettledSnapshot
PROPERTY MainReturns
CHECK_DEADLOCK FALSE
