\* What the ownership of the pane promises.
CONSTANTS
    Sizes = {small, large}
    SomeSize = small
    PtyRoom = 1
    MaxOutput = 2
    MaxCommands = 2
SPECIFICATION Spec
INVARIANT ClosesOnlyItsOwn
CHECK_DEADLOCK FALSE
