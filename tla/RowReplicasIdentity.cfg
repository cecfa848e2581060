CONSTANTS
    Texts = {"a"}
    Rows = 2
    Widths = {2, 3}
    MaxLines = 6
    MaxRetained = 3
    Prefetch = 1
    MaxMail = 2
    MaxSteps = 4
SPECIFICATION Spec
INVARIANTS
    RowsKeepIdentity
CHECK_DEADLOCK FALSE
