SPECIFICATION Spec
CONSTANTS
    Nowhere = Nowhere
    MaxKeys = 2
    MaxSizes = 2
    MaxActs = 2
    MaxFaults = 2
INVARIANT BootstrapShowsATab
CHECK_DEADLOCK FALSE
