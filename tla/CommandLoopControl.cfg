\* Two connections of the control socket, or one with two requests in a row.
CONSTANTS
    ControlThreads = {k1, k2}
    LocalThreads = {l1}
    RemoteThreads = {r1}
    Panes = {}
    LocalBudget = 1
    RemoteBudget = 1
    FontFiles = FALSE
SPECIFICATION Spec
INVARIANT ControlAttended
