\* A reader may send again while the server drains: a budget of one is exceeded.
CONSTANTS
    ControlThreads = {k1}
    LocalThreads = {l1}
    RemoteThreads = {r1, r2}
    Panes = {p1}
    LocalBudget = 1
    RemoteBudget = 1
    FontFiles = TRUE
SPECIFICATION Spec
INVARIANT NoLostWakeup
PROPERTY WorkIsServed
