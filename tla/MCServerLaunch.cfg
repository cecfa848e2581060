CONSTANTS
    Launchers = {c1, c2}
    MaxServers = 3
    MaxLaunches = 3
    MaxMishaps = 1
    Hosts <- MCHosts
    OldServers <- MCOldServers
SPECIFICATION Spec
INVARIANTS
    LaunchesAgree
CONSTRAINT MCConstraint
SYMMETRY MCSymmetry
CHECK_DEADLOCK FALSE
