CONSTANTS
    Launchers = {c1, c2}
    MaxServers = 3
    MaxLaunches = 2
    MaxMishaps = 1
    Hosts <- MCHosts
    OldServers <- MCOldServers
SPECIFICATION Spec
PROPERTY QuitStopsServer
SYMMETRY MCSymmetry
CHECK_DEADLOCK FALSE
