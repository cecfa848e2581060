\* Everybody acts.
CONSTANTS
    p1 = p1
    p2 = p2
    p3 = p3
    Panes = {p1, p2}
    Contents = {x, y}
    None = none
    Garbled = garbled
    Peers = TRUE
    Commands = TRUE
    MaxRevision = 4
    MaxWire = 3
    FirstPanes <- MCFirst
    SecondPanes <- MCSecond
    Clients = {c1}
    MaxEvents = 4
SYMMETRY MCSymmetry
SPECIFICATION MCSpec
INVARIANTS
    TypeOK
    SettledUpToDate
    PolledIsShown
