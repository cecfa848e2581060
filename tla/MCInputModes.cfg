\* One client and the control socket.
CONSTANTS
    p1 = p1
    p2 = p2
    p3 = p3
    Clients = {c1}
    Control = control
    Panes = {p1, p2, p3}
    TabOf <- MCTabOf
    NoPane = none
    Texts = {x, y, z}
    NoText = notext
    Lines = {"reload-config"}
    Table <- MCTable
    MaxBuffers = 2
    MaxBusy = 2
    MaxPast = 1
SPECIFICATION Spec
SYMMETRY MCAlike
VIEW MCShape
INVARIANTS
    EscapeCloses
    ProgramReadsLast
    FoundIsThere
CHECK_DEADLOCK FALSE
