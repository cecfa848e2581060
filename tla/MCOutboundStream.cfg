\* A focused and a passive pane, screens of one or two rows.
CONSTANTS
    a = a
    b = b
    tabs = tabs
    state = state
    Focused = focused
    Passive = {passive}
    Slots = {tabs, state}
    TabList = tabs
    Payloads <- MCPayloads
    Sizes <- MCSizes
    Glyphs = {a, b}
    Screens <- MCScreens
    MaxUnderWay = 2
    Nowhere = Nowhere
    MaxKeys = 2
    MaxSizes = 2
    MaxActs = 2
    MaxFaults = 2
SPECIFICATION MCSpec
INVARIANTS
    TypeOK
    LocalConverged
    ControlConverged
    RepliesInOrder
    KeysArrive
    WindowIsLive
