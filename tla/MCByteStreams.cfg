CONSTANTS
    MaxPayload = 3
    MaxTail = 2
    MaxWords = 3
    Texts <- MCTexts
    MaxText = 3
    TabIds = {5}
    MaxTabs = 2
    MaxMessages = 2
    Refused = Refused
SPECIFICATION MCSpec
INVARIANTS
    OutputIsHeard
    FramesArrive
CHECK_DEADLOCK FALSE
