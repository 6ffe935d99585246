SPECIFICATION Spec
CONSTANTS
    Programs <- MCPrograms
    SlotCount = 32
    Slack = 16
    LoopSlots = 16
    Tier1Calls = 2
    OsrEdges = 2
    CallPenalty = 1
    EdgePenalty = 1
    MinCode = 4
    PicSize = 2
    MaxDepth = 1
    MaxCount = 3
INVARIANTS
    EntersTheRightCode
    NothingDangles
CHECK_DEADLOCK FALSE
