SPECIFICATION Spec
CONSTANTS
    Programs <- AliasPrograms
    SlotCount = 128
    Slack = 16
    LoopSlots = 128
    Tier1Calls = 50
    OsrEdges = 200
    CallPenalty = 100
    EdgePenalty = 1000
    MinCode = 4
    PicSize = 4
    MaxDepth = 1
    MaxCount = 3
INVARIANTS
    EntersTheRightCode
CHECK_DEADLOCK FALSE
