CONSTANTS
    o1 = o1
    o2 = o2
    o3 = o3
    p1 = p1
    p2 = p2
    NoOwner = NoOwner
    NoPrompt = NoPrompt
    Owners = {o1, o2}
    Heartbeating = {o1}
    Prompts = {p1, p2}
    TaskLeaseDuration = 1
    LeaseDuration = 1
    ToolsPerTurn = 1
    MaxClock = 1
    MaxAttempts = 2
    MaxSeq = 1
    MaxFaults = 1
SYMMETRY Symmetry
SPECIFICATION Spec
INVARIANTS NeverRejected UnknownEffectsSurviveCrash
PROPERTIES LiveLeaseKept CheckpointsChain
CHECK_DEADLOCK FALSE
