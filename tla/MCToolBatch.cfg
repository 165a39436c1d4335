CONSTANTS
    o1 = o1
    o2 = o2
    o3 = o3
    p1 = p1
    p2 = p2
    NoOwner = NoOwner
    NoPrompt = NoPrompt
    Owners = {o1, o2}
    Heartbeating = {}
    Prompts = {p1, p2}
    TaskLeaseDuration = 2
    LeaseDuration = 2
    ToolsPerTurn = 2
    MaxClock = 2
    MaxAttempts = 2
    MaxSeq = 1
    MaxFaults = 0
SYMMETRY Symmetry
SPECIFICATION Spec
INVARIANTS UnknownEffectsSurviveCrash
CHECK_DEADLOCK FALSE
