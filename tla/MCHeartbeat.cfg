CONSTANTS
    o1 = o1
    o2 = o2
    o3 = o3
    p1 = p1
    p2 = p2
    NoOwner = NoOwner
    NoPrompt = NoPrompt
    Owners = {o1}
    Heartbeating = {o1}
    Prompts = {p1}
    TaskLeaseDuration = 2
    LeaseDuration = 2
    ToolsPerTurn = 0
    MaxClock = 4
    MaxAttempts = 1
    MaxSeq = 0
    MaxFaults = 1
SPECIFICATION FairSpec
INVARIANTS CancelOnlyWhenLostOrMasked
PROPERTIES LostRunStops LostOwnerReconciled
CHECK_DEADLOCK FALSE
