CONSTANTS
    o1 = o1
    o2 = o2
    o3 = o3
    p1 = p1
    p2 = p2
    NoOwner = NoOwner
    NoPrompt = NoPrompt
    Owners = {o1, o2, o3}
    Heartbeating = {}
    Prompts = {p1, p2}
    TaskLeaseDuration = 2
    LeaseDuration = 2
    ToolsPerTurn = 0
    MaxClock = 2
    MaxAttempts = 3
    MaxSeq = 0
    MaxFaults = 0
SYMMETRY Symmetry
SPECIFICATION Spec
INVARIANTS TypeOK AttemptExecutedOnce
PROPERTIES SettledAttemptKept PromptOpensOneAttempt ImplementsLineage
CHECK_DEADLOCK FALSE
