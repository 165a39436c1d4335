SPECIFICATION Spec
CONSTANTS
    Inputs = {a, b}
    a = a
    b = b
    Clients = {c}
    c = c
    NoInput = NoInput
    Capacity = 2
    Backgroundable = TRUE
    Holding = FALSE
    Unreadable = FALSE
    MaxCommands = 1
    MaxFaults = 1
    MaxCrashes = 2
SYMMETRY InputSymmetry
INVARIANTS
    RunsOnce
    FenceIsHead
    RunningHead
    AckedDurable
    RevisionIdentifies
PROPERTIES
    SteerOrder
