SPECIFICATION Spec
CONSTANTS
    Child <- MCChild
    Detached <- MCDetached
    Limit = 6
    Capacity = 1
    MaxSiblings = 2
    MaxCrashes = 0
    CrashInStop = FALSE
INVARIANTS
    SettledByOwnReceipt
CHECK_DEADLOCK FALSE
