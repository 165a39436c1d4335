SPECIFICATION FairSpec
CONSTANTS
    Child <- MCChild
    Detached <- MCDetached
    Limit = 7
    Capacity = 1
    MaxSiblings = 2
    MaxCrashes = 2
    CrashInStop = FALSE
INVARIANTS
    NeverOverspent BilledOnce AccountedIsJournaled GrantFits
PROPERTIES ReceiptFinal StopEnds
CHECK_DEADLOCK FALSE
