CONSTANTS
    Lanes = {l1}
    None = none
    Sizes = {1}
    Attempts = 2
    RetainedLimit = 2
    LaneLimit = 1
    MaxLanes = 1
    MaxBatches = 3
    MaxEpoch = 3
    MaxFaults = 1
    MaxCrashes = 1
SPECIFICATION Spec
INVARIANT LogReplays
CHECK_DEADLOCK FALSE
