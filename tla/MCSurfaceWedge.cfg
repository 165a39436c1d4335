CONSTANTS
    Lanes = {l1}
    None = none
    Sizes = {1}
    Attempts = 2
    RetainedLimit = 2
    LaneLimit = 1
    MaxLanes = 1
    MaxBatches = 3
    MaxEpoch = 4
    MaxFaults = 2
    MaxCrashes = 0
SPECIFICATION FairSpec
PROPERTY ChildSettles
CHECK_DEADLOCK FALSE
