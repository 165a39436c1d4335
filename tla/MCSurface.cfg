CONSTANTS
    Lanes = {l1, l2}
    None = none
    Sizes = {1}
    Attempts = 2
    RetainedLimit = 2
    LaneLimit = 1
    MaxLanes = 1
    MaxBatches = 3
    MaxEpoch = 4
    MaxFaults = 2
    MaxCrashes = 1
SPECIFICATION FairSpec
INVARIANTS NothingMissed StateIsLog AckedSurvives
PROPERTIES PublishedSpec ControlCommits CaughtUp
CHECK_DEADLOCK FALSE
