CONSTANTS
    Worker = w1
    Recoverers = {w2}
    Host = host
    NoOwner = nobody
    PageSize = 1
    MaxLog = 3
    MaxEpoch = 3
    MaxEvents = 2
    MaxFaults = 1
    MaxCrashes = 1
SPECIFICATION FairSpec
INVARIANTS LogScans DeliveredInOrder OutcomesAgree ClosedDelivered
PROPERTIES NothingAfterEnd ChildSettles FramesDelivered
CHECK_DEADLOCK FALSE
