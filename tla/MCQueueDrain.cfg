SPECIFICATION FairSpec
CONSTANTS
    Inputs = {a}
    a = a
    Clients = {c}
    c = c
    NoInput = NoInput
    Capacity = 2
    Backgroundable = FALSE
    Holding = TRUE
    Unreadable = TRUE
    MaxCommands = 3
    MaxFaults = 1
    MaxCrashes = 1
INVARIANTS
    SteerKept
PROPERTIES
    StaleStartRefused
    QueueDrains
