CONSTANTS
    r1 = r1
    r2 = r2
    Runs <- TwoRuns
    PriorityOf <- MCPriorityOf
    MaxJobs = 1
    OrphanLimit = 1
    Cancellable <- OnlyLow
    Watched = "low"
    MaxFaults = 1
SPECIFICATION FairSpec
INVARIANTS
    QueueInv
    BoundedBypass
    StopLeavesNoTask
    CancelledIsQuiet
PROPERTIES
    DeliverySpec
    QueuedIsServed
CHECK_DEADLOCK FALSE
