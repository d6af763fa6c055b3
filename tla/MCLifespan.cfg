CONSTANTS
    p1 = p1
    p2 = p2
    Nobody = Nobody
    Processes <- TwoProcesses
    MaxStarts = 4
SPECIFICATION FairSpec
INVARIANTS
    LockCoversWork
    ServicesOutliveUsers
PROPERTY
    ShutdownEnds
CHECK_DEADLOCK FALSE
