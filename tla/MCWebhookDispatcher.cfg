CONSTANTS
    d1 = d1
    w1 = w1
    w2 = w2
    Nobody = Nobody
    Deliveries <- OneDelivery
    Workers <- TwoWorkers
    MaxAttempts = 3
    BatchSize = 1
    MaxFaults = 3
SPECIFICATION FairSpec
INVARIANTS
    DispatcherInv
    AttemptBudget
PROPERTIES
    SettledIsFinal
    PendingSettles
CHECK_DEADLOCK FALSE
