CONSTANTS
    j1 = j1
    j2 = j2
    r1 = r1
    r2 = r2
    r3 = r3
    NoRun = NoRun
    Jobs <- MCJobs
    Runs <- MCRuns
    JobOf <- MCJobOf
    Subscribed <- MCSubscribed
    MaxAccepted = 1
SPECIFICATION StoreSpec
INVARIANTS
    StoreInv
    SingleOwner
    QueuedRunIsClaimable
    ParentAgreesWithRun
    AdmissionBound
PROPERTIES
    OutcomeIsFinal
    OwnerEndsWithRun
    CancelledStaysDown
CHECK_DEADLOCK FALSE
