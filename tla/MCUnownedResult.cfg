CONSTANTS
    j1 = j1
    r1 = r1
    r2 = r2
    r3 = r3
    NoRun = NoRun
    Jobs <- MCJobs
    Runs <- OneRun
    JobOf <- MCJobOf
    Subscribed <- MCSubscribed
    Outcomes <- AllOutcomes
    MaxAccepted = 1
    MaxFaults = 0
SPECIFICATION Spec
INVARIANT
    UnownedResultRemoved
CHECK_DEADLOCK FALSE
