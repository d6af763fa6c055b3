CONSTANTS
    j1 = j1
    r1 = r1
    r2 = r2
    r3 = r3
    NoRun = NoRun
    Jobs <- MCJobs
    Runs <- OneRun
    JobOf <- MCJobOf
    Subscribed <- MCSubscribed
    Outcomes <- AllOutcomes
    MaxAccepted = 1
    MaxFaults = 2
SPECIFICATION Spec
INVARIANT
    OutcomeAnnounced
CHECK_DEADLOCK FALSE
