CONSTANTS
    j1 = j1
    r1 = r1
    r2 = r2
    r3 = r3
    NoRun = NoRun
    Jobs <- MCJobs
    Runs <- ThreeRuns
    JobOf <- MCJobOf
    Subscribed <- MCSubscribed
    Outcomes <- OneOutcome
    MaxAccepted = 1
    MaxFaults = 1
SPECIFICATION SupersedeSpec
SYMMETRY Triggers
CONSTRAINT NotCancelled
INVARIANTS
    SupersededLeavesNoResult
CHECK_DEADLOCK FALSE
