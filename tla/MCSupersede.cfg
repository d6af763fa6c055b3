CONSTANTS
    j1 = j1
    r1 = r1
    r2 = r2
    r3 = r3
    c1 = c1
    c2 = c2
    NoRun = NoRun
    NoConfig = NoConfig
    Jobs <- MCJobs
    Runs <- ThreeRuns
    JobOf <- MCJobOf
    Subscribed <- MCSubscribed
    Triggers <- Both
    Configs <- OneConfig
    MaxAccepted = 1
    MaxFaults = 0
SPECIFICATION Spec
PROPERTY
    AcceptedRunNotSuperseded
CHECK_DEADLOCK FALSE
