CONSTANTS
    t1 = t1
    t2 = t2
    t3 = t3
    dA = dA
    dB = dB
    A = A
    q1 = q1
    q2 = q2
    B = B
    Targets <- ThreeTargets
    Domains <- TwoDomains
    DomainOf <- DomainOfTarget
    Runs <- TwoRuns
    RunOf <- RunOfTarget
    Browsers <- OneBrowser
    MaxFailures = 1
    MaxCircuits = 1
    MaxEntries = 1
    Concurrency = 2
    Slots = 1
    MaxAttempts <- AttemptsOfRun
    MaxPages <- PagesOfTarget
    OnEmptyRetry <- RetryEmpty
    MaxRequests = 4
    MaxRedirects = 1
    Routes <- TwoRoutes
    MaxLaunches <- LaunchesOfRun
SPECIFICATION Spec
INVARIANTS
    EngineInv
    OnePacerPerDomain
    PermitCoversBrowser
    BudgetCoversRequests
    LimiterNeverDeadlocks
SYMMETRY AlikeRoutes
CONSTRAINT OneByOne
CHECK_DEADLOCK FALSE
