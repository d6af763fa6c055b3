CONSTANTS
    r1 = r1
    r2 = r2
    Runs <- TwoRuns
    MaxResults = 1
    BatchSize = 1
    Policies <- Dropping
    MaxSaves = 3
    MaxFaults = 1
CONSTRAINT ThirdSaveAlone
SPECIFICATION FairSpec
INVARIANTS
    ReportedIsReadable
PROPERTIES
    ActiveIsKept
    ArtifactsAreReclaimed
CHECK_DEADLOCK FALSE
