SPECIFICATION FairSpec
CONSTANTS
    f1 = f1
    f2 = f2
    f3 = f3
    Null = Null
    Files <- MCFiles
    BatchOf <- MCBatchOf
    BatchCount = 2
    Attempts = 3
CHECK_DEADLOCK FALSE
INVARIANTS
    DeployedIsSafe
    ReportIsTrue
PROPERTIES
    JobEnds
