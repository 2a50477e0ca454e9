SPECIFICATION Spec
CONSTANTS
    r1 = r1
    r2 = r2
    r3 = r3
    e1 = e1
    e2 = e2
    p1 = p1
    None = None
    Requests <- MCRequests
    Events <- MCEvents
    EventOf <- MCEventOf
    Projects <- MCProjects
    ProjectOf <- MCProjectOf
    Probes <- MCProbes
    Quota <- MCQuotaOne
    InstallationLimit = 2
    BacklogLimit = 2
    Burst = 1
    Rate = 1
    MaxNow = 1
    MaxDay = 1
SYMMETRY MCSymmetry
CHECK_DEADLOCK FALSE
INVARIANTS
    QuotaHolds
    BurstHolds
    StatisticsMatchRows
    ConfirmedEventsAreRows
