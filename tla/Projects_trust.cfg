SPECIFICATION FairSpec
CONSTANTS
    p1 = p1
    p2 = p2
    s1 = s1
    b1 = b1
    b2 = b2
    home = home
    fork = fork
    ship = ship
    mr = mr
    forkmr = forkmr
    c1 = c1
    None = None
    Projects <- MCProjects
    Slugs <- MCSlugs
    Bindings <- MCBindings
    ProjectOf <- MCProjectOf
    Repository <- MCRepository
    Forks <- MCForks
    Jobs <- MCJobs
    Claims <- MCClaims
    Clients <- MCClients
    Recovery = 1
    Grace = 1
    TokenLife = 1
    KeyLimit = 3
    Batches = 1
    MaxNow = 1
    MaxKeys = 3
    MaxTokens = 1
    MaxUploads = 1
    MaxChanges = 3
CHECK_DEADLOCK FALSE
INVARIANTS
    RestoredIsWhole
    NothingAfterRevocation
    WrittenByTrusted
PROPERTIES
    GraceIsKept
    PurgeEnds
