SPECIFICATION GroupingSpec
CONSTANTS
    fa = fa
    fb = fb
    prod = prod
    r1 = r1
    none = none
    all = all
    None = None
    NoFrames = NoFrames
    NoMaps = none
    ErrorEvents <- MCTwoEvents
    Fingerprints <- MCTwoFingerprints
    Envs <- MCEnvs
    Releases <- MCReleases
    Env <- MCSameEnv
    Release <- MCSameRelease
    Compiled <- MCSameCompiled
    MapStates <- MCMapStates
    Mapped <- MCSplitting
    Reprocessors = {p1, p2}
    EventTTL = 0
    HistoryTTL = 0
    MaxNow = 1
    MaxVersion = 1
    Shown <- MCShown
SYMMETRY MCSymmetry
CHECK_DEADLOCK FALSE
INVARIANTS
    CountsMatchEvents
    HistorySpansEvents
    GroupSpansEvents
PROPERTIES
    StatusFollowsEventsAndUsers
