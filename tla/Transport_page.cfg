SPECIFICATION Spec
CONSTANTS
    s1 = s1
    s2 = s2
    s3 = s3
    whole = whole
    ip = ip
    proj = proj
    None = None
    Keys <- MCKeys
    Rate <- MCRate
    Burst <- MCBurst
    Cap = 2
    Idle = 2
    MaxClock = 3
    MaxNow = 3
    Slots <- MCSlots
    Installation = whole
    Address = ip
    Project = proj
    MaxPending = 2
    Timeout = 1
    MinWait = 1
    MaxWait = 2
    DefaultWait = 2
    Headers <- MCHeaders
    Malformed <- MCMalformed
    MaxClosers = 2
SYMMETRY MCSymmetry
CHECK_DEADLOCK FALSE
INVARIANTS
    ClosedIsSilent
    GrantedWithinRate
PROPERTIES
    BackoffRespected
