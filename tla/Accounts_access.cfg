SPECIFICATION Spec
CONSTANTS
    vera = vera
    lee = lee
    code1 = code1
    None = None
    Requests = {q1, q2, q3}
    Browsers = {ada, bob}
    Veterans <- MCVeterans
    Legacies <- MCLegacies
    Ips <- MCIps
    IpOf <- MCIpOf
    RecoveryCodes <- MCRecoveryCodes
    SetupTTL = 1
    BootstrapTTL = 1
    FreshTTL = 0
    IdleTTL = 0
    TouchAfter = 0
    SessionTTL = 1
    RateWindow = 2
    RateLimit = 2
    MaxNow = 1
    MaxPrepares = 1
    MaxEra = 1
SYMMETRY MCSymmetry
CHECK_DEADLOCK FALSE
INVARIANTS
    CodesUsedOnce
    SetupOnce
    EnrollmentEnds
    SessionsSeeCurrentAccess
    AttemptsBounded
