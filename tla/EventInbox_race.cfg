SPECIFICATION FairSpec
CONSTANTS
    e1 = e1
    w1 = w1
    w2 = w2
    p1 = p1
    NoJob = NoJob
    Events <- MCEvents
    Workers <- MCWorkers
    Projects <- MCProjects
    ProjectOf <- MCProjectOf
    Probes <- MCProbes
    MaxAttempts = 2
    MaxAdmissions = 2
INVARIANTS
    SingleOwner
    EffectMatchesOutcome
PROPERTIES
    EventuallyDecided
    ImplementsDelivery
