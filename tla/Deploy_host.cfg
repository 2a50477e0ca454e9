SPECIFICATION Spec
CONSTANTS
    ra = ra
    rb = rb
    rc = rc
    None = None
    Legacy = Legacy
    Alpine = Alpine
    Releases <- MCReleases
    SchemaOf <- MCSchemaOf
    Supports <- MCSupports
    RuntimeOf <- MCMovingRuntime
    MaxWrites = 2
CHECK_DEADLOCK FALSE
INVARIANTS
    AcceptedWritesSurvive
    NoJournalMeansSettled
    OwnerCanBeCreated
