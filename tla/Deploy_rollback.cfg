SPECIFICATION UnattendedSpec
CONSTANTS
    ra = ra
    rb = rb
    rc = rc
    None = None
    Legacy = Legacy
    Alpine = Alpine
    Releases <- MCReleases
    SchemaOf <- MCSchemaOf
    Supports <- MCSupports
    RuntimeOf <- MCOneRuntime
    MaxWrites = 2
CHECK_DEADLOCK FALSE
INVARIANTS
    RollbackOnSupportedSchema
