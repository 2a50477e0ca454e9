SPECIFICATION ProtocolSpec
CONSTANTS
    Undefined = Undefined
    Messages <- MCMessages
    Names <- MCNames
    TagTexts <- MCTagTexts
    Routes <- MCRoutes
    Stacks <- MCStacks
    Breadcrumbs <- MCBreadcrumbs
    Apis <- MCApis
    Labels <- MCLabels
    AllowedTags = {"feature", "tenant"}
    ForeignEnvelopes <- MCForeignEnvelopes
    MaxCalls = 2
INVARIANTS
    SecretsAreMasked
    SentIsStored
