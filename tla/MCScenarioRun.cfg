SPECIFICATION FairSpec
CONSTANTS
    token = token
    cart = cart
    Keys <- MCKeys
    U64Max = 1000
    Concurrency = 2
    Total = 2
    Scenarios <- MCScenarios
    Limited = TRUE
    TemplateMayFail = TRUE
INVARIANTS
    FreshCaptures
    IterationShape
    SkipsHaveCause
    WholeIterations
    OneLateRequest
PROPERTIES
    Ends
