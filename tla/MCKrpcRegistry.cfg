SPECIFICATION Spec
CONSTANTS
    p1 = p1
    p2 = p2
    c1 = c1
    Providers <- TwoProviders
    Methods <- OneMethod
    MaxProcs = 2
    Clients <- OneClient
    MaxLookups = 2
    Crashes = TRUE
    Flaky = TRUE
CHECK_DEADLOCK FALSE
INVARIANTS
    ExitExplained
    ServingIsListed
PROPERTIES
    LookupReturns
