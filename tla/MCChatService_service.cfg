SPECIFICATION ChatSpec
CONSTANTS
    boot = boot
    own = own
    other = other
    Keys = {boot, own, other}
    Bootstrap = boot
    Rpm = 2
    Minute = 2
    Found = 1
    Extractions <- MCExtractions
    Attempts = 2
    Requests = {r1, r2, r3}
    Deployments <- MCDeployments
    NewKeys <- MCNewKeys
SYMMETRY Symmetry
INVARIANTS
    RateLimitIsExact
    GuardedEndpointsKeepOut
    MemoryIsWhole
    NotifiedIsPosted
    OneOutcome
CHECK_DEADLOCK FALSE
