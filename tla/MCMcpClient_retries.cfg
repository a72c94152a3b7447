\* Two concurrent calls with three attempts each, and a close at any time.
SPECIFICATION McpSpec
CONSTANTS
    Tools = {"refund", "coupon"}
    ServerTools = {"refund"}
    MaxRetries = 3
    MaxCalls = 2
INVARIANTS McpTypeOK OutcomeTellsWhatWasDone NoSpuriousNotFound
PROPERTY CallEnds
CHECK_DEADLOCK FALSE
