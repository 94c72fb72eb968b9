SPECIFICATION Spec
CONSTANTS
    Monitors = {m1, m2}
    Settings <- MCSettings
    Far = 3
    MaxIdleEvents = 2
INVARIANT ClosureHasOwner
CHECK_DEADLOCK FALSE
