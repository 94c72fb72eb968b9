SPECIFICATION Spec
CONSTANTS
    Outputs = {o1, o2}
    Gated = {o2}
    MaxSessions = 2
    MaxAttempts = 2
    MaxPlugs = 3
INVARIANT StaleCallbackIgnored
CHECK_DEADLOCK FALSE
