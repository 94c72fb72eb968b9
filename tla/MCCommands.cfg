SPECIFICATION MCSpec
CONSTANTS
    Handles = {h1}
    Jobs = {old, fresh}
    Truncated = truncated
    Empty = empty
    MaxGeneration = 5
    Networks = {1, 2}
    StartWorlds <- FirstSaved
    MaxInputs = 2
    MaxFaults = 1
INVARIANTS
    TypesOK
    ResultIsCurrent
    CurrentWorkerOwnsHandle
    CancelledIsKilled
    WifiOffIsEmpty
    NothingStuck
PROPERTIES
    RequestsConclude
    ImplementsJobHandle
CHECK_DEADLOCK FALSE
