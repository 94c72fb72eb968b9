SPECIFICATION MCSpec
CONSTANTS
    Values = {a, b, c}
    Default = default
    Torn = torn
    Missing = missing
    MaxEdits = 6
    Adapters = {1, 2}
    Devices = {"d1"}
    MaxChanges = 2
    MaxClicks = 2
    MaxTraffic = 2
    Players = {"p1", "p2"}
    MaxOwners = 2
    MaxToggles = 1
    Clients = {"c1", "c2"}
    MaxLayout = 2
    MaxMenuClicks = 3
    Sinks = {"a", "b"}
    Sources = {"m"}
    Streams = {"app"}
    MaxIds = 2
    MaxTurns = 3
    MaxInputs = 1
    SystemBatteries = {"bat"}
    Peripherals = {"mouse"}
    MaxPowerChanges = 2
    Surfaces = {"f1", "f2"}
    NoSurface = "none"
    MaxFocusMoves = 6
    MaxImeEdits = 1
INVARIANTS
    TypesOK
    SavedIsApplied
    WatchFollowsPath
    CachesFollow
    RequestsConclude
PROPERTY ReportedIsLoaded
CHECK_DEADLOCK FALSE
