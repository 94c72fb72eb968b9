SPECIFICATION MCSpec
CONSTANTS
    Workers = {w1, w2}
    Main = main
    PipeCapacity = 2
    ReadChunk = 1
    MaxCalls = 2
    Wallpapers <- ThreeWallpapers
    MaxFrames = 3
    Dirs <- TwoDirs
    Broken = {"x"}
    MaxScans = 3
    MaxInFlight = 2
    Monitors = {"m1", "m2"}
    Texts = {"a", "b"}
    Timeouts = {1}
    MaxId = 2
    MaxMessages = 2
    MaxChanges = 2
    Connectors = {"o1", "o2", "o3"}
    Panels = {"p1", "p2"}
    MaxPlugs = 3
    MaxDones = 1
    Settings <- TwoTimeouts
    Far = 3
    MaxIdleEvents = 2
    Looks = {1, 2}
    Sizes <- TwoSizes
    MaxWindowEvents = 4
INVARIANTS
    TypesOK
    NoLostWakeup
    PicturesShown
    ThreadsOwnTheirWork
    FreshIdIsFree
    CardsFollowRecords
    MonitorsOnce
PROPERTIES
    RunsInOrder
    ScreensWait
CHECK_DEADLOCK FALSE
