SPECIFICATION MCSpec
CONSTANTS
    Outputs = {o1, o2, o3}
    NoOutput = NoOutput
    EglMayFail = TRUE
    BarPanels = {"wifi", "volume", "clock"}
    Overlays = {"dashboard"}
    MaxActs = 4
    NamedMonitors = {"m1"}
    FieldTexts = {"10", "20"}
    ButtonCount = 3
    Found <- SomeFound
    MaxOpens = 2
    MaxStrokes = 5
    NMonitors = 2
    Windows = {"w1", "w2"}
    PerMonitor = 2
    MaxMoves = 1
    MaxOrders = 2
    Bound = 1
INVARIANTS
    TypesOK
    FadeIsDriven
    KeyboardFollowsOpen
    SurfacesSettle
    InputsLand
    OverviewSettles
PROPERTY ChangesConclude
CHECK_DEADLOCK FALSE
