SPECIFICATION Spec
CONSTANTS
    Values = {a, b}
    Default = default
    Torn = torn
    Missing = missing
    MaxEdits = 2
PROPERTY HotReload
CHECK_DEADLOCK FALSE
