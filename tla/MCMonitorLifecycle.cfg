SPECIFICATION Spec
CONSTANTS
    Outputs = {o1, o2}
    Panels = {p1}
    MaxPlugs = 2
    MaxDones = 1
    Hasty = TRUE
INVARIANT CreatedOnce
CHECK_DEADLOCK FALSE
