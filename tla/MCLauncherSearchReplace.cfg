SPECIFICATION Spec
CONSTANTS
    Queries = {a, b}
    Nothing = nothing
    MaxInputs = 4
PROPERTY ReplacesOnlyTheDead
CHECK_DEADLOCK FALSE
