SPECIFICATION Spec
CONSTANTS
    Queries = {a, b}
    Nothing = nothing
    MaxInputs = 5
INVARIANTS
    TypeOK
    ResultsOneQuery
    NoOrphanSearch
    SettledShowsText
PROPERTIES
    TypingSettles
CHECK_DEADLOCK FALSE
