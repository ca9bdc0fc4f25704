SPECIFICATION Spec
CONSTANTS
    Calls = {1, 2, 3}
    Needs <- MCNeeds
    NewEol <- MCNewEol
    Paths = {"f"}
    FileAt <- MCFileAt
    Windows = TRUE
    MaxTurns = 2
    Quirks = {}
INVARIANTS EditsBuildUp
PROPERTIES  EditsAreAnswered
CHECK_DEADLOCK FALSE
