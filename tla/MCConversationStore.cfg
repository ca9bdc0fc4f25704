CONSTANTS
    MaxTurn = 2
    MaxPasses = 2
    MaxCalls = 3
    MaxUpsets = 2
    ImageCalls = {2}
    Quirks = {}
SPECIFICATION Spec
INVARIANTS PromptIsValid  ReloadIsTruthful
CHECK_DEADLOCK FALSE
