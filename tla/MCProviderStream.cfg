CONSTANTS
    Protocols = {"chat", "responses", "anthropic"}
    MaxCalls = 2
    Budget = 8
    Previewed = {2}
    Quirks = {}
SPECIFICATION AnswerSpec
INVARIANTS NoSilentSuccess AnswerArrivesWhole
PROPERTIES PassEnds
CHECK_DEADLOCK FALSE
