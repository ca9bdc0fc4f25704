SPECIFICATION Spec
CONSTANTS
    Channels <- MCChannels
    MaxTurns = 3
    MaxPasses = 2
    MaxTries = 2
    MaxCalls = 2
    Images = {"none", "alone", "with"}
    Quirks = {}
INVARIANTS CallsPairWithResults SaidReachesTheModel ThinkingIsGenuine
PROPERTY CachedPrefixIsResent
CHECK_DEADLOCK FALSE
