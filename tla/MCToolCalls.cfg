SPECIFICATION Spec
CONSTANTS
    Keeps <- MCKeeps
    MaxFiles = 2
    Provider = "bing"
    HasKey = FALSE
    Mixes <- MCMixes
    Replays <- MCReplays
    Lengths = {0, 2, 7}
    Lists <- MCLists
    MaxTurns = 2
    StartModes = {"agent", "plan", "debug"}
INVARIANTS AnswersAreTold ReplayFitsAndTells
PROPERTIES ActiveTodosKept
CHECK_DEADLOCK FALSE
