SPECIFICATION ConfigSpec
CONSTANTS
    Adapters <- MCAdapters
    Refs = {"m", "auto"}
    Aliases = {"auto"}
    Builtin <- MCBuiltin
    Custom <- MCCustom
    Usages <- MCUsages
    Namespaces = {"bedrock"}
    Tags = {"2025", "v1"}
    Pricers = {"p1"}
    MaxWrites = 4
INVARIANTS  CurrentMatchesFile
PROPERTIES MultiplierSurvives
CHECK_DEADLOCK FALSE
