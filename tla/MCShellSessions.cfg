SPECIFICATION Spec
CONSTANTS
    Shells = {a}
    MaxChunks = 4
    MaxInbox = 4
    BufferCap = 2
    OutputLimit = 1
    Vias = {"stream", "file"}
INVARIANTS ShownOnceInOrder EndIsKnownOnce
PROPERTIES ShellsAreAnswered
CHECK_DEADLOCK FALSE
