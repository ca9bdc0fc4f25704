SPECIFICATION FairSpec
CONSTANTS
    r1 = r1
    r2 = r2
    Readers <- MCReaders
    BacklogCap = 3
    MaxEvents = 3
    MaxStreams = 2
    MaxVerdicts = 2
INVARIANTS NothingSkipped
PROPERTIES ClosedStreamsAreRemoved ReaderHearsTheEnd
CHECK_DEADLOCK FALSE
