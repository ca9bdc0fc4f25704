SPECIFICATION FairAppendSpec
CONSTANTS
    a1 = a1
    a2 = a2
    a3 = a3
    a4 = a4
    a5 = a5
    Calls <- MCCalls
    MaxTurns = 2
    MaxSeqno = 3
    OrderlyStart = TRUE
INVARIANTS InOrderOnce NothingDiscarded
PROPERTIES NobodyStarves
CHECK_DEADLOCK FALSE
