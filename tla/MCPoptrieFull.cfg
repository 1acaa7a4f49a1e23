CONSTANTS
    KeyLength = 4
    Prefix <- FullPrefix
    h1 = h1
    h2 = h2
    NextHop = {h1, h2}
    NULL = NULL
    FibSize = 3
    MaxRefs = 7
    S = 1
    K = 1
    Sz1 = 4
    Sz0 = 3
    RightOf <- SetBit
    Calls <- FullCalls
    GoesOn = TRUE
SPECIFICATION PoptrieSpec
INVARIANTS SuccessMeansUpdated
CHECK_DEADLOCK FALSE
