CONSTANTS
    KeyLength = 4
    Prefix <- SixPrefix
    h1 = h1
    h2 = h2
    NextHop = {h1, h2}
    NULL = NULL
    FibSize = 3
    MaxRefs = 3
    S = 2
    K = 1
    Sz1 = 4
    Sz0 = 5
    RightOf <- SetIntBit
    Calls <- SixCalls
    GoesOn = TRUE
SPECIFICATION PoptrieSpec
INVARIANT LookupIsLongestMatch
CHECK_DEADLOCK FALSE
