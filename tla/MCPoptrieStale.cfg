CONSTANTS
    KeyLength = 4
    Prefix <- StalePrefix
    h1 = h1
    h2 = h2
    NextHop = {h1, h2}
    NULL = NULL
    FibSize = 3
    MaxRefs = 7
    S = 1
    K = 1
    Sz1 = 4
    Sz0 = 4
    RightOf <- SetBit
    Calls <- StaleCalls
    GoesOn = TRUE
SPECIFICATION PoptrieSpec
INVARIANTS LookupIsLongestMatch
