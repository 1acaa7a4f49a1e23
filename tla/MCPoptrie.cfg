CONSTANTS
    KeyLength = 6
    Prefix <- MixedPrefix
    h1 = h1
    h2 = h2
    NextHop = {h1, h2}
    NULL = NULL
    FibSize = 3
    MaxRefs = 3
    S = 1
    K = 2
    Sz1 = 3
    Sz0 = 3
    RightOf <- SetBit
    Calls <- MixedCalls
    GoesOn = FALSE
SPECIFICATION PoptrieSpec
INVARIANTS PoptrieTypeOK LookupRightUnlessParted MemoryExact OwnedOnce
PROPERTY FailedUpdateChangesNothing
CHECK_DEADLOCK FALSE
