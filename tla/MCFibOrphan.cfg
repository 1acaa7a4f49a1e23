CONSTANTS
    KeyLength = 4
    Prefix <- MCPrefix
    NextHop = {h1, h2}
    NULL = NULL
    FibSize = 3
    MaxRefs = 5
SPECIFICATION Spec
INVARIANTS NoOrphanReference
