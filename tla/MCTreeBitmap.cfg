CONSTANTS
    KeyLength = 6
    INITIAL_BITS = 3
    STRIDE = 2
    NULL = NULL
    Route <- MCRoute
SPECIFICATION Spec
INVARIANTS TypeOK BlocksExact AuxIsRib EntriesFollowRib SearchIsLongestMatch LazyAgrees
PROPERTY DestroyedOnce
