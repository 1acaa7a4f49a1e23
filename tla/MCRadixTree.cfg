CONSTANTS
    KeyLength = 3
    Prefix <- MCPrefix
    Data = {x1, x2}
    NULL = NULL
SPECIFICATION Spec
INVARIANTS TypeOK LookupIsLongestMatch Linked ShrinkIsRecursive
PROPERTIES DeleteShrinks ImplementsRouteMap
