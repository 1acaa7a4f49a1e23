CONSTANTS
    Level = 3
    Tops = 2
    Size <- MCSize
SPECIFICATION Spec
INVARIANTS TypeOK Disjoint Covered Coalesced
