SPECIFICATION Spec
CONSTANTS
    k1 = k1
    k2 = k2
    k3 = k3
    v1 = v1
    v2 = v2
    Keys <- MCKeys
    Values <- MCValues
    NoValue = NoValue
    Hash <- MCHash
    InitCaps <- MCInitCaps
    AllocLimit = 7
INVARIANTS
    TypeOK
    PairsAreReachable
    RoomUnlessRemoved
    NextPrimeIsNext
PROPERTIES
    ImplementsMap
    SetIsFound
SYMMETRY Symmetry
CHECK_DEADLOCK FALSE
