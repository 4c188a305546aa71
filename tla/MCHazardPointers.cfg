SPECIFICATION MCSpec
CONSTANTS
    NumProcess = 2
    Node = {n1, n2, n3, n4, n5}
    Cell = {c1, c2}
    NULL = NULL
    SlotsPerThread = 1
    EmptyFreq = 2
    MaxBuffer = 1
SYMMETRY Symmetry
INVARIANTS
    TypeOK
    NoUseAfterFree
    BoundedGarbage
PROPERTY Reclamation
