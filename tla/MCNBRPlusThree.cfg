SPECIFICATION ThreeSpec
CONSTANTS
    NumProcess = 3
    Node = {n1, n2, n3, n4, n5}
    Cell = {c1}
    NULL = NULL
    MaxSaved = 1
    Capacity = 1
    LoFreqs = {1}
    MaxTS = 4
SYMMETRY Symmetry
CHECK_DEADLOCK FALSE
INVARIANT NoUseAfterFree
