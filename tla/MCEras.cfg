SPECIFICATION Spec
CONSTANTS
    NumProcess = 2
    Node = {n1, n2}
    Cell = {c1}
    QNode = {m1, m2, m3}
    QCell = {d1, d2}
    NULL = NULL
    NONE = NONE
    SlotsPerThread = 1
    EmptyFreq = 1
    EpochFreq = 1
    MaxEpoch = 2
SYMMETRY Symmetry
CHECK_DEADLOCK FALSE
INVARIANTS
    TypeOK
    NoUseAfterFree
    OnePlace
    Covered
    SafeOnceQuiescent
PROPERTY Reclamation
