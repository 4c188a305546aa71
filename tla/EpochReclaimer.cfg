SPECIFICATION FairSpec
CONSTANTS
    NumProcess = 2
    Node = {n1, n2}
    Cell = {c1, c2}
    NULL = NULL
    EmptyFreq = 2
    EpochFreq = 1
    MaxEpoch = 2
INVARIANTS
    TypeOK
    NoUseAfterFree
    OnePlace
    ReadersReserved
PROPERTIES
    Reclamation
    RetireReturns
