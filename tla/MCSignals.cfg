SPECIFICATION MCSpec
CONSTANTS
    NumProcess = 2
    Node = {n1, n2, n3, n4}
    Cell = {c1}
    NULL = NULL
    NONE = NONE
    SlotsPerThread = 1
    EmptyFreq = 2
    LoFreqs = {1}
    PromptDelivery = TRUE
    MaxTS = 4
SYMMETRY Symmetry
CHECK_DEADLOCK FALSE
INVARIANTS MCTypeOK   BoundedGarbage MCLimitAtEntry
PROPERTY Reclamation
