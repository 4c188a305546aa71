SPECIFICATION MCSpec
CONSTANTS
    NumProcess = 2
    Node = {n1, n2, n3}
    Cell = {c1}
    NULL = NULL
    SlotsPerThread = 2
    EmptyFreq = 2
    LoFreqs = {1}
    PromptDelivery = TRUE
    Patience = 1
    EpochFreq = 150
    MaxEpoch = 0
    MaxTS = 2
SYMMETRY Symmetry
CHECK_DEADLOCK FALSE
INVARIANT NoUseAfterFree
