SPECIFICATION MCSpec
CONSTANTS
    Tid = {t1, t2}
    DEGREE = 3
    MaxKey = 10
    MaxNode = 24
    NONE = NONE
    Prefills = {3, 7, 8}
    WorkKeys = {1, 2}
    MaxCalls = 3
SYMMETRY Symmetry
CHECK_DEADLOCK FALSE
INVARIANTS TypeOK SearchTree RetiredIsRemoved Settled
PROPERTY Linearizable
