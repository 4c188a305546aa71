SPECIFICATION MCSpec
CONSTANTS
    Tid = {t1, t2}
    DEGREE = 3
    MaxKey = 11
    MaxNode = 24
    NONE = NONE
    Prefills = {8}
    WorkKeys = {1, 2, 3}
    MaxCalls = 3
SYMMETRY Symmetry
CHECK_DEADLOCK FALSE
INVARIANT ParentHasSiblings
