SPECIFICATION NBRSpec
CONSTANTS
    Tid = {t1, t2}
    Node = {n1, n2}
    MaxKey = 2
    Root = Root
    Head = Head
    Tail = Tail
    NULL = NULL
    NONE = NONE
SYMMETRY Symmetry
CHECK_DEADLOCK FALSE
INVARIANT WritePhaseProtected
