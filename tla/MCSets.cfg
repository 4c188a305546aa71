SPECIFICATION MCSpec
CONSTANTS
    Tid = {t1, t2}
    TreeNode = {n1, n2, n3, n4}
    Node <- ListNode
    MaxKey = 2
    MaxVersion = 3
    NULL = NULL
    NONE = NONE
    Head = Head
    Tail = Tail
    Root = Root
    MinLeaf = MinLeaf
    MaxLeaf = MaxLeaf
SYMMETRY Symmetry
INVARIANTS MCTypeOK MCOrdered MCTidy MCNoUseAfterFree
PROPERTIES MCLinearizable MCReclamation
