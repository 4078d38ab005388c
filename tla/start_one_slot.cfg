SPECIFICATION Spec
CONSTANTS
    Projects <- OneProject
    Project = "alpha"
    Workspaces = {w1}
    Issues = {i1, i2}
    Jobs = {l1, l2}
    None = None
    LateThreads = {}
SYMMETRY StartSymmetry
INVARIANTS
    TypeOK
    QuietSlotRunsItsTree
    ActiveCardWasDelivered
