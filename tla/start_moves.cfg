SPECIFICATION FairSpec
CONSTANTS
    Projects <- OneProject
    Project = "alpha"
    Workspaces = {w1, w2}
    Issues = {i1}
    Jobs = {l1, l2}
    None = None
    LateThreads = {l1}
INVARIANTS
    ActiveCardWasDelivered
    RedispatchIsFresh
PROPERTIES
    StartAlwaysReturns
    StartsAreAtomic
