SPECIFICATION Spec
CONSTANTS
    Projects = {p1, p2}
    MaxLen = 1
    Factor = 2
    LineBound = 5
    MayFail = TRUE
    None = None
SYMMETRY ProjectSymmetry
INVARIANTS
    TypeOK
    AlwaysRecoverable
    ReadsAreFaithful
    CursorsAreWithinLog
    LogIsBounded
PROPERTIES
    UnreadLinesHoldRotation
    KeepsLogicalPositions
CHECK_DEADLOCK FALSE
