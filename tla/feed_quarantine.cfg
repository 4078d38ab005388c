SPECIFICATION Spec
CONSTANTS
    Followers = {f1}
    Ackers = {a1}
    MaxRedeliveries = 1
    LineBound = 2
    FaultBound = 0
    None = None
INVARIANT QuarantineSkipsDelivered
CHECK_DEADLOCK FALSE
