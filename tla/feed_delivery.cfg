SPECIFICATION FairSpec
CONSTANTS
    Followers = {f1, f2}
    Ackers = {a1}
    MaxRedeliveries = 1
    LineBound = 2
    FaultBound = 1
    None = None
INVARIANTS
    TypeOK
    OneFollower
PROPERTIES
    DeliversAtLeastOnce
    EveryLineIsHandedOver
CHECK_DEADLOCK FALSE
