SPECIFICATION FairSpec
CONSTANTS
    Tracked = {m1}
    Directives = {d1}
    Channels = {"hooks", "polling"}
    DispatchBound = 2
    FaultBound = 2
    None = None
INVARIANT TypeOK
PROPERTIES
    ReceiptsAreHonest
    NothingIsDrainedUnread
    ArmedTimerIsAnswered
CHECK_DEADLOCK FALSE
