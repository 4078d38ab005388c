SPECIFICATION Spec
CONSTANTS
    Tracked = {m1}
    Directives = {}
    Channels = {"polling"}
    DispatchBound = 1
    FaultBound = 0
    None = None
INVARIANT CursorIsNextUnread
CHECK_DEADLOCK FALSE
