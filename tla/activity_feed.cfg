SPECIFICATION FeedSpec
CONSTANTS
    None = None
    Events = {"e1", "e2"}
    Projects = {"p", "q"}
    Project <- MCProject
    Conns = {k1, k2}
    ReplayLimit = 1
    TicketTtl = 0
    MaxClock = 0
    MaxHiccups = 0
    Loads = {l1, l2}
    MaxEvents = 2
    LoadLimit = 1
    MaxSelects = 1
SYMMETRY Alike
INVARIANTS
    FeedTypeOK
    ShowsSelectedUnlessMixed
    SomeChannel
CHECK_DEADLOCK FALSE
