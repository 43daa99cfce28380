SPECIFICATION FairStreamSpec
CONSTANTS
    None = None
    Events = {"e1", "e2", "e3"}
    Projects = {"p", "q"}
    Project <- MCProject
    Conns = {"k1"}
    ReplayLimit = 1
    TicketTtl = 0
    MaxClock = 1
    MaxHiccups = 1
INVARIANTS
    StreamTypeOK
    MissedOnlyIfOvertaken
PROPERTIES
    EventsArrive
    RevokedStreamsEnd
CHECK_DEADLOCK FALSE
