SPECIFICATION FairStreamSpec
CONSTANTS
    None = None
    Events = {"e1"}
    Projects = {"p", "q"}
    Project <- MCOneProject
    Conns = {"k1"}
    ReplayLimit = 2
    TicketTtl = 0
    MaxClock = 0
    MaxHiccups = 0
PROPERTIES
    LiveEventsArrive
CHECK_DEADLOCK FALSE
