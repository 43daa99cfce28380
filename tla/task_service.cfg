SPECIFICATION FairSpec
CONSTANTS
    t1 = t1
    t2 = t2
    t3 = t3
    fresh = fresh
    ana = ana
    ghost = ghost
    None = None
    Keep = Keep
    External = External
    Tasks = {t1, t2, t3, fresh, more}
    Seeded = {t1, t2, t3}
    o1 = o1
    o2 = o2
    original = original
    retry = retry
    rival = rival
    Ops = {o1, o2}
    Calls = {original, retry, rival}
    Bodies <- MCBodies
    Requests <- MCRequests
    Actors = {ana, ghost}
    Registered = {ana}
    Columns <- MCColumns
    DefaultColumn = "Backlog"
    MapsTo <- MCMapsTo
    Edges <- MCEdges
    Rules <- MCRules
    Configured <- MCConfigured
    Managed <- MCManaged
    Blockers <- MCBlockers
    ParentOf <- MCFamily
INVARIANTS
    TypeOK
    VersionCountsEvents
    OperationsAreSerial
    ChainingIsBounded
    StatusIsReplayed
PROPERTIES
    ImplementsLedger
    EveryCallIsAnswered
CHECK_DEADLOCK FALSE
