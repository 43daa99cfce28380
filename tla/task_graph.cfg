SPECIFICATION GraphSpec
CONSTANTS
    t1 = t1
    t2 = t2
    t3 = t3
    t4 = t4
    fresh = fresh
    None = None
    Keep = Keep
    External = External
    Tasks = {t1, t2, t3, t4, fresh}
    Seeded = {t1, t2, t3, t4}
    Ops = {o1}
    Calls = {c1}
    Bodies <- MCMoves
    Requests <- MCRequests
    Actors = {}
    Registered = {}
    Columns <- MCColumns
    DefaultColumn = "Backlog"
    MapsTo <- MCMapsTo
    Edges <- NoEdges
    Rules <- NoRules
    Configured <- NoRules
    Managed <- NoRules
    Blockers <- MCBlockers
    ParentOf <- NoParents
    MaxDepth = 3
    GraphCalls = {g1, g2}
    Edits <- MCEdits
    MaxEdits = 3
SYMMETRY Perms
INVARIANTS
    GraphTypeOK
    GraphsAreSound
    LogTellsTheGraph
CHECK_DEADLOCK FALSE
