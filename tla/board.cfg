SPECIFICATION FairSpec
CONSTANTS
    None = None
    Tasks = {1, 2, 3}
    Columns = {"Backlog", "Doing"}
    DefaultColumn = "Backlog"
    Start <- MCStart
    Ops = {o1, o2}
    Calls = {c1, c2}
    Reorders <- MCReorders
    Movers = {k1}
    Targets <- MCTargets
    MaxMoves = 3
INVARIANTS
    BoardIsSound
    ReordersAreHonoured
PROPERTIES
    OnlyItsColumn
    EveryReorderIsAnswered
CHECK_DEADLOCK FALSE
