SPECIFICATION Spec
CONSTANTS
    None = None
    Ids = {1, 2, 3}
    Hashes = {"t1", "t2", "e1", "e2"}
    Start <- MCStart
    Tokens <- MCTokens
    Calls = {"c1", "c2", "c3"}
    Ops = {"o1", "o2", "o3"}
    Requests <- MCRequests
    Ttl = 1
    MaxClock = 3
INVARIANTS
    AgentTypeOK
PROPERTIES
    GoneForGood
    OnlyTheSilentExpire
    BootReconciles
CHECK_DEADLOCK FALSE
