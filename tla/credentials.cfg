SPECIFICATION FairSpec
CONSTANTS
    None = None
    Ids = {1, 2, 3, 4, 11, 12, 13}
    Start <- MCStart
    Calls = {11, 12, 13}
    Ops = {"o1", "o2", "o3"}
    Requests <- MCRequests
INVARIANTS
    CredTypeOK
    SomeHumanUnlessOvertaken
    TokensAreToldOnce
PROPERTIES
    RevokedMeansRevoked
    EveryCallIsAnswered
CHECK_DEADLOCK FALSE
