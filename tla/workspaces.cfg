SPECIFICATION Spec
CONSTANTS
    None = None
    Actors = {"ann", "bob", "cyd", "dee", "eve"}
    Calls = {"c1", "c2", "c3"}
    Home = "home"
    Founders <- MCFounders
    Slugs = {"s1", "s2", "s3"}
    Ops = {"o1", "o2", "o3"}
    MaxMembers = 4
    MaxProjects = 2
    Requests <- MCRequests
INVARIANTS
    WsTypeOK
    AdminRemainsUnlessOvertaken
    AdditionsAreSound
CHECK_DEADLOCK FALSE
