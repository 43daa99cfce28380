SPECIFICATION Spec
CONSTANTS
    None = None
    Start <- MCStart
    StartMembers <- MCMembers
    Tasks = {"card", "probe", "nobody"}
    Home <- MCHome
    Worked = {"card"}
    Projects = {"web", "ops"}
    Calls = {"c1", "c2", "c3", "c4"}
    Ops = {"o1", "o2", "o3"}
    Requests <- MCRequests
INVARIANTS
    SprintsTypeOK
    ConflictsOnlyByRace
    RecordsAgree
PROPERTIES
    NothingSlipsPastAClose
