SPECIFICATION Spec
CONSTANTS
    None = None
    Calls = {"c1", "c2", "c3", "c4", "c5"}
    Ops = {"o1", "o2", "o3"}
    Requests <- MCRequests
INVARIANTS
    AttTypeOK
    DownloadsAreWhole
PROPERTIES
    FilesStand
CHECK_DEADLOCK FALSE
