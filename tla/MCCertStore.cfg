SPECIFICATION FairSpec
CONSTANTS
    Nodes = {n1, n2}
    Pairs = {p1, p2, p3, p4}
    None = None
    Torn = Torn
    MaxFailures = 1
    MaxCrashes = 1
INVARIANTS TypeOK FilesAreKept
PROPERTIES OldIsRenewed
CHECK_DEADLOCK FALSE
