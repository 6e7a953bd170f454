CONSTANTS
    a = a
    b = b
    Tags = {a, b}
    Broken = Broken
    Regimes <- AllRegimes
    None = None
    MaxEdits = 3
SPECIFICATION FairSpec
CHECK_DEADLOCK FALSE
INVARIANTS TypeOK ReloadServesConf NoOrphan
PROPERTIES FileIsLoaded
