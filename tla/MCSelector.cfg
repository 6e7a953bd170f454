SPECIFICATION Spec
CONSTANTS
    x = x
    y = y
    s = s
    h = h
    Nodes = {n1}
    Cores = {x, y, s, h}
    CoreType <- CoreTypes
    None = None
    Other = Other
    CoreMayFail = TRUE
INVARIANTS TypeOK OneHome NodeFindsCore 
CHECK_DEADLOCK FALSE
