CONSTANTS
    Users = {u1}
    Conns = {k1, k2}
    Kinds = {"xray", "sing", "hy2"}
    MinReport = 0
    MayLose = TRUE
    None = None
    MaxStores = 4
    MaxBytes = 2
    MaxEdits = 3
SPECIFICATION TrafficSpec
CHECK_DEADLOCK FALSE
SYMMETRY AnyConn
INVARIANTS TrafficTypeOK  LiveLinksAreManaged
