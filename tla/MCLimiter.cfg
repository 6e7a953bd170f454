CONSTANTS
    u1 = u1
    u2 = u2
    i1 = i1
    i2 = i2
    Users = {u1, u2}
    IPs = {i1, i2}
    Devices <- SomeDevices
    Conns = {k1, k2, k3}
    Limits = {1}
    AliveCounts = {0, 1}
    Unknown = Unknown
    None = None
    MaxInFlight = 3
    MaxReports = 2
    MaxUpdates = 1
SPECIFICATION Spec
CHECK_DEADLOCK FALSE
SYMMETRY AnyConn
INVARIANTS TypeOK NoGhostDevice
PROPERTIES ImplementsGate
