CONSTANTS
    Users = {u1, u2}
    Speeds = {0, 1}
    Devices = {0}
    Configs = {c1, c2}
    BadRules = {}
    Nil = Nil
    MayFail = {"users"}
    MayEmpty = FALSE
    MaxEdits = 2
    MaxFaults = 1
SPECIFICATION Spec
CHECK_DEADLOCK FALSE
INVARIANTS UnchangedMeansApplied
