CONSTANTS
    Tasks = {"monitor", "report"}
    MaxStarts = 3
    Failing = FALSE
    Intervals <- MCIntervals
    MaxReloads = 2
    MayFail = {"boot", "rules", "cert", "addNode", "addUsers"}
SPECIFICATION ControllerFairSpec
CHECK_DEADLOCK FALSE
INVARIANTS ControllerTypeOK LifecycleIsSound
PROPERTIES TasksKeepExecuting
