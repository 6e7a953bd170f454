CONSTANTS
    Tasks = {t1}
    MaxStarts = 4
    Failing = TRUE
SPECIFICATION FairSpec
INVARIANTS TypeOK RunningHasLoop
PROPERTIES GoroutinesFollowTask
CHECK_DEADLOCK FALSE
