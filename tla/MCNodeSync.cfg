CONSTANTS
    Users = {u1, u2}
    Speeds = {0, 1}
    Devices = {0}
    Configs = {c1, c2, c3}
    BadRules = {c3}
    Nil = Nil
    MayFail = {"node", "users", "cert", "addNode", "core"}
    MayEmpty = TRUE
    MaxEdits = 3
    MaxFaults = 2
SPECIFICATION FairSpec
CHECK_DEADLOCK FALSE
INVARIANTS TypeOK CoreInStep UsersAreLimited NoPanic
PROPERTIES PanelIsFollowed PollFollowsAnswers
