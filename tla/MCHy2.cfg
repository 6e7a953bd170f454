CONSTANTS
    n1 = n1
    n2 = n2
    u1 = u1
    u2 = u2
    Nodes = {n1, n2}
    Users = {u1, u2}
    Conns = {c1}
    Calls = {k1, k2}
    Homes <- MCHomes
    UserOf <- MCUserOf
    ServerOf <- MCServerOf
    MaxOps = 2
    None = None
SPECIFICATION Spec
CHECK_DEADLOCK FALSE
SYMMETRY Alike
INVARIANTS TypeOK OwnUsersConnect CrashNeedsClose FlagFollowsAnswer
