SPECIFICATION WorktreesSpec
CONSTANTS
    Workers = {w1, w2}
    Names = {n1, n2}
    MaxSpawns = 3
    Nobody = Nobody
INVARIANT LeftoversAreRemoved
CHECK_DEADLOCK FALSE
