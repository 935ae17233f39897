SPECIFICATION ImageSpec
CONSTANTS
    u1 = u1
    u2 = u2
    g1 = g1
    g2 = g2
    root = root
    wheel = wheel
    nobody = nobody
    nogroup = nogroup
    Groups <- MCGroups
    Users <- MCUsers
    Tables <- MCTables
    MIN_ID = 10
    MAX_ID = 10
    MaxRuns = 6
    Ids <- MCIds
    MAX_FIELD = 15
    UINT_MAX = 31
    Leftovers = {"", "5"}
    Configs <- MCConfigs
INVARIANTS
    IdsUnique
    AsAsked
    GShadowInSync
    RerunIdle
    ImageTrue
    NodesTrue

CHECK_DEADLOCK FALSE
