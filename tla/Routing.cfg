SPECIFICATION MCSpec
CONSTANTS
    Nodes = {"o", "a", "b", "c"}
    Origin = "o"
    Networks <- NetworksConsidered
    PATHFINDER_M = 4
    LOCAL_REBROADCASTS_MAX = 2
    MAX_RANDOM_BLOBS = 2
    PERSIST_RANDOM_BLOBS = 1
CHECK_DEADLOCK FALSE
INVARIANTS RoutesRanked RelaysSound
