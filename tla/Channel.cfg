SPECIFICATION FairSpec
CONSTANTS
    WINDOW_INITIAL = 1
    WINDOW_MIN = 1
    WINDOW_MIN_LIMIT_MEDIUM = 1
    WINDOW_MIN_LIMIT_FAST = 1
    WINDOW_MAX_SLOW = 1
    WINDOW_MAX_MEDIUM = 1
    WINDOW_MAX_FAST = 1
    FAST_RATE_THRESHOLD = 1
    WINDOW_FLEXIBILITY = 1
    SEQ_MODULUS = 3
    MAX_TRIES = 2
    known = known
    Types = {known}
    Registered = {known}
    MaxMessages = 4
    Horizon = 2
CHECK_DEADLOCK FALSE
INVARIANTS InOrder
PROPERTIES ImplementsOrderedChannel EveryMessageSettles
