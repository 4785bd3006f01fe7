SPECIFICATION MCSpec
CONSTANTS
    WINDOW_INITIAL = 2
    WINDOW_MIN = 1
    WINDOW_MIN_LIMIT_MEDIUM = 1
    WINDOW_MIN_LIMIT_FAST = 2
    WINDOW_MAX_SLOW = 2
    WINDOW_MAX_MEDIUM = 2
    WINDOW_MAX_FAST = 2
    FAST_RATE_THRESHOLD = 1
    WINDOW_FLEXIBILITY = 1
    SEQ_MODULUS = 4
    MAX_TRIES = 2
    known = known
    unknown = unknown
    Types = {known, unknown}
    Registered = {known}
    MaxMessages = 3
    Horizon = 2
    Instances <- SessionsConsidered
CHECK_DEADLOCK FALSE
INVARIANTS RingAheadOfGap SettledWasProved SenderExact EndpointsSound SessionSound FramesExact
PROPERTIES TicksConclude ToldOnce
