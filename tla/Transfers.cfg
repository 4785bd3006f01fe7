SPECIFICATION MCSpec
CONSTANTS
    WINDOW_INITIAL = 2
    WINDOW_MIN = 1
    WINDOW_MAX_SLOW = 2
    WINDOW_MAX_VERY_SLOW = 1
    WINDOW_MAX_FAST = 2
    FAST_RATE_THRESHOLD = 1
    VERY_SLOW_RATE_THRESHOLD = 1
    WINDOW_FLEXIBILITY = 2
    Instances <- Resources
    MAX_RETRIES = 1
    Rates = {"medium", "very_slow"}
    Faults = {"timeout", "cancel", "refuse", "unsent", "corrupt"}
    Horizon = 1
    MaxCopies = 1
CHECK_DEADLOCK FALSE
INVARIANTS WindowsBounded TransferSound NeverIdle
PROPERTIES TiersAreEarned BudgetNeedsProgress
