SPECIFICATION MCSpec
CONSTANTS
    Cases = {"ended"}
    Conns = 3
    Plans <- Reconnections
    TUNNEL_TIMEOUT = 3
CHECK_DEADLOCK FALSE
INVARIANT TombstonesMeanClosed
