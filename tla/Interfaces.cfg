SPECIFICATION MCSpec
CONSTANTS
    Cases = {"tunnels", "registry"}
    Conns = 3
    Plans <- Reconnections
    TUNNEL_TIMEOUT = 3
CHECK_DEADLOCK FALSE
INVARIANTS FlapsSurvived InterfacesSound
