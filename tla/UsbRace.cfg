SPECIFICATION MCSpec
CONSTANTS
    Cases = {"racing"}
    Instances <- Links
CHECK_DEADLOCK FALSE
PROPERTY ReservationsOwn
