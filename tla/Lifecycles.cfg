SPECIFICATION MCSpec
CONSTANTS
    Cases = {"ownership", "authority", "keepalive", "usb", "ble"}
    Instances <- Links
CHECK_DEADLOCK FALSE
INVARIANTS LiveLinkStaysUp DeadLinkCloses OwnershipExact TicketsSound DeviceSound PeersSound
