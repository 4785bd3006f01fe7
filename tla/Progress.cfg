SPECIFICATION MCSpec
CONSTANTS
    Cases = {"segments", "ownership", "authority", "paths", "transit", "storage", "usb", "ble"}
    Instances <- SplitAndWhole
CHECK_DEADLOCK FALSE
INVARIANT SegmentsSound
PROPERTIES
    AllConclude
    ClosedLinkReleased
    DecisionsConclude
    FloodSettles
    LoopsDie
    LearntIsSaved
    StopAnswered
    PeersReleased
