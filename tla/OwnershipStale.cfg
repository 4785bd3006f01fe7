SPECIFICATION MCSpec
CONSTANTS
    Cases = {"silent"}
    Instances <- SplitAndWhole
CHECK_DEADLOCK FALSE
PROPERTY ShutdownCompletes
