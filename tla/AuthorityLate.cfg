SPECIFICATION MCSpec
CONSTANTS
    Cases = {"late"}
    Instances <- Links
CHECK_DEADLOCK FALSE
INVARIANT LateResolutionAnswered
