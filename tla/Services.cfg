SPECIFICATION MCSpec
CONSTANTS
    Dests = {"p", "q"}
    Ifaces = {"A", "B"}
    Accepted = {"B"}
    Announces <- Spoken
    Plans <- Events
    MaxCrashes = 1
    MaxHashes = 2
CHECK_DEADLOCK FALSE
INVARIANTS FilesSound SearchesSound AnnouncesSound
