\* Two operations, of a client or of the Core, one Session and a fault.
CONSTANTS
    Clients = {"a"}
    Core = "core"
    MaxOps = 2
    Actions = {"stop", "restart", "network"}
    MAX_RECORDS = 2
    MaxSessions = 1
    MaxBoots = 2
    MaxFaults = 1
SPECIFICATION Spec
INVARIANTS
    NotPerformedIsTrue
    DoneIsTrue
    FenceIsWatched
    
PROPERTIES
    CarriedOutOnce
    EndsOnlyWhatWasShown
CHECK_DEADLOCK FALSE
