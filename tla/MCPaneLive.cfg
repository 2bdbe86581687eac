\* Liveness: one connection, which may end or be ended at any step, and a restart.
CONSTANTS
    Devices = {a}
    NoDevice = NoDevice
    MaxLinks = 1
    MaxGeneration = 1
    MaxQueue = 1
    MaxBoots = 2
    Requests = {"select", "drop", "close", "command"}
    Exits = {"zero", "kept"}
    Events = {"goodbye", "delete"}
SPECIFICATION FairSpec
PROPERTIES
    
    DeadChannelsEnd
CHECK_DEADLOCK FALSE
