\* Two attachments over one connection, and each way a Session ends that keeps
\* its Pane.
CONSTANTS
    Devices = {a}
    NoDevice = NoDevice
    MaxLinks = 1
    MaxGeneration = 2
    MaxQueue = 1
    MaxBoots = 1
    Requests = {"select", "start", "repair"}
    Exits = {"kept", "failed", "nodir"}
    Events = {}
SPECIFICATION Spec
PROPERTIES
    SessionsNeverReplaced
CHECK_DEADLOCK FALSE
