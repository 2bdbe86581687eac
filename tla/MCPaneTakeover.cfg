\* Two clients that compete for one Pane, started or not.
CONSTANTS
    Devices = {a, b}
    NoDevice = NoDevice
    MaxLinks = 1
    MaxGeneration = 1
    MaxQueue = 1
    MaxBoots = 1
    Requests = {"observe", "takeover", "input"}
    Exits = {}
    Events = {}
SYMMETRY DeviceSymmetry
SPECIFICATION Spec
PROPERTIES
    ControlLeavesForAReason
CHECK_DEADLOCK FALSE
