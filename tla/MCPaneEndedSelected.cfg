\* A shell exits before a selection of its Pane is dispatched.
CONSTANTS
    Devices = {a}
    NoDevice = NoDevice
    MaxLinks = 1
    MaxGeneration = 1
    MaxQueue = 1
    MaxBoots = 1
    Requests = {"select"}
    Exits = {"kept"}
    Events = {}
SPECIFICATION Spec
PROPERTIES
    EndedWaitsForStart
CHECK_DEADLOCK FALSE
