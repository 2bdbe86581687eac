\* One client with two attachments and two connections, so that claims and
\* releases of the first arrive after those of the second.
CONSTANTS
    Devices = {a}
    NoDevice = NoDevice
    MaxLinks = 2
    MaxGeneration = 2
    MaxQueue = 1
    MaxBoots = 1
    Requests = {"select", "observe"}
    Exits = {}
    Events = {"endall", "revoke", "evict"}
SPECIFICATION Spec
INVARIANTS
    GrantIsAccountedFor
    RevokedHoldsNothing
PROPERTIES
    ControlLeavesForAReason
    PassiveAcquiresNothing
CHECK_DEADLOCK FALSE
