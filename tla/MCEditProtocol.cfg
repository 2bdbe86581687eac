\* A table with room for one of the two clients: every edit replaces the other.
CONSTANTS
    Desktop = {d}
    CommandLine = {c}
    MAX_DEVICES = 1
    MAX_OUTCOMES = 2
    Overlap = {}
    MaxOps = 4
    MaxFaults = 2
SPECIFICATION Spec
INVARIANTS
    AppliedAtMostOnce
    
    OutcomeNotForgotten
    
CHECK_DEADLOCK FALSE
