\* Room in the table for every edit.  Requests of a connection the desktop has
\* left may still be dispatched.
CONSTANTS
    Desktop = {d}
    CommandLine = {c}
    MAX_DEVICES = 2
    MAX_OUTCOMES = 3
    Overlap = {d}
    MaxOps = 3
    MaxFaults = 1
SPECIFICATION FairSpec
INVARIANTS
    AppliedAtMostOnce
PROPERTIES
    EditsSettle
CHECK_DEADLOCK FALSE
