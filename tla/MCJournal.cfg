\* Three commits, so that a write can be overtaken by two submissions, and two
\* recoveries with one kept verdict, so that a verdict is forgotten.
CONSTANTS
    Callers = {c1, c2}
    RECOVERIES = 1
    MaxCommits = 3
    MaxEpoch = 2
SPECIFICATION JournalFairSpec
INVARIANTS
    JournalTypeOK
    AckedIsStable
    RetainedIsStable
PROPERTIES
    RecordOnlyGrows
    ImplementsPromise
    SyncReturns
