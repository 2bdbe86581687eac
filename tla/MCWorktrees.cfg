\* One reviewed removal among every other kind of edit, two edits in all, and one
\* event: a crash, a stop, a failed write, or something a shell does.
CONSTANTS
    Devices = {"d1", "d2"}
    Revocable = {"d1"}
    Kinds = {"open", "create", "remove", "location", "edit"}
    Tabs = {1, 2, 3, 4, 5, 6}
    MAX_TABS = 2
    MaxOps = 2
    MaxReviews = 1
    MaxEvents = 1
SPECIFICATION Spec
INVARIANTS
    WriteIsRecorded
    RemovalIsClosed
    AcceptedIsDone
    CreationFits
PROPERTIES
    OnlyReviewedSessionsEnd
    StartedOnce
CHECK_DEADLOCK FALSE
