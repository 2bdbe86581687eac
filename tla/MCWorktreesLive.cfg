\* Liveness: a device that may be revoked and another, whose edits wait for Git.
CONSTANTS
    Devices = {"d1", "d2"}
    Revocable = {"d1"}
    Kinds = {"create", "edit"}
    Tabs = {1, 2, 3, 4, 5, 6}
    MAX_TABS = 2
    MaxOps = 2
    MaxReviews = 0
    MaxEvents = 1
SPECIFICATION FairSpec
PROPERTIES
    EditsAnswered
    RevokedForgotten
CHECK_DEADLOCK FALSE
