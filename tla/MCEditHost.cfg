\* One client with two jobs under way, and two commits: an edit and the tick,
\* deletion, acknowledgement or other edit it races with.
CONSTANTS
    Worker = worker
    HostThread = hostthread
    Callers = {worker, hostthread}
    Server = server
    Clients = {a}
    RECOVERIES = 1
    MaxCommits = 2
    MaxEpoch = 1
    MaxStaged = 2
    MaxQueue = 2
SPECIFICATION FairSpec
INVARIANTS
    PushedIsStable
    ReplyFollowsPush
    EndedOnlyWhenStable
PROPERTIES
    PushesMoveForward
    
    JobsAreRun
