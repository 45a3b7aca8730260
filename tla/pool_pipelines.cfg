\* One caller opens, disconnects and closes the pool around one pipeline.
CONSTANTS
    Callers = {c1}
    ResumeFrom = {}
    StartFrom = {"Connecting", "Opened", "Closing", "Disconnected", "Closed", "Broken"}
    HostCallLimit = 1
    Pipelines = {p1}
SPECIFICATION FairSpecPP
INVARIANTS EntriesFollowPipelines PoolErrorIsShared
PROPERTY PoolEndReachesAll
CHECK_DEADLOCK FALSE
