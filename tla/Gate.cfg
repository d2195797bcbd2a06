SPECIFICATION GateSpec
CONSTANTS
    Projects = {p1, p2, disc}
    DiscoveryProject = disc
    Sources = {"cron", "webhook"}
    Hooks = {w1}
    None = None
    RapidFailThreshold = 1
    RapidFailWindow = 1
    BackoffBase = 1
    BackoffMax = 1
    ReplayQueueCap = 1
    MaxNow = 1
    MaxFailures = 1
    MaxMarks = 0
    SkipDiscovery = FALSE
    MaxRequests = 3
    MaxFaults = 0
SYMMETRY MCSymmetry
INVARIANTS QueuedIsKept
