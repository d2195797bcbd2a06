SPECIFICATION FairGateSpec
CONSTANTS
    Projects = {p1, disc}
    DiscoveryProject = disc
    Sources = {"cron", "webhook"}
    Hooks = {w1, w2}
    None = None
    RapidFailThreshold = 1
    RapidFailWindow = 1
    BackoffBase = 1
    BackoffMax = 1
    ReplayQueueCap = 1
    MaxNow = 2
    MaxFailures = 1
    MaxMarks = 1
    SkipDiscovery = FALSE
    MaxRequests = 2
    MaxFaults = 1
 
PROPERTIES  QueueDrains
CONSTRAINT ClockOrMore
