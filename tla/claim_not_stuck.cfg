SPECIFICATION FairSpec
CONSTANTS
    p1 = p1
    p2 = p2
    Reconciler = rec
    Free = Free
    Reserved = Reserved
    None = None
    Projects = {p1}
    Cids = {c1}
    Handlers = {h1}
    Parallelism = 1
    MaxRestarts = 0
    MaxFaults = 0
    MaxRequests = 0
    MaxAged = 0
    Priority <- TwoPriorities
PROPERTY NotStuckInRunning
CHECK_DEADLOCK FALSE
