SPECIFICATION FairSpec
CONSTANTS
    p1 = p1
    p2 = p2
    Reconciler = rec
    Free = Free
    Reserved = Reserved
    None = None
    Projects = {p1}
    Cids = {c1, c2}
    Handlers = {h1}
    Parallelism = 1
    MaxRestarts = 1
    MaxFaults = 1
    MaxRequests = 0
    MaxAged = 0
    Priority <- TwoPriorities
CONSTRAINTS CrashOrFaults InOrder
PROPERTIES ImplementsLife CrashSettled
CHECK_DEADLOCK FALSE
