SPECIFICATION ShutdownSpec
CONSTANTS
    Projects = {p1}
    Cids = {c1}
    Handlers = {h1}
    Reconciler = rec
    None = None
    Free = Free
    Reserved = Reserved
    Parallelism = 1
    Priority <- SamePriority
    MaxRestarts = 0
    MaxFaults = 1
    MaxRequests = 1
    MaxAged = 1
    Main = Main
    Background = Background
    Dispatcher = Dispatcher
    Discovery = Discovery
CHECK_DEADLOCK FALSE
INVARIANTS NoGuardFires StopsWhatItHeld RowsRecoverable
    DiscoveryLeftovers
PROPERTY Exits
CONSTRAINT TwoMore
