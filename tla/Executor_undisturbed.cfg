SPECIFICATION Spec
CONSTANTS
    p1 = p1
    p2 = p2
    Reconciler = rec
    Free = Free
    Reserved = Reserved
    None = None
    Projects = {p1, p2, p3}
    Cids = {c1, c2, c3}
    Handlers = {h1, h2}
    Parallelism = 2
    MaxRestarts = 0
    MaxFaults = 1
    MaxRequests = 1
    MaxAged = 0
    Priority <- TwoPriorities
SYMMETRY Symmetry
CONSTRAINT Undisturbed
INVARIANT ParallelismUndisturbed
INVARIANT OnePerProjectUndisturbed
INVARIANT ReportedOnceUndisturbed
CHECK_DEADLOCK FALSE
