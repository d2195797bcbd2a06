SPECIFICATION Spec
CONSTANTS
    p1 = p1
    p2 = p2
    Reconciler = rec
    Free = Free
    Reserved = Reserved
    None = None
    Projects = {p1}
    Cids = {c1, c2}
    Handlers = {h1}
    Parallelism = 1
    MaxRestarts = 1
    MaxFaults = 0
    MaxRequests = 1
    MaxAged = 1
    Priority <- TwoPriorities
SYMMETRY Symmetry
INVARIANT TypeOK
INVARIANT SlotHoldsOwnContainer
PROPERTY NeverRemovesLive
PROPERTY VerdictHasEvidence
CHECK_DEADLOCK FALSE
