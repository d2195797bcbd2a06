SPECIFICATION FairSpec
CONSTANTS
    Projects = {p1, p2}
    Requests = {r1, r2}
    Cycles = {c1, c2}
    MaxRequests = 3
    MaxFaults = 1
    MaxRestarts = 1
CHECK_DEADLOCK FALSE
INVARIANTS TypeOK OneAtATime RunningHasOwner
PROPERTIES ReconcileExactAlone RunningEnds
