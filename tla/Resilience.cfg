SPECIFICATION Spec
CONSTANTS
    Projects = {p1, p2}
    Sources = {"cron", "webhook"}
    RapidFailThreshold = 2
    RapidFailWindow = 2
    BackoffBase = 1
    BackoffMax = 2
    ReplayQueueCap = 1
    MaxNow = 5
    MaxFailures = 3
    MaxMarks = 1
SYMMETRY MCSymmetry
INVARIANTS BackoffBounded BypassSingleShot
PROPERTIES TripExact
