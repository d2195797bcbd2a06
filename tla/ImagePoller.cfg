SPECIFICATION FairSpec
CONSTANTS
    Tags = {1, 2, 3}
    Family = {1, 3}
    Configs <- MCConfigs
    Pullers = {refresher, dispatcher}
    Refresher = refresher
    None = None
    PageLimit = 3
    MaxPushes = 1
    MaxRevokes = 1
    MaxFaults = 1
CHECK_DEADLOCK FALSE
INVARIANTS  OfferIsUpgrade
PROPERTIES  EventuallyTruthful LoopsStop
