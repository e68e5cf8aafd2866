SPECIFICATION FeedSpec
CONSTANTS
    r1 = r1
    r2 = r2
    Rows = {r1, r2}
    BatchCap = 1
    PendingCap = 1
    MaxEvents = 2
    MaxCrashes = 1
INVARIANTS
    OncePerLife
    NewRowsAreTold
PROPERTIES
    EverySourceGoesOn
CHECK_DEADLOCK FALSE
