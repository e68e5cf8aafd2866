SPECIFICATION Spec
CONSTANTS
    c1 = c1
    c2 = c2
    Clients <- Two
    Limit = 2
    MaxRequests = 3
    MaxFires = 3
    MaxCrashes = 1
SYMMETRY Interchangeable
INVARIANTS
    DriftIsAccidental
    FloodIsARace
PROPERTIES
    RevokedStaysRevoked
CHECK_DEADLOCK FALSE
