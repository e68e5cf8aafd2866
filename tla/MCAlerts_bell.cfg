SPECIFICATION Spec
CONSTANTS
    IpGrants = {"ip1"}
    DataGrants = {"d1"}
    Freeze = "freeze"
    EngineFiles = {"e1"}
    OtherFiles = {"p1", "p2"}
    Gates = {"k1"}
    None = None
    MaxEvents = 3
INVARIANTS
    OneOpenAlert
    IncidentsAreTold
    EngineFilesAreQuiet
PROPERTIES
    ExpiringIsTold
CHECK_DEADLOCK FALSE
