SPECIFICATION Spec
CONSTANTS
    a = a
    b = b
    c = c
    NoTask = NoTask
    Tasks <- ChainTasks
    OnSuccess <- ChainSuccess
    OnFailure <- ChainFailure
    NeedsApproval = {c}
    ChainDepthCap = 2
    DlqThreshold = 2
    RunRowImported = TRUE
    Clients = {c1}
    RequestKinds = {}
    MaxFires = 3
    MaxCrashes = 1
INVARIANTS
    SuccessorFollowsClosedRun
PROPERTIES
    ChainsFollowLineage
    EveryFireEnds
CHECK_DEADLOCK FALSE
