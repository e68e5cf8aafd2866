SPECIFICATION Spec
CONSTANTS
    a = a
    b = b
    c = c
    NoTask = NoTask
    Tasks <- OneTask
    OnSuccess <- FiresItself
    OnFailure <- NoSuccessor
    NeedsApproval = {}
    ChainDepthCap = 2
    DlqThreshold = 2
    RunRowImported = TRUE
    Clients = {c1}
    RequestKinds = {"trigger", "webhook", "ack", "update", "pause", "stop", "approve", "freeze", "cancel"}
    MaxFires = 2
    MaxCrashes = 1
INVARIANTS
    DlqIsEarned
    OutcomesAreRecorded
CHECK_DEADLOCK FALSE
