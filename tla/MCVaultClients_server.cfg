CONSTANTS
    server = server
    cli = cli
    r1 = r1
    i1 = i1
    token = token
    key = key
    none = none
    Server = server
    Clis = {cli}
    Runs = {r1}
    Probes = {i1}
    Token = token
    Key = key
    None = none
    Names <- MCNames
    Values <- MCValues
    MaxKeys = 2
    MaxFailures = 1
    MaxPastes = 2
SPECIFICATION Spec
INVARIANTS
    OpensUnlessRekeyed
    AcknowledgedIsKept
    WipedIsShredded
    LastPasteStands
CHECK_DEADLOCK FALSE
