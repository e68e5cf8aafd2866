CONSTANTS
    a1 = a1
    a2 = a2
    p1 = p1
    p2 = p2
    plain = plain
    odd = odd
    Agents = {a1, a2}
    Sharers = {a1, a2}
    Texts = {plain, odd}
    Suspect = {odd}
    Promoters = {p1, p2}
    Asked = {"review"}
    Ttl <- TtlValue
    MinCluster = 1
    MinAgents = 2
    MinSample = 2
    RipeAge = 1
    MaxAge = 1
    MaxBusy = 2
    MaxUpsets = 2
    MaxIds = 3
SYMMETRY Interchangeable
SPECIFICATION Spec
INVARIANTS
    DuplicatesAreRaces
    SuspectsNeedApproval
    SupersededIsCarried
    VisibleIsIndexed
CHECK_DEADLOCK FALSE
