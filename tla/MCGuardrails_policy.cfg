SPECIFICATION GuardSpec
CONSTANTS
    e1 = e1
    e2 = e2
    Agents = {"a"}
    Classes = {"name", "card"}
    Scopes = {"output"}
    Rules = {"r1", "r2"}
    Defaults <- MCDefaults
    Findings <- MCFindings
    TextLength = 8
    Kinds <- MCKinds
    Kept = 2
    Bodies <- MCBodies
    GrantBodies <- MCGrantBodies
    Points <- MCPoints
    Clients = {e1, e2}
    MaxEdits = 2
    MaxGrants = 1
SYMMETRY Interchangeable
INVARIANTS
    LevelWasInForce
    EditsTakeEffect
    RedactedIsHidden
CHECK_DEADLOCK FALSE
