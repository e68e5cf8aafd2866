SPECIFICATION Spec
CONSTANTS
    MaxIterations = 3
    MaxModelCalls = 3
    MaxToolCalls = 1
    TokenCap = 3
    CallTokens <- MCCallTokens
    Reflection = TRUE
    FileOutput = TRUE
INVARIANTS
    CallsWithinBudget
    TokensOvershootByOneCall
    ShortfallIsAccounted
    DeliverableIsBacked
PROPERTIES
    RunCloses
CHECK_DEADLOCK FALSE
