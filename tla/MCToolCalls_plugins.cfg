CONSTANTS
    c1 = c1
    Calls = {c1}
    Granted <- Tools
    Chunks = 2
    Recipients = 2
    Images = 1
    Namespaced = FALSE
    MaxEdits = 1
SPECIFICATION Spec
INVARIANTS
    AnswersAreHonest
PROPERTIES
    NothingAfterTheAnswer
    ChangesAreAllowed
CHECK_DEADLOCK FALSE
