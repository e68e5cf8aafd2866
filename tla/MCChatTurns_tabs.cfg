SPECIFICATION Spec
CONSTANTS
    left = left
    right = right
    Sockets <- MCSockets
    MaxTurns = 2
    Chunks = 2
SYMMETRY MCSymmetry
INVARIANTS
    NoChunkTwice
    CompletedIsAnswered
    NewestIsFound
    EndedTurnsUnblock
