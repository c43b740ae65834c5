\* Two sequence numbers: the first is dropped when the second is attested.
SPECIFICATION Spec
CONSTANTS
    A = A  B = B  C = C  D = D
    Oracle = {A, B, C, D}
    F = 1
    Faulty = {D}
    Watched = {B}
    Reporting = {1, 2}
    ExpiryRounds = 0
    LookaheadRounds = 1
    MaxSeqNr = 2
    MaxRestarts = 1
SYMMETRY OthersSymmetry
INVARIANTS TypeOK AttestedOnce CompletesWhenPossible RoundsAreNear
ACTION_CONSTRAINT EarlyEvents
CHECK_DEADLOCK FALSE
