\* A fetch is repeated after its round was dropped.
SPECIFICATION Spec
CONSTANTS
    A = A  B = B  C = C  D = D
    Oracle = {A, B, C, D}
    F = 1
    Faulty = {D}
    Watched = {B}
    Reporting = {1, 2}
    ExpiryRounds = 0
    LookaheadRounds = 1
    MaxSeqNr = 2
    MaxRestarts = 0
INVARIANTS NoPanic
CHECK_DEADLOCK FALSE
