\* The reports of one outcome: signatures and the fetch; another makes no reports.
SPECIFICATION FairSpec
CONSTANTS
    A = A  B = B  C = C  D = D
    Oracle = {A, B, C, D}
    F = 1
    Faulty = {D}
    Watched = {B}
    Reporting = {1}
    ExpiryRounds = 0
    LookaheadRounds = 1
    MaxSeqNr = 2
    MaxRestarts = 0
PROPERTIES AttestationsSpread
CHECK_DEADLOCK FALSE
