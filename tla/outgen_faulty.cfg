\* Four oracles, one of them faulty and the leader of the first epoch, and a failed write.
SPECIFICATION Spec
CONSTANTS
    A = A  B = B  C = C  D = D
    Joins <- JoinsLast
    Oracle = {A, B, C, D}
    F = 1
    Faulty = {D}
    Value = {v1, v2}
    NoOutcome = NoOutcome
    Reproposal = Reproposal
    Leader <- LeadersDBC
    RMax = 2
    ObservationQuorum = 1
    MaxEpoch = 2
    MaxSeqNr = 1
    MaxFailures = 1
    MaxRestarts = 0
SYMMETRY ValueSymmetry
INVARIANTS TypeOK Agreement OnePreparedPerEpoch
ACTION_CONSTRAINT JoinsOnly
CHECK_DEADLOCK FALSE
