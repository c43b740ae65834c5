\* Three epochs, each run by two of three oracles: a prepare certificate of the
\* first epoch is preferred to one of the second.
SPECIFICATION Spec
CONSTANTS
    A = A  B = B  C = C  D = D
    Joins <- JoinsPairs
    Oracle = {A, B, C}
    F = 0
    Faulty = {}
    Value = {v1, v2}
    NoOutcome = NoOutcome
    Reproposal = Reproposal
    Leader <- LeadersABC
    RMax = 2
    ObservationQuorum = 1
    MaxEpoch = 3
    MaxSeqNr = 1
    MaxFailures = 0
    MaxRestarts = 0
SYMMETRY ValueSymmetry
INVARIANTS Agreement
ACTION_CONSTRAINT JoinsOnly
CHECK_DEADLOCK FALSE
