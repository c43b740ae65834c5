\* Two sequence numbers in two epochs of two rounds each, run by two oracles of three,
\* one of which is restarted.
SPECIFICATION Spec
CONSTANTS
    A = A  B = B  C = C  D = D
    Joins <- JoinsA
    Oracle = {A, B, C}
    F = 0
    Faulty = {}
    Value = {v1, v2}
    NoOutcome = NoOutcome
    Reproposal = Reproposal
    Leader <- LeadersAC
    RMax = 2
    ObservationQuorum = 1
    MaxEpoch = 2
    MaxSeqNr = 2
    MaxFailures = 0
    MaxRestarts = 1
INVARIANTS PreviousOutcomeIsDecided EpochStartsAboveCommits NoAssumptionViolation OnlyLeaderStartsRounds
PROPERTIES OutcomeLogSpec
ACTION_CONSTRAINT JoinsOnly
CHECK_DEADLOCK FALSE
