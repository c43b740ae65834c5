SPECIFICATION NetworkSpec
CONSTANTS
    A = A  B = B  C = C  D = D
    Oracle = {A, B, C, D}
    F = 1
    Faulty = {D}
    MaxEpoch = 2
    MaxRestarts = 0
    MaxFailures = 1
PROPERTIES EpochsSpread StalledEpochsEnd
ACTION_CONSTRAINT FaultyToOne
CHECK_DEADLOCK FALSE
