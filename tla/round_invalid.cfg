SPECIFICATION Spec
CONSTANTS
    A = A  B = B  C = C  D = D  q1 = q1  q2 = q2
    Oracle = {A, B, C, D}
    F = 1
    Faulty = {D}
    Leaders = {A}
    Query = {q1, q2}
    NoQuery = NoQuery
    ObservationQuorum = 3
    RMax = 2
    PoolSize = 1
    BufferSize = 3
    MaxFaults = 0
INVARIANTS ObservationsAreValidated
ACTION_CONSTRAINT ToThePoint
CHECK_DEADLOCK FALSE
