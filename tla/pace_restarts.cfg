SPECIFICATION Spec
CONSTANTS
    A = A  B = B  C = C  D = D
    Oracle = {A, B, C, D}
    F = 1
    Faulty = {D}
    MaxEpoch = 3
    MaxRestarts = 1
    MaxFailures = 0
INVARIANTS TypeOK EpochsAreBacked WishesAreRemembered WishesAreDue EpochsAreTimed
PROPERTIES EpochsNeverGoBack
SYMMETRY HonestSymmetry
ACTION_CONSTRAINT FaultyWishesLast
CHECK_DEADLOCK FALSE
