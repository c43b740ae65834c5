SPECIFICATION FairSpec
CONSTANTS
    A = A  B = B
    Oracle = {A, B}
    Item = {r1, r2}
    MaxTime = 1
    S <- OneThenOne
    DeltaStage = 1
    Orders <- TwoOrders
    MaxFaults = 1
INVARIANTS TypeOK TimerIsForEarliest StagesAreSchedule
PROPERTIES SchedulerSpec AcceptedReportsAreTried ReportsReachContract
CHECK_DEADLOCK FALSE
