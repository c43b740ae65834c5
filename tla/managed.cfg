SPECIFICATION FairSpec
CONSTANTS
    MaxAhead = 2
    MaxConfig = 2
    MaxCrashes = 1
    BufferSize = 1
INVARIANTS TypeOK
PROPERTIES OneOracleAtATime ConfigsInOrder NoCyclicWait NewestConfigRuns ShutsDown
ACTION_CONSTRAINT CrashWhenStored
CHECK_DEADLOCK FALSE
