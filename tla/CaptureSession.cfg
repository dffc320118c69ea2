SPECIFICATION RecoverySpec
CHECK_DEADLOCK FALSE
CONSTANTS
    None = None
    Foreign = 1
    MaxCaptures = 3
    MaxReadings = 2
    MaxLifetimes = 2
    Room = 1
INVARIANTS
    OneAtATime
    ComparisonsAccounted
PROPERTIES
    RetryResolves
