SPECIFICATION RecoverySpec
CHECK_DEADLOCK FALSE
CONSTANTS
    None = None
    Foreign = 0
    MaxCaptures = 1
    MaxReadings = 3
    MaxLifetimes = 1
    Room = 1
PROPERTIES
    RetryResolves
