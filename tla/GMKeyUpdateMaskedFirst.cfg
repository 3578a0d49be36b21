SPECIFICATION Spec
CONSTANTS
    FirstInterval = 1
    Interval = 1
    Retention = 1
    InvalidLimit = 2
    MaxPN = 4
    Budget <- Budget42
    MaskedHeaders = TRUE
CHECK_DEADLOCK FALSE
INVARIANT FirstUpdateLosesNothing
