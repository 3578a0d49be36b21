SPECIFICATION Spec
CONSTANTS
    FirstInterval = 1
    Interval = 1
    Retention = 1
    InvalidLimit = 1
    MaxPN = 4
    Budget <- Budget42
    MaskedHeaders = TRUE
CHECK_DEADLOCK FALSE
INVARIANT TypeOK
INVARIANT GapAtMostTwo
INVARIANT NoFalseUpdateError
INVARIANT AckProvesPeerUpdated
