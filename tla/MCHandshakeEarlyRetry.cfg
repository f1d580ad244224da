SPECIFICATION Spec
CONSTANTS
    Modes <- EarlyRetry
    MaxData = 2
    MaxEarlyData = 2
    Expansion = 1
INVARIANT RetryRefusesEarlyData
\* A connection is idle when both applications have written all they had.
CHECK_DEADLOCK FALSE
