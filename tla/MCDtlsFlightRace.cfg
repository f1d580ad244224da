SPECIFICATION Spec
CONSTANTS
    Modes <- NonblockingFull
    MaxCcs = 2
PROPERTY Completes
\* Once both are done and the last record is taken nothing more happens.
CHECK_DEADLOCK FALSE
