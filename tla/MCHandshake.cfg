SPECIFICATION FairSpec
CONSTANTS
    Modes <- AllModes
    MaxData = 2
    MaxEarlyData = 2
    Expansion = 1
INVARIANTS
    TypeOK
    NoFatal
    KeysAgree
    ResumptionAgree
    StreamIntegrity
    InSequence
PROPERTIES
    Completes
    ReauthCompletes
\* A connection is idle when both applications have written all they had.
CHECK_DEADLOCK FALSE
