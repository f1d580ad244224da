SPECIFICATION LayerSpec
CONSTANTS
    WINDOW = 3
    MaxEpoch = 1
    MaxSeq = 7
    Wrap = 7
    MAX_EPOCH_INDEX = 4
    EpochMod = 6
    MaxUsage = 1
INVARIANTS
    WindowTypeOK
    NoReplay
    WindowExact
    TypeOK
    SlotsAligned
    ActiveReady
    QueuedHeld
PROPERTIES
    ImplementsFilter
    GcKeepsLive
\* A session whose sequence numbers ran out is invalid and does nothing more.
CHECK_DEADLOCK FALSE
