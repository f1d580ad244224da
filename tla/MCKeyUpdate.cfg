SPECIFICATION Spec
CONSTANTS
    Nodes = {a, b}
    Senders = {a}
    MaxUpdates = 2
    Profiles <- SafeProfiles
INVARIANTS
    TypeOK
    KeysInStep
    StreamIntegrity
    NothingDropped
    UpdateBeforeData
    EofComplete
    ByeAnnounced
\* The bounded applications stop when they have nothing left to send.
CHECK_DEADLOCK FALSE
