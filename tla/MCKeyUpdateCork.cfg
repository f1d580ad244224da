SPECIFICATION Spec
CONSTANTS
    Nodes = {a, b}
    Senders = {a}
    MaxUpdates = 2
    Profiles <- CorkedRequests
INVARIANT UpdateBeforeData
\* The bounded applications stop when they have nothing left to send.
CHECK_DEADLOCK FALSE
