SPECIFICATION Spec
CONSTANTS
    Sessions = {s1}
    TPS = 2
    Expire = 1
    Window = 3
    Boot = 17
    MaxTime = 21
    MaxTickets = 1
    MaxHellos = 2
INVARIANTS
    TypeOK
    NoLateResumption
    RefusedExactly
    AcceptedAgain
\* The bounded clock stops.
CHECK_DEADLOCK FALSE
