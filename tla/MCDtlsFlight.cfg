SPECIFICATION Spec
CONSTANTS
    Modes <- AllModes
    MaxCcs = 2
INVARIANTS
    TypeOK
    FlightsNotMixed
    LastFlightKept
    FlightHeldWhileWaiting
PROPERTY CompletesOrAbandoned
\* Once both are done and the last record is taken nothing more happens.
CHECK_DEADLOCK FALSE
