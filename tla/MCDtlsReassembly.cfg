SPECIFICATION Spec
CHECK_DEADLOCK FALSE
CONSTANTS
    Messages <- ThreeFlights
    MTUs = {2, 3, 5}
    MAX_HANDSHAKE_MSGS = 3
INVARIANTS
    TypeOK
    IntervalHeld
    DeliveredWhole
    RoomForFlight
PROPERTY AllDelivered
