SPECIFICATION Spec
CONSTANTS
    MaxConns = 2
    Sequences = 4
    MaxArrivals = 1
    MaxSaid = 1
    MaxShip = 1
    MaxGarbled = 1
    MaxCount = 3
INVARIANTS DeliveredToOwnSession
PROPERTIES AccountsAgree GoneIsReported ComesToRest
CHECK_DEADLOCK FALSE
