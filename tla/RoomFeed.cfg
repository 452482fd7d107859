SPECIFICATION Spec
CONSTANTS
    MaxRoom = 4
    MaxHands = 2
    MaxPlays = 2
    MaxConnections = 2
    MaxHttp = 1
INVARIANTS
    TypeOK
    CaughtUp
    HearsOfEveryVersion
PROPERTIES
    HandNeverGoesBack
CHECK_DEADLOCK FALSE
