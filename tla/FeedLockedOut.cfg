SPECIFICATION Spec
CONSTANTS
    MaxRoom = 3
    MaxHands = 1
    MaxPlays = 2
    MaxConnections = 2
    MaxHttp = 0
INVARIANT MayActAgain
CHECK_DEADLOCK FALSE
