\* Two seats, three hands of up to two turns, one command under way.
SPECIFICATION Spec
CONSTANTS
    Seats = {1, 2}
    MaxHands = 3
    MaxTurns = 2
    MaxSent = 1
INVARIANTS
    TypeOK
    TimerArmed
PROPERTIES
    TimeoutPlaysItsTurn
    NextHandFollowsItsSettlement
    TurnEnds
    TablePlaysOn
CHECK_DEADLOCK FALSE
