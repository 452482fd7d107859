\* Three users, three seats, two hands.
SPECIFICATION Spec
CONSTANTS
    u1 = u1
    u2 = u2
    u3 = u3
    Users <- MCUsers
    Owner = u1
    NoUser = NoUser
    NumSeats = 3
    MinPlayers = 2
    BuyIns = {1}
    Balance = 2
    SmallBlind = 1
    BigBlind = 2
    Recharge = 1
    Rechargers = {u1}
    MaxHands = 2
SYMMETRY MCSymmetry
INVARIANTS
    TypeOK
    RoomConsistent
    ChipsAccountedFor
PROPERTIES
    HandsDoNotOverlap
\* Everybody may have left a closed room.
CHECK_DEADLOCK FALSE
