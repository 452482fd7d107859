\* A buy-in of more than half the balance, lost.
SPECIFICATION Spec
CONSTANTS
    u1 = u1
    u2 = u2
    u3 = u3
    Users <- MCTwoUsers
    Owner = u1
    NoUser = NoUser
    NumSeats = 2
    MinPlayers = 2
    BuyIns = {3}
    Balance = 4
    SmallBlind = 1
    BigBlind = 2
    Recharge = 1
    Rechargers = {}
    MaxHands = 1
INVARIANTS
    EveryHandCanBeBooked
CHECK_DEADLOCK FALSE
