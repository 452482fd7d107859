\* Three seats, any amount an API client may send.
SPECIFICATION Spec
CONSTANTS
    NumSeats = 3
    Button = 1
    Bettings <- MCBettings
    BuyIns <- MCBuyIns
    Amounts <- MCApiAmounts
    Ranks <- MCRanks
    Guided = FALSE
INVARIANTS
    TypeOK
    ChipsBehind
    EqualStakes
    SettlementExact
    SidePotRule
    EvenHandsPlayOn
PROPERTIES
    EvenHandsAdvance
\* A settled hand takes no more commands.
CHECK_DEADLOCK FALSE
