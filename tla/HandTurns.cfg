\* Three seats, requests from the table controls.
SPECIFICATION OwingSpec
CONSTANTS
    NumSeats = 3
    Button = 1
    Bettings <- MCBettings
    BuyIns <- MCBuyIns
    Amounts <- MCAmounts
    Ranks <- MCRanks
    Guided = TRUE
PROPERTIES
    CommittedChipsStay
    NobodySkipped
    HandEnds
    ImplementsContract
\* A settled hand takes no more commands.
CHECK_DEADLOCK FALSE
