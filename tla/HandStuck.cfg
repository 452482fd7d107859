\* Every seat covers the blinds and only uses the offered buttons.
SPECIFICATION Spec
CONSTANTS
    NumSeats = 3
    Button = 1
    Bettings <- MCBlinds
    BuyIns <- MCDeepBuyIns
    Amounts <- MCAmounts
    Ranks <- MCRanks
    Guided = TRUE
INVARIANTS
    SomebodyCanAct
\* A settled hand takes no more commands.
CHECK_DEADLOCK FALSE
