------------------------------- MODULE MCHand -------------------------------
(* Instances of Hand for TLC. *)
EXTENDS Hand

Blinds(sb, bb) == [type |-> "blinds", smallBlind |-> sb, bigBlind |-> bb]
AnteBet(ante, blind) == [type |-> "ante", ante |-> ante, buttonBlind |-> blind]

MCBettings == {Blinds(2, 3), AnteBet(1, 2)}

\* Stacks below the blinds, of a few bets, and deep enough for three raises.
MCBuyIns == [1..3 -> {1, 4, 7}]
MCAmounts == 1..9
MCRanks == 1..3

\* Amounts no control offers: more than any stack, and none at all.
MCApiAmounts == {0, 2, 3, 5, 6, 7, 12}

\* Stacks that all cover the blinds, for the behaviours the documents exclude.
MCBlinds == {Blinds(1, 2)}
MCDeepBuyIns == [1..3 -> {4, 9}]
=============================================================================
