-------------------------------- MODULE Pots --------------------------------
(***************************************************************************)
(* The side-pot algorithms of backend/internal/pot/pot.go.                 *)
(*                                                                         *)
(* A list of contributions is a pair of a function from seats to chips and *)
(* the set of live seats.  A list of pots is a function whose domain is    *)
(* the set of contribution levels: the code appends one pot per level in   *)
(* ascending order, so a level identifies the pot the code calls "pot-i".  *)
(***************************************************************************)
EXTENDS Integers, FiniteSets, FiniteSetsExt

\* The distinct positive contributions (levelsMap).
Levels(committed) == {committed[s] : s \in DOMAIN committed} \ {0}

\* prev of the loop: the level below this one, or 0.
LevelBelow(committed, level) ==
    Max({0} \cup {k \in Levels(committed) : k < level})

\* Mutant of Participants: whoever put in anything.
Contributors(committed, level) == {s \in DOMAIN committed : committed[s] > 0}

\* The seats that put in at least the level, folded or not.
Participants(committed, level) ==
    {s \in DOMAIN committed : committed[s] >= level}

PotAmount(committed, level) ==
    (level - LevelBelow(committed, level))
        * Cardinality(Participants(committed, level))

\* Only live participants compete for the pot.
Eligible(committed, live, level) == Participants(committed, level) \cap live

Build(committed, live) ==
    [level \in Levels(committed) |->
        [amount   |-> PotAmount(committed, level),
         eligible |-> Eligible(committed, live, level)]]

-----------------------------------------------------------------------------

\* The position of a seat in orderFromButtonLeft(seatOrder, button): 0 for the
\* seat left of the button, n - 1 for the button itself.
FromButtonLeft(s, button, n) == (s - button - 1) % n

\* Mutant of SplitAward: an odd chip to every winner.
SplitRoundingUp(amount, winners, button, n, w) ==
    (amount + Cardinality(winners) - 1) \div Cardinality(winners)

\* The award of winner w.  Equal shares; the remainder goes chip by chip to the
\* winners in the order from the button's left.
SplitAward(amount, winners, button, n, w) ==
    LET earlier == {v \in winners :
                        FromButtonLeft(v, button, n) < FromButtonLeft(w, button, n)}
    IN  amount \div Cardinality(winners)
        + IF Cardinality(earlier) < amount % Cardinality(winners) THEN 1 ELSE 0

-----------------------------------------------------------------------------
\* settleShowdown of game.go applied to the pots.

\* The best hands among the eligible seats share a pot.
Winners(eligible, rank) ==
    {s \in eligible : \A t \in eligible : rank[t] <= rank[s]}

\* What a seat takes from the pot of a level: nothing when it does not win it.
PotAward(p, rank, button, n, s) ==
    LET winners == Winners(p.eligible, rank)
    IN  IF s \in winners THEN SplitAward(p.amount, winners, button, n, s) ELSE 0

\* What a seat takes from all the pots.
AwardTo(pots, rank, button, n, s) ==
    MapThenSumSet(LAMBDA level : PotAward(pots[level], rank, button, n, s), DOMAIN pots)

PotTotal(pots) == MapThenSumSet(LAMBDA level : pots[level].amount, DOMAIN pots)
=============================================================================
