------------------------------- MODULE HandRank -------------------------------
(***************************************************************************)
(* The best five cards of a seat's hole cards and the board, by the rule   *)
(* sets: backend/internal/handeval/evaluator.go and                        *)
(* backend/internal/rules/rules.go.  A card is its rank value and suit;    *)
(* the names of the cards, which BestCards keeps for display, are left     *)
(* out.                                                                    *)
(***************************************************************************)
EXTENDS Integers, FiniteSetsExt, SequencesExt

CONSTANTS Suits,
          InPlay \* by rule set, the ranks from which an instance deals

VARIABLES ruleSet,
          cards \* what Evaluate is given: dealt one by one, all different

vars == <<ruleSet, cards>>

LongRanking == <<"straight_flush", "four_of_a_kind", "full_house", "flush", "straight",
                 "three_of_a_kind", "two_pair", "one_pair", "high_card">>

ruleSets == [long  |-> [ranks |-> 2..14, wheel |-> <<14, 5, 4, 3, 2>>, ranking |-> LongRanking],
             short |-> [ranks |-> 6..14, wheel |-> <<14, 9, 8, 7, 6>>,
                        ranking |-> [LongRanking EXCEPT ![3] = "flush", ![4] = "full_house"]]]

\* suitCodes has four.
ASSUME SuitsAssumption == IsFiniteSet(Suits) /\ Cardinality(Suits) <= 4

\* Get refuses any other rule set.
ASSUME InPlayAssumption == DOMAIN InPlay \subseteq DOMAIN ruleSets

Deck(id) == [rank : InPlay[id] \cap ruleSets[id].ranks, suit : Suits]

Ranks(hand) == {card.rank : card \in hand}
Count(hand, rank) == Cardinality({card \in hand : card.rank = rank})

\* The ranks in descending order: i - 1 of them are higher than the i-th.
HighestFirst(ranks) ==
    [i \in 1..Cardinality(ranks) |->
        CHOOSE rank \in ranks : Cardinality({higher \in ranks : higher > rank}) = i - 1]

\* The ranks, the more frequent first and the higher first of equally frequent ones.
rankGroups(five) ==
    LET count == [rank \in Ranks(five) |-> Count(five, rank)]
        Times(n) == HighestFirst({rank \in DOMAIN count : count[rank] = n})
    IN  Times(4) \o Times(3) \o Times(2) \o Times(1)

Consecutive(five) == Cardinality(Ranks(five)) = 5 /\ \A p, q \in Ranks(five) : p - q < 5

\* Mutant of straightHigh: the ace only counts high.
straightAceHigh(rs, five) == IF Consecutive(five) THEN Max(Ranks(five)) ELSE 0

\* The highest rank of a straight, or 0; the ace is low in the wheel.
straightHigh(rs, five) ==
    IF Range(rs.wheel) \subseteq Ranks(five) THEN rs.wheel[2]
    ELSE IF Consecutive(five) THEN Max(Ranks(five))
    ELSE 0

Class(rs, five) ==
    LET groups   == rankGroups(five)
        count(i) == Count(five, groups[i])
        flush    == \E suit \in Suits : \A card \in five : card.suit = suit
        straight == straightHigh(rs, five) > 0
    IN  IF flush /\ straight THEN "straight_flush"
        ELSE IF count(1) = 4 THEN "four_of_a_kind"
        ELSE IF count(1) = 3 /\ count(2) = 2 THEN "full_house"
        ELSE IF flush THEN "flush"
        ELSE IF straight THEN "straight"
        ELSE IF count(1) = 3 THEN "three_of_a_kind"
        ELSE IF count(1) = 2 /\ count(2) = 2 THEN "two_pair"
        ELSE IF count(1) = 2 THEN "one_pair"
        ELSE "high_card"

\* The ranks that decide between hands of the same class.
evaluateFive(rs, five) ==
    LET class == Class(rs, five)
    IN  [class |-> class,
         ranks |-> IF class \in {"straight_flush", "straight"} THEN <<straightHigh(rs, five)>>
                   ELSE rankGroups(five)]

classScore(rs, class) == Len(rs.ranking) + 1 - SelectInSeq(rs.ranking, LAMBDA c : c = class)

\* Mutant of Compare: the last kicker is not compared.
CompareButLast(rs, a, b) ==
    LET differ == {i \in DOMAIN a.ranks \cap DOMAIN b.ranks : a.ranks[i] # b.ranks[i] /\ i < 5}
    IN  IF a.class # b.class THEN classScore(rs, a.class) - classScore(rs, b.class)
        ELSE IF differ # {} THEN a.ranks[Min(differ)] - b.ranks[Min(differ)]
        ELSE 0

Compare(rs, a, b) ==
    LET differ == {i \in DOMAIN a.ranks \cap DOMAIN b.ranks : a.ranks[i] # b.ranks[i]}
    IN  IF a.class # b.class THEN classScore(rs, a.class) - classScore(rs, b.class)
        ELSE IF differ # {} THEN a.ranks[Min(differ)] - b.ranks[Min(differ)]
        ELSE Len(a.ranks) - Len(b.ranks)

Highest(rs, hands) == CHOOSE h \in hands : \A g \in hands : Compare(rs, g, h) <= 0

Hands(rs, hand) == {evaluateFive(rs, five) : five \in kSubset(5, hand)}

\* The best of the combinations of five.
Evaluate(rs, hand) == Highest(rs, Hands(rs, hand))

Init == ruleSet \in DOMAIN InPlay /\ cards = {}

\* A hole card or a card of the board.
Deal == /\ Cardinality(cards) < 7
        /\ \E card \in Deck(ruleSet) \ cards : cards' = cards \cup {card}
        /\ UNCHANGED ruleSet

Spec == Init /\ [][Deal]_vars

-----------------------------------------------------------------------------
\* What the cards are worth by the rules of the game, without choosing five.

Suited(hand, suit) == {card.rank : card \in {c \in hand : c.suit = suit}}
AtLeast(hand, n) == {rank \in Ranks(hand) : Count(hand, rank) >= n}

\* A straight up to high, all of whose ranks are there.
Straights(rs, there) ==
    {<<high>> : high \in {h \in there : (IF h = rs.wheel[2] THEN Range(rs.wheel) ELSE h - 4..h) \subseteq there}}

\* The first ranks, followed by the n highest others, if there are so many.
Kickers(first, n, there) ==
    LET others == HighestFirst(there \ Range(first))
    IN  IF Len(others) >= n THEN {first \o SubSeq(others, 1, n)} ELSE {}

Offers(rs, hand, class) ==
    CASE class = "straight_flush"  -> UNION {Straights(rs, Suited(hand, s)) : s \in Suits}
      [] class = "four_of_a_kind"  -> UNION {Kickers(<<r>>, 1, Ranks(hand)) : r \in AtLeast(hand, 4)}
      [] class = "full_house"      -> {full \in AtLeast(hand, 3) \X AtLeast(hand, 2) : full[1] # full[2]}
      [] class = "flush"           -> UNION {Kickers(<<>>, 5, Suited(hand, s)) : s \in Suits}
      [] class = "straight"        -> Straights(rs, Ranks(hand))
      [] class = "three_of_a_kind" -> UNION {Kickers(<<r>>, 2, Ranks(hand)) : r \in AtLeast(hand, 3)}
      [] class = "two_pair"        -> UNION {Kickers(pair, 1, Ranks(hand)) :
                                             pair \in {two \in AtLeast(hand, 2) \X AtLeast(hand, 2) : two[1] > two[2]}}
      [] class = "one_pair"        -> UNION {Kickers(<<p>>, 3, Ranks(hand)) : p \in AtLeast(hand, 2)}
      [] class = "high_card"       -> Kickers(<<>>, 5, Ranks(hand))

\* The strongest class the cards offer, with the highest ranks.
Worth(rs, hand) ==
    LET first == Min({i \in DOMAIN rs.ranking : Offers(rs, hand, rs.ranking[i]) # {}})
        class == rs.ranking[first]
    IN  Highest(rs, {[class |-> class, ranks |-> ranks] : ranks \in Offers(rs, hand, class)})

\* The best of the combinations of five cards is what all the cards are worth:
\* no kicker, pair or straight is lost between two combinations (Evaluate).
BestIsWorth ==
    Cardinality(cards) >= 5 =>
        Evaluate(ruleSets[ruleSet], cards) = Worth(ruleSets[ruleSet], cards)

\* Hands split a pot only if they are worth the same, and of others the same one
\* wins whichever is compared with which: the winner does not depend on the order
\* of the combinations or of the seats (Compare, settleShowdown).
HandsAreOrdered ==
    LET rs == ruleSets[ruleSet]
    IN  \A a, b \in Hands(rs, cards) : /\ Compare(rs, a, b) = -Compare(rs, b, a)
                                      /\ Compare(rs, a, b) = 0 <=> a = b
=============================================================================
