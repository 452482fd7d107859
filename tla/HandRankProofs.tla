--------------------------- MODULE HandRankProofs ---------------------------
(***************************************************************************)
(* Proofs about HandRank.  Compare orders all hands of five, with ties     *)
(* only between equal hands, so that any cards have one best hand, and     *)
(* further cards never make it worse.  The best hand is what all the cards *)
(* are worth: what they offer of a class bounds each five of them in that  *)
(* class, and five of them make it.  All this holds for both rule sets and *)
(* for any number of cards of up to four suits.                            *)
(***************************************************************************)
EXTENDS HandRank, SumProofs

-----------------------------------------------------------------------------
(* Sequences of integers, the first difference deciding.                   *)

\* p comes before q: it is lower where they first differ, or ends there.
Less(p, q) ==
    \E m \in 1..Len(q) :
        /\ \A i \in 1..m - 1 : i <= Len(p) /\ p[i] = q[i]
        /\ m > Len(p) \/ p[m] < q[m]

\* The places where two hands of one class differ.
Differ(p, q) == {i \in DOMAIN p \cap DOMAIN q : p[i] # q[i]}

\* What Compare returns of the ranks.
Difference(p, q) == IF Differ(p, q) # {} THEN p[Min(Differ(p, q))] - q[Min(Differ(p, q))]
                    ELSE Len(p) - Len(q)

\* A set of natural numbers has a minimum.
LEMMA MinIs ==
    ASSUME NEW T, T \subseteq Nat, T # {}
    PROVE  Min(T) \in T /\ \A x \in T : Min(T) <= x
BY LeastNatural DEF Min

\* The difference is negative, zero or positive as the ranks come before, are
\* equal or come after.
LEMMA DifferenceIs ==
    ASSUME NEW p \in Seq(Int), NEW q \in Seq(Int)
    PROVE  /\ Difference(p, q) \in Int
           /\ Difference(p, q) = -Difference(q, p)
           /\ Difference(p, q) < 0 <=> Less(p, q)
           /\ Difference(p, q) = 0 <=> p = q
<1>1. /\ DOMAIN p = 1..Len(p) /\ DOMAIN q = 1..Len(q) /\ Len(p) \in Nat /\ Len(q) \in Nat
      /\ \A i \in 1..Len(p) : p[i] \in Int
      /\ \A i \in 1..Len(q) : q[i] \in Int
  OBVIOUS
<1>2. Differ(p, q) = Differ(q, p) /\ Differ(p, q) \subseteq Nat
  BY <1>1 DEF Differ
<1>3. CASE Differ(p, q) # {}
  <2>1. PICK m : m = Min(Differ(p, q))
    OBVIOUS
  <2>2. m \in Differ(p, q) /\ \A i \in Differ(p, q) : m <= i
    BY <1>2, <1>3, <2>1, MinIs
  <2>3. /\ m \in 1..Len(p) /\ m \in 1..Len(q) /\ p[m] # q[m]
        /\ \A i \in 1..m - 1 : i \in 1..Len(p) /\ i \in 1..Len(q) /\ p[i] = q[i]
    <3>1. m \in 1..Len(p) /\ m \in 1..Len(q) /\ p[m] # q[m]
      BY <1>1, <2>2 DEF Differ
    <3>2. ASSUME NEW i \in 1..m - 1 PROVE i \in 1..Len(p) /\ i \in 1..Len(q) /\ p[i] = q[i]
      <4>1. i \in 1..Len(p) /\ i \in 1..Len(q) /\ ~(m <= i)
        BY <1>1, <3>1
      <4>2. i \notin Differ(p, q)
        BY <2>2, <4>1
      <4> QED BY <1>1, <4>1, <4>2 DEF Differ
    <3> QED BY <3>1, <3>2
  <2>4. Difference(p, q) = p[m] - q[m] /\ Difference(q, p) = q[m] - p[m]
    BY <1>2, <1>3, <2>1 DEF Difference
  <2>5. ASSUME p[m] < q[m] PROVE Less(p, q)
    <3>1. \A i \in 1..m - 1 : i <= Len(p) /\ p[i] = q[i]
      BY <1>1, <2>3
    <3>2. m > Len(p) \/ p[m] < q[m]
      BY <2>5
    <3>3. m \in 1..Len(q)
      BY <2>3
    <3> QED BY <3>1, <3>2, <3>3 DEF Less
  <2>6. ASSUME Less(p, q) PROVE p[m] < q[m]
    <3>1. PICK k \in 1..Len(q) : /\ \A i \in 1..k - 1 : i <= Len(p) /\ p[i] = q[i]
                                 /\ k > Len(p) \/ p[k] < q[k]
      BY <2>6 DEF Less
    <3>2. ASSUME m < k PROVE FALSE
      <4>1. m \in 1..k - 1
        BY <1>1, <2>3, <3>2
      <4> QED BY <2>3, <3>1, <4>1
    <3>3. ASSUME k < m PROVE FALSE
      <4>1. k \in 1..m - 1
        BY <1>1, <2>3, <3>3
      <4>2. k \in 1..Len(p) /\ p[k] = q[k] /\ p[k] \in Int
        BY <1>1, <2>3, <4>1
      <4> QED BY <1>1, <3>1, <4>2
    <3>4. k = m
      BY <1>1, <2>3, <3>2, <3>3
    <3> QED BY <1>1, <2>3, <3>1, <3>4
  <2> QED BY <1>1, <2>3, <2>4, <2>5, <2>6
<1>4. CASE Differ(p, q) = {}
  <2>1. \A i \in 1..Len(p) : i \in 1..Len(q) => p[i] = q[i]
    BY <1>1, <1>4 DEF Differ
  <2>2. Difference(p, q) = Len(p) - Len(q) /\ Difference(q, p) = Len(q) - Len(p)
    BY <1>2, <1>4 DEF Difference
  <2>3. ASSUME Len(p) < Len(q) PROVE Less(p, q)
    <3>1. Len(p) + 1 \in 1..Len(q) /\ Len(p) + 1 > Len(p)
      BY <1>1, <2>3
    <3>2. ASSUME NEW i \in 1..(Len(p) + 1) - 1 PROVE i <= Len(p) /\ p[i] = q[i]
      <4>1. i \in 1..Len(p) /\ i \in 1..Len(q)
        BY <1>1, <2>3
      <4> QED BY <1>1, <2>1, <4>1
    <3>3. PICK m : m = Len(p) + 1
      OBVIOUS
    <3>4. m \in 1..Len(q) /\ m > Len(p) /\ \A i \in 1..m - 1 : i <= Len(p) /\ p[i] = q[i]
      BY <3>1, <3>2, <3>3
    <3> QED BY <3>4 DEF Less
  <2>4. ASSUME Less(p, q) PROVE Len(p) < Len(q)
    <3>1. PICK k \in 1..Len(q) : k > Len(p) \/ p[k] < q[k]
      BY <2>4 DEF Less
    <3>2. CASE k > Len(p)
      BY <1>1, <3>2
    <3>3. CASE k <= Len(p)
      BY <1>1, <2>1, <3>1, <3>3
    <3> QED BY <1>1, <3>2, <3>3
  <2>5. ASSUME Len(p) = Len(q) PROVE p = q
    <3>1. p = [i \in 1..Len(p) |-> p[i]] /\ q = [i \in 1..Len(q) |-> q[i]]
      BY <1>1
    <3> QED BY <2>1, <2>5, <3>1
  <2>6. /\ Difference(p, q) \in Int
        /\ Difference(p, q) = -Difference(q, p)
        /\ Difference(p, q) < 0 <=> Len(p) < Len(q)
        /\ Difference(p, q) = 0 <=> Len(p) = Len(q)
    <3>1. PICK x, y : x = Len(p) /\ y = Len(q)
      OBVIOUS
    <3>2. x \in Int /\ y \in Int /\ Difference(p, q) = x - y /\ Difference(q, p) = y - x
      BY <1>1, <2>2, <3>1
    <3>3. /\ Difference(p, q) \in Int /\ Difference(p, q) = -Difference(q, p)
      BY <3>2
    <3>4. /\ Difference(p, q) < 0 <=> x < y
          /\ Difference(p, q) = 0 <=> x = y
      BY <3>2
    <3> QED BY <3>1, <3>3, <3>4
  <2>7. Difference(p, q) < 0 <=> Less(p, q)
    BY <2>3, <2>4, <2>6
  <2>8. Difference(p, q) = 0 <=> p = q
    BY <2>5, <2>6
  <2> QED BY <2>6, <2>7, <2>8
<1> QED BY <1>3, <1>4

\* Before what comes before r is before r.
LEMMA LessTransitive ==
    ASSUME NEW p \in Seq(Int), NEW q \in Seq(Int), NEW r \in Seq(Int), Less(p, q), Less(q, r)
    PROVE  Less(p, r)
<1>1. /\ Len(p) \in Nat /\ Len(q) \in Nat /\ Len(r) \in Nat
      /\ \A i \in 1..Len(p) : p[i] \in Int
      /\ \A i \in 1..Len(q) : q[i] \in Int
      /\ \A i \in 1..Len(r) : r[i] \in Int
  OBVIOUS
<1>2. PICK k \in 1..Len(q) : /\ \A i \in 1..k - 1 : i <= Len(p) /\ p[i] = q[i]
                             /\ k > Len(p) \/ p[k] < q[k]
  BY DEF Less
<1>3. PICK l \in 1..Len(r) : /\ \A i \in 1..l - 1 : i <= Len(q) /\ q[i] = r[i]
                             /\ l > Len(q) \/ q[l] < r[l]
  BY DEF Less
<1>4. CASE k <= l
  <2>1. k \in 1..Len(r)
    BY <1>1, <1>4
  <2>2. ASSUME NEW i \in 1..k - 1 PROVE i <= Len(p) /\ p[i] = r[i]
    <3>1. i \in 1..l - 1
      BY <1>1, <1>4
    <3> QED BY <1>2, <1>3, <3>1
  <2>3. k <= Len(p) => p[k] < r[k]
    <3>1. ASSUME k < l PROVE q[k] = r[k]
      <4>1. k \in 1..l - 1
        BY <1>1, <3>1
      <4> QED BY <1>3, <4>1
    <3>2. k = l => q[k] < r[k]
      BY <1>1, <1>3
    <3>3. CASE k < l
      BY <1>1, <1>2, <3>1, <3>3
    <3>4. CASE k = l
      <4>1. k <= Len(p) => p[k] < q[k] /\ p[k] \in Int
        BY <1>1, <1>2
      <4>2. q[k] \in Int /\ r[k] \in Int
        BY <1>1, <2>1
      <4> QED BY <3>2, <3>4, <4>1, <4>2
    <3> QED BY <1>1, <1>4, <3>3, <3>4
  <2>4. k > Len(p) \/ p[k] < r[k]
    BY <1>1, <2>3
  <2>5. \A i \in 1..k - 1 : i <= Len(p) /\ p[i] = r[i]
    BY <2>2
  <2> QED BY <2>1, <2>4, <2>5 DEF Less
<1>5. CASE l < k
  <2>1. l \in 1..Len(p) /\ l \in 1..Len(q) /\ p[l] = q[l]
    <3>1. l \in 1..k - 1
      BY <1>1, <1>5
    <3>2. l <= Len(p) /\ p[l] = q[l]
      BY <1>2, <3>1
    <3> QED BY <1>1, <1>5, <3>2
  <2>2. p[l] < r[l]
    BY <1>1, <1>3, <2>1
  <2>3. ASSUME NEW i \in 1..l - 1 PROVE i <= Len(p) /\ p[i] = r[i]
    <3>1. i \in 1..k - 1
      BY <1>1, <1>5
    <3> QED BY <1>2, <1>3, <3>1
  <2> QED BY <2>2, <2>3 DEF Less
<1> QED BY <1>1, <1>4, <1>5

-----------------------------------------------------------------------------
(* Hands of five.                                                          *)

RuleSets == {ruleSets[id] : id \in DOMAIN ruleSets}

Classes == {"straight_flush", "four_of_a_kind", "full_house", "flush", "straight",
            "three_of_a_kind", "two_pair", "one_pair", "high_card"}

\* What Compare is given.
Ranked == [class : Classes, ranks : Seq(Int)]

\* A rule set ranks each class once.
LEMMA ClassesRanked ==
    ASSUME NEW rs \in RuleSets
    PROVE  /\ Len(rs.ranking) = 9
           /\ \A class \in Classes : \E i \in 1..9 : rs.ranking[i] = class
           /\ \A i, j \in 1..9 : rs.ranking[i] = rs.ranking[j] => i = j
<1>1. PICK id \in {"long", "short"} : rs = ruleSets[id]
  BY DEF RuleSets, ruleSets
<1>2. CASE id = "long"
  <2>1. rs.ranking = LongRanking
    BY <1>1, <1>2 DEF ruleSets
  <2> QED BY <2>1 DEF LongRanking, Classes
<1>3. CASE id = "short"
  <2>1. rs.ranking = <<"straight_flush", "four_of_a_kind", "flush", "full_house", "straight",
                       "three_of_a_kind", "two_pair", "one_pair", "high_card">>
    BY <1>1, <1>3 DEF ruleSets, LongRanking
  <2> QED BY <2>1 DEF Classes
<1> QED BY <1>1, <1>2, <1>3

\* The places of a class in the ranking, of which the first counts.
Places(rs, class) == {i \in 1..Len(rs.ranking) : rs.ranking[i] = class}

\* The score of a class counts its place from below.
LEMMA ScoreIs ==
    ASSUME NEW rs, NEW class
    PROVE  classScore(rs, class) =
               Len(rs.ranking) + 1 - (IF Places(rs, class) # {} THEN Min(Places(rs, class)) ELSE 0)
BY Zenon DEF classScore, SelectInSeq, Places

\* Classes score by their places in the ranking.
LEMMA ScoreOf ==
    ASSUME NEW rs \in RuleSets, NEW i \in 1..9
    PROVE  classScore(rs, rs.ranking[i]) = 10 - i
<1>0. Len(rs.ranking) = 9 /\ \A k, j \in 1..9 : rs.ranking[k] = rs.ranking[j] => k = j
  BY ClassesRanked
<1>1. Places(rs, rs.ranking[i]) = {i}
  BY <1>0 DEF Places
<1>2. Min({i}) = i
  BY MinIs
<1>3. PICK c : c = rs.ranking[i]
  OBVIOUS
<1>4. classScore(rs, c) = Len(rs.ranking) + 1 - (IF Places(rs, c) # {} THEN Min(Places(rs, c)) ELSE 0)
  BY ScoreIs
<1>5. classScore(rs, c) = 9 + 1 - i
  BY <1>0, <1>1, <1>2, <1>3, <1>4
<1> QED BY <1>3, <1>5

\* Classes have different scores.
LEMMA ScoresDiffer ==
    ASSUME NEW rs \in RuleSets
    PROVE  /\ \A c \in Classes : classScore(rs, c) \in Int
           /\ \A c, d \in Classes : classScore(rs, c) = classScore(rs, d) => c = d
<1>0. /\ Len(rs.ranking) = 9
      /\ \A class \in Classes : \E i \in 1..9 : rs.ranking[i] = class
      /\ \A i, j \in 1..9 : rs.ranking[i] = rs.ranking[j] => i = j
  BY ClassesRanked
<1>1. \A i \in 1..9 : classScore(rs, rs.ranking[i]) = 10 - i
  BY ScoreOf
<1>2. \A c \in Classes : \E i \in 1..9 : rs.ranking[i] = c /\ classScore(rs, c) = 10 - i
  BY <1>0, <1>1
<1>3. ASSUME NEW c \in Classes, NEW d \in Classes, classScore(rs, c) = classScore(rs, d)
      PROVE  c = d
  <2>1. PICK i \in 1..9 : rs.ranking[i] = c /\ classScore(rs, c) = 10 - i
    BY <1>2
  <2>2. PICK j \in 1..9 : rs.ranking[j] = d /\ classScore(rs, d) = 10 - j
    BY <1>2
  <2>3. 10 - i = 10 - j
    BY <1>3, <2>1, <2>2
  <2>4. i = j
    BY <2>3
  <2> QED BY <2>1, <2>2, <2>4
<1>4. \A c \in Classes : classScore(rs, c) \in Int
  BY <1>2
<1> QED BY <1>3, <1>4

\* Of two hands the better one has the higher class or, in the same class, the
\* higher rank where they first differ.
LEMMA CompareIs ==
    ASSUME NEW rs, NEW a, NEW b
    PROVE  Compare(rs, a, b) = IF a.class # b.class
                               THEN classScore(rs, a.class) - classScore(rs, b.class)
                               ELSE Difference(a.ranks, b.ranks)
BY DEF Compare, Difference, Differ

\* Two hands compare the other way round when swapped, and tie only if equal.
LEMMA CompareOrders ==
    ASSUME NEW rs \in RuleSets, NEW a \in Ranked, NEW b \in Ranked
    PROVE  /\ Compare(rs, a, b) \in Int
           /\ Compare(rs, a, b) = -Compare(rs, b, a)
           /\ Compare(rs, a, b) = 0 <=> a = b
<1>1. /\ a.class \in Classes /\ b.class \in Classes
      /\ a.ranks \in Seq(Int) /\ b.ranks \in Seq(Int)
      /\ a = [class |-> a.class, ranks |-> a.ranks]
      /\ b = [class |-> b.class, ranks |-> b.ranks]
  BY DEF Ranked
<1>2. CASE a.class # b.class
  <2>1. /\ Compare(rs, a, b) = classScore(rs, a.class) - classScore(rs, b.class)
        /\ Compare(rs, b, a) = classScore(rs, b.class) - classScore(rs, a.class)
    BY <1>2, CompareIs
  <2>2. /\ classScore(rs, a.class) \in Int /\ classScore(rs, b.class) \in Int
        /\ classScore(rs, a.class) # classScore(rs, b.class)
    BY <1>1, <1>2, ScoresDiffer
  <2> QED BY <1>2, <2>1, <2>2
<1>3. CASE a.class = b.class
  <2>1. /\ Compare(rs, a, b) = Difference(a.ranks, b.ranks)
        /\ Compare(rs, b, a) = Difference(b.ranks, a.ranks)
    BY <1>3, CompareIs
  <2>2. a = b <=> a.ranks = b.ranks
    BY <1>1, <1>3
  <2> QED BY <1>1, <2>1, <2>2, DifferenceIs
<1> QED BY <1>2, <1>3

\* No better than what is no better than c is no better than c: hands that win
\* from each other do not go round.
THEOREM CompareTransitive ==
    ASSUME NEW rs \in RuleSets, NEW a \in Ranked, NEW b \in Ranked, NEW c \in Ranked,
           Compare(rs, a, b) <= 0, Compare(rs, b, c) <= 0
    PROVE  Compare(rs, a, c) <= 0
<1>1. /\ a.class \in Classes /\ b.class \in Classes /\ c.class \in Classes
      /\ a.ranks \in Seq(Int) /\ b.ranks \in Seq(Int) /\ c.ranks \in Seq(Int)
  BY DEF Ranked
<1>2. CASE a = b \/ b = c
  BY <1>2
<1>3. CASE a # b /\ b # c
  <2>1. Compare(rs, a, b) < 0 /\ Compare(rs, b, c) < 0
    BY <1>3, CompareOrders
  <2>2. PICK x, y, z : /\ x = classScore(rs, a.class) /\ y = classScore(rs, b.class)
                       /\ z = classScore(rs, c.class)
    OBVIOUS
  <2>3. /\ x \in Int /\ y \in Int /\ z \in Int
        /\ x = y <=> a.class = b.class
        /\ y = z <=> b.class = c.class
        /\ x = z <=> a.class = c.class
    BY <1>1, <2>2, ScoresDiffer
  <2>4. a.class # b.class => x < y
    BY <2>1, <2>2, <2>3, CompareIs
  <2>5. b.class # c.class => y < z
    BY <2>1, <2>2, <2>3, CompareIs
  <2>6. CASE a.class # c.class
    <3>1. Compare(rs, a, c) = x - z
      BY <2>2, <2>6, CompareIs
    <3> QED BY <2>3, <2>4, <2>5, <2>6, <3>1
  <2>7. CASE a.class = c.class
    <3>1. a.class = b.class /\ b.class = c.class
      BY <2>3, <2>4, <2>5, <2>7
    <3>2. Less(a.ranks, b.ranks) /\ Less(b.ranks, c.ranks)
      BY <1>1, <2>1, <3>1, CompareIs, DifferenceIs
    <3>3. Less(a.ranks, c.ranks)
      BY <1>1, <3>2, LessTransitive
    <3>4. Difference(a.ranks, c.ranks) < 0 /\ Difference(a.ranks, c.ranks) \in Int
      BY <1>1, <3>3, DifferenceIs
    <3> QED BY <2>7, <3>4, CompareIs
  <2> QED BY <2>6, <2>7
<1> QED BY <1>2, <1>3

\* Finitely many hands have a highest one, and no second.
LEMMA HighestIs ==
    ASSUME NEW rs \in RuleSets, NEW H, H \subseteq Ranked, IsFiniteSet(H), H # {}
    PROVE  /\ Highest(rs, H) \in H
           /\ \A h \in H : Compare(rs, h, Highest(rs, H)) <= 0
           /\ \A h \in H : Compare(rs, h, Highest(rs, H)) = 0 => h = Highest(rs, H)
<1> DEFINE Best(T) == \E h \in T : \A g \in T : Compare(rs, g, h) <= 0
           Good == {T \in SUBSET H : T = {} \/ Best(T)}
<1>1. {} \in Good
  OBVIOUS
<1>2. ASSUME NEW T \in SUBSET H, T # {}, \A x \in T : T \ {x} \in Good
      PROVE  T \in Good
  <2>1. PICK z \in T : TRUE
    BY <1>2
  <2>2. Compare(rs, z, z) <= 0
    BY CompareOrders
  <2>3. CASE T \ {z} = {}
    <3>1. \A g \in T : Compare(rs, g, z) <= 0
      BY <2>2, <2>3
    <3> QED BY <3>1
  <2>4. CASE T \ {z} # {}
    <3>1. PICK x \in T \ {z} : \A g \in T \ {z} : Compare(rs, g, x) <= 0
      BY <1>2, <2>4
    <3>2. x \in Ranked /\ z \in Ranked /\ T \subseteq Ranked
      OBVIOUS
    <3>3. Compare(rs, z, x) \in Int /\ Compare(rs, x, z) = -Compare(rs, z, x)
      BY <3>2, CompareOrders
    <3>4. CASE Compare(rs, z, x) <= 0
      BY <3>1, <3>4
    <3>5. CASE Compare(rs, x, z) <= 0
      <4>1. ASSUME NEW g \in T \ {z} PROVE Compare(rs, g, z) <= 0
        BY <3>1, <3>2, <3>5, CompareTransitive
      <4>2. \A g \in T : Compare(rs, g, z) <= 0
        BY <2>2, <4>1
      <4> QED BY <4>2
    <3> QED BY <3>3, <3>4, <3>5
  <2> QED BY <2>3, <2>4
<1> HIDE DEF Good
<1>3. H \in Good
  BY <1>1, <1>2, SubsetInduction
<1>4. PICK best \in H : \A g \in H : Compare(rs, g, best) <= 0
  BY <1>3 DEF Good
<1>5. Highest(rs, H) \in H /\ \A h \in H : Compare(rs, h, Highest(rs, H)) <= 0
  BY <1>4 DEF Highest
<1>6. \A h \in H : Compare(rs, h, Highest(rs, H)) = 0 => h = Highest(rs, H)
  BY <1>5, CompareOrders
<1> QED BY <1>5, <1>6

-----------------------------------------------------------------------------
(* Ranks in descending order.                                              *)

Above(S, rank) == {higher \in S : higher > rank}

\* A place for each rank: as many are higher as come before it.
LEMMA Placed ==
    ASSUME NEW S, IsFiniteSet(S), S \subseteq Int
    PROVE  /\ HighestFirst(S) \in Seq(S) /\ HighestFirst(S) \in Seq(Int)
           /\ Len(HighestFirst(S)) = Cardinality(S) /\ Cardinality(S) \in Nat
           /\ \A i \in 1..Cardinality(S) : /\ HighestFirst(S)[i] \in S
                                           /\ Cardinality(Above(S, HighestFirst(S)[i])) = i - 1
<1> DEFINE Filled(T) == \A i \in 1..Cardinality(T) : \E r \in T : Cardinality(Above(T, r)) = i - 1
           Good == {T \in SUBSET S : Filled(T)}
<1>1. {} \in Good
  BY FS_EmptySet
<1>2. ASSUME NEW T \in SUBSET S, T # {}, \A x \in T : T \ {x} \in Good
      PROVE  T \in Good
  <2>0. IsFiniteSet(T) /\ T \subseteq Int
    BY FS_Subset
  <2>1. PICK g \in T : \A q \in T : q <= g
    BY <1>2, <2>0, GreatestInteger
  <2>2. /\ Cardinality(T) \in Nat
        /\ Cardinality(T \ {g}) = Cardinality(T) - 1 /\ IsFiniteSet(T \ {g})
    BY <2>0, FS_RemoveElement, FS_CardinalityType
  <2>3. ASSUME NEW i \in 1..Cardinality(T)
        PROVE  \E r \in T : Cardinality(Above(T, r)) = i - 1
    <3>1. CASE i = 1
      <4>1. Above(T, g) = {}
        <5>1. \A q \in T : ~ (q > g)
          BY <2>0, <2>1
        <5> QED BY <5>1 DEF Above
      <4> QED BY <3>1, <4>1, FS_EmptySet
    <3>2. CASE i # 1
      <4>1. i - 1 \in 1..Cardinality(T \ {g}) /\ i - 1 - 1 \in Int
        BY <2>2, <3>2
      <4>2. PICK r \in T \ {g} : Cardinality(Above(T \ {g}, r)) = (i - 1) - 1
        BY <1>2, <4>1
      <4>3. Above(T, r) = Above(T \ {g}, r) \cup {g} /\ g \notin Above(T \ {g}, r)
        BY <2>0, <2>1, <4>2 DEF Above
      <4>4. IsFiniteSet(Above(T \ {g}, r))
        BY <2>2, FS_Subset DEF Above
      <4>5. Cardinality(Above(T, r)) = Cardinality(Above(T \ {g}, r)) + 1
        BY <4>3, <4>4, FS_AddElement
      <4>6. Cardinality(Above(T, r)) = i - 1
        BY <4>2, <4>5
      <4> QED BY <4>6
    <3> QED BY <3>1, <3>2
  <2> QED BY <2>3
<1> HIDE DEF Good
<1>3. S \in Good
  BY <1>1, <1>2, SubsetInduction
<1>4. \A i \in 1..Cardinality(S) : \E r \in S : Cardinality({q \in S : q > r}) = i - 1
  BY <1>3 DEF Good, Above
<1>5. \A i \in 1..Cardinality(S) : /\ HighestFirst(S)[i] \in S
                                   /\ Cardinality({q \in S : q > HighestFirst(S)[i]}) = i - 1
  BY <1>4 DEF HighestFirst
<1>6. Cardinality(S) \in Nat
  BY FS_CardinalityType
<1>7. HighestFirst(S) \in [1..Cardinality(S) -> S]
  BY <1>5 DEF HighestFirst
<1>8. HighestFirst(S) \in Seq(S) /\ HighestFirst(S) \in Seq(Int) /\ Len(HighestFirst(S)) = Cardinality(S)
  <2>1. PICK s, n : s = HighestFirst(S) /\ n = Cardinality(S)
    OBVIOUS
  <2>2. s \in [1..n -> S] /\ s \in [1..n -> Int] /\ n \in Nat
    BY <1>6, <1>7, <2>1
  <2>3. s \in Seq(S) /\ s \in Seq(Int) /\ Len(s) = n
    BY <2>2
  <2> QED BY <2>1, <2>3
<1> QED BY <1>5, <1>6, <1>8 DEF Above

\* A higher rank has fewer above it.
LEMMA HigherHasFewer ==
    ASSUME NEW S, IsFiniteSet(S), S \subseteq Int, NEW p \in S, NEW q \in S, q < p
    PROVE  /\ Cardinality(Above(S, p)) < Cardinality(Above(S, q))
           /\ Cardinality(Above(S, p)) \in Nat /\ Cardinality(Above(S, q)) \in Nat
<1>1. Above(S, p) \subseteq Above(S, q) /\ p \in Above(S, q) /\ p \notin Above(S, p)
  <2>1. p \in Int /\ q \in Int /\ \A r \in S : r \in Int /\ (r > p => r > q) /\ p > q /\ ~ (p > p)
    OBVIOUS
  <2> QED BY <2>1 DEF Above
<1>2. IsFiniteSet(Above(S, q)) /\ IsFiniteSet(Above(S, p))
  BY FS_Subset DEF Above
<1> QED BY <1>1, <1>2, FS_Subset, FS_CardinalityType

\* A rank has its place.
LEMMA EachPlaced ==
    ASSUME NEW S, IsFiniteSet(S), S \subseteq Int, NEW rank \in S
    PROVE  \E i \in 1..Cardinality(S) : /\ HighestFirst(S)[i] = rank
                                        /\ i = Cardinality(Above(S, rank)) + 1
<1>1. IsFiniteSet(Above(S, rank)) /\ Above(S, rank) \subseteq S /\ rank \notin Above(S, rank)
  BY FS_Subset DEF Above
<1>2. PICK k : k = Cardinality(Above(S, rank)) + 1
  OBVIOUS
<1>3. /\ Cardinality(Above(S, rank)) \in Nat /\ Cardinality(S) \in Nat
      /\ Cardinality(Above(S, rank)) <= Cardinality(S)
      /\ Cardinality(S) = Cardinality(Above(S, rank)) => S = Above(S, rank)
  BY <1>1, FS_Subset, FS_CardinalityType
<1>4. k \in 1..Cardinality(S)
  BY <1>1, <1>2, <1>3
<1>5. PICK r : r = HighestFirst(S)[k]
  OBVIOUS
<1>6. r \in S /\ Cardinality(Above(S, r)) = k - 1
  BY <1>4, <1>5, Placed
<1>7. Cardinality(Above(S, r)) = Cardinality(Above(S, rank))
  BY <1>2, <1>3, <1>6
<1>8. ASSUME r < rank PROVE FALSE
  <2>1. Cardinality(Above(S, rank)) < Cardinality(Above(S, r))
    BY <1>6, <1>8, HigherHasFewer
  <2> QED BY <1>3, <1>7, <2>1
<1>9. ASSUME rank < r PROVE FALSE
  <2>1. Cardinality(Above(S, r)) < Cardinality(Above(S, rank))
    BY <1>6, <1>9, HigherHasFewer
  <2> QED BY <1>3, <1>7, <2>1
<1>10. r = rank
  BY <1>6, <1>8, <1>9
<1> QED BY <1>2, <1>4, <1>5, <1>10

\* Of more ranks the ones at each place are as high or higher.
LEMMA MoreIsHigher ==
    ASSUME NEW S, NEW T, IsFiniteSet(T), T \subseteq Int, S \subseteq T,
           NEW i \in 1..Cardinality(S)
    PROVE  HighestFirst(S)[i] <= HighestFirst(T)[i]
<1>1. IsFiniteSet(S) /\ S \subseteq Int /\ Cardinality(S) <= Cardinality(T)
  BY FS_Subset
<1>2. Cardinality(S) \in Nat /\ Cardinality(T) \in Nat /\ i \in 1..Cardinality(T)
  BY <1>1, FS_CardinalityType
<1>3. PICK s, t : s = HighestFirst(S)[i] /\ t = HighestFirst(T)[i]
  OBVIOUS
<1>4. /\ s \in S /\ Cardinality(Above(S, s)) = i - 1
      /\ t \in T /\ Cardinality(Above(T, t)) = i - 1
  BY <1>1, <1>2, <1>3, Placed
<1>5. ASSUME t < s PROVE FALSE
  <2>1. Above(S, s) \cup {s} \subseteq Above(T, t) /\ s \notin Above(S, s)
    <3>1. /\ s \in Int /\ t \in Int /\ s > t /\ ~ (s > s)
          /\ \A r \in T : r \in Int /\ (r > s => r > t)
      BY <1>1, <1>4, <1>5
    <3> QED BY <1>4, <3>1 DEF Above
  <2>2. IsFiniteSet(Above(S, s)) /\ IsFiniteSet(Above(T, t))
    BY <1>1, FS_Subset DEF Above
  <2>3. Cardinality(Above(S, s) \cup {s}) = Cardinality(Above(S, s)) + 1
    BY <2>1, <2>2, FS_AddElement
  <2>4. Cardinality(Above(S, s) \cup {s}) <= Cardinality(Above(T, t))
    BY <2>1, <2>2, FS_Subset
  <2> QED BY <1>2, <1>4, <2>3, <2>4
<1> QED BY <1>1, <1>3, <1>4, <1>5

\* Sequences of no, one and two ranks.
LEMMA InOrder ==
    /\ HighestFirst({}) = <<>>
    /\ \A a \in Int : HighestFirst({a}) = <<a>>
    /\ \A a, b \in Int : b < a => HighestFirst({a, b}) = <<a, b>>
<1>1. HighestFirst({}) = <<>>
  <2>1. HighestFirst({}) \in Seq(Int) /\ Len(HighestFirst({})) = 0
    BY Placed, FS_EmptySet
  <2> QED BY <2>1
<1>2. ASSUME NEW a \in Int PROVE HighestFirst({a}) = <<a>>
  <2>1. IsFiniteSet({a}) /\ Cardinality({a}) = 1
    BY FS_Singleton
  <2>2. /\ HighestFirst({a}) \in Seq(Int) /\ Len(HighestFirst({a})) = 1
        /\ HighestFirst({a})[1] \in {a}
    BY <2>1, Placed
  <2> QED BY <2>2
<1>3. ASSUME NEW a \in Int, NEW b \in Int, b < a PROVE HighestFirst({a, b}) = <<a, b>>
  <2>1. PICK S : S = {a, b}
    OBVIOUS
  <2>2. IsFiniteSet(S) /\ Cardinality(S) = 2
    <3>1. IsFiniteSet({a}) /\ Cardinality({a}) = 1
      BY FS_Singleton
    <3>2. S = {a} \cup {b} /\ b \notin {a}
      BY <1>3, <2>1
    <3> QED BY <3>1, <3>2, FS_AddElement
  <2>3. PICK s : s = HighestFirst(S)
    OBVIOUS
  <2>0. S \subseteq Int
    BY <2>1
  <2>4. /\ s \in Seq(Int) /\ Len(s) = 2 /\ s[1] \in S /\ s[2] \in S
        /\ Cardinality(Above(S, s[1])) = 0 /\ Cardinality(Above(S, s[2])) = 1
    <3>1. 1 \in 1..Cardinality(S) /\ 2 \in 1..Cardinality(S)
      BY <2>2
    <3>2. /\ s \in Seq(Int) /\ Len(s) = Cardinality(S)
          /\ \A i \in 1..Cardinality(S) : s[i] \in S /\ Cardinality(Above(S, s[i])) = i - 1
      BY <2>0, <2>2, <2>3, Placed
    <3>3. /\ s[1] \in S /\ Cardinality(Above(S, s[1])) = 1 - 1
          /\ s[2] \in S /\ Cardinality(Above(S, s[2])) = 2 - 1
      BY <3>1, <3>2
    <3> QED BY <2>2, <3>2, <3>3
  <2>5. Above(S, a) = {}
    BY <1>3, <2>1 DEF Above
  <2>6. Above(S, b) = {a}
    BY <1>3, <2>1 DEF Above
  <2>7. Cardinality(Above(S, a)) = 0 /\ Cardinality(Above(S, b)) = 1
    BY <2>5, <2>6, FS_EmptySet, FS_Singleton
  <2>8. s[1] = a /\ s[2] = b
    BY <2>1, <2>4, <2>7
  <2> QED BY <2>1, <2>3, <2>4, <2>8
<1> QED BY <1>1, <1>2, <1>3

\* The first n ranks by themselves are in the same order.
LEMMA TheFirst ==
    ASSUME NEW T, IsFiniteSet(T), T \subseteq Int, NEW n \in 0..Cardinality(T)
    PROVE  \E K \in SUBSET T : /\ Cardinality(K) = n
                               /\ HighestFirst(K) = SubSeq(HighestFirst(T), 1, n)
<1>1. PICK t : t = HighestFirst(T)
  OBVIOUS
<1>2. /\ Cardinality(T) \in Nat /\ t \in Seq(Int) /\ Len(t) = Cardinality(T)
      /\ \A i \in 1..Cardinality(T) : t[i] \in T /\ Cardinality(Above(T, t[i])) = i - 1
  BY <1>1, Placed
<1>3. PICK K : K = {rank \in T : Cardinality(Above(T, rank)) < n}
  OBVIOUS
<1>4. K \subseteq T /\ IsFiniteSet(K) /\ K \subseteq Int
  BY <1>3, FS_Subset
<1>5. PICK f : f = [i \in 1..n |-> t[i]]
  OBVIOUS
<1>6. ASSUME NEW i \in 1..n PROVE i \in 1..Cardinality(T) /\ t[i] \in K
  <2>1. i \in 1..Cardinality(T)
    BY <1>2
  <2>2. t[i] \in T /\ Cardinality(Above(T, t[i])) = i - 1
    BY <1>2, <2>1
  <2> QED BY <1>3, <2>1, <2>2
<1>7. ASSUME NEW i \in 1..n, NEW j \in 1..n, t[i] = t[j] PROVE i = j
  <2>1. Cardinality(Above(T, t[i])) = i - 1 /\ Cardinality(Above(T, t[j])) = j - 1
    BY <1>2, <1>6
  <2> QED BY <1>7, <2>1
<1>8. ASSUME NEW rank \in K PROVE \E i \in 1..n : t[i] = rank
  <2>1. PICK i \in 1..Cardinality(T) : t[i] = rank /\ i = Cardinality(Above(T, rank)) + 1
    BY <1>1, <1>4, EachPlaced
  <2>2. Cardinality(Above(T, rank)) < n
    BY <1>3
  <2>3. i \in 1..n
    BY <1>2, <2>1, <2>2
  <2> QED BY <2>1, <2>3
<1>9. f \in Bijection(1..n, K)
  <2>1. f \in [1..n -> K]
    BY <1>5, <1>6
  <2>2. f \in Injection(1..n, K)
    BY <1>5, <1>7, <2>1 DEF Injection, IsInjective
  <2>3. f \in Surjection(1..n, K)
    BY <1>5, <1>8, <2>1 DEF Surjection
  <2> QED BY <2>2, <2>3 DEF Bijection
<1>10. Cardinality(K) = n
  BY <1>9, FS_CountingElements DEF ExistsBijection
<1>11. PICK s : s = HighestFirst(K)
  OBVIOUS
<1>12. s \in Seq(Int) /\ Len(s) = n
  BY <1>4, <1>10, <1>11, Placed
<1>13. ASSUME NEW i \in 1..n PROVE s[i] = t[i]
  <2>1. t[i] \in K /\ Above(T, t[i]) = Above(K, t[i]) /\ Cardinality(Above(T, t[i])) = i - 1
    <3>1. t[i] \in K /\ Cardinality(Above(T, t[i])) = i - 1 /\ i - 1 < n
      BY <1>2, <1>6
    <3>2. ASSUME NEW q \in Above(T, t[i]) PROVE q \in K
      <4>1. q \in T /\ t[i] < q
        BY <3>1, <1>4 DEF Above
      <4>2. Cardinality(Above(T, q)) < Cardinality(Above(T, t[i])) /\ Cardinality(Above(T, q)) \in Nat
        BY <1>4, <3>1, <4>1, HigherHasFewer
      <4> QED BY <1>3, <3>1, <4>1, <4>2
    <3>3. Above(T, t[i]) = Above(K, t[i])
      BY <1>4, <3>2 DEF Above
    <3> QED BY <3>1, <3>3
  <2>2. PICK j \in 1..n : s[j] = t[i] /\ j = Cardinality(Above(K, t[i])) + 1
    BY <1>4, <1>10, <1>11, <2>1, EachPlaced
  <2>3. j = i
    BY <2>1, <2>2
  <2> QED BY <2>2, <2>3
<1>14. SubSeq(t, 1, n) \in Seq(Int) /\ Len(SubSeq(t, 1, n)) = n /\ \A i \in 1..n : SubSeq(t, 1, n)[i] = t[i]
  BY <1>2
<1>15. s = SubSeq(t, 1, n)
  BY <1>12, <1>13, <1>14
<1> QED BY <1>1, <1>4, <1>10, <1>11, <1>15

-----------------------------------------------------------------------------
(* What evaluateFive makes of five cards.                                  *)

Cards(hand) == IsFiniteSet(hand) /\ \A card \in hand : card.rank \in Int

\* A hand has finitely many ranks.
LEMMA RanksAre ==
    ASSUME NEW hand, Cards(hand)
    PROVE  IsFiniteSet(Ranks(hand)) /\ Ranks(hand) \subseteq Int
<1>1. PICK f : f = [card \in hand |-> card.rank]
  OBVIOUS
<1>2. Ranks(hand) = {f[card] : card \in hand}
  BY <1>1 DEF Ranks
<1>3. f \in Surjection(hand, Ranks(hand))
  BY <1>1, <1>2 DEF Surjection
<1>4. IsFiniteSet(Ranks(hand))
  BY <1>3, FS_Surjection DEF Cards
<1> QED BY <1>4 DEF Cards, Ranks

\* Five cards are a hand that can be compared.
LEMMA FiveAreRanked ==
    ASSUME NEW rs \in RuleSets, NEW five, Cards(five), Cardinality(five) = 5
    PROVE  evaluateFive(rs, five) \in Ranked
<1>1. rankGroups(five) \in Seq(Int)
  <2>1. PICK count : count = [rank \in Ranks(five) |-> Count(five, rank)]
    OBVIOUS
  <2>2. ASSUME NEW n PROVE HighestFirst({rank \in DOMAIN count : count[rank] = n}) \in Seq(Int)
    <3>1. PICK S : S = {rank \in DOMAIN count : count[rank] = n}
      OBVIOUS
    <3>2. S \subseteq Ranks(five)
      BY <2>1, <3>1
    <3>3. IsFiniteSet(S) /\ S \subseteq Int
      BY <3>2, RanksAre, FS_Subset
    <3> QED BY <3>1, <3>3, Placed
  <2>3. PICK w, x, y, z :
            /\ w = HighestFirst({rank \in DOMAIN count : count[rank] = 4})
            /\ x = HighestFirst({rank \in DOMAIN count : count[rank] = 3})
            /\ y = HighestFirst({rank \in DOMAIN count : count[rank] = 2})
            /\ z = HighestFirst({rank \in DOMAIN count : count[rank] = 1})
    OBVIOUS
  <2>4. w \in Seq(Int) /\ x \in Seq(Int) /\ y \in Seq(Int) /\ z \in Seq(Int)
    BY <2>2, <2>3
  <2>5. rankGroups(five) = w \o x \o y \o z
    BY <2>1, <2>3 DEF rankGroups
  <2> QED BY <2>4, <2>5
<1>2. straightHigh(rs, five) \in Int
  <2>1. rs.wheel[2] \in Int
    BY DEF RuleSets, ruleSets
  <2>2. ASSUME Consecutive(five) PROVE Max(Ranks(five)) \in Int
    <3>1. Ranks(five) # {}
      BY <2>2, FS_EmptySet DEF Consecutive
    <3>2. PICK high \in Ranks(five) : \A rank \in Ranks(five) : rank <= high
      BY <3>1, RanksAre, GreatestInteger
    <3>3. Max(Ranks(five)) \in Ranks(five)
      BY <3>2, RanksAre DEF Max
    <3> QED BY <3>3, RanksAre
  <2> QED BY <2>1, <2>2 DEF straightHigh
<1>3. Class(rs, five) \in Classes
  BY DEF Class, Classes
<1>4. <<straightHigh(rs, five)>> \in Seq(Int)
  BY <1>2
<1> QED BY <1>1, <1>3, <1>4 DEF evaluateFive, Ranked

\* Any cards make finitely many hands, each of which can be compared.
LEMMA HandsAre ==
    ASSUME NEW rs \in RuleSets, NEW hand, Cards(hand)
    PROVE  IsFiniteSet(Hands(rs, hand)) /\ Hands(rs, hand) \subseteq Ranked
<1>1. \A five \in kSubset(5, hand) : evaluateFive(rs, five) \in Ranked
  <2>1. ASSUME NEW five \in kSubset(5, hand) PROVE Cards(five) /\ Cardinality(five) = 5
    <3>1. five \subseteq hand /\ Cardinality(five) = 5
      BY DEF kSubset
    <3> QED BY <3>1, FS_Subset DEF Cards
  <2> QED BY <2>1, FiveAreRanked
<1>2. IsFiniteSet(kSubset(5, hand))
  <2>1. kSubset(5, hand) \subseteq SUBSET hand
    BY DEF kSubset
  <2>2. IsFiniteSet(SUBSET hand)
    BY FS_SUBSET DEF Cards
  <2> QED BY <2>1, <2>2, FS_Subset
<1>3. IsFiniteSet(Hands(rs, hand))
  <2>1. PICK f : f = [five \in kSubset(5, hand) |-> evaluateFive(rs, five)]
    OBVIOUS
  <2>2. Hands(rs, hand) = {f[five] : five \in kSubset(5, hand)}
    BY <2>1 DEF Hands
  <2>3. f \in Surjection(kSubset(5, hand), Hands(rs, hand))
    BY <2>1, <2>2 DEF Surjection
  <2> QED BY <1>2, <2>3, FS_Surjection
<1> QED BY <1>1, <1>3 DEF Hands

\* k cards or more hold k.
LEMMA HoldsSome ==
    ASSUME NEW S, IsFiniteSet(S), NEW k \in Nat, Cardinality(S) >= k
    PROVE  kSubset(k, S) # {}
<1> DEFINE Good == {T \in SUBSET S : Cardinality(T) >= k => kSubset(k, T) # {}}
<1>1. {} \in Good
  <2>1. Cardinality({}) = 0 /\ ({} \in kSubset(k, {}) <=> Cardinality({}) = k)
    BY FS_EmptySet DEF kSubset
  <2>2. Cardinality({}) >= k => kSubset(k, {}) # {}
    BY <2>1
  <2> QED BY <2>2
<1>2. ASSUME NEW T \in SUBSET S, T # {}, \A x \in T : T \ {x} \in Good
      PROVE  T \in Good
  <2>1. IsFiniteSet(T) /\ Cardinality(T) \in Nat
    BY FS_Subset, FS_CardinalityType
  <2>2. CASE Cardinality(T) = k
    <3>1. T \in kSubset(k, T)
      BY <2>2 DEF kSubset
    <3> QED BY <3>1
  <2>3. CASE Cardinality(T) > k
    <3>1. PICK x \in T : TRUE
      BY <1>2
    <3>2. Cardinality(T \ {x}) = Cardinality(T) - 1
      BY <2>1, FS_RemoveElement
    <3>3. kSubset(k, T \ {x}) # {}
      BY <1>2, <2>1, <2>3, <3>2
    <3>4. kSubset(k, T \ {x}) \subseteq kSubset(k, T)
      BY DEF kSubset
    <3> QED BY <3>3, <3>4
  <2> QED BY <2>1, <2>2, <2>3
<1> HIDE DEF Good
<1>3. S \in Good
  BY <1>1, <1>2, SubsetInduction
<1> QED BY <1>3 DEF Good

-----------------------------------------------------------------------------
(* Kickers.                                                                *)

\* Ranks of which none is higher than the other's do not win.
LEMMA NoneHigher ==
    ASSUME NEW p \in Seq(Int), NEW q \in Seq(Int), Len(p) = Len(q),
           \A i \in 1..Len(p) : p[i] <= q[i]
    PROVE  Difference(p, q) <= 0
<1>1. /\ DOMAIN p = 1..Len(p) /\ DOMAIN q = 1..Len(p) /\ Len(p) \in Nat
      /\ \A i \in 1..Len(p) : p[i] \in Int /\ q[i] \in Int
  OBVIOUS
<1>2. CASE Differ(p, q) # {}
  <2>1. PICK m : m = Min(Differ(p, q))
    OBVIOUS
  <2>2. Differ(p, q) \subseteq Nat
    BY <1>1 DEF Differ
  <2>3. m \in Differ(p, q)
    BY <1>2, <2>1, <2>2, MinIs
  <2>4. m \in 1..Len(p)
    BY <1>1, <2>3 DEF Differ
  <2>5. Difference(p, q) = p[m] - q[m]
    BY <1>2, <2>1 DEF Difference
  <2> QED BY <1>1, <2>4, <2>5
<1>3. CASE Differ(p, q) = {}
  BY <1>1, <1>3 DEF Difference
<1> QED BY <1>2, <1>3

\* What comes first keeps its places, the rest follows.
LEMMA Joined ==
    ASSUME NEW a \in Seq(Int), NEW b \in Seq(Int)
    PROVE  /\ a \o b \in Seq(Int) /\ Len(a \o b) = Len(a) + Len(b)
           /\ Len(a) \in Nat /\ Len(b) \in Nat
           /\ \A i \in 1..Len(a) : (a \o b)[i] = a[i] /\ a[i] \in Int
           /\ \A i \in Len(a) + 1..Len(a) + Len(b) : (a \o b)[i] = b[i - Len(a)]
OBVIOUS

\* No kickers are better than the highest ones.
LEMMA KickersBest ==
    ASSUME NEW first \in Seq(Int), NEW there, IsFiniteSet(there), there \subseteq Int,
           NEW S, S \subseteq there \ Range(first), NEW n, n = Cardinality(S)
    PROVE  \E ranks \in Kickers(first, n, there) : Difference(first \o HighestFirst(S), ranks) <= 0
<1>1. PICK T : T = there \ Range(first)
  OBVIOUS
<1>2. IsFiniteSet(T) /\ T \subseteq Int /\ IsFiniteSet(S) /\ S \subseteq Int /\ S \subseteq T
  BY <1>1, FS_Subset
<1>3. PICK s, t : s = HighestFirst(S) /\ t = HighestFirst(T)
  OBVIOUS
<1>4. s \in Seq(Int) /\ Len(s) = n /\ t \in Seq(Int) /\ Len(t) = Cardinality(T)
  BY <1>2, <1>3, Placed
<1>5. n \in Nat /\ Cardinality(T) \in Nat /\ n <= Cardinality(T)
  BY <1>2, FS_Subset, FS_CardinalityType
<1>6. \A i \in 1..n : s[i] <= t[i]
  BY <1>2, <1>3, MoreIsHigher
<1>7. PICK u : u = SubSeq(t, 1, n)
  OBVIOUS
<1>8. u \in Seq(Int) /\ Len(u) = n /\ \A i \in 1..n : u[i] = t[i]
  BY <1>4, <1>5, <1>7
<1>9. first \o u \in Kickers(first, n, there)
  BY <1>1, <1>3, <1>4, <1>5, <1>7 DEF Kickers
<1>10. PICK p, q, l : p = first \o s /\ q = first \o u /\ l = Len(first)
  OBVIOUS
<1>11. /\ p \in Seq(Int) /\ q \in Seq(Int) /\ Len(p) = Len(q) /\ l \in Nat /\ Len(p) = l + n
       /\ \A i \in 1..l : p[i] = first[i] /\ q[i] = first[i] /\ first[i] \in Int
       /\ \A i \in l + 1..l + n : p[i] = s[i - l] /\ q[i] = u[i - l]
  <2>1. /\ p \in Seq(Int) /\ Len(p) = Len(first) + Len(s)
        /\ \A i \in 1..Len(first) : p[i] = first[i] /\ first[i] \in Int
        /\ \A i \in Len(first) + 1..Len(first) + Len(s) : p[i] = s[i - Len(first)]
    BY <1>4, <1>10, Joined
  <2>2. /\ q \in Seq(Int) /\ Len(q) = Len(first) + Len(u)
        /\ \A i \in 1..Len(first) : q[i] = first[i]
        /\ \A i \in Len(first) + 1..Len(first) + Len(u) : q[i] = u[i - Len(first)]
    BY <1>8, <1>10, Joined
  <2>3. l \in Nat /\ Len(s) = n /\ Len(u) = n
    BY <1>4, <1>8, <1>10
  <2> QED BY <1>10, <2>1, <2>2, <2>3
<1>12. ASSUME NEW i \in 1..Len(p) PROVE p[i] <= q[i]
  <2>1. CASE i <= l
    BY <1>11, <2>1
  <2>2. CASE i > l
    <3>1. i \in l + 1..l + n /\ i - l \in 1..n
      BY <1>5, <1>11, <2>2
    <3>2. s[i - l] <= u[i - l]
      BY <1>6, <1>8, <3>1
    <3> QED BY <1>11, <3>1, <3>2
  <2> QED BY <1>11, <2>1, <2>2
<1>13. Difference(p, q) <= 0
  BY <1>11, <1>12, NoneHigher
<1> QED BY <1>3, <1>9, <1>10, <1>13

\* Kickers are the first of the other ranks, in order.
LEMMA KickersAre ==
    ASSUME NEW first, NEW there, NEW n, NEW ranks, NEW T,
           n \in Nat, T = there \ Range(first), IsFiniteSet(T), T \subseteq Int,
           ranks \in Kickers(first, n, there)
    PROVE  \E K : K \subseteq T /\ Cardinality(K) = n /\ ranks = first \o HighestFirst(K)
<1>3. Len(HighestFirst(T)) >= n /\ ranks = first \o SubSeq(HighestFirst(T), 1, n)
  <2>1. PICK t : t = HighestFirst(T)
    OBVIOUS
  <2>2. Kickers(first, n, there) = IF Len(t) >= n THEN {first \o SubSeq(t, 1, n)} ELSE {}
    BY <2>1 DEF Kickers
  <2> QED BY <2>1, <2>2
<1>4. Len(HighestFirst(T)) = Cardinality(T) /\ Cardinality(T) \in Nat
  BY Placed
<1>5. n \in 0..Cardinality(T)
  BY <1>3, <1>4
<1>6. PICK K \in SUBSET T : /\ Cardinality(K) = n
                            /\ HighestFirst(K) = SubSeq(HighestFirst(T), 1, n)
  BY <1>5, TheFirst
<1> QED BY <1>3, <1>6

-----------------------------------------------------------------------------
(* How many cards of each rank.                                            *)

Valued(f, S, n) == {x \in S : f[x] = n}

\* A sum of values from 1 to 4, by how often each of them is there.
LEMMA SumByValue ==
    ASSUME NEW S, IsFiniteSet(S), NEW f, \A x \in S : f[x] \in 1..4
    PROVE  /\ SumFunctionOnSet(f, S) =
                  4 * Cardinality(Valued(f, S, 4)) + 3 * Cardinality(Valued(f, S, 3))
                  + 2 * Cardinality(Valued(f, S, 2)) + Cardinality(Valued(f, S, 1))
           /\ Cardinality(S) =
                  Cardinality(Valued(f, S, 4)) + Cardinality(Valued(f, S, 3))
                  + Cardinality(Valued(f, S, 2)) + Cardinality(Valued(f, S, 1))
<1> DEFINE W(T, n) == Cardinality(Valued(f, T, n))
           Adds1(T) == SumFunctionOnSet(f, T) = 4 * W(T, 4) + 3 * W(T, 3) + 2 * W(T, 2) + W(T, 1)
           Adds2(T) == Cardinality(T) = W(T, 4) + W(T, 3) + W(T, 2) + W(T, 1)
           Good == {T \in SUBSET S : Adds1(T) /\ Adds2(T)}
<1>1. {} \in Good
  <2>1. \A n : Valued(f, {}, n) = {}
    BY DEF Valued
  <2>2. \A n : W({}, n) = 0
    BY <2>1, FS_EmptySet
  <2> HIDE DEF W
  <2>3. Adds1({}) /\ Adds2({})
    BY <2>2, SumEmpty, FS_EmptySet
  <2> QED BY <2>3
<1>2. ASSUME NEW T \in SUBSET S, T # {}, \A x \in T : T \ {x} \in Good
      PROVE  T \in Good
  <2>1. PICK y \in T : TRUE
    BY <1>2
  <2>2. IsFiniteSet(T) /\ IsFiniteSet(T \ {y})
    BY FS_Subset
  <2>3. SumFunctionOnSet(f, T) = f[y] + SumFunctionOnSet(f, T \ {y})
    BY <2>2, SumRemove
  <2>4. Cardinality(T) \in Nat /\ Cardinality(T \ {y}) \in Nat /\ Cardinality(T) = Cardinality(T \ {y}) + 1
    BY <2>2, FS_RemoveElement, FS_CardinalityType
  <2>5. ASSUME NEW n
        PROVE  /\ W(T \ {y}, n) \in Nat
               /\ W(T, n) = IF f[y] = n THEN W(T \ {y}, n) + 1 ELSE W(T \ {y}, n)
    <3>1. IsFiniteSet(Valued(f, T \ {y}, n))
      BY <2>2, FS_Subset DEF Valued
    <3>2. CASE f[y] = n
      <4>1. Valued(f, T, n) = Valued(f, T \ {y}, n) \cup {y} /\ y \notin Valued(f, T \ {y}, n)
        BY <3>2 DEF Valued
      <4> QED BY <3>1, <3>2, <4>1, FS_AddElement, FS_CardinalityType
    <3>3. CASE f[y] # n
      <4>1. Valued(f, T, n) = Valued(f, T \ {y}, n)
        BY <3>3 DEF Valued
      <4> QED BY <3>1, <3>3, <4>1, FS_CardinalityType
    <3> QED BY <3>2, <3>3
  <2>6. Adds1(T \ {y}) /\ Adds2(T \ {y})
    BY <1>2
  <2>7. f[y] \in {1, 2, 3, 4}
    OBVIOUS
  <2> HIDE DEF W
  <2>8. Adds1(T) /\ Adds2(T)
    <3>1. PICK a, b, c, d : /\ a = W(T \ {y}, 4) /\ b = W(T \ {y}, 3)
                            /\ c = W(T \ {y}, 2) /\ d = W(T \ {y}, 1)
      OBVIOUS
    <3>2. a \in Nat /\ b \in Nat /\ c \in Nat /\ d \in Nat
      BY <2>5, <3>1
    <3>3. /\ W(T, 4) = IF f[y] = 4 THEN a + 1 ELSE a
          /\ W(T, 3) = IF f[y] = 3 THEN b + 1 ELSE b
          /\ W(T, 2) = IF f[y] = 2 THEN c + 1 ELSE c
          /\ W(T, 1) = IF f[y] = 1 THEN d + 1 ELSE d
      BY <2>5, <3>1
    <3>4. /\ SumFunctionOnSet(f, T \ {y}) = 4 * a + 3 * b + 2 * c + d
          /\ Cardinality(T \ {y}) = a + b + c + d
      BY <2>6, <3>1
    <3>5. Adds1(T)
      BY <2>3, <2>7, <3>2, <3>3, <3>4
    <3>6. Adds2(T)
      BY <2>4, <2>7, <3>2, <3>3, <3>4
    <3> QED BY <3>5, <3>6
  <2> QED BY <2>8
<1> HIDE DEF Good
<1>3. S \in Good
  BY <1>1, <1>2, SubsetInduction
<1> QED BY <1>3 DEF Good

\* The cards of all the ranks are all the cards.
LEMMA CountsAddUp ==
    ASSUME NEW hand, Cards(hand), NEW count, count = [rank \in Ranks(hand) |-> Count(hand, rank)]
    PROVE  SumFunctionOnSet(count, Ranks(hand)) = Cardinality(hand)
<1> DEFINE f == [card \in hand |-> [rank \in Ranks(hand) |-> IF card.rank = rank THEN 1 ELSE 0]]
           g == [rank \in Ranks(hand) |-> [card \in hand |-> IF card.rank = rank THEN 1 ELSE 0]]
           one == [card \in hand |-> 1]
<1>0. IsFiniteSet(hand) /\ IsFiniteSet(Ranks(hand))
  BY RanksAre DEF Cards
<1>1. ASSUME NEW card \in hand PROVE one[card] = SumFunctionOnSet(f[card], Ranks(hand))
  <2>1. PICK h : h = [rank \in Ranks(hand) |-> IF card.rank = rank THEN 1 ELSE 0]
    OBVIOUS
  <2>2. card.rank \in Ranks(hand) /\ {card.rank} \subseteq Ranks(hand)
    BY DEF Ranks
  <2>3. /\ \A rank \in Ranks(hand) : h[rank] \in Int
        /\ \A rank \in Ranks(hand) \ {card.rank} : h[rank] = 0
        /\ h[card.rank] = 1
    BY <2>1, <2>2
  <2>4. SumFunctionOnSet(h, Ranks(hand)) = SumFunctionOnSet(h, {card.rank})
    BY <1>0, <2>2, <2>3, SumPart
  <2>5. SumFunctionOnSet(h, {card.rank}) = 1
    BY <2>3, SumOne
  <2> QED BY <2>1, <2>4, <2>5
<1>2. ASSUME NEW rank \in Ranks(hand) PROVE count[rank] = SumFunctionOnSet(g[rank], hand)
  <2>1. PICK h : h = [card \in hand |-> IF card.rank = rank THEN 1 ELSE 0]
    OBVIOUS
  <2>2. PICK P : P = {card \in hand : card.rank = rank}
    OBVIOUS
  <2>3. P \subseteq hand /\ IsFiniteSet(P)
    BY <1>0, <2>2, FS_Subset
  <2>4. /\ \A card \in hand : h[card] \in Int
        /\ \A card \in hand \ P : h[card] = 0
        /\ \A card \in P : h[card] = 1
    BY <2>1, <2>2
  <2>5. SumFunctionOnSet(h, hand) = SumFunctionOnSet(h, P)
    BY <1>0, <2>3, <2>4, SumPart
  <2>6. SumFunctionOnSet(h, P) = 1 * Cardinality(P)
    BY <2>3, <2>4, SumConstant
  <2>7. Cardinality(P) = count[rank] /\ Cardinality(P) \in Nat
    BY <2>2, <2>3, FS_CardinalityType DEF Count
  <2>8. SumFunctionOnSet(h, P) = count[rank]
    BY <2>6, <2>7
  <2> QED BY <2>1, <2>5, <2>8
<1>3. CrossTable(f, g, one, count, hand, Ranks(hand))
  <2>1. \A card \in hand : \A rank \in Ranks(hand) : f[card][rank] \in Int /\ g[rank][card] = f[card][rank]
    OBVIOUS
  <2> HIDE DEF f, g, one
  <2> QED BY <1>1, <1>2, <2>1 DEF CrossTable
<1> HIDE DEF f, g
<1>4. SumFunctionOnSet(one, hand) = SumFunctionOnSet(count, Ranks(hand))
  BY <1>0, <1>3, SumSwap
<1>5. \A card \in hand : one[card] = 1
  OBVIOUS
<1> HIDE DEF one
<1>6. SumFunctionOnSet(one, hand) = 1 * Cardinality(hand) /\ Cardinality(hand) \in Nat
  BY <1>0, <1>5, SumConstant, FS_CardinalityType
<1> QED BY <1>4, <1>6

\* The ranks of which there are n cards.
OfCount(hand, n) == {rank \in Ranks(hand) : Count(hand, rank) = n}

\* A hand is made of its fours, threes, pairs and single cards.
LEMMA CardsByCount ==
    ASSUME NEW hand, Cards(hand), \A rank \in Ranks(hand) : Count(hand, rank) \in 1..4
    PROVE  /\ Cardinality(hand) =
                  4 * Cardinality(OfCount(hand, 4)) + 3 * Cardinality(OfCount(hand, 3))
                  + 2 * Cardinality(OfCount(hand, 2)) + Cardinality(OfCount(hand, 1))
           /\ Cardinality(Ranks(hand)) =
                  Cardinality(OfCount(hand, 4)) + Cardinality(OfCount(hand, 3))
                  + Cardinality(OfCount(hand, 2)) + Cardinality(OfCount(hand, 1))
           /\ \A n : /\ IsFiniteSet(OfCount(hand, n)) /\ Cardinality(OfCount(hand, n)) \in Nat
                     /\ OfCount(hand, n) \subseteq Int
<1>1. PICK count : count = [rank \in Ranks(hand) |-> Count(hand, rank)]
  OBVIOUS
<1>2. IsFiniteSet(Ranks(hand)) /\ Ranks(hand) \subseteq Int
  BY RanksAre
<1>3. \A n : OfCount(hand, n) = Valued(count, Ranks(hand), n)
  BY <1>1 DEF OfCount, Valued
<1>4. SumFunctionOnSet(count, Ranks(hand)) = Cardinality(hand)
  BY <1>1, CountsAddUp
<1>5. \A rank \in Ranks(hand) : count[rank] \in 1..4
  BY <1>1
<1>6. ASSUME NEW n PROVE /\ IsFiniteSet(OfCount(hand, n)) /\ Cardinality(OfCount(hand, n)) \in Nat
                         /\ OfCount(hand, n) \subseteq Int
  <2>1. OfCount(hand, n) \subseteq Ranks(hand)
    BY DEF OfCount
  <2> QED BY <1>2, <2>1, FS_Subset, FS_CardinalityType
<1> QED BY <1>2, <1>3, <1>4, <1>5, <1>6, SumByValue

-----------------------------------------------------------------------------
(* Cards of a rule set, of which five have one of six shapes.              *)

OfDeck(rs, hand) == IsFiniteSet(hand) /\ hand \subseteq [rank : rs.ranks, suit : Suits]

\* What the proofs use of the wheel: five ranks that are not consecutive, the
\* second of which is four above a rank that is not in the deck.
LEMMA WheelIs ==
    ASSUME NEW rs \in RuleSets
    PROVE  /\ IsFiniteSet(Range(rs.wheel)) /\ Cardinality(Range(rs.wheel)) = 5
           /\ rs.wheel[2] \in Range(rs.wheel) /\ rs.wheel[2] \in Int /\ rs.wheel[2] > 0
           /\ \A high \in Int : ~ (Range(rs.wheel) \subseteq high - 4..high)
           /\ rs.ranks \subseteq Int /\ \A rank \in rs.ranks : rank > rs.wheel[2] - 4 /\ rank > 0
<1>1. PICK id \in {"long", "short"} : rs = ruleSets[id]
  BY DEF RuleSets, ruleSets
<1>2. \E a, b, c, d, e \in Int :
          /\ rs.wheel = <<a, b, c, d, e>>
          /\ b < a /\ c < b /\ d < c /\ e < d /\ a - e > 4 /\ b > 0
          /\ rs.ranks \subseteq Int /\ \A rank \in rs.ranks : rank > b - 4 /\ rank > 0
  <2>1. CASE id = "long"
    <3>1. rs.wheel = <<14, 5, 4, 3, 2>> /\ rs.ranks = 2..14
      BY <1>1, <2>1 DEF ruleSets
    <3>2. rs.ranks \subseteq Int /\ \A rank \in rs.ranks : rank > 5 - 4 /\ rank > 0
      BY <3>1
    <3> QED BY <3>1, <3>2
  <2>2. CASE id = "short"
    <3>1. rs.wheel = <<14, 9, 8, 7, 6>> /\ rs.ranks = 6..14
      BY <1>1, <2>2 DEF ruleSets
    <3>2. rs.ranks \subseteq Int /\ \A rank \in rs.ranks : rank > 9 - 4 /\ rank > 0
      BY <3>1
    <3> QED BY <3>1, <3>2
  <2> QED BY <1>1, <2>1, <2>2
<1>3. PICK a, b, c, d, e \in Int :
          /\ rs.wheel = <<a, b, c, d, e>>
          /\ b < a /\ c < b /\ d < c /\ e < d /\ a - e > 4 /\ b > 0
          /\ rs.ranks \subseteq Int /\ \A rank \in rs.ranks : rank > b - 4 /\ rank > 0
  BY <1>2
<1>4. Range(rs.wheel) = {a, b, c, d, e} /\ rs.wheel[2] = b
  <2>1. PICK wheel : wheel = rs.wheel
    OBVIOUS
  <2>2. wheel = <<a, b, c, d, e>> /\ DOMAIN wheel = {1, 2, 3, 4, 5}
    BY <1>3, <2>1
  <2>3. wheel[1] = a /\ wheel[2] = b /\ wheel[3] = c /\ wheel[4] = d /\ wheel[5] = e
    BY <2>2
  <2> QED BY <2>1, <2>2, <2>3 DEF Range
<1>5. IsFiniteSet({a, b, c, d, e}) /\ Cardinality({a, b, c, d, e}) = 5
  <2>1. b \notin {a} /\ c \notin {a, b} /\ d \notin {a, b, c} /\ e \notin {a, b, c, d}
    BY <1>3
  <2>2. /\ {a, b} = {a} \cup {b} /\ {a, b, c} = {a, b} \cup {c}
        /\ {a, b, c, d} = {a, b, c} \cup {d} /\ {a, b, c, d, e} = {a, b, c, d} \cup {e}
    OBVIOUS
  <2>3. IsFiniteSet({a}) /\ Cardinality({a}) = 1
    BY FS_Singleton
  <2>4. IsFiniteSet({a, b}) /\ Cardinality({a, b}) = 1 + 1
    <3>1. {a, b} = {a} \cup {b} /\ b \notin {a}
      BY <2>1
    <3>2. IsFiniteSet({a} \cup {b}) /\ Cardinality({a} \cup {b}) = 1 + 1
      BY <2>3, <3>1, FS_AddElement
    <3> QED BY <3>1, <3>2
  <2>5. IsFiniteSet({a, b, c}) /\ Cardinality({a, b, c}) = 2 + 1
    BY <2>1, <2>2, <2>4, FS_AddElement
  <2>6. IsFiniteSet({a, b, c, d}) /\ Cardinality({a, b, c, d}) = 3 + 1
    BY <2>1, <2>2, <2>5, FS_AddElement
  <2> QED BY <2>1, <2>2, <2>6, FS_AddElement
<1>6. \A high \in Int : ~ (a \in high - 4..high /\ e \in high - 4..high)
  BY <1>3
<1> QED BY <1>3, <1>4, <1>5, <1>6

\* There are one to four cards of each rank of a hand.
LEMMA FourSuits ==
    ASSUME NEW rs \in RuleSets, NEW hand, OfDeck(rs, hand)
    PROVE  /\ Cards(hand) /\ Ranks(hand) \subseteq rs.ranks
           /\ \A rank \in Ranks(hand) : Count(hand, rank) \in 1..4
<1>1. \A card \in hand : /\ card.rank \in rs.ranks /\ card.suit \in Suits
                         /\ card = [rank |-> card.rank, suit |-> card.suit]
  BY DEF OfDeck
<1>2. rs.ranks \subseteq Int
  BY WheelIs
<1>3. ASSUME NEW rank \in Ranks(hand) PROVE Count(hand, rank) \in 1..4
  <2>1. PICK P : P = {card \in hand : card.rank = rank}
    OBVIOUS
  <2>2. P # {} /\ P \subseteq hand
    BY <2>1 DEF Ranks
  <2>3. IsFiniteSet(P) /\ Cardinality(P) \in Nat /\ Cardinality(P) # 0
    BY <2>2, FS_Subset, FS_CardinalityType, FS_EmptySet DEF OfDeck
  <2>4. PICK f : f = [card \in P |-> card.suit]
    OBVIOUS
  <2>5. f \in [P -> Suits]
    BY <1>1, <2>1, <2>4
  <2>6. \A card, other \in P : f[card] = f[other] => card = other
    BY <1>1, <2>1, <2>4
  <2>7. f \in Injection(P, Suits)
    BY <2>4, <2>5, <2>6 DEF Injection, IsInjective
  <2>8. Cardinality(P) <= Cardinality(Suits) /\ Cardinality(Suits) \in Nat /\ Cardinality(Suits) <= 4
    BY <2>7, FS_Injection, FS_CardinalityType, SuitsAssumption
  <2>9. Cardinality(P) \in 1..4
    BY <2>3, <2>8
  <2> QED BY <2>1, <2>9 DEF Count
<1>4. \A card \in hand : card.rank \in Int
  BY <1>1, <1>2
<1> QED BY <1>1, <1>3, <1>4 DEF Cards, Ranks, OfDeck

\* How many fours, threes, pairs and single cards five cards have.
Shape(five, fours, threes, pairs, singles) ==
    /\ Cardinality(OfCount(five, 4)) = fours
    /\ Cardinality(OfCount(five, 3)) = threes
    /\ Cardinality(OfCount(five, 2)) = pairs
    /\ Cardinality(OfCount(five, 1)) = singles

\* Five cards have one of six shapes.
LEMMA Shapes ==
    ASSUME NEW rs \in RuleSets, NEW five, OfDeck(rs, five), Cardinality(five) = 5
    PROVE  \/ Shape(five, 1, 0, 0, 1) \/ Shape(five, 0, 1, 1, 0) \/ Shape(five, 0, 1, 0, 2)
           \/ Shape(five, 0, 0, 2, 1) \/ Shape(five, 0, 0, 1, 3) \/ Shape(five, 0, 0, 0, 5)
<1>1. PICK a, b, c, d : /\ a = Cardinality(OfCount(five, 4)) /\ b = Cardinality(OfCount(five, 3))
                        /\ c = Cardinality(OfCount(five, 2)) /\ d = Cardinality(OfCount(five, 1))
  OBVIOUS
<1>2. 5 = 4 * a + 3 * b + 2 * c + d /\ a \in Nat /\ b \in Nat /\ c \in Nat /\ d \in Nat
  BY <1>1, FourSuits, CardsByCount
<1>3. \/ a = 1 /\ b = 0 /\ c = 0 /\ d = 1
      \/ a = 0 /\ b = 1 /\ c = 1 /\ d = 0
      \/ a = 0 /\ b = 1 /\ c = 0 /\ d = 2
      \/ a = 0 /\ b = 0 /\ c = 2 /\ d = 1
      \/ a = 0 /\ b = 0 /\ c = 1 /\ d = 3
      \/ a = 0 /\ b = 0 /\ c = 0 /\ d = 5
  BY <1>2
<1> QED BY <1>1, <1>3 DEF Shape

\* Five cards of five ranks are single cards.
LEMMA FiveRanks ==
    ASSUME NEW rs \in RuleSets, NEW five, OfDeck(rs, five), Cardinality(five) = 5,
           Cardinality(Ranks(five)) >= 5
    PROVE  /\ Shape(five, 0, 0, 0, 5)
           /\ OfCount(five, 1) = Ranks(five) /\ Cardinality(Ranks(five)) = 5
<1>1. PICK a, b, c, d : /\ a = Cardinality(OfCount(five, 4)) /\ b = Cardinality(OfCount(five, 3))
                        /\ c = Cardinality(OfCount(five, 2)) /\ d = Cardinality(OfCount(five, 1))
  OBVIOUS
<1>2. /\ 5 = 4 * a + 3 * b + 2 * c + d /\ a \in Nat /\ b \in Nat /\ c \in Nat /\ d \in Nat
      /\ Cardinality(Ranks(five)) = a + b + c + d
  BY <1>1, FourSuits, CardsByCount
<1>3. a = 0 /\ b = 0 /\ c = 0 /\ d = 5 /\ Cardinality(Ranks(five)) = 5
  BY <1>2
<1>4. OfCount(five, 1) \subseteq Ranks(five) /\ IsFiniteSet(Ranks(five))
  BY FourSuits, RanksAre DEF OfCount
<1>5. OfCount(five, 1) = Ranks(five)
  BY <1>1, <1>3, <1>4, FS_Subset
<1> QED BY <1>1, <1>3, <1>5 DEF Shape

Flushed(five) == \E suit \in Suits : \A card \in five : card.suit = suit

\* A flush has five ranks.
LEMMA FlushedRanks ==
    ASSUME NEW rs \in RuleSets, NEW five, OfDeck(rs, five), Cardinality(five) = 5, Flushed(five)
    PROVE  Cardinality(Ranks(five)) = 5
<1>1. PICK suit : \A card \in five : card.suit = suit
  BY DEF Flushed
<1>2. PICK f : f = [card \in five |-> card.rank]
  OBVIOUS
<1>3. \A card \in five : card = [rank |-> card.rank, suit |-> suit]
  BY <1>1 DEF OfDeck
<1>4. f \in Surjection(five, Ranks(five))
  BY <1>2 DEF Surjection, Ranks
<1>5. \A card, other \in five : f[card] = f[other] => card = other
  BY <1>2, <1>3
<1>6. f \in Injection(five, Ranks(five))
  BY <1>2, <1>4, <1>5 DEF Injection, IsInjective, Surjection
<1> QED BY <1>4, <1>6, FS_Surjection DEF OfDeck

\* Five consecutive ranks are the ones from their highest down.
LEMMA ConsecutiveAre ==
    ASSUME NEW five, Cards(five), Consecutive(five)
    PROVE  /\ Max(Ranks(five)) \in Ranks(five) /\ Max(Ranks(five)) \in Int
           /\ Ranks(five) = Max(Ranks(five)) - 4..Max(Ranks(five))
<1>1. /\ IsFiniteSet(Ranks(five)) /\ Ranks(five) \subseteq Int /\ Cardinality(Ranks(five)) = 5
      /\ \A p, q \in Ranks(five) : p - q < 5
  BY RanksAre DEF Consecutive
<1>2. PICK high \in Ranks(five) : \A rank \in Ranks(five) : rank <= high
  BY <1>1, GreatestInteger, FS_EmptySet
<1>3. PICK h : h = Max(Ranks(five))
  OBVIOUS
<1>4. h \in Ranks(five) /\ \A rank \in Ranks(five) : rank <= h
  BY <1>1, <1>2, <1>3 DEF Max
<1>5. h \in Int /\ Ranks(five) \subseteq h - 4..h
  <2>1. h \in Int
    BY <1>1, <1>4
  <2>2. ASSUME NEW rank \in Ranks(five) PROVE rank \in h - 4..h
    <3>1. rank \in Int /\ rank <= h /\ h - rank < 5
      BY <1>1, <1>4
    <3> QED BY <2>1, <3>1
  <2> QED BY <2>1, <2>2
<1>6. IsFiniteSet(h - 4..h) /\ Cardinality(h - 4..h) = 5
  BY <1>5, FS_Interval
<1>7. Ranks(five) = h - 4..h
  BY <1>1, <1>5, <1>6, FS_Subset
<1> QED BY <1>3, <1>4, <1>5, <1>7

\* The five ranks of a straight up to high.
Run(rs, high) == IF high = rs.wheel[2] THEN Range(rs.wheel) ELSE high - 4..high

\* A straight has five ranks, the wheel or consecutive.
LEMMA StraightIs ==
    ASSUME NEW rs \in RuleSets, NEW five, OfDeck(rs, five), Cardinality(five) = 5,
           NEW high, high = straightHigh(rs, five), high > 0
    PROVE  /\ Cardinality(Ranks(five)) = 5 /\ high \in Ranks(five)
           /\ Ranks(five) = Run(rs, high)
<1>1. /\ IsFiniteSet(Range(rs.wheel)) /\ Cardinality(Range(rs.wheel)) = 5
      /\ rs.wheel[2] \in Range(rs.wheel) /\ rs.wheel[2] \in Int
      /\ \A rank \in rs.ranks : rank > rs.wheel[2] - 4
  BY WheelIs
<1>2. Cards(five) /\ Ranks(five) \subseteq rs.ranks /\ IsFiniteSet(Ranks(five))
  BY FourSuits, RanksAre
<1>3. CASE Range(rs.wheel) \subseteq Ranks(five)
  <2>1. high = rs.wheel[2]
    BY <1>3 DEF straightHigh
  <2>2. Cardinality(Ranks(five)) >= 5 /\ Cardinality(Ranks(five)) \in Int
    BY <1>1, <1>2, <1>3, FS_Subset, FS_CardinalityType
  <2>3. Cardinality(Ranks(five)) = 5
    BY <2>2, FiveRanks
  <2>4. Ranks(five) = Range(rs.wheel)
    BY <1>1, <1>2, <1>3, <2>3, FS_Subset
  <2> QED BY <1>1, <2>1, <2>3, <2>4 DEF Run
<1>4. CASE ~ (Range(rs.wheel) \subseteq Ranks(five))
  <2>1. Consecutive(five) /\ high = Max(Ranks(five))
    BY <1>4 DEF straightHigh
  <2>2. high \in Ranks(five) /\ high \in Int /\ Ranks(five) = high - 4..high
    BY <1>2, <2>1, ConsecutiveAre
  <2>3. Cardinality(Ranks(five)) = 5
    BY <2>1 DEF Consecutive
  <2>4. high # rs.wheel[2]
    <3>1. high - 4 \in Ranks(five)
      BY <2>2
    <3> QED BY <1>1, <1>2, <2>2, <3>1
  <2> QED BY <2>2, <2>3, <2>4 DEF Run
<1> QED BY <1>3, <1>4

\* Five ranks that are the wheel or consecutive are a straight.
LEMMA StraightFrom ==
    ASSUME NEW rs \in RuleSets, NEW five, OfDeck(rs, five), Cardinality(five) = 5,
           NEW high \in rs.ranks,
           Ranks(five) = Run(rs, high)
    PROVE  straightHigh(rs, five) = high /\ high > 0
<1>0. high > 0 /\ high \in Int
  BY WheelIs
<1>1. CASE high = rs.wheel[2]
  BY <1>0, <1>1 DEF straightHigh, Run
<1>2. CASE high # rs.wheel[2]
  <2>1. Ranks(five) = high - 4..high
    BY <1>2 DEF Run
  <2>2. ~ (Range(rs.wheel) \subseteq Ranks(five))
    BY <1>0, <2>1, WheelIs
  <2>3. Cardinality(Ranks(five)) = 5
    BY <1>0, <2>1, FS_Interval
  <2>4. Consecutive(five)
    BY <1>0, <2>1, <2>3 DEF Consecutive
  <2>5. Max(Ranks(five)) = high
    <3>1. high \in Ranks(five) /\ \A rank \in Ranks(five) : rank \in Int /\ rank <= high
      BY <1>0, <2>1
    <3>2. \E x \in Ranks(five) : \A y \in Ranks(five) : x >= y
      BY <1>0, <3>1
    <3>3. PICK m : m = Max(Ranks(five))
      OBVIOUS
    <3>4. m \in Ranks(five) /\ \A y \in Ranks(five) : m >= y
      BY <3>2, <3>3 DEF Max
    <3> QED BY <1>0, <3>1, <3>3, <3>4
  <2> QED BY <1>0, <2>2, <2>4, <2>5 DEF straightHigh
<1> QED BY <1>1, <1>2

-----------------------------------------------------------------------------
(* The class and the ranks of five cards, by their shape.                  *)

\* Up to two ranks in order.
LEMMA FewInOrder ==
    ASSUME NEW S, IsFiniteSet(S), S \subseteq Int
    PROVE  /\ HighestFirst(S) \in Seq(Int)
           /\ Cardinality(S) = 0 => HighestFirst(S) = <<>>
           /\ Cardinality(S) = 1 => \E a \in S : S = {a} /\ HighestFirst(S) = <<a>>
           /\ Cardinality(S) = 2 =>
                  \E a, b \in S : b < a /\ S = {a, b} /\ HighestFirst(S) = <<a, b>>
<1>1. HighestFirst(S) \in Seq(Int)
  BY Placed
<1>2. ASSUME Cardinality(S) = 0 PROVE HighestFirst(S) = <<>>
  <2>1. S = {}
    BY <1>2, FS_EmptySet
  <2> QED BY <2>1, InOrder
<1>3. ASSUME Cardinality(S) = 1 PROVE \E a \in S : S = {a} /\ HighestFirst(S) = <<a>>
  <2>1. PICK a : S = {a}
    BY <1>3, FS_Singleton
  <2>2. a \in Int /\ a \in S
    BY <2>1
  <2> QED BY <2>1, <2>2, InOrder
<1>4. ASSUME Cardinality(S) = 2
      PROVE  \E a, b \in S : b < a /\ S = {a, b} /\ HighestFirst(S) = <<a, b>>
  <2>0. S # {}
    BY <1>4, FS_EmptySet
  <2>1. PICK x \in S : TRUE
    BY <2>0
  <2>2. IsFiniteSet(S \ {x}) /\ Cardinality(S \ {x}) = 1
    BY <1>4, FS_RemoveElement
  <2>3. PICK y : S \ {x} = {y}
    BY <2>2, FS_Singleton
  <2>4. S = {x, y} /\ x # y /\ x \in Int /\ y \in Int
    BY <2>3
  <2>5. PICK a, b : a \in Int /\ b \in Int /\ b < a /\ S = {a, b}
    BY <2>4
  <2>6. HighestFirst({a, b}) = <<a, b>>
    BY <2>5, InOrder
  <2>7. a \in S /\ b \in S
    BY <2>5
  <2> QED BY <2>5, <2>6, <2>7
<1> QED BY <1>1, <1>2, <1>3, <1>4

\* One rank and another.
LEMMA TwoJoined == ASSUME NEW a \in Int, NEW b \in Int PROVE <<a>> \o <<b>> = <<a, b>>
<1>1. PICK u, v : u = <<a>> \o <<b>> /\ v = <<a, b>>
  OBVIOUS
<1>2. u \in Seq(Int) /\ Len(u) = 2 /\ u[1] = a /\ u[2] = b
  BY <1>1, Joined
<1>3. v \in Seq(Int) /\ Len(v) = 2 /\ v[1] = a /\ v[2] = b
  BY <1>1
<1>4. u = [i \in 1..2 |-> u[i]] /\ v = [i \in 1..2 |-> v[i]]
  BY <1>2, <1>3
<1>5. \A i \in 1..2 : u[i] = v[i]
  BY <1>2, <1>3
<1>6. u = v
  BY <1>4, <1>5
<1> QED BY <1>1, <1>6

\* The ranks of four cards first, then those of three, two and one.
LEMMA GroupsAre ==
    ASSUME NEW five
    PROVE  rankGroups(five) = HighestFirst(OfCount(five, 4)) \o HighestFirst(OfCount(five, 3))
                              \o HighestFirst(OfCount(five, 2)) \o HighestFirst(OfCount(five, 1))
<1>1. PICK count : count = [rank \in Ranks(five) |-> Count(five, rank)]
  OBVIOUS
<1>2. \A n : OfCount(five, n) = {rank \in DOMAIN count : count[rank] = n}
  BY <1>1 DEF OfCount
<1>3. PICK w, x, y, z :
          /\ w = HighestFirst({rank \in DOMAIN count : count[rank] = 4})
          /\ x = HighestFirst({rank \in DOMAIN count : count[rank] = 3})
          /\ y = HighestFirst({rank \in DOMAIN count : count[rank] = 2})
          /\ z = HighestFirst({rank \in DOMAIN count : count[rank] = 1})
  OBVIOUS
<1>4. rankGroups(five) = w \o x \o y \o z
  BY <1>1, <1>3 DEF rankGroups
<1>5. /\ w = HighestFirst(OfCount(five, 4)) /\ x = HighestFirst(OfCount(five, 3))
      /\ y = HighestFirst(OfCount(five, 2)) /\ z = HighestFirst(OfCount(five, 1))
  BY <1>2, <1>3
<1> QED BY <1>4, <1>5

\* The decisive ranks of each shape.
LEMMA GroupsByShape ==
    ASSUME NEW rs \in RuleSets, NEW five, OfDeck(rs, five)
    PROVE  /\ rankGroups(five) \in Seq(Int)
           /\ Shape(five, 1, 0, 0, 1) => \E a \in OfCount(five, 4) :
                  OfCount(five, 4) = {a} /\ rankGroups(five) = <<a>> \o HighestFirst(OfCount(five, 1))
           /\ Shape(five, 0, 1, 1, 0) => \E a \in OfCount(five, 3), b \in OfCount(five, 2) :
                  rankGroups(five) = <<a, b>>
           /\ Shape(five, 0, 1, 0, 2) => \E a \in OfCount(five, 3) :
                  rankGroups(five) = <<a>> \o HighestFirst(OfCount(five, 1))
           /\ Shape(five, 0, 0, 2, 1) => \E a, b \in OfCount(five, 2) :
                  b < a /\ rankGroups(five) = <<a, b>> \o HighestFirst(OfCount(five, 1))
           /\ Shape(five, 0, 0, 1, 3) => \E a \in OfCount(five, 2) :
                  rankGroups(five) = <<a>> \o HighestFirst(OfCount(five, 1))
           /\ Shape(five, 0, 0, 0, 5) => rankGroups(five) = HighestFirst(OfCount(five, 1))
<1>1. \A n : IsFiniteSet(OfCount(five, n)) /\ OfCount(five, n) \subseteq Int
  BY FourSuits, CardsByCount
<1>2. PICK w, x, y, z :
          /\ w = HighestFirst(OfCount(five, 4)) /\ x = HighestFirst(OfCount(five, 3))
          /\ y = HighestFirst(OfCount(five, 2)) /\ z = HighestFirst(OfCount(five, 1))
  OBVIOUS
<1>3. rankGroups(five) = w \o x \o y \o z
  BY <1>2, GroupsAre
<1>4. w \in Seq(Int) /\ x \in Seq(Int) /\ y \in Seq(Int) /\ z \in Seq(Int)
  BY <1>1, <1>2, FewInOrder
<1>5. \A s \in Seq(Int) : <<>> \o s = s /\ s \o <<>> = s
  OBVIOUS
<1>6. rankGroups(five) \in Seq(Int)
  BY <1>3, <1>4
<1>7. ASSUME Shape(five, 1, 0, 0, 1)
      PROVE  \E a \in OfCount(five, 4) :
                 OfCount(five, 4) = {a} /\ rankGroups(five) = <<a>> \o HighestFirst(OfCount(five, 1))
  <2>1. x = <<>> /\ y = <<>>
    BY <1>1, <1>2, <1>7, FewInOrder DEF Shape
  <2>2. PICK a \in OfCount(five, 4) : OfCount(five, 4) = {a} /\ w = <<a>>
    BY <1>1, <1>2, <1>7, FewInOrder DEF Shape
  <2> QED BY <1>2, <1>3, <1>4, <1>5, <2>1, <2>2
<1>8. ASSUME Shape(five, 0, 1, 1, 0)
      PROVE  \E a \in OfCount(five, 3), b \in OfCount(five, 2) : rankGroups(five) = <<a, b>>
  <2>1. w = <<>> /\ z = <<>>
    BY <1>1, <1>2, <1>8, FewInOrder DEF Shape
  <2>2. PICK a \in OfCount(five, 3) : x = <<a>>
    BY <1>1, <1>2, <1>8, FewInOrder DEF Shape
  <2>3. PICK b \in OfCount(five, 2) : y = <<b>>
    BY <1>1, <1>2, <1>8, FewInOrder DEF Shape
  <2>4. rankGroups(five) = <<a>> \o <<b>> /\ a \in Int /\ b \in Int
    BY <1>1, <1>3, <1>4, <1>5, <2>1, <2>2, <2>3
  <2>5. <<a>> \o <<b>> = <<a, b>>
    BY <2>4, TwoJoined
  <2> QED BY <2>4, <2>5
<1>9. ASSUME Shape(five, 0, 1, 0, 2)
      PROVE  \E a \in OfCount(five, 3) : rankGroups(five) = <<a>> \o HighestFirst(OfCount(five, 1))
  <2>1. w = <<>> /\ y = <<>>
    BY <1>1, <1>2, <1>9, FewInOrder DEF Shape
  <2>2. PICK a \in OfCount(five, 3) : x = <<a>>
    BY <1>1, <1>2, <1>9, FewInOrder DEF Shape
  <2> QED BY <1>2, <1>3, <1>4, <1>5, <2>1, <2>2
<1>10. ASSUME Shape(five, 0, 0, 2, 1)
       PROVE  \E a, b \in OfCount(five, 2) :
                  b < a /\ rankGroups(five) = <<a, b>> \o HighestFirst(OfCount(five, 1))
  <2>1. w = <<>> /\ x = <<>>
    BY <1>1, <1>2, <1>10, FewInOrder DEF Shape
  <2>2. PICK a, b \in OfCount(five, 2) : b < a /\ y = <<a, b>>
    BY <1>1, <1>2, <1>10, FewInOrder DEF Shape
  <2>3. rankGroups(five) = y \o z
    BY <1>3, <1>4, <1>5, <2>1
  <2> QED BY <1>2, <2>2, <2>3
<1>11. ASSUME Shape(five, 0, 0, 1, 3)
       PROVE  \E a \in OfCount(five, 2) : rankGroups(five) = <<a>> \o HighestFirst(OfCount(five, 1))
  <2>1. w = <<>> /\ x = <<>>
    BY <1>1, <1>2, <1>11, FewInOrder DEF Shape
  <2>2. PICK a \in OfCount(five, 2) : y = <<a>>
    BY <1>1, <1>2, <1>11, FewInOrder DEF Shape
  <2> QED BY <1>2, <1>3, <1>4, <1>5, <2>1, <2>2
<1>12. ASSUME Shape(five, 0, 0, 0, 5) PROVE rankGroups(five) = HighestFirst(OfCount(five, 1))
  <2>1. w = <<>> /\ x = <<>> /\ y = <<>>
    BY <1>1, <1>2, <1>12, FewInOrder DEF Shape
  <2> QED BY <1>2, <1>3, <1>4, <1>5, <2>1
<1> QED BY <1>6, <1>7, <1>8, <1>9, <1>10, <1>11, <1>12

\* The class from the counts of the first two groups.
LEMMA ClassFrom ==
    ASSUME NEW rs, NEW five, NEW one, one = Count(five, rankGroups(five)[1]),
           NEW two, two = Count(five, rankGroups(five)[2])
    PROVE  Class(rs, five) =
               IF Flushed(five) /\ straightHigh(rs, five) > 0 THEN "straight_flush"
               ELSE IF one = 4 THEN "four_of_a_kind"
               ELSE IF one = 3 /\ two = 2 THEN "full_house"
               ELSE IF Flushed(five) THEN "flush"
               ELSE IF straightHigh(rs, five) > 0 THEN "straight"
               ELSE IF one = 3 THEN "three_of_a_kind"
               ELSE IF one = 2 /\ two = 2 THEN "two_pair"
               ELSE IF one = 2 THEN "one_pair"
               ELSE "high_card"
BY DEF Class, Flushed

\* Only five single cards are a flush or a straight.
LEMMA OnlySingles ==
    ASSUME NEW rs \in RuleSets, NEW five, OfDeck(rs, five), Cardinality(five) = 5,
           Flushed(five) \/ straightHigh(rs, five) > 0
    PROVE  Shape(five, 0, 0, 0, 5)
<1>1. Cardinality(Ranks(five)) = 5
  BY FlushedRanks, StraightIs
<1> QED BY <1>1, FiveRanks

\* The class of each shape.
LEMMA ClassIs ==
    ASSUME NEW rs \in RuleSets, NEW five, OfDeck(rs, five), Cardinality(five) = 5
    PROVE  /\ Shape(five, 1, 0, 0, 1) => Class(rs, five) = "four_of_a_kind"
           /\ Shape(five, 0, 1, 1, 0) => Class(rs, five) = "full_house"
           /\ Shape(five, 0, 1, 0, 2) => Class(rs, five) = "three_of_a_kind"
           /\ Shape(five, 0, 0, 2, 1) => Class(rs, five) = "two_pair"
           /\ Shape(five, 0, 0, 1, 3) => Class(rs, five) = "one_pair"
           /\ Shape(five, 0, 0, 0, 5) =>
                  Class(rs, five) = IF Flushed(five)
                                    THEN IF straightHigh(rs, five) > 0 THEN "straight_flush" ELSE "flush"
                                    ELSE IF straightHigh(rs, five) > 0 THEN "straight" ELSE "high_card"
<1>1. PICK one, two : one = Count(five, rankGroups(five)[1]) /\ two = Count(five, rankGroups(five)[2])
  OBVIOUS
<1>2. Class(rs, five) =
          IF Flushed(five) /\ straightHigh(rs, five) > 0 THEN "straight_flush"
          ELSE IF one = 4 THEN "four_of_a_kind"
          ELSE IF one = 3 /\ two = 2 THEN "full_house"
          ELSE IF Flushed(five) THEN "flush"
          ELSE IF straightHigh(rs, five) > 0 THEN "straight"
          ELSE IF one = 3 THEN "three_of_a_kind"
          ELSE IF one = 2 /\ two = 2 THEN "two_pair"
          ELSE IF one = 2 THEN "one_pair"
          ELSE "high_card"
  BY <1>1, ClassFrom
<1>3. ~ Shape(five, 0, 0, 0, 5) => ~ Flushed(five) /\ ~ (straightHigh(rs, five) > 0)
  BY OnlySingles
<1>4. \A n : \A rank \in OfCount(five, n) : Count(five, rank) = n
  BY DEF OfCount
<1>5. PICK S, s : S = OfCount(five, 1) /\ s = HighestFirst(S)
  OBVIOUS
<1>6. IsFiniteSet(S) /\ S \subseteq Int /\ Cardinality(S) \in Nat
  BY <1>5, FourSuits, CardsByCount
<1>7. s \in Seq(Int) /\ Len(s) = Cardinality(S) /\ \A i \in 1..Cardinality(S) : s[i] \in S
  BY <1>5, <1>6, Placed
<1>8. ASSUME NEW a, NEW r, r = <<a>> \o s, Cardinality(S) >= 1 PROVE r[1] = a /\ r[2] \in S
  <2>1. 1 \in 1..Cardinality(S) /\ Len(s) >= 1
    BY <1>6, <1>7, <1>8
  <2>2. r[2] = s[1]
    BY <1>7, <1>8, <2>1
  <2> QED BY <1>7, <1>8, <2>1, <2>2
<1>9. ASSUME Shape(five, 1, 0, 0, 1) PROVE Class(rs, five) = "four_of_a_kind"
  <2>1. PICK a \in OfCount(five, 4) : rankGroups(five) = <<a>> \o s
    BY <1>5, <1>9, GroupsByShape
  <2>2. Cardinality(S) >= 1
    BY <1>5, <1>9 DEF Shape
  <2>3. one = 4
    BY <1>1, <1>4, <1>8, <2>1, <2>2
  <2> QED BY <1>2, <1>3, <1>9, <2>3 DEF Shape
<1>10. ASSUME Shape(five, 0, 1, 1, 0) PROVE Class(rs, five) = "full_house"
  <2>1. PICK a \in OfCount(five, 3), b \in OfCount(five, 2) : rankGroups(five) = <<a, b>>
    BY <1>10, GroupsByShape
  <2>2. rankGroups(five)[1] = a /\ rankGroups(five)[2] = b
    BY <2>1
  <2>3. one = 3 /\ two = 2
    BY <1>1, <1>4, <2>2
  <2> QED BY <1>2, <1>3, <1>10, <2>3 DEF Shape
<1>11. ASSUME Shape(five, 0, 1, 0, 2) PROVE Class(rs, five) = "three_of_a_kind"
  <2>1. PICK a \in OfCount(five, 3) : rankGroups(five) = <<a>> \o s
    BY <1>5, <1>11, GroupsByShape
  <2>2. Cardinality(S) >= 1
    BY <1>5, <1>11 DEF Shape
  <2>3. rankGroups(five)[1] = a /\ rankGroups(five)[2] \in OfCount(five, 1)
    BY <1>5, <1>8, <2>1, <2>2
  <2>4. one = 3 /\ two = 1
    BY <1>1, <1>4, <2>3
  <2> QED BY <1>2, <1>3, <1>11, <2>4 DEF Shape
<1>12. ASSUME Shape(five, 0, 0, 2, 1) PROVE Class(rs, five) = "two_pair"
  <2>1. PICK a, b \in OfCount(five, 2) : rankGroups(five) = <<a, b>> \o s
    BY <1>5, <1>12, GroupsByShape
  <2>2. rankGroups(five)[1] = a /\ rankGroups(five)[2] = b
    BY <1>7, <2>1
  <2>3. one = 2 /\ two = 2
    BY <1>1, <1>4, <2>2
  <2> QED BY <1>2, <1>3, <1>12, <2>3 DEF Shape
<1>13. ASSUME Shape(five, 0, 0, 1, 3) PROVE Class(rs, five) = "one_pair"
  <2>1. PICK a \in OfCount(five, 2) : rankGroups(five) = <<a>> \o s
    BY <1>5, <1>13, GroupsByShape
  <2>2. Cardinality(S) >= 1
    BY <1>5, <1>13 DEF Shape
  <2>3. rankGroups(five)[1] = a /\ rankGroups(five)[2] \in OfCount(five, 1)
    BY <1>5, <1>8, <2>1, <2>2
  <2>4. one = 2 /\ two = 1
    BY <1>1, <1>4, <2>3
  <2> QED BY <1>2, <1>3, <1>13, <2>4 DEF Shape
<1>14. ASSUME Shape(five, 0, 0, 0, 5)
       PROVE  Class(rs, five) = IF Flushed(five)
                                THEN IF straightHigh(rs, five) > 0 THEN "straight_flush" ELSE "flush"
                                ELSE IF straightHigh(rs, five) > 0 THEN "straight" ELSE "high_card"
  <2>1. rankGroups(five) = s /\ Cardinality(S) = 5
    BY <1>5, <1>14, GroupsByShape DEF Shape
  <2>2. 1 \in 1..Cardinality(S) /\ s[1] \in S
    BY <1>7, <2>1
  <2>3. one = 1
    BY <1>1, <1>4, <1>5, <2>1, <2>2
  <2> QED BY <1>2, <2>3
<1> QED BY <1>9, <1>10, <1>11, <1>12, <1>13, <1>14

-----------------------------------------------------------------------------
(* What the cards are worth bounds every five of them.                     *)

\* What each class offers.
LEMMA OffersAre ==
    ASSUME NEW rs, NEW hand
    PROVE  /\ Offers(rs, hand, "straight_flush") = UNION {Straights(rs, Suited(hand, s)) : s \in Suits}
           /\ Offers(rs, hand, "four_of_a_kind")
                  = UNION {Kickers(<<r>>, 1, Ranks(hand)) : r \in AtLeast(hand, 4)}
           /\ Offers(rs, hand, "full_house")
                  = {full \in AtLeast(hand, 3) \X AtLeast(hand, 2) : full[1] # full[2]}
           /\ Offers(rs, hand, "flush") = UNION {Kickers(<<>>, 5, Suited(hand, s)) : s \in Suits}
           /\ Offers(rs, hand, "straight") = Straights(rs, Ranks(hand))
           /\ Offers(rs, hand, "three_of_a_kind")
                  = UNION {Kickers(<<r>>, 2, Ranks(hand)) : r \in AtLeast(hand, 3)}
           /\ Offers(rs, hand, "two_pair")
                  = UNION {Kickers(pair, 1, Ranks(hand)) :
                           pair \in {two \in AtLeast(hand, 2) \X AtLeast(hand, 2) : two[1] > two[2]}}
           /\ Offers(rs, hand, "one_pair")
                  = UNION {Kickers(<<p>>, 3, Ranks(hand)) : p \in AtLeast(hand, 2)}
           /\ Offers(rs, hand, "high_card") = Kickers(<<>>, 5, Ranks(hand))
BY DEF Offers

\* A part of a hand has no rank and no card that the hand has not.
LEMMA PartOf ==
    ASSUME NEW rs \in RuleSets, NEW hand, OfDeck(rs, hand), NEW five, five \subseteq hand
    PROVE  /\ OfDeck(rs, five) /\ Ranks(five) \subseteq Ranks(hand)
           /\ \A n \in 1..4 : OfCount(five, n) \subseteq AtLeast(hand, n)
<1>1. OfDeck(rs, five)
  BY FS_Subset DEF OfDeck
<1>2. Ranks(five) \subseteq Ranks(hand)
  BY DEF Ranks
<1>3. ASSUME NEW n \in 1..4, NEW rank \in OfCount(five, n) PROVE rank \in AtLeast(hand, n)
  <2>1. PICK P, Q : P = {card \in five : card.rank = rank} /\ Q = {card \in hand : card.rank = rank}
    OBVIOUS
  <2>2. P \subseteq Q /\ IsFiniteSet(Q)
    BY <2>1, FS_Subset DEF OfDeck
  <2>3. Cardinality(P) <= Cardinality(Q) /\ Cardinality(P) \in Nat /\ Cardinality(Q) \in Nat
    BY <2>2, FS_Subset, FS_CardinalityType
  <2>4. rank \in Ranks(five) /\ Cardinality(P) = n
    BY <2>1 DEF OfCount, Count
  <2>5. Count(hand, rank) >= n
    BY <2>1, <2>3, <2>4 DEF Count
  <2> QED BY <1>2, <2>4, <2>5 DEF AtLeast
<1> QED BY <1>1, <1>2, <1>3

\* A straight is offered by all ranks that hold it.
LEMMA StraightOffered ==
    ASSUME NEW rs \in RuleSets, NEW five, OfDeck(rs, five), Cardinality(five) = 5,
           NEW high, high = straightHigh(rs, five), high > 0, NEW there, Ranks(five) \subseteq there
    PROVE  <<high>> \in Straights(rs, there)
<1>1. high \in Ranks(five)
  BY StraightIs
<1>2. Ranks(five) = Run(rs, high)
  BY StraightIs
<1> QED BY <1>1, <1>2 DEF Straights, Run

\* Of the class of any five cards there is an offer that does not lose to them.
LEMMA OffersAsGood ==
    ASSUME NEW rs \in RuleSets, NEW hand, OfDeck(rs, hand), NEW five \in kSubset(5, hand),
           NEW e, e = evaluateFive(rs, five)
    PROVE  \E o \in Offers(rs, hand, e.class) : Difference(e.ranks, o) <= 0
<1>1. five \subseteq hand /\ Cardinality(five) = 5
  BY DEF kSubset
<1>2. /\ OfDeck(rs, five) /\ Ranks(five) \subseteq Ranks(hand)
      /\ \A n \in 1..4 : OfCount(five, n) \subseteq AtLeast(hand, n)
  BY <1>1, PartOf
<1>3. IsFiniteSet(Ranks(hand)) /\ Ranks(hand) \subseteq Int
  BY FourSuits, RanksAre
<1>4. PICK S, s : S = OfCount(five, 1) /\ s = HighestFirst(S)
  OBVIOUS
<1>5. S \subseteq Ranks(hand) /\ S \subseteq Int /\ s \in Seq(Int)
  <2>1. S \subseteq Ranks(hand)
    BY <1>2, <1>4 DEF OfCount
  <2> QED BY <1>3, <1>4, <2>1, FS_Subset, Placed
<1>6. /\ e.class = Class(rs, five)
      /\ e.ranks = IF e.class \in {"straight_flush", "straight"} THEN <<straightHigh(rs, five)>>
                   ELSE rankGroups(five)
  BY DEF evaluateFive
<1>7. \A m, n : m # n => OfCount(five, m) \cap OfCount(five, n) = {}
  BY DEF OfCount
<1>8. ASSUME NEW a \in Int, a \notin S, NEW n, n = Cardinality(S)
      PROVE  \E o \in Kickers(<<a>>, n, Ranks(hand)) : Difference(<<a>> \o s, o) <= 0
  <2>1. Range(<<a>>) = {a} /\ <<a>> \in Seq(Int)
    BY DEF Range
  <2>2. S \subseteq Ranks(hand) \ Range(<<a>>)
    BY <1>5, <1>8, <2>1
  <2> QED BY <1>3, <1>4, <1>8, <2>1, <2>2, KickersBest
<1>9. ASSUME NEW there, IsFiniteSet(there), there \subseteq Int, S \subseteq there, Cardinality(S) = 5
      PROVE  \E o \in Kickers(<<>>, 5, there) : Difference(s, o) <= 0
  <2>1. Range(<<>>) = {} /\ <<>> \in Seq(Int)
    BY DEF Range
  <2>2. S \subseteq there \ Range(<<>>)
    BY <1>9, <2>1
  <2>3. \E o \in Kickers(<<>>, 5, there) : Difference(<<>> \o s, o) <= 0
    BY <1>4, <1>9, <2>1, <2>2, KickersBest
  <2>4. <<>> \o s = s
    BY <1>5
  <2> QED BY <2>3, <2>4
<1>10. ASSUME Shape(five, 1, 0, 0, 1) PROVE \E o \in Offers(rs, hand, e.class) : Difference(e.ranks, o) <= 0
  <2>1. PICK a \in OfCount(five, 4) : rankGroups(five) = <<a>> \o s
    BY <1>2, <1>4, <1>10, GroupsByShape
  <2>2. a \in Int /\ a \notin S /\ a \in AtLeast(hand, 4)
    BY <1>2, <1>3, <1>4, <1>7, <2>1 DEF OfCount
  <2>3. e.class = "four_of_a_kind"
    BY <1>1, <1>2, <1>6, <1>10, ClassIs
  <2>4. PICK o \in Kickers(<<a>>, 1, Ranks(hand)) : Difference(<<a>> \o s, o) <= 0
    BY <1>4, <1>8, <1>10, <2>2 DEF Shape
  <2>5. e.ranks = <<a>> \o s
    BY <1>6, <2>1, <2>3
  <2>6. o \in Offers(rs, hand, "four_of_a_kind")
    BY <2>2, <2>4, OffersAre
  <2> QED BY <2>3, <2>4, <2>5, <2>6
<1>11. ASSUME Shape(five, 0, 1, 1, 0) PROVE \E o \in Offers(rs, hand, e.class) : Difference(e.ranks, o) <= 0
  <2>1. PICK a \in OfCount(five, 3), b \in OfCount(five, 2) : rankGroups(five) = <<a, b>>
    BY <1>2, <1>11, GroupsByShape
  <2>2. a # b /\ a \in AtLeast(hand, 3) /\ b \in AtLeast(hand, 2)
    BY <1>2, <1>7, <2>1
  <2>3. e.class = "full_house"
    BY <1>1, <1>2, <1>6, <1>11, ClassIs
  <2>4. e.ranks = <<a, b>> /\ e.ranks \in Offers(rs, hand, "full_house")
    BY <1>6, <2>1, <2>2, <2>3, OffersAre
  <2>5. rankGroups(five) \in Seq(Int)
    BY <1>2, GroupsByShape
  <2>6. Difference(e.ranks, e.ranks) = 0
    BY <2>1, <2>4, <2>5, DifferenceIs
  <2> QED BY <2>3, <2>4, <2>6
<1>12. ASSUME Shape(five, 0, 1, 0, 2) PROVE \E o \in Offers(rs, hand, e.class) : Difference(e.ranks, o) <= 0
  <2>1. PICK a \in OfCount(five, 3) : rankGroups(five) = <<a>> \o s
    BY <1>2, <1>4, <1>12, GroupsByShape
  <2>2. a \in Int /\ a \notin S /\ a \in AtLeast(hand, 3)
    BY <1>2, <1>3, <1>4, <1>7, <2>1 DEF OfCount
  <2>3. e.class = "three_of_a_kind"
    BY <1>1, <1>2, <1>6, <1>12, ClassIs
  <2>4. PICK o \in Kickers(<<a>>, 2, Ranks(hand)) : Difference(<<a>> \o s, o) <= 0
    BY <1>4, <1>8, <1>12, <2>2 DEF Shape
  <2>5. e.ranks = <<a>> \o s
    BY <1>6, <2>1, <2>3
  <2>6. o \in Offers(rs, hand, "three_of_a_kind")
    BY <2>2, <2>4, OffersAre
  <2> QED BY <2>3, <2>4, <2>5, <2>6
<1>13. ASSUME Shape(five, 0, 0, 2, 1) PROVE \E o \in Offers(rs, hand, e.class) : Difference(e.ranks, o) <= 0
  <2>1. PICK a, b \in OfCount(five, 2) : b < a /\ rankGroups(five) = <<a, b>> \o s
    BY <1>2, <1>4, <1>13, GroupsByShape
  <2>2. /\ a \in Int /\ b \in Int /\ a \notin S /\ b \notin S
        /\ a \in AtLeast(hand, 2) /\ b \in AtLeast(hand, 2)
    BY <1>2, <1>3, <1>4, <1>7, <2>1 DEF OfCount
  <2>3. e.class = "two_pair"
    BY <1>1, <1>2, <1>6, <1>13, ClassIs
  <2>4. PICK pair : pair = <<a, b>>
    OBVIOUS
  <2>5. Range(pair) = {a, b} /\ pair \in Seq(Int) /\ pair[1] = a /\ pair[2] = b
    BY <2>2, <2>4 DEF Range
  <2>6. S \subseteq Ranks(hand) \ Range(pair) /\ Cardinality(S) = 1
    BY <1>4, <1>5, <1>13, <2>2, <2>5 DEF Shape
  <2>7. PICK o \in Kickers(pair, 1, Ranks(hand)) : Difference(pair \o s, o) <= 0
    BY <1>3, <1>4, <2>5, <2>6, KickersBest
  <2>8. pair \in {two \in AtLeast(hand, 2) \X AtLeast(hand, 2) : two[1] > two[2]}
    BY <2>1, <2>2, <2>4, <2>5
  <2>9. o \in Offers(rs, hand, "two_pair")
    BY <2>8, OffersAre
  <2>10. e.ranks = pair \o s
    BY <1>6, <2>1, <2>3, <2>4
  <2> QED BY <2>3, <2>7, <2>9, <2>10
<1>14. ASSUME Shape(five, 0, 0, 1, 3) PROVE \E o \in Offers(rs, hand, e.class) : Difference(e.ranks, o) <= 0
  <2>1. PICK a \in OfCount(five, 2) : rankGroups(five) = <<a>> \o s
    BY <1>2, <1>4, <1>14, GroupsByShape
  <2>2. a \in Int /\ a \notin S /\ a \in AtLeast(hand, 2)
    BY <1>2, <1>3, <1>4, <1>7, <2>1 DEF OfCount
  <2>3. e.class = "one_pair"
    BY <1>1, <1>2, <1>6, <1>14, ClassIs
  <2>4. PICK o \in Kickers(<<a>>, 3, Ranks(hand)) : Difference(<<a>> \o s, o) <= 0
    BY <1>4, <1>8, <1>14, <2>2 DEF Shape
  <2>5. e.ranks = <<a>> \o s
    BY <1>6, <2>1, <2>3
  <2>6. o \in Offers(rs, hand, "one_pair")
    BY <2>2, <2>4, OffersAre
  <2> QED BY <2>3, <2>4, <2>5, <2>6
<1>15. ASSUME Shape(five, 0, 0, 0, 5) PROVE \E o \in Offers(rs, hand, e.class) : Difference(e.ranks, o) <= 0
  <2>1. rankGroups(five) = s /\ Cardinality(S) = 5 /\ S \subseteq Ranks(five)
    BY <1>2, <1>4, <1>15, GroupsByShape DEF Shape, OfCount
  <2>2. PICK high : high = straightHigh(rs, five)
    OBVIOUS
  <2>3. e.class = IF Flushed(five) THEN IF high > 0 THEN "straight_flush" ELSE "flush"
                  ELSE IF high > 0 THEN "straight" ELSE "high_card"
    BY <1>1, <1>2, <1>6, <1>15, <2>2, ClassIs
  <2>4. ASSUME high > 0 PROVE /\ \A there : Ranks(five) \subseteq there => <<high>> \in Straights(rs, there)
                              /\ Difference(<<high>>, <<high>>) = 0
    <3>1. high \in Int
      BY <1>1, <1>2, <1>3, <2>2, <2>4, StraightIs
    <3>2. <<high>> \in Seq(Int)
      BY <3>1
    <3> QED BY <1>1, <1>2, <2>2, <2>4, <3>2, StraightOffered, DifferenceIs
  <2>5. ASSUME Flushed(five)
        PROVE  \E suit \in Suits : /\ Ranks(five) \subseteq Suited(hand, suit)
                                   /\ IsFiniteSet(Suited(hand, suit)) /\ Suited(hand, suit) \subseteq Int
    <3>1. PICK suit \in Suits : \A card \in five : card.suit = suit
      BY <2>5 DEF Flushed
    <3>2. Ranks(five) \subseteq Suited(hand, suit) /\ Suited(hand, suit) \subseteq Ranks(hand)
      BY <1>1, <3>1 DEF Suited, Ranks
    <3> QED BY <1>3, <3>2, FS_Subset
  <2>6. CASE Flushed(five) /\ high > 0
    <3>1. PICK suit \in Suits : Ranks(five) \subseteq Suited(hand, suit)
      BY <2>5, <2>6
    <3>2. <<high>> \in Offers(rs, hand, "straight_flush")
      BY <2>4, <2>6, <3>1, OffersAre
    <3>3. e.class = "straight_flush" /\ e.ranks = <<high>>
      BY <1>6, <2>2, <2>3, <2>6
    <3> QED BY <2>4, <2>6, <3>2, <3>3
  <2>7. CASE Flushed(five) /\ ~ (high > 0)
    <3>1. PICK suit \in Suits : /\ Ranks(five) \subseteq Suited(hand, suit)
                                /\ IsFiniteSet(Suited(hand, suit)) /\ Suited(hand, suit) \subseteq Int
      BY <2>5, <2>7
    <3>2. PICK o \in Kickers(<<>>, 5, Suited(hand, suit)) : Difference(s, o) <= 0
      BY <1>9, <2>1, <3>1
    <3>3. e.class = "flush" /\ e.ranks = s
      BY <1>6, <2>1, <2>3, <2>7
    <3>4. o \in Offers(rs, hand, "flush")
      BY <3>1, <3>2, OffersAre
    <3> QED BY <3>2, <3>3, <3>4
  <2>8. CASE ~ Flushed(five) /\ high > 0
    <3>1. <<high>> \in Offers(rs, hand, "straight")
      BY <1>2, <2>4, <2>8, OffersAre
    <3>2. e.class = "straight" /\ e.ranks = <<high>>
      BY <1>6, <2>2, <2>3, <2>8
    <3> QED BY <2>4, <2>8, <3>1, <3>2
  <2>9. CASE ~ Flushed(five) /\ ~ (high > 0)
    <3>1. PICK o \in Kickers(<<>>, 5, Ranks(hand)) : Difference(s, o) <= 0
      BY <1>3, <1>5, <1>9, <2>1
    <3>2. e.class = "high_card" /\ e.ranks = s
      BY <1>6, <2>1, <2>3, <2>9
    <3>3. o \in Offers(rs, hand, "high_card")
      BY <3>1, OffersAre
    <3> QED BY <3>1, <3>2, <3>3
  <2> QED BY <2>6, <2>7, <2>8, <2>9
<1> QED BY <1>1, <1>2, <1>10, <1>11, <1>12, <1>13, <1>14, <1>15, Shapes

-----------------------------------------------------------------------------
(* What the cards are worth is made by five of them.                       *)

\* Cards of a hand, of each rank as many as are wanted and there.
LEMMA Picked ==
    ASSUME NEW hand, Cards(hand), NEW R, R \subseteq Ranks(hand), NEW want \in [R -> 1..4],
           \A rank \in R : Count(hand, rank) >= want[rank]
    PROVE  \E part \in SUBSET hand : /\ Ranks(part) = R
                                     /\ \A rank \in R : Count(part, rank) = want[rank]
                                     /\ Cardinality(part) = SumFunctionOnSet(want, R)
<1> DEFINE OfRank(rank) == {card \in hand : card.rank = rank}
           pick == [rank \in R |-> CHOOSE P : P \in kSubset(want[rank], OfRank(rank))]
           part == {card \in hand : card.rank \in R /\ card \in pick[card.rank]}
<1>1. ASSUME NEW rank \in R PROVE pick[rank] \subseteq OfRank(rank) /\ Cardinality(pick[rank]) = want[rank]
  <2>1. IsFiniteSet(OfRank(rank)) /\ Cardinality(OfRank(rank)) >= want[rank]
    BY FS_Subset DEF Cards, Count
  <2>2. want[rank] \in Nat
    OBVIOUS
  <2>3. PICK O : O = OfRank(rank)
    OBVIOUS
  <2>4. kSubset(want[rank], O) # {}
    BY <2>1, <2>2, <2>3, HoldsSome
  <2>5. pick[rank] = CHOOSE P : P \in kSubset(want[rank], O)
    BY <2>3
  <2> HIDE DEF pick
  <2>6. pick[rank] \in kSubset(want[rank], O)
    BY <2>4, <2>5
  <2> QED BY <2>3, <2>6 DEF kSubset
<1> HIDE DEF pick
<1>2. ASSUME NEW rank \in R PROVE {card \in part : card.rank = rank} = pick[rank]
  BY <1>1
<1>3. ASSUME NEW rank \in R PROVE Count(part, rank) = want[rank]
  BY <1>1, <1>2 DEF Count
<1>4. Ranks(part) = R
  <2>1. ASSUME NEW rank \in R PROVE rank \in Ranks(part)
    <3>1. Cardinality(pick[rank]) # 0
      BY <1>1
    <3>2. pick[rank] # {}
      BY <3>1, FS_EmptySet
    <3>3. PICK card : card \in pick[rank]
      BY <3>2
    <3>4. card \in part /\ card.rank = rank
      BY <1>2, <3>3
    <3> HIDE DEF part
    <3> QED BY <3>4 DEF Ranks
  <2> QED BY <2>1 DEF Ranks
<1>5. part \subseteq hand
  OBVIOUS
<1> HIDE DEF part
<1>6. Cards(part)
  BY <1>5, FS_Subset DEF Cards
<1>7. want = [rank \in Ranks(part) |-> Count(part, rank)]
  BY <1>3, <1>4
<1>8. Cardinality(part) = SumFunctionOnSet(want, R)
  BY <1>4, <1>6, <1>7, CountsAddUp
<1> QED BY <1>3, <1>4, <1>5, <1>8

\* Five cards with the fours, threes, pairs and single cards that are wanted.
LEMMA Made ==
    ASSUME NEW hand, Cards(hand), NEW A, NEW B, NEW C, NEW D,
           A \subseteq AtLeast(hand, 4), B \subseteq AtLeast(hand, 3), C \subseteq AtLeast(hand, 2),
           D \subseteq Ranks(hand),
           A \cap B = {}, A \cap C = {}, A \cap D = {}, B \cap C = {}, B \cap D = {}, C \cap D = {},
           4 * Cardinality(A) + 3 * Cardinality(B) + 2 * Cardinality(C) + Cardinality(D) = 5
    PROVE  \E five \in kSubset(5, hand) :
               /\ OfCount(five, 4) = A /\ OfCount(five, 3) = B
               /\ OfCount(five, 2) = C /\ OfCount(five, 1) = D
               /\ Ranks(five) = A \cup B \cup C \cup D
<1>1. PICK R : R = A \cup B \cup C \cup D
  OBVIOUS
<1>2. PICK want : want = [rank \in R |-> IF rank \in A THEN 4 ELSE IF rank \in B THEN 3
                                         ELSE IF rank \in C THEN 2 ELSE 1]
  OBVIOUS
<1>3. R \subseteq Ranks(hand) /\ want \in [R -> 1..4]
  BY <1>1, <1>2 DEF AtLeast
<1>4. /\ \A rank \in R : want[rank] = 4 <=> rank \in A
      /\ \A rank \in R : want[rank] = 3 <=> rank \in B
      /\ \A rank \in R : want[rank] = 2 <=> rank \in C
      /\ \A rank \in R : want[rank] = 1 <=> rank \in D
  BY <1>1, <1>2
<1>5. IsFiniteSet(R) /\ IsFiniteSet(hand)
  BY <1>3, RanksAre, FS_Subset DEF Cards
<1>6. ASSUME NEW rank \in Ranks(hand) PROVE Count(hand, rank) \in Nat /\ Count(hand, rank) >= 1
  <2>1. PICK P : P = {card \in hand : card.rank = rank}
    OBVIOUS
  <2>2. P # {} /\ IsFiniteSet(P)
    BY <1>5, <2>1, FS_Subset DEF Ranks
  <2>3. Cardinality(P) \in Nat /\ Cardinality(P) # 0
    BY <2>2, FS_CardinalityType, FS_EmptySet
  <2> QED BY <2>1, <2>3 DEF Count
<1>7. ASSUME NEW rank \in R PROVE Count(hand, rank) >= want[rank]
  BY <1>1, <1>2, <1>6 DEF AtLeast
<1>8. /\ Valued(want, R, 4) = A /\ Valued(want, R, 3) = B
      /\ Valued(want, R, 2) = C /\ Valued(want, R, 1) = D
  BY <1>1, <1>4 DEF Valued
<1>9. \A x \in R : want[x] \in 1..4
  BY <1>3
<1>10. SumFunctionOnSet(want, R) = 5
  BY <1>5, <1>8, <1>9, SumByValue
<1>11. PICK five \in SUBSET hand : /\ Ranks(five) = R
                                   /\ \A rank \in R : Count(five, rank) = want[rank]
                                   /\ Cardinality(five) = 5
  BY <1>3, <1>7, <1>10, Picked
<1>12. \A n : OfCount(five, n) = Valued(want, R, n)
  BY <1>11 DEF OfCount, Valued
<1>13. five \in kSubset(5, hand)
  BY <1>11 DEF kSubset
<1> QED BY <1>1, <1>8, <1>11, <1>12, <1>13

\* Five cards of one suit.
LEMMA MadeOfSuit ==
    ASSUME NEW rs \in RuleSets, NEW hand, OfDeck(rs, hand), NEW suit \in Suits,
           NEW K, K \subseteq Suited(hand, suit), Cardinality(K) = 5
    PROVE  \E five \in kSubset(5, hand) : Flushed(five) /\ Ranks(five) = K
<1>1. PICK five : five = {card \in hand : card.suit = suit /\ card.rank \in K}
  OBVIOUS
<1>2. five \subseteq hand /\ Flushed(five) /\ Ranks(five) = K
  BY <1>1 DEF Flushed, Ranks, Suited
<1>3. PICK f : f = [card \in five |-> card.rank]
  OBVIOUS
<1>4. \A card \in five : card = [rank |-> card.rank, suit |-> suit]
  BY <1>1 DEF OfDeck
<1>5. f \in Surjection(five, K)
  BY <1>2, <1>3 DEF Surjection, Ranks
<1>6. \A card, other \in five : f[card] = f[other] => card = other
  BY <1>3, <1>4
<1>7. f \in Injection(five, K)
  BY <1>3, <1>5, <1>6 DEF Injection, IsInjective, Surjection
<1>8. IsFiniteSet(five)
  BY <1>2, FS_Subset DEF OfDeck
<1>9. Cardinality(five) = 5
  BY <1>5, <1>7, <1>8, FS_Surjection
<1> QED BY <1>2, <1>9 DEF kSubset

\* Classes five cards may be instead of the one they were chosen for.
Stronger(class) == IF class \in {"flush", "straight"} THEN {"straight_flush"}
                   ELSE IF class = "high_card" THEN {"straight_flush", "flush", "straight"}
                   ELSE {}

\* Five cards make what a class offers, or a hand of a stronger class.
Makes(rs, hand, class, o) ==
    \E five \in kSubset(5, hand) :
        \/ evaluateFive(rs, five) = [class |-> class, ranks |-> o]
        \/ Class(rs, five) \in Stronger(class)

\* Five single cards.
LEMMA SinglesMade ==
    ASSUME NEW hand, Cards(hand), NEW K, K \subseteq Ranks(hand), Cardinality(K) = 5
    PROVE  \E five \in kSubset(5, hand) : Ranks(five) = K
<1>1. PICK A : A = {}
  OBVIOUS
<1>2. /\ A \subseteq AtLeast(hand, 4) /\ A \subseteq AtLeast(hand, 3) /\ A \subseteq AtLeast(hand, 2)
      /\ A \cap A = {} /\ A \cap K = {} /\ A \cup A \cup A \cup K = K
  BY <1>1
<1>3. 4 * Cardinality(A) + 3 * Cardinality(A) + 2 * Cardinality(A) + Cardinality(K) = 5
  BY <1>1, FS_EmptySet
<1>4. PICK five \in kSubset(5, hand) : Ranks(five) = A \cup A \cup A \cup K
  BY <1>2, <1>3, Made
<1> QED BY <1>2, <1>4

\* Kickers by themselves.
LEMMA NothingFirst ==
    ASSUME NEW there, IsFiniteSet(there), there \subseteq Int,
           NEW first, first = <<>>, NEW n, n = 5, NEW o \in Kickers(first, n, there)
    PROVE  \E K \in SUBSET there : Cardinality(K) = 5 /\ o = HighestFirst(K)
<1>2. PICK K : K \subseteq there \ Range(first) /\ Cardinality(K) = n /\ o = first \o HighestFirst(K)
  <2>1. n \in Nat /\ o \in Kickers(first, n, there)
    OBVIOUS
  <2>2. PICK T : T = there \ Range(first)
    OBVIOUS
  <2>3. IsFiniteSet(T) /\ T \subseteq Int
    BY <2>2, FS_Subset
  <2>4. \E K : K \subseteq T /\ Cardinality(K) = n /\ o = first \o HighestFirst(K)
    BY ONLY <2>1, <2>2, <2>3, KickersAre
  <2> QED BY <2>2, <2>4
<1>3. K \subseteq there /\ HighestFirst(K) \in Seq(Int)
  BY <1>2, FS_Subset, Placed
<1>4. first \o HighestFirst(K) = HighestFirst(K)
  BY <1>3
<1> QED BY <1>2, <1>3, <1>4

\* What evaluateFive returns.
LEMMA EvaluatedIs ==
    ASSUME NEW rs, NEW five
    PROVE  /\ evaluateFive(rs, five).class = Class(rs, five)
           /\ Class(rs, five) \notin {"straight_flush", "straight"} =>
                  evaluateFive(rs, five) = [class |-> Class(rs, five), ranks |-> rankGroups(five)]
           /\ Class(rs, five) \in {"straight_flush", "straight"} =>
                  evaluateFive(rs, five) = [class |-> Class(rs, five), ranks |-> <<straightHigh(rs, five)>>]
BY DEF evaluateFive

\* A straight that is there has five ranks, all of them there.
LEMMA StraightRanks ==
    ASSUME NEW rs \in RuleSets, NEW there, there \subseteq rs.ranks, NEW o \in Straights(rs, there)
    PROVE  \E high \in there : o = <<high>> /\ Run(rs, high) \subseteq there /\ Cardinality(Run(rs, high)) = 5
<1>1. PICK high \in there : o = <<high>> /\ Run(rs, high) \subseteq there
  BY DEF Straights, Run
<1>2. high \in Int
  BY WheelIs
<1>3. Cardinality(Run(rs, high)) = 5
  <2>1. CASE high = rs.wheel[2]
    BY <2>1, WheelIs DEF Run
  <2>2. CASE high # rs.wheel[2]
    <3>1. Run(rs, high) = high - 4..high
      BY <2>2 DEF Run
    <3>2. PICK low : low = high - 4
      OBVIOUS
    <3>3. low \in Int /\ low <= high /\ (high - low) + 1 = 5
      BY <1>2, <3>2
    <3>4. Cardinality(low..high) = (high - low) + 1
      BY ONLY <1>2, <3>3, FS_Interval
    <3> QED BY <3>1, <3>2, <3>3, <3>4
  <2> QED BY <2>1, <2>2
<1> QED BY <1>1, <1>3

\* A straight flush is made of the cards of its suit.
LEMMA MakesStraightFlush ==
    ASSUME NEW rs \in RuleSets, NEW hand, OfDeck(rs, hand), NEW o \in Offers(rs, hand, "straight_flush")
    PROVE  Makes(rs, hand, "straight_flush", o)
<1>1. PICK suit \in Suits : o \in Straights(rs, Suited(hand, suit))
  BY OffersAre
<1>2. Suited(hand, suit) \subseteq rs.ranks
  BY DEF OfDeck, Suited
<1>3. PICK high \in Suited(hand, suit) :
          o = <<high>> /\ Run(rs, high) \subseteq Suited(hand, suit) /\ Cardinality(Run(rs, high)) = 5
  BY <1>1, <1>2, StraightRanks
<1>4. PICK five \in kSubset(5, hand) : Flushed(five) /\ Ranks(five) = Run(rs, high)
  BY <1>3, MadeOfSuit
<1>5. OfDeck(rs, five) /\ Cardinality(five) = 5
  BY PartOf DEF kSubset
<1>6. straightHigh(rs, five) = high /\ high > 0
  BY <1>2, <1>3, <1>4, <1>5, StraightFrom
<1>7. Class(rs, five) = "straight_flush"
  BY <1>4, <1>5, <1>6, OnlySingles, ClassIs
<1>8. evaluateFive(rs, five) = [class |-> "straight_flush", ranks |-> o]
  BY <1>3, <1>6, <1>7, EvaluatedIs
<1> QED BY <1>8 DEF Makes

\* A straight is made of a card of each of its ranks, perhaps all of one suit.
LEMMA MakesStraight ==
    ASSUME NEW rs \in RuleSets, NEW hand, OfDeck(rs, hand), NEW o \in Offers(rs, hand, "straight")
    PROVE  Makes(rs, hand, "straight", o)
<1>1. Cards(hand) /\ Ranks(hand) \subseteq rs.ranks /\ o \in Straights(rs, Ranks(hand))
  BY FourSuits, OffersAre
<1>2. PICK high \in Ranks(hand) :
          o = <<high>> /\ Run(rs, high) \subseteq Ranks(hand) /\ Cardinality(Run(rs, high)) = 5
  BY <1>1, StraightRanks
<1>3. PICK five \in kSubset(5, hand) : Ranks(five) = Run(rs, high)
  BY <1>1, <1>2, SinglesMade
<1>4. OfDeck(rs, five) /\ Cardinality(five) = 5 /\ Ranks(five) = Run(rs, high)
  BY <1>3, PartOf DEF kSubset
<1>5. straightHigh(rs, five) = high /\ high > 0
  BY <1>1, <1>2, <1>4, StraightFrom
<1>6. Class(rs, five) = IF Flushed(five) THEN "straight_flush" ELSE "straight"
  BY <1>4, <1>5, OnlySingles, ClassIs
<1>7. Class(rs, five) = "straight" => evaluateFive(rs, five) = [class |-> "straight", ranks |-> o]
  BY <1>2, <1>5, EvaluatedIs
<1> QED BY <1>6, <1>7 DEF Makes, Stronger

\* A flush is made of the highest cards of its suit, perhaps a straight.
LEMMA MakesFlush ==
    ASSUME NEW rs \in RuleSets, NEW hand, OfDeck(rs, hand), NEW o \in Offers(rs, hand, "flush")
    PROVE  Makes(rs, hand, "flush", o)
<1>1. PICK suit \in Suits : o \in Kickers(<<>>, 5, Suited(hand, suit))
  BY OffersAre
<1>2. IsFiniteSet(Suited(hand, suit)) /\ Suited(hand, suit) \subseteq Int
  <2>1. Suited(hand, suit) \subseteq Ranks(hand)
    BY DEF Suited, Ranks
  <2> QED BY <2>1, FourSuits, RanksAre, FS_Subset
<1>3. PICK K \in SUBSET Suited(hand, suit) : Cardinality(K) = 5 /\ o = HighestFirst(K)
  <2>1. PICK first, n : first = <<>> /\ n = 5
    OBVIOUS
  <2>2. o \in Kickers(first, n, Suited(hand, suit))
    BY <1>1, <2>1
  <2> QED BY <1>2, <2>1, <2>2, NothingFirst
<1>4. PICK five \in kSubset(5, hand) : Flushed(five) /\ Ranks(five) = K
  BY <1>3, MadeOfSuit
<1>5. OfDeck(rs, five) /\ Cardinality(five) = 5
  BY PartOf DEF kSubset
<1>6. Shape(five, 0, 0, 0, 5) /\ OfCount(five, 1) = K
  BY <1>3, <1>4, <1>5, FiveRanks
<1>7. rankGroups(five) = o
  BY <1>3, <1>5, <1>6, GroupsByShape
<1>8. Class(rs, five) \in {"straight_flush", "flush"}
  BY <1>4, <1>5, <1>6, ClassIs
<1>9. Class(rs, five) = "flush" => evaluateFive(rs, five) = [class |-> "flush", ranks |-> o]
  BY <1>7, EvaluatedIs
<1> QED BY <1>8, <1>9 DEF Makes, Stronger

\* The highest ranks by themselves, perhaps more than high cards.
LEMMA MakesHighCard ==
    ASSUME NEW rs \in RuleSets, NEW hand, OfDeck(rs, hand), NEW o \in Offers(rs, hand, "high_card")
    PROVE  Makes(rs, hand, "high_card", o)
<1>1. /\ Cards(hand) /\ IsFiniteSet(Ranks(hand)) /\ Ranks(hand) \subseteq Int
      /\ o \in Kickers(<<>>, 5, Ranks(hand))
  BY FourSuits, RanksAre, OffersAre
<1>2. PICK K \in SUBSET Ranks(hand) : Cardinality(K) = 5 /\ o = HighestFirst(K)
  <2>1. PICK first, n : first = <<>> /\ n = 5
    OBVIOUS
  <2>2. o \in Kickers(first, n, Ranks(hand))
    BY <1>1, <2>1
  <2> QED BY <1>1, <2>1, <2>2, NothingFirst
<1>3. PICK five \in kSubset(5, hand) : Ranks(five) = K
  BY <1>1, <1>2, SinglesMade
<1>4. OfDeck(rs, five) /\ Cardinality(five) = 5 /\ Ranks(five) = K
  BY <1>3, PartOf DEF kSubset
<1>5. Shape(five, 0, 0, 0, 5) /\ OfCount(five, 1) = K
  BY <1>2, <1>4, FiveRanks
<1>6. rankGroups(five) = o
  BY <1>2, <1>4, <1>5, GroupsByShape
<1>7. Class(rs, five) \in {"straight_flush", "flush", "straight", "high_card"}
  BY <1>4, <1>5, ClassIs
<1>8. Class(rs, five) = "high_card" => evaluateFive(rs, five) = [class |-> "high_card", ranks |-> o]
  BY <1>6, EvaluatedIs
<1> QED BY <1>7, <1>8 DEF Makes, Stronger

\* One rank several times and the kickers.
LEMMA MakesOfOne ==
    ASSUME NEW rs \in RuleSets, NEW hand, OfDeck(rs, hand),
           NEW n \in 2..4, NEW a \in AtLeast(hand, n), NEW k \in Nat, n + k = 5,
           NEW o \in Kickers(<<a>>, k, Ranks(hand)),
           NEW class, class = IF n = 4 THEN "four_of_a_kind" ELSE IF n = 3 THEN "three_of_a_kind" ELSE "one_pair"
    PROVE  Makes(rs, hand, class, o)
<1>1. Cards(hand) /\ IsFiniteSet(Ranks(hand)) /\ Ranks(hand) \subseteq Int /\ a \in Ranks(hand)
  BY FourSuits, RanksAre DEF AtLeast
<1>2. PICK first : first = <<a>>
  OBVIOUS
<1>3. Range(first) = {a}
  BY <1>2 DEF Range
<1>4. PICK K : K \subseteq Ranks(hand) \ Range(first) /\ Cardinality(K) = k /\ o = first \o HighestFirst(K)
  <2>1. o \in Kickers(first, k, Ranks(hand))
    BY <1>2
  <2>2. PICK T : T = Ranks(hand) \ Range(first)
    OBVIOUS
  <2>3. IsFiniteSet(T) /\ T \subseteq Int
    BY <1>1, <2>2, FS_Subset
  <2>4. \E K : K \subseteq T /\ Cardinality(K) = k /\ o = first \o HighestFirst(K)
    BY ONLY <2>1, <2>2, <2>3, KickersAre
  <2> QED BY <2>2, <2>4
<1>5. PICK A, B, C : /\ A = IF n = 4 THEN {a} ELSE {}
                     /\ B = IF n = 3 THEN {a} ELSE {}
                     /\ C = IF n = 2 THEN {a} ELSE {}
  OBVIOUS
<1>6. /\ A \subseteq AtLeast(hand, 4) /\ B \subseteq AtLeast(hand, 3) /\ C \subseteq AtLeast(hand, 2)
      /\ K \subseteq Ranks(hand)
      /\ A \cap B = {} /\ A \cap C = {} /\ A \cap K = {} /\ B \cap C = {} /\ B \cap K = {} /\ C \cap K = {}
  BY <1>3, <1>4, <1>5
<1>7. /\ Cardinality(A) = IF n = 4 THEN 1 ELSE 0
      /\ Cardinality(B) = IF n = 3 THEN 1 ELSE 0
      /\ Cardinality(C) = IF n = 2 THEN 1 ELSE 0
  BY <1>5, FS_EmptySet, FS_Singleton
<1>8. 4 * Cardinality(A) + 3 * Cardinality(B) + 2 * Cardinality(C) + Cardinality(K) = 5
  BY <1>4, <1>7
<1>9. PICK five \in kSubset(5, hand) : /\ OfCount(five, 4) = A /\ OfCount(five, 3) = B
                                       /\ OfCount(five, 2) = C /\ OfCount(five, 1) = K
  BY <1>1, <1>6, <1>8, Made
<1>10. OfDeck(rs, five) /\ Cardinality(five) = 5
  BY PartOf DEF kSubset
<1>11. Shape(five, Cardinality(A), Cardinality(B), Cardinality(C), k)
  BY <1>4, <1>9 DEF Shape
<1>12. rankGroups(five) = o /\ Class(rs, five) = class
  <2>1. CASE n = 4
    <3>1. Shape(five, 1, 0, 0, 1) /\ A = {a}
      <4>1. k = 1
        BY <2>1
      <4> QED BY <1>5, <1>7, <1>11, <2>1, <4>1
    <3>2. rankGroups(five) = o
      BY <1>2, <1>4, <1>9, <1>10, <3>1, GroupsByShape
    <3> QED BY <1>10, <2>1, <3>1, <3>2, ClassIs
  <2>2. CASE n = 3
    <3>1. Shape(five, 0, 1, 0, 2) /\ B = {a}
      <4>1. k = 2
        BY <2>2
      <4> QED BY <1>5, <1>7, <1>11, <2>2, <4>1
    <3>2. rankGroups(five) = o
      BY <1>2, <1>4, <1>9, <1>10, <3>1, GroupsByShape
    <3> QED BY <1>10, <2>2, <3>1, <3>2, ClassIs
  <2>3. CASE n = 2
    <3>1. Shape(five, 0, 0, 1, 3) /\ C = {a}
      <4>1. k = 3
        BY <2>3
      <4> QED BY <1>5, <1>7, <1>11, <2>3, <4>1
    <3>2. rankGroups(five) = o
      BY <1>2, <1>4, <1>9, <1>10, <3>1, GroupsByShape
    <3> QED BY <1>10, <2>3, <3>1, <3>2, ClassIs
  <2> QED BY <2>1, <2>2, <2>3
<1>13. class \notin {"straight_flush", "straight"}
  OBVIOUS
<1> QED BY <1>12, <1>13, EvaluatedIs DEF Makes

\* Three cards of one rank and two of another.
LEMMA MakesFullHouse ==
    ASSUME NEW rs \in RuleSets, NEW hand, OfDeck(rs, hand), NEW o \in Offers(rs, hand, "full_house")
    PROVE  Makes(rs, hand, "full_house", o)
<1>1. PICK a \in AtLeast(hand, 3), b \in AtLeast(hand, 2) : o = <<a, b>> /\ a # b
  BY OffersAre
<1>2. Cards(hand)
  BY FourSuits
<1>3. PICK five \in kSubset(5, hand) :
          /\ OfCount(five, 4) = {} /\ OfCount(five, 3) = {a}
          /\ OfCount(five, 2) = {b} /\ OfCount(five, 1) = {}
  <2>1. 4 * Cardinality({}) + 3 * Cardinality({a}) + 2 * Cardinality({b}) + Cardinality({}) = 5
    <3>1. Cardinality({}) = 0 /\ Cardinality({a}) = 1 /\ Cardinality({b}) = 1
      BY FS_EmptySet, FS_Singleton
    <3> QED BY <3>1
  <2> QED BY <1>1, <1>2, <2>1, Made
<1>4. OfDeck(rs, five) /\ Cardinality(five) = 5
  BY PartOf DEF kSubset
<1>5. Shape(five, 0, 1, 1, 0)
  BY <1>3, FS_EmptySet, FS_Singleton DEF Shape
<1>6. rankGroups(five) = o
  BY <1>1, <1>3, <1>4, <1>5, GroupsByShape
<1>7. Class(rs, five) = "full_house"
  BY <1>4, <1>5, ClassIs
<1> QED BY <1>6, <1>7, EvaluatedIs DEF Makes

\* Two cards of each of two ranks, and one more.
LEMMA MakesTwoPair ==
    ASSUME NEW rs \in RuleSets, NEW hand, OfDeck(rs, hand), NEW o \in Offers(rs, hand, "two_pair")
    PROVE  Makes(rs, hand, "two_pair", o)
<1>1. PICK pair \in AtLeast(hand, 2) \X AtLeast(hand, 2) :
          pair[1] > pair[2] /\ o \in Kickers(pair, 1, Ranks(hand))
  BY OffersAre
<1>2. PICK p, q : p = pair[1] /\ q = pair[2]
  OBVIOUS
<1>3. Cards(hand) /\ IsFiniteSet(Ranks(hand)) /\ Ranks(hand) \subseteq Int
  BY FourSuits, RanksAre
<1>4. /\ pair = <<p, q>> /\ p \in AtLeast(hand, 2) /\ q \in AtLeast(hand, 2)
      /\ p \in Int /\ q \in Int /\ p > q /\ Range(pair) = {p, q}
  <2>1. pair = <<p, q>> /\ p \in AtLeast(hand, 2) /\ q \in AtLeast(hand, 2) /\ p > q
    BY <1>1, <1>2
  <2>2. p \in Int /\ q \in Int
    BY <1>3, <2>1 DEF AtLeast
  <2>3. Range(<<p, q>>) = {p, q}
    BY DEF Range
  <2> QED BY <2>1, <2>2, <2>3
<1>5. PICK K : K \subseteq Ranks(hand) \ {p, q} /\ Cardinality(K) = 1 /\ o = <<p, q>> \o HighestFirst(K)
  <2>1. PICK K : K \subseteq Ranks(hand) \ Range(pair) /\ Cardinality(K) = 1 /\ o = pair \o HighestFirst(K)
    <3>1. 1 \in Nat /\ o \in Kickers(pair, 1, Ranks(hand))
      BY <1>1
    <3>2. PICK T : T = Ranks(hand) \ Range(pair)
      OBVIOUS
    <3>3. IsFiniteSet(T) /\ T \subseteq Int
      BY <1>3, <3>2, FS_Subset
    <3>4. \E K : K \subseteq T /\ Cardinality(K) = 1 /\ o = pair \o HighestFirst(K)
      BY ONLY <3>1, <3>2, <3>3, KickersAre
    <3> QED BY <3>2, <3>4
  <2> QED BY <1>4, <2>1
<1>6. Cardinality({p, q}) = 2 /\ Cardinality({}) = 0
  <2>1. IsFiniteSet({p}) /\ Cardinality({p}) = 1
    BY FS_Singleton
  <2>2. {p, q} = {p} \cup {q} /\ q \notin {p}
    BY <1>4
  <2>3. PICK P : P = {p}
    OBVIOUS
  <2>4. Cardinality(P \cup {q}) = 1 + 1
    BY <2>1, <2>2, <2>3, FS_AddElement
  <2> QED BY <2>2, <2>3, <2>4, FS_EmptySet
<1>7. PICK five \in kSubset(5, hand) :
          /\ OfCount(five, 4) = {} /\ OfCount(five, 3) = {}
          /\ OfCount(five, 2) = {p, q} /\ OfCount(five, 1) = K
  <2>1. PICK A, C : A = {} /\ C = {p, q}
    OBVIOUS
  <2>2. 4 * Cardinality(A) + 3 * Cardinality(A) + 2 * Cardinality(C) + Cardinality(K) = 5
    BY <1>5, <1>6, <2>1
  <2>3. /\ A \subseteq AtLeast(hand, 4) /\ A \subseteq AtLeast(hand, 3) /\ C \subseteq AtLeast(hand, 2)
        /\ K \subseteq Ranks(hand)
        /\ A \cap A = {} /\ A \cap C = {} /\ A \cap K = {} /\ C \cap K = {}
    BY <1>4, <1>5, <2>1
  <2>4. PICK five \in kSubset(5, hand) : /\ OfCount(five, 4) = A /\ OfCount(five, 3) = A
                                         /\ OfCount(five, 2) = C /\ OfCount(five, 1) = K
    BY <1>3, <2>2, <2>3, Made
  <2> QED BY <2>1, <2>4
<1>8. OfDeck(rs, five) /\ Cardinality(five) = 5
  BY PartOf DEF kSubset
<1>9. Shape(five, 0, 0, 2, 1)
  BY <1>5, <1>6, <1>7 DEF Shape
<1>10. rankGroups(five) = o
  <2>1. PICK a, b \in {p, q} : b < a /\ rankGroups(five) = <<a, b>> \o HighestFirst(K)
    BY <1>7, <1>8, <1>9, GroupsByShape
  <2>2. a = p /\ b = q
    BY <1>4, <2>1
  <2> QED BY <1>5, <2>1, <2>2
<1>11. Class(rs, five) = "two_pair"
  BY <1>8, <1>9, ClassIs
<1> QED BY <1>10, <1>11, EvaluatedIs DEF Makes

\* Every offer is made by five of the cards, or they make a stronger class.
LEMMA OffersMade ==
    ASSUME NEW rs \in RuleSets, NEW hand, OfDeck(rs, hand), NEW class \in Classes,
           NEW o \in Offers(rs, hand, class)
    PROVE  Makes(rs, hand, class, o)
<1>1. class = "four_of_a_kind" => Makes(rs, hand, class, o)
  <2>1. SUFFICES ASSUME class = "four_of_a_kind" PROVE Makes(rs, hand, class, o)
    OBVIOUS
  <2>2. PICK a \in AtLeast(hand, 4) : o \in Kickers(<<a>>, 1, Ranks(hand))
    <3>1. o \in Offers(rs, hand, "four_of_a_kind")
      BY <2>1
    <3>2. o \in UNION {Kickers(<<r>>, 1, Ranks(hand)) : r \in AtLeast(hand, 4)}
      BY <3>1, OffersAre
    <3> QED BY <3>2
  <2>3. 4 + 1 = 5 /\ 1 \in Nat /\ 4 \in 2..4
    OBVIOUS
  <2> QED BY <2>1, <2>2, <2>3, MakesOfOne
<1>2. class = "three_of_a_kind" => Makes(rs, hand, class, o)
  <2>1. SUFFICES ASSUME class = "three_of_a_kind" PROVE Makes(rs, hand, class, o)
    OBVIOUS
  <2>2. PICK a \in AtLeast(hand, 3) : o \in Kickers(<<a>>, 2, Ranks(hand))
    <3>1. o \in Offers(rs, hand, "three_of_a_kind")
      BY <2>1
    <3>2. o \in UNION {Kickers(<<r>>, 2, Ranks(hand)) : r \in AtLeast(hand, 3)}
      BY <3>1, OffersAre
    <3> QED BY <3>2
  <2>3. 3 + 2 = 5 /\ 2 \in Nat /\ 3 \in 2..4
    OBVIOUS
  <2> QED BY <2>1, <2>2, <2>3, MakesOfOne
<1>3. class = "one_pair" => Makes(rs, hand, class, o)
  <2>1. SUFFICES ASSUME class = "one_pair" PROVE Makes(rs, hand, class, o)
    OBVIOUS
  <2>2. PICK a \in AtLeast(hand, 2) : o \in Kickers(<<a>>, 3, Ranks(hand))
    <3>1. o \in Offers(rs, hand, "one_pair")
      BY <2>1
    <3>2. o \in UNION {Kickers(<<r>>, 3, Ranks(hand)) : r \in AtLeast(hand, 2)}
      BY <3>1, OffersAre
    <3> QED BY <3>2
  <2>3. 2 + 3 = 5 /\ 3 \in Nat /\ 2 \in 2..4
    OBVIOUS
  <2> QED BY <2>1, <2>2, <2>3, MakesOfOne
<1> QED BY <1>1, <1>2, <1>3, MakesStraightFlush, MakesFullHouse, MakesFlush, MakesStraight,
           MakesTwoPair, MakesHighCard DEF Classes

-----------------------------------------------------------------------------
(* The strongest class.                                                    *)

\* The stronger classes score higher in both rule sets.
LEMMA StrongerScore ==
    ASSUME NEW rs \in RuleSets, NEW class \in Classes, NEW other \in Stronger(class)
    PROVE  other \in Classes /\ classScore(rs, other) > classScore(rs, class)
<1>1. /\ rs.ranking[1] = "straight_flush" /\ rs.ranking[5] = "straight" /\ rs.ranking[9] = "high_card"
      /\ \E i \in 3..4 : rs.ranking[i] = "flush"
  <2>1. PICK id \in {"long", "short"} : rs = ruleSets[id]
    BY DEF RuleSets, ruleSets
  <2>2. CASE id = "long"
    <3>1. rs.ranking = LongRanking
      BY <2>1, <2>2 DEF ruleSets
    <3>2. /\ LongRanking[1] = "straight_flush" /\ LongRanking[5] = "straight"
          /\ LongRanking[9] = "high_card" /\ LongRanking[4] = "flush"
      BY DEF LongRanking
    <3>3. 4 \in 3..4
      OBVIOUS
    <3> QED BY <3>1, <3>2, <3>3
  <2>3. CASE id = "short"
    <3>1. rs.ranking = <<"straight_flush", "four_of_a_kind", "flush", "full_house", "straight",
                         "three_of_a_kind", "two_pair", "one_pair", "high_card">>
      BY <2>1, <2>3 DEF ruleSets, LongRanking
    <3>2. /\ rs.ranking[1] = "straight_flush" /\ rs.ranking[5] = "straight"
          /\ rs.ranking[9] = "high_card" /\ rs.ranking[3] = "flush"
      BY <3>1
    <3>3. 3 \in 3..4
      OBVIOUS
    <3> QED BY <3>2, <3>3
  <2> QED BY <2>1, <2>2, <2>3
<1>2. PICK place \in 3..4 : rs.ranking[place] = "flush"
  BY <1>1
<1>3. /\ classScore(rs, "straight_flush") = 9 /\ classScore(rs, "straight") = 5
      /\ classScore(rs, "high_card") = 1 /\ classScore(rs, "flush") \in 6..7
  <2>1. /\ classScore(rs, rs.ranking[1]) = 10 - 1 /\ classScore(rs, rs.ranking[5]) = 10 - 5
        /\ classScore(rs, rs.ranking[9]) = 10 - 9 /\ classScore(rs, rs.ranking[place]) = 10 - place
    <3>1. 1 \in 1..9 /\ 5 \in 1..9 /\ 9 \in 1..9 /\ place \in 1..9
      OBVIOUS
    <3> QED BY <3>1, ScoreOf
  <2> QED BY <1>1, <1>2, <2>1
<1> QED BY <1>3 DEF Stronger, Classes

\* The strongest class that is offered is first in the ranking.
LEMMA StrongestIs ==
    ASSUME NEW rs \in RuleSets, NEW hand, NEW some \in Classes, Offers(rs, hand, some) # {},
           NEW first, first = Min({i \in DOMAIN rs.ranking : Offers(rs, hand, rs.ranking[i]) # {}}),
           NEW class, class = rs.ranking[first]
    PROVE  /\ class \in Classes /\ Offers(rs, hand, class) # {}
           /\ \A other \in Classes :
                  Offers(rs, hand, other) # {} => classScore(rs, other) <= classScore(rs, class)
<1>1. /\ DOMAIN rs.ranking = 1..9
      /\ \A c \in Classes : \E i \in 1..9 : rs.ranking[i] = c
      /\ \A i \in 1..9 : rs.ranking[i] \in Classes
  <2>1. PICK id \in {"long", "short"} : rs = ruleSets[id]
    BY DEF RuleSets, ruleSets
  <2>2. CASE id = "long"
    <3>1. rs.ranking = LongRanking
      BY <2>1, <2>2 DEF ruleSets
    <3>2. DOMAIN LongRanking = 1..9 /\ \A i \in 1..9 : LongRanking[i] \in Classes
      BY DEF LongRanking, Classes
    <3> QED BY <3>1, <3>2, ClassesRanked
  <2>3. CASE id = "short"
    <3>1. rs.ranking = <<"straight_flush", "four_of_a_kind", "flush", "full_house", "straight",
                         "three_of_a_kind", "two_pair", "one_pair", "high_card">>
      BY <2>1, <2>3 DEF ruleSets, LongRanking
    <3>2. DOMAIN rs.ranking = 1..9 /\ \A i \in 1..9 : rs.ranking[i] \in Classes
      BY <3>1 DEF Classes
    <3> QED BY <3>2, ClassesRanked
  <2> QED BY <2>1, <2>2, <2>3
<1>2. PICK T : T = {i \in DOMAIN rs.ranking : Offers(rs, hand, rs.ranking[i]) # {}}
  OBVIOUS
<1>3. T \subseteq 1..9 /\ T # {}
  BY <1>1, <1>2
<1>4. first \in T /\ \A i \in T : first <= i
  <2>1. T \subseteq Nat /\ first = Min(T)
    BY <1>2, <1>3
  <2> QED BY ONLY <1>3, <2>1, MinIs
<1>5. class \in Classes /\ Offers(rs, hand, class) # {} /\ first \in 1..9
  BY <1>1, <1>2, <1>4
<1>6. ASSUME NEW other \in Classes, Offers(rs, hand, other) # {}
      PROVE  classScore(rs, other) <= classScore(rs, class)
  <2>1. PICK i \in 1..9 : rs.ranking[i] = other
    BY <1>1
  <2>2. first <= i
    BY <1>1, <1>2, <1>4, <1>6, <2>1
  <2>3. classScore(rs, other) = 10 - i /\ classScore(rs, class) = 10 - first
    BY <1>5, <2>1, ScoreOf
  <2> QED BY <1>5, <2>2, <2>3
<1> QED BY <1>5, <1>6

-----------------------------------------------------------------------------
(* The theorems.                                                           *)

\* Any five cards or more have one best hand, which wins from all their other
\* hands: it does not depend on the order in which Evaluate meets them.
THEOREM OneBestHand ==
    ASSUME NEW rs \in RuleSets, NEW hand, Cards(hand), Cardinality(hand) >= 5
    PROVE  /\ Evaluate(rs, hand) \in Hands(rs, hand)
           /\ \A h \in Hands(rs, hand) \ {Evaluate(rs, hand)} : Compare(rs, h, Evaluate(rs, hand)) < 0
<1>1. Hands(rs, hand) # {}
  BY HoldsSome DEF Cards, Hands
<1>2. PICK H : H = Hands(rs, hand)
  OBVIOUS
<1>3. IsFiniteSet(H) /\ H \subseteq Ranked /\ H # {} /\ Evaluate(rs, hand) = Highest(rs, H)
  BY <1>1, <1>2, HandsAre DEF Evaluate
<1>4. /\ Highest(rs, H) \in H
      /\ \A h \in H : Compare(rs, h, Highest(rs, H)) <= 0
      /\ \A h \in H : Compare(rs, h, Highest(rs, H)) = 0 => h = Highest(rs, H)
  BY <1>3, HighestIs
<1>5. \A h \in H : Compare(rs, h, Highest(rs, H)) \in Int
  BY <1>3, <1>4, CompareOrders
<1>6. \A h \in H \ {Highest(rs, H)} : Compare(rs, h, Highest(rs, H)) < 0
  BY <1>4, <1>5
<1> QED BY <1>2, <1>3, <1>4, <1>6

\* The best five cards are what all the cards are worth, whatever the cards of
\* either rule set: Evaluate finds the strongest class there is, with its
\* highest ranks.
THEOREM EvaluateIsWorth ==
    ASSUME NEW rs \in RuleSets, NEW hand, OfDeck(rs, hand), Cardinality(hand) >= 5
    PROVE  Evaluate(rs, hand) = Worth(rs, hand)
<1>1. Cards(hand)
  BY FourSuits
<1>2. PICK H, e : H = Hands(rs, hand) /\ e = Evaluate(rs, hand)
  OBVIOUS
<1>3. IsFiniteSet(H) /\ H \subseteq Ranked
  BY <1>1, <1>2, HandsAre
<1>4. e \in H /\ e \in Ranked /\ \A h \in H : Compare(rs, h, e) <= 0
  <2>1. e \in H /\ \A h \in H \ {e} : Compare(rs, h, e) < 0
    BY <1>1, <1>2, OneBestHand
  <2>2. e \in Ranked /\ Compare(rs, e, e) = 0
    BY <1>3, <2>1, CompareOrders
  <2>3. ASSUME NEW h \in H PROVE Compare(rs, h, e) <= 0
    <3>1. Compare(rs, h, e) \in Int
      BY <1>3, <2>2, CompareOrders
    <3> QED BY <2>1, <2>2, <3>1
  <2> QED BY <2>1, <2>2, <2>3
<1>5. \A h \in H : \E o \in Offers(rs, hand, h.class) : Difference(h.ranks, o) <= 0
  BY <1>2, OffersAsGood DEF Hands
<1>6. PICK first, class :
          /\ first = Min({i \in DOMAIN rs.ranking : Offers(rs, hand, rs.ranking[i]) # {}})
          /\ class = rs.ranking[first]
  OBVIOUS
<1>7. /\ class \in Classes /\ Offers(rs, hand, class) # {}
      /\ \A other \in Classes :
             Offers(rs, hand, other) # {} => classScore(rs, other) <= classScore(rs, class)
  <2>1. e.class \in Classes /\ Offers(rs, hand, e.class) # {}
    BY <1>4, <1>5 DEF Ranked
  <2> QED BY <1>6, <2>1, StrongestIs
<1>8. PICK W : W = {[class |-> class, ranks |-> ranks] : ranks \in Offers(rs, hand, class)}
  OBVIOUS
<1>9. W \subseteq H
  <2>1. SUFFICES ASSUME NEW o \in Offers(rs, hand, class) PROVE [class |-> class, ranks |-> o] \in H
    BY <1>8
  <2>2. PICK five \in kSubset(5, hand) :
            \/ evaluateFive(rs, five) = [class |-> class, ranks |-> o]
            \/ Class(rs, five) \in Stronger(class)
    BY <1>7, OffersMade DEF Makes
  <2>3. ASSUME Class(rs, five) \in Stronger(class) PROVE FALSE
    <3>1. Offers(rs, hand, Class(rs, five)) # {}
      BY OffersAsGood, EvaluatedIs
    <3>2. Class(rs, five) \in Classes /\ classScore(rs, Class(rs, five)) > classScore(rs, class)
      BY <1>7, <2>3, StrongerScore
    <3>3. classScore(rs, Class(rs, five)) \in Int /\ classScore(rs, class) \in Int
      BY <1>7, <3>2, ScoresDiffer
    <3> QED BY <1>7, <3>1, <3>2, <3>3
  <2> QED BY <1>2, <2>2, <2>3 DEF Hands
<1>10. e.class = class
  <2>1. PICK w \in W : w.class = class
    <3>1. PICK o \in Offers(rs, hand, class) : TRUE
      BY <1>7
    <3>2. [class |-> class, ranks |-> o] \in W
      BY <1>8, <3>1
    <3> QED BY <3>2
  <2>2. w \in H /\ Compare(rs, w, e) <= 0
    BY <1>4, <1>9
  <2>3. e.class \in Classes /\ classScore(rs, e.class) <= classScore(rs, class)
    BY <1>4, <1>5, <1>7 DEF Ranked
  <2>4. classScore(rs, e.class) \in Int /\ classScore(rs, class) \in Int
    BY <1>7, <2>3, ScoresDiffer
  <2>5. SUFFICES ASSUME e.class # class PROVE FALSE
    OBVIOUS
  <2>6. classScore(rs, class) - classScore(rs, e.class) <= 0
    BY <2>1, <2>2, <2>5, CompareIs
  <2>7. classScore(rs, class) = classScore(rs, e.class)
    BY <2>3, <2>4, <2>6
  <2> QED BY <1>7, <2>3, <2>5, <2>7, ScoresDiffer
<1>11. e \in W
  <2>1. PICK o \in Offers(rs, hand, class) : Difference(e.ranks, o) <= 0
    BY <1>4, <1>5, <1>10
  <2>2. PICK w : w = [class |-> class, ranks |-> o]
    OBVIOUS
  <2>3. w \in W /\ w \in H /\ w \in Ranked /\ w.class = class /\ w.ranks = o
    BY <1>3, <1>8, <1>9, <2>2
  <2>4. Compare(rs, e, w) <= 0
    BY <1>10, <2>1, <2>3, CompareIs
  <2>5. Compare(rs, w, e) <= 0
    BY <1>4, <2>3
  <2>6. Compare(rs, w, e) \in Int /\ Compare(rs, e, w) = -Compare(rs, w, e)
    BY <1>4, <2>3, CompareOrders
  <2>7. Compare(rs, w, e) = 0
    BY <2>4, <2>5, <2>6
  <2>8. w = e
    BY <1>4, <2>3, <2>7, CompareOrders
  <2> QED BY <2>3, <2>8
<1>12. Highest(rs, W) = e
  <2>1. IsFiniteSet(W) /\ W \subseteq Ranked /\ W # {}
    BY <1>3, <1>9, <1>11, FS_Subset
  <2>2. PICK w : w = Highest(rs, W)
    OBVIOUS
  <2>3. w \in W /\ Compare(rs, e, w) <= 0
    BY <1>11, <2>1, <2>2, HighestIs
  <2>4. w \in Ranked /\ Compare(rs, w, e) <= 0
    BY <1>4, <1>9, <2>1, <2>3
  <2>5. Compare(rs, w, e) \in Int /\ Compare(rs, e, w) = -Compare(rs, w, e)
    BY <1>4, <2>4, CompareOrders
  <2>6. Compare(rs, w, e) = 0
    BY <2>3, <2>4, <2>5
  <2> QED BY <1>4, <2>2, <2>4, <2>6, CompareOrders
<1>13. Worth(rs, hand) = Highest(rs, W)
  BY <1>6, <1>8 DEF Worth
<1> QED BY <1>2, <1>12, <1>13

\* A card more, as on the next street, never makes the best hand worse.
THEOREM MoreCardsNeverHurt ==
    ASSUME NEW rs \in RuleSets, NEW more, NEW hand, hand \subseteq more,
           Cards(more), Cardinality(hand) >= 5
    PROVE  Compare(rs, Evaluate(rs, hand), Evaluate(rs, more)) <= 0
<1>1. /\ Cards(hand) /\ Cardinality(hand) \in Nat /\ Cardinality(more) \in Nat
      /\ Cardinality(hand) <= Cardinality(more)
  BY FS_Subset, FS_CardinalityType DEF Cards
<1>2. Cardinality(more) >= 5
  BY <1>1
<1>3. Evaluate(rs, hand) \in Hands(rs, hand)
  BY <1>1, OneBestHand
<1>4. Hands(rs, hand) \subseteq Hands(rs, more)
  BY DEF Hands, kSubset
<1>5. CASE Evaluate(rs, hand) = Evaluate(rs, more)
  <2>1. Evaluate(rs, more) \in Ranked
    BY <1>3, <1>4, <1>5, HandsAre
  <2> QED BY <1>5, <2>1, CompareOrders
<1>6. CASE Evaluate(rs, hand) # Evaluate(rs, more)
  <2>1. Compare(rs, Evaluate(rs, hand), Evaluate(rs, more)) < 0
    BY <1>2, <1>3, <1>4, <1>6, OneBestHand
  <2>2. Compare(rs, Evaluate(rs, hand), Evaluate(rs, more)) \in Int
    <3>1. Evaluate(rs, more) \in Hands(rs, more)
      BY <1>2, OneBestHand
    <3>2. Evaluate(rs, hand) \in Ranked /\ Evaluate(rs, more) \in Ranked
      BY <1>3, <1>4, <3>1, HandsAre
    <3> QED BY <3>2, CompareOrders
  <2> QED BY <2>1, <2>2
<1> QED BY <1>5, <1>6

\* The cards that are dealt are finitely many of the deck of the rule set.
Dealt == ruleSets[ruleSet] \in RuleSets /\ OfDeck(ruleSets[ruleSet], cards)

\* Each card dealt is one of that deck.
LEMMA DealKeeps == Dealt /\ [Deal]_vars => Dealt'
<1> SUFFICES ASSUME Dealt, [Deal]_vars PROVE Dealt'
  OBVIOUS
<1>1. CASE Deal
  <2>1. PICK card \in Deck(ruleSet) : cards' = cards \cup {card} /\ ruleSet' = ruleSet
    BY <1>1 DEF Deal
  <2>2. card \in [rank : ruleSets[ruleSet].ranks, suit : Suits]
    BY DEF Deck
  <2> QED BY <2>1, <2>2, FS_AddElement DEF Dealt, OfDeck
<1>2. CASE UNCHANGED vars
  BY <1>2 DEF Dealt, OfDeck, vars
<1> QED BY <1>1, <1>2

\* The first card is dealt to a deck of a rule set.
LEMMA DealtFirst == Init => Dealt
<1> SUFFICES ASSUME Init PROVE Dealt
  OBVIOUS
<1>1. ruleSet \in DOMAIN ruleSets /\ cards = {}
  BY InPlayAssumption DEF Init
<1> QED BY <1>1, FS_EmptySet DEF Dealt, OfDeck, RuleSets

\* Whatever cards are dealt, hands tie only when they are equal, and of two
\* others the same one wins whichever is compared with which (Compare), for
\* every deck and both rule sets.
THEOREM HandsStayOrdered == Spec => []HandsAreOrdered
<1>1. Dealt => HandsAreOrdered
  <2> SUFFICES ASSUME Dealt PROVE HandsAreOrdered
    OBVIOUS
  <2>1. Hands(ruleSets[ruleSet], cards) \subseteq Ranked
    BY FourSuits, HandsAre DEF Dealt
  <2> QED BY <2>1, CompareOrders DEF Dealt, HandsAreOrdered
<1> QED BY <1>1, DealtFirst, DealKeeps, PTL DEF Spec

\* Whatever cards are dealt, the best five of them are what all of them are
\* worth (Evaluate), for every deck of up to four suits and both rule sets.
THEOREM BestStaysWorth == Spec => []BestIsWorth
<1>1. Dealt => BestIsWorth
  BY EvaluateIsWorth DEF Dealt, BestIsWorth
<1> QED BY <1>1, DealtFirst, DealKeeps, PTL DEF Spec
=============================================================================
