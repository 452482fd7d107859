----------------------------- MODULE HandProofs -----------------------------
(***************************************************************************)
(* Proofs about Pots and Hand.  The side pots hold the chips that were put *)
(* in, a pot that is split is paid out to the chip, and a seat takes from  *)
(* the pots at most what it put in from each seat.  On that rest the type  *)
(* invariant of a hand, the conservation of the chips until the            *)
(* settlement, the equality of the stakes, the settlement, and the         *)
(* contract with the room, for any number of seats, stacks, betting        *)
(* structures, requested amounts and hand strengths; and that a hand       *)
(* between equal stacks never sticks and moves towards its settlement.     *)
(***************************************************************************)
EXTENDS HandTurns, SumProofs

-----------------------------------------------------------------------------
(* Levels                                                                  *)

\* There are finitely many levels, and the one below a level is a level or 0,
\* with no other between.
LEMMA LevelsFinite ==
    ASSUME NEW S, IsFiniteSet(S), NEW c \in [S -> Nat]
    PROVE  /\ IsFiniteSet(Levels(c))
           /\ Levels(c) \subseteq Nat \ {0}
           /\ \A s \in S : c[s] \in Levels(c) \cup {0}
<1>1. IsFiniteSet({c[s] : s \in S})
  <2>1. PICK T : T = {c[s] : s \in S}
    OBVIOUS
  <2>2. c \in Surjection(S, T)
    BY <2>1 DEF Surjection
  <2> QED BY <2>1, <2>2, FS_Surjection
<1>2. IsFiniteSet({c[s] : s \in S} \ {0})
  BY <1>1, FS_Difference
<1> QED BY <1>2 DEF Levels

\* The level below a level is 0 or a level, is smaller, and has none between.
LEMMA LevelBelowIs ==
    ASSUME NEW S, IsFiniteSet(S), NEW c \in [S -> Nat], NEW x \in Levels(c)
    PROVE  /\ LevelBelow(c, x) \in Levels(c) \cup {0}
           /\ LevelBelow(c, x) < x
           /\ \A y \in Levels(c) : y < x => y <= LevelBelow(c, x)
<1> DEFINE below == {0} \cup {k \in Levels(c) : k < x}
<1>1. IsFiniteSet(Levels(c)) /\ Levels(c) \subseteq Nat \ {0}
  BY LevelsFinite
<1>2. IsFiniteSet(below) /\ below # {} /\ below \subseteq Int
  <2>1. IsFiniteSet({k \in Levels(c) : k < x})
    BY <1>1, FS_Subset
  <2>2. IsFiniteSet({k \in Levels(c) : k < x} \cup {0})
    BY <2>1, FS_AddElement
  <2>3. below = {k \in Levels(c) : k < x} \cup {0}
    OBVIOUS
  <2>4. below # {} /\ below \subseteq Int
    BY <1>1
  <2> HIDE DEF below
  <2> QED BY <2>2, <2>3, <2>4
<1>3. \E k \in below : \A y \in below : y <= k
  <2> HIDE DEF below
  <2> QED BY <1>2, GreatestInteger
<1>4. \E k \in below : \A y \in below : k >= y
  BY <1>1, <1>3
<1>5. LevelBelow(c, x) = CHOOSE k \in below : \A y \in below : k >= y
  BY DEF LevelBelow, Max
<1>6. LevelBelow(c, x) \in below /\ \A y \in below : LevelBelow(c, x) >= y
  BY <1>4, <1>5
<1> QED BY <1>1, <1>6

\* The amounts of the pots, the level of each its index.
PotAmounts(c) == [x \in Levels(c) |-> PotAmount(c, x)]

\* A pot holds a natural number of chips.
LEMMA AmountsNatural ==
    ASSUME NEW S, IsFiniteSet(S), NEW c \in [S -> Nat]
    PROVE  \A x \in Levels(c) : PotAmounts(c)[x] = PotAmount(c, x) /\ PotAmount(c, x) \in Nat
<1> SUFFICES ASSUME NEW x \in Levels(c) PROVE PotAmount(c, x) \in Nat
  BY DEF PotAmounts
<1>1. PICK d : d = x - LevelBelow(c, x)
  OBVIOUS
<1>2. PICK n : n = Cardinality(Participants(c, x))
  OBVIOUS
<1>3. d \in Nat
  BY <1>1, LevelBelowIs, LevelsFinite
<1>4. n \in Nat
  <2>1. IsFiniteSet(Participants(c, x))
    BY FS_Subset DEF Participants
  <2> QED BY <1>2, <2>1, FS_CardinalityType
<1>5. d * n \in Nat
  BY <1>3, <1>4
<1> QED BY <1>1, <1>2, <1>5 DEF PotAmount

-----------------------------------------------------------------------------
(* The pots up to a level hold what every seat put in up to that level.    *)

\* The levels up to x, and what each seat put in up to x.
UpTo(c, x) == {y \in Levels(c) : y <= x}
Capped(c, x) == [s \in DOMAIN c |-> IF c[s] < x THEN c[s] ELSE x]

\* The pots up to a level hold what the seats put in up to it.
LEMMA PotsUpToLevel ==
    ASSUME NEW S, IsFiniteSet(S), NEW c \in [S -> Nat]
    PROVE  \A x \in Levels(c) \cup {0} :
               SumFunctionOnSet(PotAmounts(c), UpTo(c, x)) = SumFunctionOnSet(Capped(c, x), S)
<1> DEFINE Holds(x) == SumFunctionOnSet(PotAmounts(c), UpTo(c, x)) = SumFunctionOnSet(Capped(c, x), S)
           Bad == {x \in Levels(c) \cup {0} : ~ Holds(x)}
<1>1. /\ IsFiniteSet(Levels(c)) /\ Levels(c) \subseteq Nat \ {0}
      /\ \A s \in S : c[s] \in Nat /\ c[s] \in Levels(c) \cup {0}
  BY LevelsFinite
<1>2. SUFFICES ASSUME Bad # {} PROVE FALSE
  OBVIOUS
<1>3. PICK x \in Bad : \A y \in Bad : x <= y
  <2>1. Bad \subseteq Nat
    BY <1>1
  <2> HIDE DEF Bad
  <2> QED BY <1>2, <2>1, LeastNatural
<1>4. \A y : Capped(c, y) = [s \in S |-> IF c[s] < y THEN c[s] ELSE y]
  BY DEF Capped
<1>5. CASE x = 0
  <2>1. UpTo(c, x) = {}
    BY <1>1, <1>5 DEF UpTo
  <2>2. \A s \in S : Capped(c, x)[s] = 0
    BY <1>1, <1>4, <1>5
  <2>3. SumFunctionOnSet(Capped(c, x), S) = SumFunctionOnSet(Capped(c, x), {})
    BY <2>2, SumPart
  <2> QED BY <1>3, <2>1, <2>3, SumEmpty
<1>6. CASE x # 0
  <2>1. x \in Levels(c) /\ x \in Nat
    BY <1>1, <1>6
  <2>2. PICK b : b = LevelBelow(c, x)
    OBVIOUS
  <2>3. /\ b \in Levels(c) \cup {0} /\ b \in Nat /\ b < x
        /\ \A y \in Levels(c) : y < x => y <= b
    BY <1>1, <2>1, <2>2, LevelBelowIs
  <2>4. Holds(b)
    <3>1. b \notin Bad
      BY <1>3, <2>1, <2>3
    <3> QED BY <2>3, <3>1
  <2>5. SumFunctionOnSet(PotAmounts(c), UpTo(c, x))
            = PotAmount(c, x) + SumFunctionOnSet(PotAmounts(c), UpTo(c, b))
    <3>1. IsFiniteSet(UpTo(c, x)) /\ x \in UpTo(c, x) /\ UpTo(c, x) \subseteq Levels(c)
      BY <1>1, <2>1, FS_Subset DEF UpTo
    <3>2. UpTo(c, x) \ {x} = UpTo(c, b)
      BY <1>1, <2>1, <2>3 DEF UpTo
    <3>3. \A y \in UpTo(c, x) : PotAmounts(c)[y] \in Int
      BY <3>1, AmountsNatural
    <3>4. SumFunctionOnSet(PotAmounts(c), UpTo(c, x))
              = PotAmounts(c)[x] + SumFunctionOnSet(PotAmounts(c), UpTo(c, x) \ {x})
      BY <3>1, <3>3, SumRemove
    <3> QED BY <2>1, <3>2, <3>4, AmountsNatural
  <2> DEFINE step == [s \in S |-> IF c[s] >= x THEN x - b ELSE 0]
  <2>6. \A s \in S : /\ Capped(c, b)[s] \in Int /\ step[s] \in Int
                     /\ Capped(c, x)[s] = Capped(c, b)[s] + step[s]
    <3> SUFFICES ASSUME NEW s \in S
                 PROVE  /\ Capped(c, b)[s] \in Int /\ step[s] \in Int
                        /\ Capped(c, x)[s] = Capped(c, b)[s] + step[s]
      OBVIOUS
    <3>1. /\ Capped(c, b)[s] = IF c[s] < b THEN c[s] ELSE b
          /\ Capped(c, x)[s] = IF c[s] < x THEN c[s] ELSE x
      BY <1>4
    <3>2. c[s] < x => c[s] <= b
      BY <1>1, <2>3
    <3> QED BY <1>1, <2>1, <2>3, <3>1, <3>2
  <2>7. SumFunctionOnSet(step, S) = PotAmount(c, x)
    <3>1. PICK P : P = Participants(c, x)
      OBVIOUS
    <3>2. P \subseteq S /\ IsFiniteSet(P) /\ \A s \in S : s \in P <=> c[s] >= x
      BY <3>1, FS_Subset DEF Participants
    <3>3. /\ \A s \in S : step[s] \in Int
          /\ \A s \in S \ P : step[s] = 0
          /\ \A s \in P : step[s] = x - b
      BY <2>1, <2>3, <3>2
    <3> HIDE DEF step
    <3>4. SumFunctionOnSet(step, S) = SumFunctionOnSet(step, P)
      BY <3>2, <3>3, SumPart
    <3>5. SumFunctionOnSet(step, P) = (x - b) * Cardinality(P)
      BY <2>1, <2>3, <3>2, <3>3, SumConstant
    <3> QED BY <2>2, <3>1, <3>4, <3>5 DEF PotAmount
  <2> HIDE DEF step
  <2>8. SumFunctionOnSet(Capped(c, x), S)
            = SumFunctionOnSet(Capped(c, b), S) + SumFunctionOnSet(step, S)
    BY <2>6, SumPlus
  <2>9. PotAmount(c, x) \in Int /\ SumFunctionOnSet(Capped(c, b), S) \in Int
    BY <2>1, <2>6, AmountsNatural, SumType
  <2> QED BY <1>3, <2>4, <2>5, <2>7, <2>8, <2>9
<1> QED BY <1>5, <1>6

\* The pots hold the chips that the seats put in.
LEMMA PotsHoldCommitted ==
    ASSUME NEW S, IsFiniteSet(S), NEW c \in [S -> Nat]
    PROVE  SumFunctionOnSet(PotAmounts(c), Levels(c)) = SumFunctionOnSet(c, S)
<1>1. /\ IsFiniteSet(Levels(c)) /\ Levels(c) \subseteq Nat \ {0}
      /\ \A s \in S : c[s] \in Nat /\ c[s] \in Levels(c) \cup {0}
  BY LevelsFinite
<1>2. PICK x \in Levels(c) \cup {0} : \A y \in Levels(c) \cup {0} : y <= x
  <2>1. IsFiniteSet(Levels(c) \cup {0})
    BY <1>1, FS_AddElement
  <2> QED BY <1>1, <2>1, GreatestInteger
<1>3. UpTo(c, x) = Levels(c)
  BY <1>2 DEF UpTo
<1>4. \A s \in S : Capped(c, x)[s] = c[s] /\ c[s] \in Int
  BY <1>1, <1>2 DEF Capped
<1>5. SumFunctionOnSet(Capped(c, x), S) = SumFunctionOnSet(c, S)
  BY <1>4, SumEqual
<1> QED BY <1>3, <1>5, PotsUpToLevel

-----------------------------------------------------------------------------
(* The order of the winners                                                *)

\* Seats have different positions, counted from the button's left.
LEMMA PositionIs ==
    ASSUME NEW n \in Nat \ {0}, NEW button \in 1..n, NEW s \in 1..n
    PROVE  FromButtonLeft(s, button, n) = IF s > button THEN s - button - 1 ELSE s - button - 1 + n
<1>1. CASE s > button
  <2>1. PICK m : m = s - button - 1
    OBVIOUS
  <2>2. m \in 0..n-1
    BY <1>1, <2>1
  <2>3. m % n = m
    BY <2>2
  <2> QED BY <1>1, <2>1, <2>3 DEF FromButtonLeft
<1>2. CASE ~ (s > button)
  <2>1. PICK m : m = s - button - 1
    OBVIOUS
  <2>2. m + n \in 0..n-1 /\ m \in Int
    BY <1>2, <2>1
  <2>3. m % n = m + n
    BY <2>2
  <2> QED BY <1>2, <2>1, <2>3 DEF FromButtonLeft
<1> QED BY <1>1, <1>2

\* No two seats are at the same distance from the button.
LEMMA PositionsDiffer ==
    ASSUME NEW n \in Nat \ {0}, NEW button \in 1..n
    PROVE  \A s, t \in 1..n :
               /\ FromButtonLeft(s, button, n) \in Nat
               /\ FromButtonLeft(s, button, n) = FromButtonLeft(t, button, n) => s = t
<1> SUFFICES ASSUME NEW s \in 1..n, NEW t \in 1..n
             PROVE  /\ FromButtonLeft(s, button, n) \in Nat
                    /\ FromButtonLeft(s, button, n) = FromButtonLeft(t, button, n) => s = t
  OBVIOUS
<1>1. /\ FromButtonLeft(s, button, n) = IF s > button THEN s - button - 1 ELSE s - button - 1 + n
      /\ FromButtonLeft(t, button, n) = IF t > button THEN t - button - 1 ELSE t - button - 1 + n
  BY PositionIs
<1> QED BY <1>1

\* The winners served before w.
Earlier(W, button, n, w) ==
    {v \in W : FromButtonLeft(v, button, n) < FromButtonLeft(w, button, n)}

\* The first r winners.
FirstWinners(W, button, n, r) == {w \in W : Cardinality(Earlier(W, button, n, w)) < r}

\* There are r winners before whom there are fewer than r.
LEMMA FirstWinnersCount ==
    ASSUME NEW n \in Nat \ {0}, NEW button \in 1..n, NEW W, W \subseteq 1..n
    PROVE  \A r \in 0..Cardinality(W) : Cardinality(FirstWinners(W, button, n, r)) = r
<1> DEFINE pos(w) == FromButtonLeft(w, button, n)
           E(w) == Earlier(W, button, n, w)
           F(r) == FirstWinners(W, button, n, r)
           Bad == {r \in 0..Cardinality(W) : Cardinality(F(r)) # r}
<1>1. IsFiniteSet(W) /\ Cardinality(W) \in Nat
  <2>1. IsFiniteSet(1..n)
    BY FS_Interval
  <2>2. IsFiniteSet(W)
    BY <2>1, FS_Subset
  <2> QED BY <2>2, FS_CardinalityType
<1>2. \A w \in W : E(w) \subseteq W /\ IsFiniteSet(E(w)) /\ Cardinality(E(w)) \in Nat
  BY <1>1, FS_Subset, FS_CardinalityType DEF Earlier
<1>3. \A v, w \in W : pos(v) \in Nat /\ (pos(v) = pos(w) => v = w)
  BY PositionsDiffer
<1>4. \A v, w \in W : v \in E(w) <=> pos(v) < pos(w)
  BY DEF Earlier
<1>5. \A r : F(r) = {w \in W : Cardinality(E(w)) < r}
  BY DEF FirstWinners
<1> HIDE DEF pos, E, F
<1>6. ASSUME NEW v \in W, NEW w \in W, pos(v) < pos(w)
      PROVE  Cardinality(E(v)) < Cardinality(E(w))
  <2>1. v \in E(w) /\ v \notin E(v)
    BY <1>3, <1>4, <1>6
  <2>2. ASSUME NEW u \in E(v) PROVE u \in E(w)
    <3>1. u \in W
      BY <1>2, <2>2
    <3>2. pos(u) < pos(v) /\ pos(u) \in Nat /\ pos(v) \in Nat /\ pos(w) \in Nat
      BY <1>3, <1>4, <2>2, <3>1
    <3> QED BY <1>4, <1>6, <3>1, <3>2
  <2>3. Cardinality(E(v)) <= Cardinality(E(w)) /\ Cardinality(E(v)) # Cardinality(E(w))
    BY <1>2, <2>1, <2>2, FS_Subset
  <2> QED BY <1>2, <2>3
<1>7. SUFFICES ASSUME Bad # {} PROVE FALSE
  BY DEF F
<1>8. PICK r \in Bad : \A k \in Bad : r <= k
  <2>1. Bad \subseteq Nat
    BY <1>1
  <2> HIDE DEF Bad
  <2> QED BY <1>7, <2>1, LeastNatural
<1>9. r \in 0..Cardinality(W) /\ Cardinality(F(r)) # r
  BY <1>8
<1>10. CASE r = 0
  <2>1. \A w \in W : ~ (Cardinality(E(w)) < r)
    BY <1>2, <1>10
  <2>2. F(r) = {}
    BY <1>5, <2>1
  <2> QED BY <1>9, <1>10, <2>2, FS_EmptySet
<1>11. CASE r # 0
  <2>1. PICK k : k = r - 1
    OBVIOUS
  <2>2. k \in 0..Cardinality(W) /\ k < Cardinality(W) /\ r = k + 1
    BY <1>1, <1>9, <1>11, <2>1
  <2>3. Cardinality(F(k)) = k
    <3>1. k \notin Bad
      BY <1>1, <1>8, <2>2
    <3> QED BY <2>2, <3>1
  <2>4. F(k) \subseteq W /\ IsFiniteSet(F(k)) /\ F(k) # W
    <3>1. F(k) \subseteq W
      BY <1>5
    <3> QED BY <1>1, <2>2, <2>3, <3>1, FS_Subset
  <2>5. PICK w \in W \ F(k) : \A v \in W \ F(k) : pos(w) <= pos(v)
    <3> DEFINE P == {pos(v) : v \in W \ F(k)}
    <3>1. P \subseteq Nat /\ P # {}
      <4>1. \A v \in W : pos(v) \in Nat
        BY <1>3
      <4>2. W \ F(k) # {}
        BY <2>4
      <4> QED BY <4>1, <4>2
    <3>2. PICK p \in P : \A q \in P : p <= q
      <4> HIDE DEF P
      <4> QED BY <3>1, LeastNatural
    <3> QED BY <3>2
  <2>6. E(w) = F(k)
    <3>1. ASSUME NEW v \in E(w) PROVE v \in F(k)
      <4>1. v \in W /\ pos(v) < pos(w)
        BY <1>2, <1>4, <2>5, <3>1
      <4> QED BY <1>3, <2>5, <4>1
    <3>2. ASSUME NEW v \in F(k) PROVE v \in E(w)
      <4>1. v \in W /\ w \in W /\ Cardinality(E(v)) < k /\ ~ (Cardinality(E(w)) < k)
        BY <1>5, <2>5, <3>2
      <4>2. ~ (pos(w) < pos(v))
        BY <1>2, <1>6, <2>2, <4>1
      <4>3. v # w
        BY <4>1
      <4>4. pos(v) < pos(w)
        BY <1>3, <4>1, <4>2, <4>3
      <4> QED BY <1>4, <4>1, <4>4
    <3> QED BY <3>1, <3>2
  <2>7. F(r) = F(k) \cup {w}
    <3>1. ASSUME NEW v \in F(r), v \notin F(k) PROVE v = w
      <4>1. v \in W /\ Cardinality(E(v)) < k + 1 /\ ~ (Cardinality(E(v)) < k)
        BY <1>5, <2>2, <3>1
      <4>2. Cardinality(E(w)) = k
        BY <2>3, <2>6
      <4>3. Cardinality(E(v)) = k
        BY <1>2, <2>2, <4>1
      <4>4. ~ (pos(v) < pos(w)) /\ ~ (pos(w) < pos(v))
        BY <1>6, <2>2, <2>5, <4>1, <4>2, <4>3
      <4> QED BY <1>3, <2>5, <4>1, <4>4
    <3>2. w \in F(r)
      BY <1>5, <2>2, <2>3, <2>5, <2>6
    <3>3. F(k) \subseteq F(r)
      <4>1. \A v \in W : Cardinality(E(v)) < k => Cardinality(E(v)) < r
        BY <1>2, <2>2
      <4> QED BY <1>5, <4>1
    <3> QED BY <3>1, <3>2, <3>3
  <2>8. Cardinality(F(r)) = k + 1
    BY <2>3, <2>4, <2>5, <2>7, FS_AddElement
  <2> QED BY <1>9, <2>2, <2>8
<1> QED BY <1>10, <1>11

-----------------------------------------------------------------------------
(* A pot that is split is paid out.                                        *)

\* What each winner takes of a pot.
Split(amount, W, button, n) == [w \in W |-> SplitAward(amount, W, button, n, w)]

\* The awards of the winners are natural numbers that add up to the amount: the
\* remainder is neither lost nor paid twice.
THEOREM SplitExact ==
    ASSUME NEW n \in Nat \ {0}, NEW button \in 1..n, NEW W, W \subseteq 1..n, W # {},
           NEW amount \in Nat
    PROVE  /\ \A w \in W : SplitAward(amount, W, button, n, w) \in Nat
           /\ SumFunctionOnSet(Split(amount, W, button, n), W) = amount
<1>1. IsFiniteSet(W) /\ Cardinality(W) \in Nat \ {0}
  <2>1. IsFiniteSet(1..n)
    BY FS_Interval
  <2>2. IsFiniteSet(W)
    BY <2>1, FS_Subset
  <2> QED BY <2>2, FS_CardinalityType, FS_EmptySet
<1>2. PICK k : k = Cardinality(W)
  OBVIOUS
<1>3. PICK q, r : q = amount \div k /\ r = amount % k
  OBVIOUS
<1>4. q \in Nat /\ r \in 0..k-1 /\ amount = k * q + r
  BY <1>1, <1>2, <1>3
<1> DEFINE extras == [w \in W |-> IF Cardinality(Earlier(W, button, n, w)) < r THEN 1 ELSE 0]
           equals == [w \in W |-> q]
<1>5. PICK equal, extra : equal = equals /\ extra = extras
  OBVIOUS
<1>6. \A w \in W : SplitAward(amount, W, button, n, w) = equal[w] + extra[w]
  BY <1>2, <1>3, <1>5 DEF SplitAward, Earlier
<1>7. \A w \in W : equal[w] = q /\ equal[w] \in Int /\ extra[w] \in {0, 1} /\ extra[w] \in Int
  BY <1>4, <1>5
<1>8. SumFunctionOnSet(equal, W) = q * k
  BY <1>1, <1>2, <1>4, <1>7, SumConstant
<1>9. SumFunctionOnSet(extra, W) = r
  <2>1. PICK F : F = FirstWinners(W, button, n, r)
    OBVIOUS
  <2>2. Cardinality(F) = r
    <3>1. r \in 0..Cardinality(W)
      BY <1>1, <1>2, <1>4
    <3> QED BY <2>1, <3>1, FirstWinnersCount
  <2>3. F \subseteq W /\ IsFiniteSet(F)
    BY <1>1, <2>1, FS_Subset DEF FirstWinners
  <2>4. \A w \in W : extra[w] = IF w \in F THEN 1 ELSE 0
    BY <1>5, <2>1 DEF FirstWinners
  <2>5. \A w \in W \ F : extra[w] = 0
    BY <2>4
  <2>6. PICK one \in Int : one = 1 /\ \A w \in F : extra[w] = one
    BY <2>3, <2>4
  <2>7. SumFunctionOnSet(extra, W) = SumFunctionOnSet(extra, F)
    BY <1>1, <1>7, <2>3, <2>5, SumPart
  <2>8. SumFunctionOnSet(extra, F) = one * Cardinality(F)
    BY <2>3, <2>6, SumConstant
  <2> QED BY <1>4, <2>2, <2>6, <2>7, <2>8
<1>10. PICK both : both = Split(amount, W, button, n)
  OBVIOUS
<1>11. \A w \in W : equal[w] \in Int /\ extra[w] \in Int /\ both[w] = equal[w] + extra[w]
  BY <1>6, <1>7, <1>10 DEF Split
<1>12. SumFunctionOnSet(both, W) = SumFunctionOnSet(equal, W) + SumFunctionOnSet(extra, W)
  <2>1. IsFiniteSet(W)
    BY <1>1
  <2> QED BY ONLY <2>1, <1>11, SumPlus
<1>13. q * k + r = amount
  BY <1>1, <1>2, <1>4
<1>14. \A w \in W : SplitAward(amount, W, button, n, w) \in Nat
  BY <1>4, <1>6, <1>7
<1> QED BY <1>8, <1>9, <1>10, <1>12, <1>13, <1>14

-----------------------------------------------------------------------------
(* One pot of a showdown.                                                  *)

\* A pot that somebody is eligible for has a winner.
LEMMA WinnersExist ==
    ASSUME NEW eligible, IsFiniteSet(eligible), eligible # {},
           NEW rank, \A s \in eligible : rank[s] \in Int
    PROVE  Winners(eligible, rank) # {} /\ Winners(eligible, rank) \subseteq eligible
BY GreatestValue DEF Winners

\* What each seat takes of a pot.
PotAwards(p, rank, button, n) == [s \in 1..n |-> PotAward(p, rank, button, n, s)]

\* A pot is paid out to its winners, and to nobody if nobody is eligible.
THEOREM PotPaidOut ==
    ASSUME NEW n \in Nat \ {0}, NEW button \in 1..n,
           NEW p, p.amount \in Nat, p.eligible \subseteq 1..n,
           NEW rank, \A s \in p.eligible : rank[s] \in Int
    PROVE  /\ \A s \in 1..n : /\ PotAward(p, rank, button, n, s) \in 0..p.amount
                              /\ s \notin p.eligible => PotAward(p, rank, button, n, s) = 0
           /\ SumFunctionOnSet(PotAwards(p, rank, button, n), 1..n)
                  = IF p.eligible = {} THEN 0 ELSE p.amount
<1>1. PICK W : W = Winners(p.eligible, rank)
  OBVIOUS
<1>2. PICK f : f = PotAwards(p, rank, button, n)
  OBVIOUS
<1>3. \A s \in 1..n : /\ f[s] = PotAward(p, rank, button, n, s)
                      /\ s \notin W => f[s] = 0
                      /\ s \in W => f[s] = SplitAward(p.amount, W, button, n, s)
  BY <1>1, <1>2 DEF PotAwards, PotAward
<1>4. W \subseteq p.eligible /\ W \subseteq 1..n /\ IsFiniteSet(1..n) /\ IsFiniteSet(W)
      /\ IsFiniteSet(p.eligible)
  <2>1. IsFiniteSet(1..n)
    BY FS_Interval
  <2>2. W \subseteq p.eligible
    BY <1>1 DEF Winners
  <2> QED BY <2>1, <2>2, FS_Subset
<1>5. CASE W = {}
  <2>1. p.eligible = {}
    BY <1>1, <1>4, <1>5, WinnersExist
  <2>2. \A s \in 1..n : f[s] = 0
    BY <1>3, <1>5
  <2>3. SumFunctionOnSet(f, 1..n) = SumFunctionOnSet(f, {})
    BY <1>4, <2>2, SumPart
  <2> QED BY <1>2, <1>3, <2>1, <2>2, <2>3, SumEmpty
<1>6. CASE W # {}
  <2>1. /\ \A w \in W : SplitAward(p.amount, W, button, n, w) \in Nat
        /\ SumFunctionOnSet(Split(p.amount, W, button, n), W) = p.amount
    BY <1>4, <1>6, SplitExact
  <2>2. \A w \in W : f[w] \in Nat /\ Split(p.amount, W, button, n)[w] = f[w]
    BY <1>3, <1>4, <2>1 DEF Split
  <2>3. \A s \in 1..n : f[s] \in Nat /\ f[s] \in Int
    BY <1>3, <2>2
  <2>4. SumFunctionOnSet(f, 1..n) = SumFunctionOnSet(f, W)
    <3>1. \A s \in (1..n) \ W : f[s] = 0
      BY <1>3
    <3> QED BY <1>4, <2>3, <3>1, SumPart
  <2>5. SumFunctionOnSet(f, W) = p.amount
    <3>1. PICK g : g = Split(p.amount, W, button, n)
      OBVIOUS
    <3>2. \A w \in W : f[w] \in Int /\ g[w] = f[w]
      BY <2>2, <3>1
    <3>3. SumFunctionOnSet(f, W) = SumFunctionOnSet(g, W)
      BY <1>4, <3>2, SumEqual
    <3> QED BY <2>1, <3>1, <3>3
  <2>6. ASSUME NEW s \in 1..n PROVE f[s] <= p.amount
    <3>1. IsFiniteSet((1..n) \ {s})
      BY <1>4, FS_Subset
    <3>2. SumFunctionOnSet(f, 1..n) = f[s] + SumFunctionOnSet(f, (1..n) \ {s})
      BY <1>4, <2>3, SumRemove
    <3>3. SumFunctionOnSet(f, (1..n) \ {s}) \in Nat
      BY <2>3, <3>1, SumNatural
    <3> QED BY <2>3, <2>4, <2>5, <3>2, <3>3
  <2>7. p.eligible # {}
    BY <1>4, <1>6
  <2>8. ASSUME NEW s \in 1..n
        PROVE  /\ PotAward(p, rank, button, n, s) \in 0..p.amount
               /\ s \notin p.eligible => PotAward(p, rank, button, n, s) = 0
    <3>1. f[s] = PotAward(p, rank, button, n, s) /\ f[s] \in Nat /\ f[s] <= p.amount
      BY <1>3, <2>3, <2>6
    <3>2. s \notin p.eligible => f[s] = 0
      BY <1>3, <1>4
    <3> QED BY <3>1, <3>2
  <2>9. SumFunctionOnSet(PotAwards(p, rank, button, n), 1..n) = p.amount
    BY <1>2, <2>4, <2>5
  <2> QED BY <2>7, <2>8, <2>9
<1> QED BY <1>5, <1>6

-----------------------------------------------------------------------------
(* The settlement.                                                         *)

\* The sum of the amounts of the pots is a sum of values of a function.
LEMMA PotTotalIs ==
    ASSUME NEW pots, NEW L, L = DOMAIN pots, IsFiniteSet(L), NEW f, \A x \in L : f[x] = pots[x].amount
    PROVE  PotTotal(pots) = SumFunctionOnSet(f, L)
<1> DEFINE total(it) == [s \in SUBSET L |-> IF s = {} THEN 0
                                            ELSE pots[First(s)].amount + it[s \ {First(s)}]]
<1>1. PotTotal(pots) = (CHOOSE it : it = total(it))[L]
  BY DEF PotTotal, MapThenSumSet, MapThenFoldSet, First
<1>2. ASSUME NEW it PROVE total(it) = [s \in SUBSET L |-> IF s = {} THEN 0
                                                      ELSE f[First(s)] + it[s \ {First(s)}]]
  BY FirstIn
<1>3. \A it : it = total(it) <=> Adds(it, f, SUBSET L)
  BY <1>2 DEF Adds
<1> HIDE DEF total
<1>4. \E it : it = total(it)
  BY <1>3, AddsExists
<1>5. PICK a : a = CHOOSE it : it = total(it)
  OBVIOUS
<1>6. Adds(a, f, SUBSET L)
  BY <1>3, <1>4, <1>5
<1>7. a[L] = SumFunctionOnSet(f, L)
  BY ONLY <1>6, IsFiniteSet(L), SumOfAdds
<1> QED BY <1>1, <1>5, <1>7

\* What a seat takes is the sum of its awards.
LEMMA AwardToIs ==
    ASSUME NEW pots, NEW L, L = DOMAIN pots, IsFiniteSet(L),
           NEW rank, NEW button, NEW n, NEW s,
           NEW f, \A x \in L : f[x] = PotAward(pots[x], rank, button, n, s)
    PROVE  AwardTo(pots, rank, button, n, s) = SumFunctionOnSet(f, L)
<1> DEFINE total(it) == [u \in SUBSET L |->
                            IF u = {} THEN 0
                            ELSE PotAward(pots[First(u)], rank, button, n, s) + it[u \ {First(u)}]]
<1>1. AwardTo(pots, rank, button, n, s) = (CHOOSE it : it = total(it))[L]
  BY DEF AwardTo, MapThenSumSet, MapThenFoldSet, First
<1>2. ASSUME NEW it PROVE total(it) = [u \in SUBSET L |-> IF u = {} THEN 0
                                                      ELSE f[First(u)] + it[u \ {First(u)}]]
  BY FirstIn
<1>3. \A it : it = total(it) <=> Adds(it, f, SUBSET L)
  BY <1>2 DEF Adds
<1> HIDE DEF total
<1>4. \E it : it = total(it)
  BY <1>3, AddsExists
<1>5. PICK a : a = CHOOSE it : it = total(it)
  OBVIOUS
<1>6. Adds(a, f, SUBSET L)
  BY <1>3, <1>4, <1>5
<1>7. a[L] = SumFunctionOnSet(f, L)
  BY ONLY <1>6, IsFiniteSet(L), SumOfAdds
<1> QED BY <1>1, <1>5, <1>7

\* The pots of the contributions c, of which the seats in live compete for.
LEMMA BuildIs ==
    ASSUME NEW S, IsFiniteSet(S), NEW c \in [S -> Nat], NEW live, live \subseteq S
    PROVE  /\ DOMAIN Build(c, live) = Levels(c)
           /\ \A x \in Levels(c) : /\ Build(c, live)[x].amount = PotAmount(c, x)
                                  /\ Build(c, live)[x].amount \in Nat
                                  /\ Build(c, live)[x].eligible = {s \in live : c[s] >= x}
<1>1. DOMAIN Build(c, live) = Levels(c)
  BY DEF Build
<1>2. \A x \in Levels(c) : /\ Build(c, live)[x].amount = PotAmount(c, x)
                           /\ Build(c, live)[x].eligible = {s \in live : c[s] >= x}
  BY DEF Build, Eligible, Participants
<1> QED BY <1>1, <1>2, AmountsNatural

\* All the pots together are what the seats have put in.
THEOREM PotTotalExact ==
    ASSUME NEW S, IsFiniteSet(S), NEW c \in [S -> Nat], NEW live, live \subseteq S
    PROVE  PotTotal(Build(c, live)) = SumFunctionOnSet(c, S)
<1>1. PICK f : f = PotAmounts(c)
  OBVIOUS
<1>2. PICK pots, L : pots = Build(c, live) /\ L = DOMAIN pots
  OBVIOUS
<1>3. L = Levels(c) /\ IsFiniteSet(L)
  BY <1>2, BuildIs, LevelsFinite
<1>4. \A x \in L : f[x] = pots[x].amount
  BY <1>1, <1>2, <1>3, BuildIs, AmountsNatural
<1>5. PotTotal(pots) = SumFunctionOnSet(f, L)
  BY <1>2, <1>3, <1>4, PotTotalIs
<1> QED BY <1>1, <1>2, <1>3, <1>5, PotsHoldCommitted

\* The pots that a live seat is eligible for.
Claimed(c, live) == [x \in Levels(c) |-> IF Eligible(c, live, x) = {} THEN 0 ELSE PotAmount(c, x)]

\* The seats of a table; the proofs below do not look into it.
SeatsOf(n) == 1..n

\* The seats together take the pots that a live seat is eligible for, to the chip.
THEOREM AwardsExact ==
    ASSUME NEW n \in Nat \ {0}, NEW button \in 1..n, NEW S, S = SeatsOf(n), IsFiniteSet(S),
           NEW c \in [S -> Nat], NEW live, live \subseteq S,
           NEW rank, \A s \in live : rank[s] \in Int,
           NEW won, \A s \in S : won[s] = AwardTo(Build(c, live), rank, button, n, s)
    PROVE  SumFunctionOnSet(won, S) = SumFunctionOnSet(Claimed(c, live), Levels(c))
<1>1. PICK pots, L : pots = Build(c, live) /\ L = Levels(c)
  OBVIOUS
<1>2. IsFiniteSet(L) /\ L = DOMAIN pots
  BY <1>1, BuildIs, LevelsFinite
<1>3. \A x \in L : /\ pots[x].amount = PotAmount(c, x) /\ pots[x].amount \in Nat
                   /\ pots[x].eligible = {s \in live : c[s] >= x}
                   /\ pots[x].eligible = Eligible(c, live, x)
  <2>1. \A x \in L : Eligible(c, live, x) = {s \in live : c[s] >= x}
    BY DEF Eligible, Participants
  <2>2. \A x \in Levels(c) : /\ Build(c, live)[x].amount = PotAmount(c, x)
                             /\ Build(c, live)[x].amount \in Nat
                             /\ Build(c, live)[x].eligible = {s \in live : c[s] >= x}
    BY BuildIs
  <2> QED BY <1>1, <2>1, <2>2
<1>4. PICK g : g = [x \in L |-> PotAwards(pots[x], rank, button, n)]
  OBVIOUS
<1>5. PICK f : f = [s \in S |-> [x \in L |-> PotAward(pots[x], rank, button, n, s)]]
  OBVIOUS
<1>6. ASSUME NEW x \in L
      PROVE  /\ \A s \in S : /\ f[s][x] = PotAward(pots[x], rank, button, n, s)
                             /\ f[s][x] \in Int
                             /\ g[x][s] = f[s][x]
             /\ SumFunctionOnSet(g[x], S) = Claimed(c, live)[x]
  <2>1. PICK p : p = pots[x]
    OBVIOUS
  <2>2. /\ p.amount \in Nat /\ p.eligible \subseteq 1..n
        /\ \A s \in p.eligible : rank[s] \in Int
    BY <1>1, <1>3, <2>1 DEF SeatsOf
  <2>3. /\ \A s \in S : PotAward(p, rank, button, n, s) \in 0..p.amount
        /\ SumFunctionOnSet(PotAwards(p, rank, button, n), S)
               = IF p.eligible = {} THEN 0 ELSE p.amount
    BY <2>2, PotPaidOut DEF SeatsOf
  <2>4. \A s \in S : PotAward(p, rank, button, n, s) \in Int
    BY <2>2, <2>3
  <2>5. \A s \in S : /\ f[s][x] = PotAward(p, rank, button, n, s)
                     /\ g[x][s] = PotAward(p, rank, button, n, s)
    BY <1>4, <1>5, <2>1 DEF PotAwards, SeatsOf
  <2>6. Claimed(c, live)[x] = IF p.eligible = {} THEN 0 ELSE p.amount
    BY <1>1, <1>3, <2>1 DEF Claimed
  <2>7. g[x] = PotAwards(p, rank, button, n)
    BY <1>4, <2>1
  <2> QED BY <2>1, <2>3, <2>4, <2>5, <2>6, <2>7
<1>7. ASSUME NEW s \in S PROVE won[s] = SumFunctionOnSet(f[s], L)
  <2>1. PICK h : h = f[s]
    OBVIOUS
  <2>2. \A x \in L : h[x] = PotAward(pots[x], rank, button, n, s)
    BY <1>6, <2>1
  <2>3. AwardTo(pots, rank, button, n, s) = SumFunctionOnSet(h, L)
    BY <1>2, <2>2, AwardToIs
  <2> QED BY <1>1, <2>1, <2>3
<1>8. PICK claimed : claimed = Claimed(c, live)
  OBVIOUS
<1>9. \A x \in L : claimed[x] = SumFunctionOnSet(g[x], S)
  BY <1>6, <1>8
<1>10. \A s \in S : \A x \in L : f[s][x] \in Int /\ g[x][s] = f[s][x]
  BY <1>6
<1>11. SumFunctionOnSet(won, S) = SumFunctionOnSet(claimed, L)
  <2>1. \A s \in S : won[s] = SumFunctionOnSet(f[s], L)
    BY <1>7
  <2>2. IsFiniteSet(L)
    BY <1>2
  <2>3. CrossTable(f, g, won, claimed, S, L)
    BY <1>9, <1>10, <2>1 DEF CrossTable
  <2> QED BY <2>2, <2>3, SumSwap
<1> QED BY <1>1, <1>8, <1>11

\* What a seat can take: nothing if it has folded, and never more than it put
\* in itself from each seat.
THEOREM AwardBounded ==
    ASSUME NEW n \in Nat \ {0}, NEW button \in 1..n, NEW S, S = SeatsOf(n), IsFiniteSet(S),
           NEW c \in [S -> Nat], NEW live, live \subseteq S,
           NEW rank, \A s \in live : rank[s] \in Int,
           NEW s \in S, NEW award, award = AwardTo(Build(c, live), rank, button, n, s)
    PROVE  /\ award \in Nat
           /\ s \notin live => award = 0
           /\ award <= SumFunctionOnSet(Capped(c, c[s]), S)
<1>1. PICK pots, L : pots = Build(c, live) /\ L = Levels(c)
  OBVIOUS
<1>2. IsFiniteSet(L) /\ L = DOMAIN pots /\ L \subseteq Nat
  BY <1>1, BuildIs, LevelsFinite
<1>3. \A x \in L : /\ pots[x].amount = PotAmount(c, x) /\ pots[x].amount \in Nat
                   /\ pots[x].eligible = {u \in live : c[u] >= x}
  BY <1>1, BuildIs
<1>4. PICK f : f = [x \in L |-> PotAward(pots[x], rank, button, n, s)]
  OBVIOUS
<1>5. ASSUME NEW x \in L
      PROVE  /\ f[x] \in 0..PotAmount(c, x)
             /\ s \notin live \/ ~(c[s] >= x) => f[x] = 0
  <2>1. PICK p : p = pots[x]
    OBVIOUS
  <2>2. /\ p.amount \in Nat /\ p.eligible \subseteq 1..n
        /\ \A u \in p.eligible : rank[u] \in Int
    BY <1>1, <1>3, <2>1 DEF SeatsOf
  <2>3. /\ PotAward(p, rank, button, n, s) \in 0..p.amount
        /\ s \notin p.eligible => PotAward(p, rank, button, n, s) = 0
    <3>1. s \in 1..n
      BY DEF SeatsOf
    <3>2. /\ \A u \in 1..n : /\ PotAward(p, rank, button, n, u) \in 0..p.amount
                             /\ u \notin p.eligible => PotAward(p, rank, button, n, u) = 0
          /\ SumFunctionOnSet(PotAwards(p, rank, button, n), 1..n)
                 = IF p.eligible = {} THEN 0 ELSE p.amount
      BY ONLY <2>2, PotPaidOut, n \in Nat \ {0}, button \in 1..n
    <3> QED BY <3>1, <3>2
  <2> QED BY <1>3, <1>4, <2>1, <2>3
<1>6. award = SumFunctionOnSet(f, L)
  <2>1. \A x \in L : f[x] = PotAward(pots[x], rank, button, n, s)
    BY <1>4
  <2>2. AwardTo(pots, rank, button, n, s) = SumFunctionOnSet(f, L)
    BY <1>2, <2>1, AwardToIs
  <2> QED BY <1>1, <2>2
<1>7. \A x \in L : f[x] \in Nat /\ f[x] \in Int
  BY <1>5
<1>8. award \in Nat
  BY <1>2, <1>6, <1>7, SumNatural
<1>9. ASSUME s \notin live PROVE award = 0
  <2>1. \A x \in L : f[x] = 0
    BY <1>5, <1>9
  <2>2. SumFunctionOnSet(f, L) = SumFunctionOnSet(f, {})
    BY <1>2, <2>1, SumPart
  <2> QED BY <1>6, <2>2, SumEmpty
<1>10. award <= SumFunctionOnSet(Capped(c, c[s]), S)
  <2>1. PICK k, P : k = c[s] /\ P = UpTo(c, k)
    OBVIOUS
  <2>2. k \in L \cup {0} /\ k \in Nat /\ P \subseteq L /\ P = {x \in L : x <= k}
    BY <1>1, <2>1, LevelsFinite DEF UpTo
  <2>3. IsFiniteSet(P)
    BY <1>2, <2>2, FS_Subset
  <2>4. \A x \in L \ P : f[x] = 0
    BY <1>2, <1>5, <2>1, <2>2
  <2>5. SumFunctionOnSet(f, L) = SumFunctionOnSet(f, P)
    BY <1>2, <1>7, <2>2, <2>4, SumPart
  <2>6. PICK a : a = PotAmounts(c)
    OBVIOUS
  <2>7. \A x \in P : f[x] \in Int /\ a[x] \in Int /\ f[x] <= a[x]
    <3> SUFFICES ASSUME NEW x \in P PROVE f[x] \in Int /\ a[x] \in Int /\ f[x] <= a[x]
      OBVIOUS
    <3>1. a[x] = PotAmount(c, x) /\ PotAmount(c, x) \in Nat
      BY <1>1, <2>2, <2>6, AmountsNatural
    <3> QED BY <1>5, <2>2, <3>1
  <2>8. SumFunctionOnSet(f, P) <= SumFunctionOnSet(a, P)
    BY <2>3, <2>7, SumLeq
  <2>9. SumFunctionOnSet(a, P) = SumFunctionOnSet(Capped(c, k), S)
    <3>1. k \in Levels(c) \cup {0}
      BY <1>1, <2>2
    <3>2. SumFunctionOnSet(PotAmounts(c), UpTo(c, k)) = SumFunctionOnSet(Capped(c, k), S)
      BY <3>1, PotsUpToLevel
    <3> QED BY <2>1, <2>6, <3>2
  <2> QED BY <1>6, <2>1, <2>5, <2>8, <2>9
<1> QED BY <1>8, <1>9, <1>10

-----------------------------------------------------------------------------
(* The seats of a hand.                                                    *)

\* The seats are an interval that holds the button.
LEMMA SeatsFinite ==
    /\ NumSeats \in Nat \ {0} /\ Button \in 1..NumSeats
    /\ Seats = SeatsOf(NumSeats) /\ IsFiniteSet(Seats)
<1>1. NumSeats \in Nat \ {0} /\ Button \in 1..NumSeats /\ Seats = 1..NumSeats
  BY SeatsAssumption DEF Seats
<1>2. IsFiniteSet(1..NumSeats)
  BY <1>1, FS_Interval
<1> QED BY <1>1, <1>2 DEF SeatsOf

\* Hand strengths can be compared.
LEMMA RanksAreIntegers ==
    ASSUME NEW live, NEW rank \in [live -> Ranks]
    PROVE  \A s \in live : rank[s] \in Int
<1>1. \A s \in live : rank[s] \in Ranks
  OBVIOUS
<1>2. \A x \in Ranks : x \in Int
  BY RanksAssumption
<1> QED BY <1>1, <1>2

\* Somebody is live: it is one seat or more than one.
LEMMA LiveCount ==
    ASSUME NEW t, Live(t) # {}
    PROVE  /\ Live(t) \subseteq Seats /\ IsFiniteSet(Live(t)) /\ Cardinality(Live(t)) \in Nat
           /\ ~OnlyOneLive(t) <=> Cardinality(Live(t)) > 1
<1>1. Live(t) \subseteq Seats
  BY DEF Live
<1>2. IsFiniteSet(Live(t))
  BY <1>1, SeatsFinite, FS_Subset
<1>3. Cardinality(Live(t)) \in Nat /\ Cardinality(Live(t)) # 0
  BY <1>2, FS_CardinalityType, FS_EmptySet
<1> QED BY <1>1, <1>2, <1>3 DEF OnlyOneLive

\* The seat to act is a seat, or there is none.
LEMMA NextActorType ==
    ASSUME NEW t, NEW s \in Seats
    PROVE  NextActorAfter(t, s) \in Seats \cup {0}
<1> DEFINE others == Active(t) \ {s}
<1>1. CASE others = {}
  BY <1>1 DEF NextActorAfter
<1>2. CASE others # {}
  <2> DEFINE distances == {Distance(s, u) : u \in others}
  <2>1. distances \subseteq Nat /\ distances # {}
    BY <1>2, SeatsAssumption DEF Active, Seats, Distance
  <2>2. PICK d \in distances : \A e \in distances : d <= e
    <3> HIDE DEF distances
    <3> QED BY <2>1, LeastNatural
  <2>3. \E u \in others : \A v \in others : Distance(s, u) <= Distance(s, v)
    BY <2>2
  <2> QED BY <1>2, <2>3 DEF NextActorAfter, Active
<1> QED BY <1>1, <1>2

-----------------------------------------------------------------------------
(* The inductive invariant.  A table in play: beside the stated invariants *)
(* a seat has put into this street at most what it has put into the hand;  *)
(* without it a raise below a seat's own commitment, which takes chips     *)
(* back, could not be shown to leave natural numbers.                      *)

TableInPlay(t) ==
    /\ t \in TableType(t.stack)
    /\ t.stack \in [Seats -> Nat]
    /\ Live(t) # {}
    /\ \A s \in Seats : /\ t.stack[s] + t.hand[s] = buyIn[s]
                        /\ t.status[s] = "active" => t.stack[s] > 0
                        /\ t.status[s] = "all_in" => t.stack[s] = 0
                        /\ t.street[s] <= t.hand[s]
    /\ \A s, u \in Active(t) : t.hand[s] - t.street[s] = t.hand[u] - t.street[u]

\* What a seat has gained, before the chips it put in are counted.
Gain(t, s) == t.stack[s] + t.hand[s] - buyIn[s]

\* A settled table: the only live seat has gained all the pots, or every seat
\* what the pots award it under some ranking of the live hands.
SettledTable(t) ==
    /\ Live(t) # {}
    /\ \A s \in Seats : t.stack[s] \in Int /\ t.hand[s] <= buyIn[s]
    /\ OnlyOneLive(t) =>
           \A s \in Seats : Gain(t, s) = IF s \in Live(t) THEN PotTotal(PotsOf(t)) ELSE 0
    /\ ~OnlyOneLive(t) =>
           \E rank \in [Live(t) -> Ranks] :
               \A s \in Seats : Gain(t, s) = AwardTo(PotsOf(t), rank, Button, NumSeats, s)

IInv == /\ TypeOK
        /\ stage # "finished" => TableInPlay(table) /\ ~OnlyOneLive(table)
        /\ stage = "finished" => SettledTable(table)

-----------------------------------------------------------------------------
(* What each part of a command does to a table in play.                    *)

\* A seat that pays leaves the table in play.
LEMMA CommitInPlay ==
    ASSUME NEW t, TableInPlay(t), NEW s \in Seats, t.status[s] = "active",
           NEW amount \in Int, t.street[s] + amount >= 0
    PROVE  TableInPlay(Commit(t, s, amount))
<1> DEFINE paid == Smaller(amount, t.stack[s])
           c == Pay(t, s, paid)
<1>1. /\ paid \in Int
      /\ paid <= t.stack[s]
      /\ t.street[s] + paid >= 0
  BY DEF Smaller, TableInPlay, TableType
<1> HIDE DEF paid
<1>2. /\ c \in TableType(c.stack)
      /\ c.stack \in [Seats -> Nat]
  BY <1>1 DEF Pay, WithChips, TableInPlay, TableType, Statuses
<1>3. \A u \in Seats : /\ c.stack[u] + c.hand[u] = buyIn[u]
                       /\ c.status[u] = "active" => c.stack[u] > 0
                       /\ c.status[u] = "all_in" => c.stack[u] = 0
                       /\ c.street[u] <= c.hand[u]
  BY <1>1 DEF Pay, WithChips, TableInPlay, TableType
<1>4. /\ \A u \in Seats : c.hand[u] - c.street[u] = t.hand[u] - t.street[u]
      /\ Active(c) \subseteq Active(t)
  BY <1>1 DEF Pay, WithChips, TableInPlay, TableType, Active
<1>5. \A u, v \in Active(c) : c.hand[u] - c.street[u] = c.hand[v] - c.street[v]
  BY <1>4 DEF TableInPlay, Active
<1>6. Live(c) = Live(t)
  BY <1>1 DEF Pay, WithChips, TableInPlay, TableType, Live
<1> QED BY <1>2, <1>3, <1>5, <1>6 DEF TableInPlay, Commit, paid

\* The round's bet and who has acted may be set to anything.
LEMMA RoundInPlay ==
    ASSUME NEW t, TableInPlay(t),
           NEW acted \in [Seats -> BOOLEAN], NEW bet \in Nat, NEW minRaise \in Nat \ {0}
    PROVE  TableInPlay(WithRound(t, acted, bet, minRaise))
BY DEF TableInPlay, TableType, WithRound, Active, Live

\* Who has acted is known of every seat.
LEMMA ActedTypes ==
    ASSUME NEW t, TableInPlay(t), NEW s \in Seats
    PROVE  /\ ActedToo(t, s) \in [Seats -> BOOLEAN]
           /\ ActedAlone(t, s) \in [Seats -> BOOLEAN]
BY DEF TableInPlay, TableType, ActedToo, ActedAlone

\* Somebody stays live when one of several folds.
LEMMA FoldInPlay ==
    ASSUME TableInPlay(table), ~OnlyOneLive(table), NEW s \in Seats
    PROVE  TableInPlay(Folded(s))
<1> DEFINE f == WithChips(table, table.stack, [table.status EXCEPT ![s] = "folded"],
                          table.street, table.hand)
<1>1. TableInPlay(f)
  <2>1. Live(f) = Live(table) \ {s}
    BY DEF TableInPlay, TableType, WithChips, Live
  <2>2. Live(table) # {s}
    BY FS_Singleton DEF OnlyOneLive
  <2>3. Live(f) # {}
    BY <2>1, <2>2 DEF TableInPlay
  <2> QED BY <2>3 DEF TableInPlay, TableType, Statuses, WithChips, Active
<1>2. f.bet \in Nat /\ f.minRaise \in Nat \ {0}
  BY <1>1 DEF TableInPlay, TableType
<1> HIDE DEF f
<1>3. TableInPlay(Acting(f, s))
  BY <1>1, <1>2, ActedTypes, RoundInPlay DEF Acting
<1> QED BY <1>3 DEF Folded, f

\* A street that closes leaves equal stakes: all active seats have paid the bet.
LEMMA ResetInPlay ==
    ASSUME NEW t, TableInPlay(t), BettingRoundComplete(t), betting \in Bettings
    PROVE  TableInPlay(ResetStreet(betting, t))
<1>1. MinimumOpenBet(betting) \in Nat \ {0}
  BY BettingsAssumption DEF MinimumOpenBet, BlindsStructures, AnteStructures
<1> DEFINE r == ResetStreet(betting, t)
<1>2. /\ r \in TableType(r.stack)
      /\ r.stack \in [Seats -> Nat]
  BY <1>1 DEF ResetStreet, WithChips, WithRound, NoChips, NobodyActed, TableInPlay, TableType
<1>3. \A u \in Seats : /\ r.stack[u] + r.hand[u] = buyIn[u]
                       /\ r.status[u] = "active" => r.stack[u] > 0
                       /\ r.status[u] = "all_in" => r.stack[u] = 0
                       /\ r.street[u] <= r.hand[u]
  BY DEF ResetStreet, WithChips, WithRound, NoChips, TableInPlay, TableType
<1>4. \A u, v \in Active(t) : t.hand[u] = t.hand[v]
  BY DEF BettingRoundComplete, TableInPlay, TableType, Active
<1>5. \A u, v \in Active(r) : r.hand[u] - r.street[u] = r.hand[v] - r.street[v]
  BY <1>4 DEF ResetStreet, WithChips, WithRound, NoChips, TableInPlay, TableType, Active
<1>6. Live(r) = Live(t) /\ Live(t) # {}
  BY DEF ResetStreet, WithChips, WithRound, Live, TableInPlay
<1> QED BY <1>2, <1>3, <1>5, <1>6 DEF TableInPlay

-----------------------------------------------------------------------------
(* The tail of Apply: whatever follows the command, the next table is in   *)
(* play or the hand is settled.                                            *)

\* A settled table is well typed.
LEMMA SettledType ==
    ASSUME NEW t, TableInPlay(t), betting \in Bettings
    PROVE  /\ LET u == SettledByFolds(t) IN u \in TableType(u.stack)
           /\ \A rank : LET u == SettledByShowdown(ResetStreet(betting, t), rank)
                       IN  u \in TableType(u.stack)
<1>1. MinimumOpenBet(betting) \in Nat \ {0}
  BY BettingsAssumption DEF MinimumOpenBet, BlindsStructures, AnteStructures
<1>2. LET u == SettledByFolds(t) IN u \in TableType(u.stack)
  BY DEF SettledByFolds, Paying, WithChips, WithRound, TableInPlay, TableType
<1>3. ASSUME NEW rank
      PROVE  LET u == SettledByShowdown(ResetStreet(betting, t), rank)
             IN  u \in TableType(u.stack)
  BY <1>1 DEF SettledByShowdown, Paying, ResetStreet, WithChips, WithRound,
              NoChips, NobodyActed, TableInPlay, TableType
<1> QED BY <1>2, <1>3

\* The pots of a table, and what they award.
LEMMA PotsOfTable ==
    ASSUME NEW t, t.hand \in [Seats -> Nat]
    PROVE  /\ PotTotal(PotsOf(t)) = SumFunctionOnSet(t.hand, Seats)
           /\ PotTotal(PotsOf(t)) \in Nat
<1>1. PICK c : c = t.hand
  OBVIOUS
<1>2. PotTotal(Build(c, Live(t))) = SumFunctionOnSet(c, Seats)
  <2>1. Live(t) \subseteq Seats /\ IsFiniteSet(Seats) /\ c \in [Seats -> Nat]
    BY <1>1, SeatsFinite DEF Live
  <2> QED BY <2>1, PotTotalExact
<1>3. SumFunctionOnSet(c, Seats) \in Nat
  BY <1>1, SeatsFinite, SumNatural
<1> QED BY <1>1, <1>2, <1>3 DEF PotsOf

\* What the pots of a table award.
LEMMA AwardsOfTable ==
    ASSUME NEW t, t.hand \in [Seats -> Nat], NEW rank \in [Live(t) -> Ranks],
           NEW s \in Seats, NEW award, award = AwardTo(PotsOf(t), rank, Button, NumSeats, s)
    PROVE  /\ award \in Nat
           /\ s \notin Live(t) => award = 0
           /\ award <= SumFunctionOnSet(Capped(t.hand, t.hand[s]), Seats)
<1>1. PICK c, live : c = t.hand /\ live = Live(t)
  OBVIOUS
<1>2. /\ live \subseteq Seats /\ IsFiniteSet(Seats) /\ c \in [Seats -> Nat]
      /\ \A u \in live : rank[u] \in Int
  <2>1. live \subseteq Seats
    BY <1>1 DEF Live
  <2>2. \A u \in live : rank[u] \in Int
    BY <1>1, RanksAreIntegers
  <2> QED BY <1>1, <2>1, <2>2, SeatsFinite
<1>3. award = AwardTo(Build(c, live), rank, Button, NumSeats, s)
  BY <1>1 DEF PotsOf
<1> QED BY <1>1, <1>2, <1>3, SeatsFinite, AwardBounded

\* Both settlements leave a settled table.
LEMMA FoldsSettle ==
    ASSUME NEW t, TableInPlay(t), OnlyOneLive(t)
    PROVE  SettledTable(SettledByFolds(t))
<1>1. PICK u, total : u = SettledByFolds(t) /\ total = PotTotal(PotsOf(t))
  OBVIOUS
<1>2. /\ u.hand = t.hand /\ u.status = t.status
      /\ \A s \in Seats : u.stack[s] = t.stack[s] + IF s \in Live(t) THEN total ELSE 0
  BY <1>1 DEF SettledByFolds, WithRound, Paying, WithChips
<1>3. Live(u) = Live(t) /\ PotsOf(u) = PotsOf(t) /\ Live(t) # {}
  BY <1>2 DEF Live, PotsOf, TableInPlay
<1>4. /\ total \in Nat
      /\ \A s \in Seats : /\ t.stack[s] \in Nat /\ t.hand[s] \in Nat
                          /\ buyIn[s] = t.stack[s] + t.hand[s]
  <2>1. t.hand \in [Seats -> Nat]
    BY DEF TableInPlay, TableType
  <2> QED BY <1>1, <2>1, PotsOfTable DEF TableInPlay
<1>5. \A s \in Seats : /\ u.stack[s] \in Int /\ u.hand[s] <= buyIn[s]
                       /\ Gain(u, s) = IF s \in Live(u) THEN total ELSE 0
  BY <1>2, <1>3, <1>4 DEF Gain
<1> QED BY <1>1, <1>3, <1>5 DEF SettledTable, OnlyOneLive

\* A showdown settles the hand to the chip.
LEMMA ShowdownSettles ==
    ASSUME NEW t, TableInPlay(t), ~OnlyOneLive(t), NEW rank \in [Live(t) -> Ranks]
    PROVE  SettledTable(SettledByShowdown(ResetStreet(betting, t), rank))
<1>1. PICK r, u : /\ r = ResetStreet(betting, t)
                  /\ u = SettledByShowdown(ResetStreet(betting, t), rank)
  OBVIOUS
<1>2. r.hand = t.hand /\ r.stack = t.stack /\ r.status = t.status
  BY <1>1 DEF ResetStreet, WithRound, WithChips
<1>3. /\ u.hand = r.hand /\ u.status = r.status
      /\ \A s \in Seats :
             u.stack[s] = r.stack[s] + AwardTo(PotsOf(r), rank, Button, NumSeats, s)
  BY <1>1 DEF SettledByShowdown, Paying, WithChips
<1>4. /\ Live(r) = Live(t) /\ PotsOf(r) = PotsOf(t)
      /\ Live(u) = Live(t) /\ PotsOf(u) = PotsOf(t) /\ Live(t) # {}
  BY <1>2, <1>3 DEF Live, PotsOf, TableInPlay
<1>5. ASSUME NEW s \in Seats
      PROVE  /\ u.stack[s] \in Int /\ u.hand[s] <= buyIn[s]
             /\ Gain(u, s) = AwardTo(PotsOf(u), rank, Button, NumSeats, s)
  <2>1. PICK award : award = AwardTo(PotsOf(t), rank, Button, NumSeats, s)
    OBVIOUS
  <2>2. t.hand \in [Seats -> Nat]
    BY DEF TableInPlay, TableType
  <2>3. award \in Nat
    BY <2>1, <2>2, AwardsOfTable
  <2>4. t.stack[s] \in Nat /\ t.hand[s] \in Nat /\ buyIn[s] = t.stack[s] + t.hand[s]
    BY DEF TableInPlay, TableType
  <2>5. u.hand[s] = t.hand[s] /\ u.stack[s] = t.stack[s] + award
    BY <1>2, <1>3, <1>4, <2>1
  <2> QED BY <1>4, <2>1, <2>3, <2>4, <2>5 DEF Gain
<1> QED BY <1>1, <1>4, <1>5 DEF SettledTable, OnlyOneLive

\* Whatever follows a command keeps the invariant.
LEMMA AfterKeepsInvariant ==
    ASSUME IInv, stage # "finished", NEW t, TableInPlay(t), NEW s \in Seats, After(t, s)
    PROVE  IInv'
<1>1. /\ betting \in Bettings /\ betting' = betting
      /\ buyIn \in BuyIns /\ buyIn' = buyIn
      /\ AfterTable(t, s)
  BY DEF After, IInv, TypeOK
<1>2. Button \in Seats /\ stage \in Stages
  BY SeatsAssumption DEF IInv, TypeOK
<1>3. CASE WinByFolds(t)
  <2>1. SettledTable(table')
    BY <1>3, FoldsSettle DEF WinByFolds
  <2>2. SettledTable(table)'
    BY <1>1, <2>1 DEF SettledTable, Gain
  <2> QED BY <1>1, <1>3, <2>2, SettledType DEF WinByFolds, IInv, TypeOK, Stages
<1>4. CASE ~OnlyOneLive(t) /\ Showdown(t)
  <2>1. PICK rank \in [Live(t) -> Ranks] :
            table' = SettledByShowdown(ResetStreet(betting, t), rank)
    BY <1>4 DEF Showdown
  <2>2. table' \in TableType(table'.stack)
    BY <1>1, <2>1, SettledType
  <2>3. SettledTable(table')
    BY <1>4, <2>1, ShowdownSettles
  <2>4. SettledTable(table)'
    BY <1>1, <2>3 DEF SettledTable, Gain
  <2> QED BY <1>1, <1>4, <2>2, <2>4 DEF Showdown, IInv, TypeOK, Stages
<1>5. CASE ~OnlyOneLive(t) /\ BettingRoundComplete(t) /\ stage # "river" /\ NextStreet(t)
  <2>1. TableInPlay(table') /\ ~OnlyOneLive(table')
    <3>1. Live(ResetStreet(betting, t)) = Live(t)
      BY DEF ResetStreet, WithRound, WithChips, Live
    <3> QED BY <1>1, <1>5, <3>1, ResetInPlay DEF NextStreet, OnlyOneLive
  <2>2. currentSeat' \in Seats \cup {0}
    BY <1>2, <1>5, NextActorType DEF NextStreet
  <2>3. stage' \in Stages /\ stage' # "finished"
    BY <1>2, <1>5 DEF NextStreet, Street, Stages
  <2>4. TableInPlay(table)' /\ ~OnlyOneLive(table)'
    BY <1>1, <2>1 DEF TableInPlay
  <2> QED BY <1>1, <2>2, <2>3, <2>4 DEF IInv, TypeOK, TableInPlay
<1>6. CASE ~OnlyOneLive(t) /\ NextActor(t, s)
  <2>1. TableInPlay(table') /\ ~OnlyOneLive(table')
    BY <1>1, <1>6 DEF NextActor
  <2>2. currentSeat' \in Seats \cup {0} /\ stage' = stage
    BY <1>6, NextActorType DEF NextActor
  <2>3. TableInPlay(table)' /\ ~OnlyOneLive(table)'
    BY <1>1, <2>1 DEF TableInPlay
  <2> QED BY <1>1, <1>2, <2>2, <2>3 DEF IInv, TypeOK, TableInPlay
<1>7. NobodyCanAct(t) => ~OnlyOneLive(t)
  BY DEF NobodyCanAct, OnlyOneLive
<1> QED BY <1>1, <1>3, <1>4, <1>5, <1>6, <1>7 DEF AfterTable

-----------------------------------------------------------------------------
(* One lemma per command: the table it leaves is in play.                  *)

\* What is known when a seat acts.
LEMMA CanActFacts ==
    ASSUME IInv, NEW s \in Seats, CanAct(s)
    PROVE  /\ stage # "finished"
           /\ TableInPlay(table) /\ ~OnlyOneLive(table)
           /\ table.status[s] = "active"
           /\ table.street[s] \in Nat /\ table.stack[s] \in Nat
           /\ table.bet \in Nat /\ table.minRaise \in Nat \ {0}
           /\ betting \in Bettings
BY DEF CanAct, IInv, TypeOK, TableInPlay, TableType

\* A call.
LEMMA CalledInPlay ==
    ASSUME IInv, NEW s \in Seats, CanAct(s), table.bet > table.street[s]
    PROVE  TableInPlay(Called(s))
<1> DEFINE t == Commit(table, s, Missing(s, table.bet))
<1>1. TableInPlay(t)
  BY CanActFacts, CommitInPlay DEF Missing
<1>2. t.bet \in Nat /\ t.minRaise \in Nat \ {0}
  BY <1>1 DEF TableInPlay, TableType
<1> HIDE DEF t
<1>3. TableInPlay(Acting(t, s))
  BY <1>1, <1>2, ActedTypes, RoundInPlay DEF Acting
<1> QED BY <1>3 DEF Called, t

\* A bet.
LEMMA BetInPlay ==
    ASSUME IInv, NEW s \in Seats, CanAct(s), NEW amount \in Int,
           amount >= MinimumOpenBet(betting)
    PROVE  TableInPlay(WithBet(s, amount))
<1>1. amount \in Nat \ {0}
  BY CanActFacts, BettingsAssumption DEF MinimumOpenBet, BlindsStructures, AnteStructures
<1> DEFINE t == Commit(table, s, amount)
<1>2. TableInPlay(t)
  BY <1>1, CanActFacts, CommitInPlay
<1>3. t.street[s] \in Nat
  BY <1>2 DEF TableInPlay, TableType
<1> HIDE DEF t
<1>4. TableInPlay(WithRound(t, ActedAlone(t, s), t.street[s], amount))
  BY <1>1, <1>2, <1>3, ActedTypes, RoundInPlay
<1> QED BY <1>4 DEF WithBet, t

\* The commitment of a raise may be negative: it still leaves the street's
\* commitment positive, and no chips appear.
LEMMA RaiseInPlay ==
    ASSUME IInv, NEW s \in Seats, CanAct(s), NEW amount \in Int, amount > table.bet
    PROVE  TableInPlay(Raised(s, amount))
<1> DEFINE raiseBy == amount - table.bet
           t == Commit(table, s, Missing(s, amount))
<1>1. raiseBy \in Nat \ {0}
  BY CanActFacts
<1>2. TableInPlay(t)
  BY CanActFacts, CommitInPlay DEF Missing
<1>3. t.street[s] \in Nat /\ t.minRaise \in Nat \ {0}
  BY <1>2 DEF TableInPlay, TableType
<1> HIDE DEF t, raiseBy
<1>4. TableInPlay(WithRound(t, ActedAlone(t, s), t.street[s], raiseBy))
  BY <1>1, <1>2, <1>3, ActedTypes, RoundInPlay
<1>5. TableInPlay(WithRound(t, ActedToo(t, s), t.street[s], t.minRaise))
  BY <1>2, <1>3, ActedTypes, RoundInPlay
<1> QED BY <1>4, <1>5 DEF Raised, t, raiseBy

\* An all-in.
LEMMA AllInInPlay ==
    ASSUME IInv, NEW s \in Seats, CanAct(s)
    PROVE  TableInPlay(PutAllIn(s))
<1> DEFINE allInTo == table.street[s] + table.stack[s]
           raiseBy == allInTo - table.bet
           t == Commit(table, s, table.stack[s])
<1>1. allInTo \in Nat /\ raiseBy \in Int /\ table.minRaise \in Nat \ {0}
  BY CanActFacts
<1>2. TableInPlay(t)
  BY CanActFacts, CommitInPlay
<1>3. t.bet \in Nat /\ t.minRaise \in Nat \ {0}
  BY <1>2 DEF TableInPlay, TableType
<1> HIDE DEF t, allInTo, raiseBy
<1>4. CASE raiseBy >= table.minRaise
  <2>1. raiseBy \in Nat \ {0}
    BY <1>1, <1>4
  <2>2. TableInPlay(WithRound(t, ActedAlone(t, s), allInTo, raiseBy))
    BY <1>1, <1>2, <2>1, ActedTypes, RoundInPlay
  <2> QED BY <1>4, <2>2 DEF PutAllIn, t, allInTo, raiseBy
<1>5. CASE ~(raiseBy >= table.minRaise)
  <2> DEFINE bet == IF raiseBy > 0 THEN allInTo ELSE t.bet
  <2>1. bet \in Nat
    BY <1>1, <1>3
  <2> HIDE DEF bet
  <2>2. TableInPlay(WithRound(t, ActedToo(t, s), bet, t.minRaise))
    BY <1>2, <1>3, <2>1, ActedTypes, RoundInPlay
  <2> QED BY <1>5, <2>2 DEF PutAllIn, bet, t, allInTo, raiseBy
<1> QED BY <1>4, <1>5

-----------------------------------------------------------------------------
(* The initial tables.                                                     *)

\* Blinds and antes are never more than a stack.
LEMMA ForcedPaidType ==
    ASSUME NEW b \in Bettings, NEW stacks \in BuyIns, NEW s \in Seats
    PROVE  /\ ForcedPaid(b, stacks, s) \in Nat
           /\ ForcedPaid(b, stacks, s) <= stacks[s]
           /\ b.type = "ante" => ForcedPaid(b, stacks, s) <= b.ante + b.buttonBlind
BY BettingsAssumption, BuyInsAssumption
   DEF ForcedPaid, ForcedBet, Smaller, BlindsStructures, AnteStructures

\* The highest ante: the least distance from the bound ante + buttonBlind.
LEMMA OpeningBetType ==
    ASSUME NEW b \in Bettings, NEW stacks \in BuyIns
    PROVE  /\ OpeningBet(b, stacks) \in Nat
           /\ \E s \in Seats : OpeningBet(b, stacks) = ForcedPaid(b, stacks, s)
           /\ b.type = "ante" =>
                  \A s \in Seats : ForcedPaid(b, stacks, s) <= OpeningBet(b, stacks)
<1>1. CASE b.type = "ante"
  <2> DEFINE top == b.ante + b.buttonBlind
             paid(s) == ForcedPaid(b, stacks, s)
             T == {top - paid(s) : s \in Seats}
  <2>1. top \in Nat
    BY <1>1, BettingsAssumption DEF BlindsStructures, AnteStructures
  <2>2. \A s \in Seats : paid(s) \in Nat /\ paid(s) <= top
    BY <1>1, ForcedPaidType
  <2> HIDE DEF top, paid
  <2>3. T \subseteq Nat /\ T # {}
    BY <2>1, <2>2, SeatsAssumption
  <2>4. PICK x \in T : \A y \in T : x <= y
    <3> HIDE DEF T
    <3> QED BY <2>3, LeastNatural
  <2>5. PICK h \in Seats : x = top - paid(h)
    BY <2>4
  <2>6. \A s \in Seats : paid(s) <= paid(h)
    <3>1. \A s \in Seats : top - paid(h) <= top - paid(s)
      BY <2>4, <2>5
    <3> SUFFICES ASSUME NEW s \in Seats PROVE paid(s) <= paid(h)
      OBVIOUS
    <3>2. top \in Nat /\ paid(s) \in Nat /\ paid(h) \in Nat
      BY <2>1, <2>2, <2>5
    <3> QED BY <3>1, <3>2
  <2>7. \E m \in {paid(s) : s \in Seats} : \A s \in Seats : paid(s) <= m
    BY <2>6
  <2> DEFINE highest == CHOOSE m \in {paid(s) : s \in Seats} : \A s \in Seats : paid(s) <= m
  <2>8. highest \in {paid(s) : s \in Seats}
    BY <2>7
  <2>9. highest \in Nat /\ \A s \in Seats : paid(s) <= highest
    BY <2>2, <2>7, <2>8
  <2>10. \E s \in Seats : highest = paid(s)
    BY <2>8
  <2> QED BY <1>1, <2>9, <2>10 DEF OpeningBet, paid
<1>2. CASE b.type # "ante"
  <2>1. BigBlindSeat \in Seats
    BY SeatsAssumption DEF BigBlindSeat, SmallBlindSeat, NextSeat, Seats
  <2> QED BY <1>2, <2>1, ForcedPaidType DEF OpeningBet
<1> QED BY <1>1, <1>2

\* The table after the forced bets is in play.
LEMMA InitialTable ==
    ASSUME betting \in Bettings, buyIn \in BuyIns
    PROVE  TableInPlay(AfterForcedBets(betting, buyIn))
<1> DEFINE t == AfterForcedBets(betting, buyIn)
           paid(s) == ForcedPaid(betting, buyIn, s)
<1>1. MinimumOpenBet(betting) \in Nat \ {0}
  BY BettingsAssumption DEF MinimumOpenBet, BlindsStructures, AnteStructures
<1>2. OpeningBet(betting, buyIn) \in Nat
  BY OpeningBetType
<1>3. \A s \in Seats : paid(s) \in Nat /\ buyIn[s] \in Nat /\ paid(s) <= buyIn[s]
  BY ForcedPaidType, BuyInsAssumption
<1>4. /\ t.stack = [s \in Seats |-> buyIn[s] - paid(s)]
      /\ t.status = [s \in Seats |-> IF paid(s) = buyIn[s] THEN "all_in" ELSE "active"]
      /\ t.street = [s \in Seats |-> paid(s)]
      /\ t.hand = [s \in Seats |-> paid(s)]
  BY DEF AfterForcedBets
<1>5. t \in TableType(t.stack)
  BY <1>1, <1>2, <1>3 DEF AfterForcedBets, TableType, Statuses
<1> HIDE DEF t, paid
<1>6. /\ t.stack \in [Seats -> Nat]
      /\ \A s \in Seats : /\ t.stack[s] + t.hand[s] = buyIn[s]
                          /\ t.status[s] = "active" => t.stack[s] > 0
                          /\ t.status[s] = "all_in" => t.stack[s] = 0
                          /\ t.street[s] <= t.hand[s]
  BY <1>3, <1>4
<1>7. \A s, u \in Active(t) : t.hand[s] - t.street[s] = t.hand[u] - t.street[u]
  BY <1>3, <1>4 DEF Active
<1>8. Live(t) = Seats /\ Live(t) # {}
  BY <1>4, SeatsAssumption DEF Live
<1> QED BY <1>5, <1>6, <1>7, <1>8 DEF TableInPlay, t

\* A new hand satisfies the invariant.
LEMMA InitInvariant == Init => IInv
<1> SUFFICES ASSUME Init PROVE IInv
  OBVIOUS
<1> DEFINE t == AfterForcedBets(betting, buyIn)
<1>1. betting \in Bettings /\ buyIn \in BuyIns
  BY DEF Init
<1>2. TableInPlay(t)
  BY <1>1, InitialTable
<1>5. ~OnlyOneLive(t)
  <2>1. Live(t) = Seats
    BY DEF Live, AfterForcedBets
  <2>2. Cardinality(Seats) = NumSeats
    <3>1. NumSeats \in Nat
      BY SeatsFinite
    <3> QED BY <3>1, FS_Interval DEF Seats
  <2>3. NumSeats # 1
    BY SeatsAssumption
  <2> QED BY <2>1, <2>2, <2>3 DEF OnlyOneLive
<1> HIDE DEF t
<1>3. CASE table = t /\ stage = "preflop" /\ currentSeat = PreflopFirstActor(betting, t)
  <2>1. PreflopFirstActor(betting, t) \in Seats \cup {0}
    BY SeatsAssumption, NextActorType
       DEF PreflopFirstActor, BigBlindSeat, SmallBlindSeat, NextSeat, Seats
  <2> QED BY <1>1, <1>2, <1>3, <1>5, <2>1 DEF IInv, TypeOK, TableInPlay, Stages
<1>4. CASE /\ \E rank \in [Live(t) -> Ranks] :
                  table = SettledByShowdown(ResetStreet(betting, t), rank)
           /\ stage = "finished" /\ currentSeat = 0
  <2>1. table \in TableType(table.stack)
    BY <1>1, <1>2, <1>4, SettledType
  <2>2. SettledTable(table)
    BY <1>2, <1>4, <1>5, ShowdownSettles
  <2> QED BY <1>1, <1>4, <2>1, <2>2 DEF IInv, TypeOK, Stages
<1> QED BY <1>3, <1>4 DEF Init, t

-----------------------------------------------------------------------------
(* The theorems.                                                           *)

\* No step breaks the invariant.
LEMMA NextInvariant == IInv /\ [Next]_vars => IInv'
<1> SUFFICES ASSUME IInv, [Next]_vars PROVE IInv'
  OBVIOUS
<1>1. CASE UNCHANGED vars
  <2>1. TypeOK'
    BY <1>1 DEF vars, IInv, TypeOK, TableType
  <2>2. /\ TableInPlay(table)' <=> TableInPlay(table)
        /\ OnlyOneLive(table)' <=> OnlyOneLive(table)
        /\ SettledTable(table)' <=> SettledTable(table)
    BY <1>1 DEF vars, TableInPlay, SettledTable, Gain
  <2>3. stage' = stage
    BY <1>1 DEF vars
  <2> QED BY <2>1, <2>2, <2>3 DEF IInv
<1>2. ASSUME NEW s \in Seats, Fold(s) PROVE IInv'
  BY <1>2, CanActFacts, FoldInPlay, AfterKeepsInvariant DEF Fold
<1>3. ASSUME NEW s \in Seats, Check(s) PROVE IInv'
  <2>1. CanAct(s) /\ After(Acting(table, s), s)
    BY <1>3 DEF Check
  <2>2. TableInPlay(Acting(table, s))
    BY <2>1, CanActFacts, ActedTypes, RoundInPlay DEF Acting
  <2> QED BY <2>1, <2>2, CanActFacts, AfterKeepsInvariant
<1>4. ASSUME NEW s \in Seats, Call(s) PROVE IInv'
  BY <1>4, CanActFacts, CalledInPlay, AfterKeepsInvariant DEF Call
<1>5. ASSUME NEW s \in Seats, AllIn(s) PROVE IInv'
  BY <1>5, CanActFacts, AllInInPlay, AfterKeepsInvariant DEF AllIn
<1>6. ASSUME NEW s \in Seats, NEW amount \in Amounts, Bet(s, amount) PROVE IInv'
  BY <1>6, RequestsAssumption, CanActFacts, BetInPlay, AfterKeepsInvariant DEF Bet
<1>7. ASSUME NEW s \in Seats, NEW amount \in Amounts, Raise(s, amount) PROVE IInv'
  BY <1>7, RequestsAssumption, CanActFacts, RaiseInPlay, AfterKeepsInvariant DEF Raise
<1> QED BY <1>1, <1>2, <1>3, <1>4, <1>5, <1>6, <1>7 DEF Next

\* The inductive invariant holds in every reachable state of a hand (New, Apply).
THEOREM Invariance == Spec => []IInv
BY InitInvariant, NextInvariant, PTL DEF Spec

\* The variables keep their types whatever commands and amounts Apply is sent:
\* no chips, bet or minimum raise below their range, no seat off the table.
THEOREM TypeCorrect == Spec => []TypeOK
<1>1. IInv => TypeOK
  BY DEF IInv
<1> QED BY <1>1, Invariance, PTL

\* Every chip is in a stack or in the pots until the settlement, for any
\* number of seats, stacks, blinds or antes and requests: no amount that
\* Apply accepts creates or loses a chip.
THEOREM ChipsAreBehind == Spec => []ChipsBehind
<1>1. IInv => ChipsBehind
  BY DEF IInv, TableInPlay, ChipsBehind
<1> QED BY <1>1, Invariance, PTL

\* A street closes only on equal stakes.
THEOREM StakesAreEqual == Spec => []EqualStakes
<1>1. IInv => EqualStakes
  BY DEF IInv, TableInPlay, EqualStakes
<1> QED BY <1>1, Invariance, PTL

-----------------------------------------------------------------------------
(* The settlement.                                                         *)

\* A settled hand: each seat has gained a natural number, and all together
\* what they put in but for the pots nobody competes for.
LEMMA SettledSums ==
    ASSUME IInv, stage = "finished"
    PROVE  /\ Live(table) # {}
           /\ table.hand \in [Seats -> Nat]
           /\ UnclaimedTotal \in Nat
           /\ SumFunctionOnSet([s \in Seats |-> Won(s)], Seats)
                  = SumFunctionOnSet(table.hand, Seats) - UnclaimedTotal
           /\ \A s \in Seats : /\ Won(s) \in Nat
                               /\ s \notin Live(table) => Won(s) = 0
                               /\ table.hand[s] <= buyIn[s]
<1>1. SettledTable(table) /\ table.hand \in [Seats -> Nat] /\ Live(table) # {}
  BY DEF IInv, TypeOK, TableType, SettledTable
<1>2. PICK won, hand : won = [s \in Seats |-> Won(s)] /\ hand = table.hand
  OBVIOUS
<1>3. \A s \in Seats : won[s] = Gain(table, s) /\ Won(s) = won[s]
  BY <1>2 DEF Won, Gain
<1>4. CASE OnlyOneLive(table)
  <2>1. PICK total : total = PotTotal(PotsOf(table))
    OBVIOUS
  <2>2. total \in Nat /\ total = SumFunctionOnSet(hand, Seats)
    BY <1>1, <1>2, <2>1, PotsOfTable
  <2>3. \A s \in Seats : won[s] = IF s \in Live(table) THEN total ELSE 0
    BY <1>1, <1>3, <1>4, <2>1 DEF SettledTable
  <2>4. PICK w \in Seats : Live(table) = {w}
    <3>1. IsFiniteSet(Live(table)) /\ Live(table) \subseteq Seats
      BY <1>1, LiveCount
    <3>2. \E w : Live(table) = {w}
      BY <1>4, <3>1, FS_Singleton DEF OnlyOneLive
    <3> QED BY <3>1, <3>2
  <2>5. \A s \in Seats : won[s] \in Nat /\ won[s] \in Int
    BY <2>2, <2>3
  <2>6. SumFunctionOnSet(won, Seats) = SumFunctionOnSet(won, {w})
    <3>1. {w} \subseteq Seats /\ \A s \in Seats \ {w} : won[s] = 0
      BY <2>3, <2>4
    <3> QED BY <2>5, <3>1, SeatsFinite, SumPart
  <2>7. SumFunctionOnSet(won, {w}) = total
    BY <2>2, <2>3, <2>4, <2>5, SumOne
  <2>8. UnclaimedTotal = 0
    BY <1>4 DEF UnclaimedTotal, OnlyOneLive
  <2> QED BY <1>1, <1>2, <1>3, <2>2, <2>3, <2>5, <2>6, <2>7, <2>8 DEF SettledTable
<1>5. CASE ~OnlyOneLive(table)
  <2>1. PICK rank \in [Live(table) -> Ranks] :
            \A s \in Seats : won[s] = AwardTo(PotsOf(table), rank, Button, NumSeats, s)
    BY <1>1, <1>3, <1>5 DEF SettledTable
  <2>2. \A s \in Seats : won[s] \in Nat /\ (s \notin Live(table) => won[s] = 0)
    BY <1>1, <2>1, AwardsOfTable
  <2>3. PICK live, L : live = Live(table) /\ L = Levels(hand)
    OBVIOUS
  <2>4. /\ live \subseteq Seats /\ IsFiniteSet(Seats) /\ hand \in [Seats -> Nat]
        /\ \A s \in live : rank[s] \in Int
    <3>1. live \subseteq Seats
      BY <2>3 DEF Live
    <3>2. \A s \in live : rank[s] \in Int
      BY <2>3, RanksAreIntegers
    <3> QED BY <1>1, <1>2, <3>1, <3>2, SeatsFinite
  <2>5. PICK claimed : claimed = Claimed(hand, live)
    OBVIOUS
  <2>6. SumFunctionOnSet(won, Seats) = SumFunctionOnSet(claimed, L)
    <3>1. \A s \in Seats : won[s] = AwardTo(Build(hand, live), rank, Button, NumSeats, s)
      BY <1>2, <2>1, <2>3 DEF PotsOf
    <3> QED BY <2>3, <2>4, <2>5, <3>1, SeatsFinite, AwardsExact
  <2>7. PICK amounts, lost, P :
            /\ amounts = [x \in L |-> PotsOf(table)[x].amount]
            /\ lost = [x \in L |-> IF Unclaimed(x) THEN amounts[x] ELSE 0]
            /\ P = {x \in L : Unclaimed(x)}
    OBVIOUS
  <2>8. /\ DOMAIN PotsOf(table) = L /\ IsFiniteSet(L) /\ IsFiniteSet(P)
        /\ \A x \in L : /\ amounts[x] = PotAmount(hand, x) /\ amounts[x] \in Nat
                        /\ Unclaimed(x) <=> Eligible(hand, live, x) = {}
    <3>1. PotsOf(table) = Build(hand, live)
      BY <1>2, <2>3 DEF PotsOf
    <3>2. IsFiniteSet(L)
      BY <2>3, <2>4, LevelsFinite
    <3>3. IsFiniteSet(P)
      BY <2>7, <3>2, FS_Subset
    <3>4. \A x \in Levels(hand) : /\ Build(hand, live)[x].amount = PotAmount(hand, x)
                                  /\ Build(hand, live)[x].amount \in Nat
      BY <2>4, BuildIs
    <3>5. \A x \in Levels(hand) : Build(hand, live)[x].eligible = Eligible(hand, live, x)
      BY DEF Build
    <3>6. DOMAIN Build(hand, live) = Levels(hand)
      BY DEF Build
    <3> QED BY <2>3, <2>7, <3>1, <3>2, <3>3, <3>4, <3>5, <3>6 DEF Unclaimed
  <2>9. \A x \in L : /\ claimed[x] \in Int /\ lost[x] \in Int /\ lost[x] \in Nat
                     /\ amounts[x] = claimed[x] + lost[x]
                     /\ PotAmounts(hand)[x] = amounts[x] /\ amounts[x] \in Int
    BY <2>3, <2>5, <2>7, <2>8 DEF Claimed, PotAmounts
  <2>10. SumFunctionOnSet(amounts, L) = SumFunctionOnSet(claimed, L) + SumFunctionOnSet(lost, L)
    BY <2>8, <2>9, SumPlus
  <2>11. SumFunctionOnSet(amounts, L) = SumFunctionOnSet(hand, Seats)
    <3>1. PICK a : a = PotAmounts(hand)
      OBVIOUS
    <3>2. SumFunctionOnSet(amounts, L) = SumFunctionOnSet(a, L)
      BY <2>8, <2>9, <3>1, SumEqual
    <3> QED BY <2>3, <2>4, <3>1, <3>2, PotsHoldCommitted
  <2>12. SumFunctionOnSet(lost, L) = UnclaimedTotal /\ UnclaimedTotal \in Nat
    <3>1. P \subseteq L /\ \A x \in L \ P : lost[x] = 0
      BY <2>7
    <3>2. SumFunctionOnSet(lost, L) = SumFunctionOnSet(lost, P)
      BY <2>8, <2>9, <3>1, SumPart
    <3>3. \A x \in P : lost[x] \in Int /\ amounts[x] = lost[x]
      BY <2>7, <2>9
    <3>4. SumFunctionOnSet(lost, P) = SumFunctionOnSet(amounts, P)
      BY <2>8, <3>3, SumEqual
    <3>5. UnclaimedTotal = SumFunctionOnSet(amounts, P)
      BY <1>5, <2>7, <2>8 DEF UnclaimedTotal, OnlyOneLive
    <3>6. SumFunctionOnSet(lost, L) \in Nat
      BY <2>8, <2>9, SumNatural
    <3> QED BY <3>2, <3>4, <3>5, <3>6
  <2>13. SumFunctionOnSet(claimed, L) \in Int
    BY <2>8, <2>9, SumType
  <2> QED BY <1>1, <1>2, <1>3, <2>2, <2>6, <2>10, <2>11, <2>12, <2>13 DEF SettledTable
<1> QED BY <1>4, <1>5

\* The settlement pays out what the seats put in, to the chip, but for the
\* pots of a showdown nobody is eligible for: for any number of seats and any
\* contributions, odd chips included.
THEOREM SettlementIsExact == Spec => []SettlementExact
<1>1. ASSUME IInv PROVE SettlementExact
  <2>1. ASSUME stage = "finished"
        PROVE  SumFunction([s \in Seats |-> Won(s)]) = SumFunction(table.hand) - UnclaimedTotal
    <3>1. PICK won, hand : won = [s \in Seats |-> Won(s)] /\ hand = table.hand
      OBVIOUS
    <3>2. DOMAIN won = Seats /\ DOMAIN hand = Seats
      BY <1>1, <2>1, <3>1, SettledSums
    <3>3. SumFunctionOnSet(won, Seats) = SumFunctionOnSet(hand, Seats) - UnclaimedTotal
      BY <1>1, <2>1, <3>1, SettledSums
    <3> QED BY <3>1, <3>2, <3>3 DEF SumFunction
  <2> QED BY <2>1 DEF SettlementExact
<1> QED BY <1>1, Invariance, PTL

\* Nobody wins chips after folding, and at a showdown nobody wins from a seat
\* more than it has put in itself.
THEOREM SidePotsAreFair == Spec => []SidePotRule
<1>1. ASSUME IInv PROVE SidePotRule
  <2> SUFFICES ASSUME stage = "finished", NEW s \in Seats
               PROVE  /\ Won(s) >= 0
                      /\ table.status[s] = "folded" => Won(s) = 0
                      /\ Cardinality(Live(table)) > 1 =>
                             Won(s) <= SumFunction([u \in Seats |-> Smaller(table.hand[u], table.hand[s])])
    BY DEF SidePotRule
  <2>1. /\ Won(s) \in Nat /\ Live(table) # {} /\ table.hand \in [Seats -> Nat]
        /\ s \notin Live(table) => Won(s) = 0
    BY <1>1, SettledSums
  <2>2. table.status[s] = "folded" => s \notin Live(table)
    BY DEF Live
  <2>3. ASSUME Cardinality(Live(table)) > 1
        PROVE  Won(s) <= SumFunction([u \in Seats |-> Smaller(table.hand[u], table.hand[s])])
    <3>1. ~OnlyOneLive(table)
      BY <2>1, <2>3, LiveCount
    <3>2. PICK rank \in [Live(table) -> Ranks] :
              Won(s) = AwardTo(PotsOf(table), rank, Button, NumSeats, s)
      BY <1>1, <3>1 DEF IInv, SettledTable, Won, Gain
    <3>3. Won(s) <= SumFunctionOnSet(Capped(table.hand, table.hand[s]), Seats)
      BY <2>1, <3>2, AwardsOfTable
    <3>4. Capped(table.hand, table.hand[s]) = [u \in Seats |-> Smaller(table.hand[u], table.hand[s])]
      BY <2>1 DEF Capped, Smaller
    <3> QED BY <3>3, <3>4 DEF SumFunction
  <2> QED BY <2>1, <2>2, <2>3
<1> QED BY <1>1, Invariance, PTL

-----------------------------------------------------------------------------
(* The contract with the room.                                             *)

Profit == [s \in Seats |-> IF stage = "finished" THEN table.stack[s] - buyIn[s] ELSE 0]

ProfitSettles == /\ Profit \in [Seats -> Int]
                 /\ \A s \in Seats : Profit[s] >= -buyIn[s]
                 /\ SumFunction(Profit) <= 0

\* The chips won less the chips put in are a settlement the room may rely on.
LEMMA SettledProfit == IInv /\ stage = "finished" => ProfitSettles
<1> SUFFICES ASSUME IInv, stage = "finished" PROVE ProfitSettles
  OBVIOUS
<1>1. PICK p, won, hand : /\ p = Profit /\ won = [s \in Seats |-> Won(s)]
                          /\ hand = table.hand
  OBVIOUS
<1>2. ASSUME NEW s \in Seats
      PROVE  /\ won[s] \in Int /\ hand[s] \in Int /\ p[s] \in Int
             /\ won[s] = p[s] + hand[s]
             /\ p[s] >= -buyIn[s]
  <2>1. /\ won[s] \in Nat /\ hand[s] \in Nat /\ hand[s] <= buyIn[s]
        /\ buyIn[s] \in Nat
    BY <1>1, SettledSums, BuyInsAssumption DEF IInv, TypeOK
  <2>2. won[s] = table.stack[s] + hand[s] - buyIn[s] /\ p[s] = table.stack[s] - buyIn[s]
    BY <1>1 DEF Won, Profit
  <2>3. table.stack[s] \in Int
    BY DEF IInv, SettledTable
  <2> QED BY <2>1, <2>2, <2>3
<1>3. SumFunctionOnSet(won, Seats) = SumFunctionOnSet(p, Seats) + SumFunctionOnSet(hand, Seats)
  BY <1>2, SeatsFinite, SumPlus
<1>4. /\ SumFunctionOnSet(won, Seats) = SumFunctionOnSet(hand, Seats) - UnclaimedTotal
      /\ UnclaimedTotal \in Nat
  BY <1>1, SettledSums
<1>5. SumFunctionOnSet(p, Seats) \in Int /\ SumFunctionOnSet(hand, Seats) \in Int
  BY <1>2, SeatsFinite, SumType
<1>6. DOMAIN p = Seats /\ p = [s \in Seats |-> p[s]]
  BY <1>1 DEF Profit
<1> QED BY <1>1, <1>2, <1>3, <1>4, <1>5, <1>6 DEF SumFunction, ProfitSettles

\* A hand that a step has settled is settled to the chip.
LEMMA SettledProfitNext == IInv' /\ (stage = "finished")' => ProfitSettles'
BY SettledProfit, PTL

\* The contract's sum is the sum.
LEMMA ContractSum == \A f : Contract!SumFunction(f) = SumFunction(f)
BY DEF Contract!SumFunction, Contract!SumFunctionOnSet, Contract!FoldFunctionOnSet,
       Contract!MapThenFoldSet, SumFunction, SumFunctionOnSet, FoldFunctionOnSet, MapThenFoldSet

\* A new hand is an open one of the contract.
LEMMA ContractInit == Init /\ IInv => Contract!Init
<1> SUFFICES ASSUME Init, IInv PROVE Contract!Init
  OBVIOUS
<1>1. buyIn \in [Seats -> Nat \ {0}]
  BY BuyInsAssumption DEF IInv, TypeOK
<1>2. CASE stage # "finished"
  BY <1>1, <1>2 DEF Contract!Init
<1>3. CASE stage = "finished"
  BY <1>1, <1>3, SettledProfit, ContractSum
     DEF Contract!Init, Contract!Settlement, Profit, ProfitSettles
<1> QED BY <1>2, <1>3

\* Every step of the hand is a settlement or leaves what the room sees alone.
LEMMA ContractStep == IInv /\ IInv' /\ [Next]_vars => [Contract!Next]_(Contract!vars)
<1> SUFFICES ASSUME IInv, IInv', [Next]_vars PROVE [Contract!Next]_(Contract!vars)
  OBVIOUS
<1>1. CASE UNCHANGED vars
  BY <1>1 DEF vars, Contract!vars
<1>2. CASE Next
  <2>1. stage # "finished" /\ buyIn' = buyIn
    BY <1>2 DEF Next, Fold, Check, Call, Bet, Raise, AllIn, CanAct, After
  <2>2. CASE stage' # "finished"
    BY <2>1, <2>2 DEF Contract!vars
  <2>3. CASE stage' = "finished"
    <3>1. ProfitSettles'
      BY <2>3, SettledProfitNext
    <3> QED BY <2>1, <2>3, <3>1, ContractSum
            DEF Contract!Next, Contract!Settle, Contract!Settlement, Profit, ProfitSettles
  <2> QED BY <2>2, <2>3
<1> QED BY <1>1, <1>2

\* The hand implements its contract: it is settled once, by profits that no
\* stack can fail to cover and that create no chips.
THEOREM KeepsContract == Spec => ImplementsContract
<1>1. Spec => []IInv
  BY Invariance
<1> QED BY <1>1, ContractInit, ContractStep, PTL DEF Spec, ImplementsContract, Contract!Spec

-----------------------------------------------------------------------------
(* Turns and payments: what a command does to the table, of which the tail *)
(* of Apply keeps the commitments and the statuses.                        *)

\* Nobody has put in more than a full raise would ask for, and no bet stands
\* when nobody has put in anything.  It makes the amounts that the controls
\* offer come to at least what the seat has put in.
StreetsBounded(t) ==
    \A u \in Seats : /\ t.street[u] <= t.bet + t.minRaise
                     /\ t.bet = 0 => t.street[u] = 0

CommandEffect(t, s) ==
    /\ \A u \in Seats \ {s} : /\ t.hand[u] = table.hand[u]
                              /\ t.status[u] = table.status[u]
                              /\ t.acted[u] => table.acted[u]
    /\ t.bet - table.bet >= table.minRaise => \A u \in Active(t) \ {s} : ~t.acted[u]
    /\ Guided /\ StreetsBounded(table) => t.hand[s] >= table.hand[s] /\ StreetsBounded(t)

\* What a payment changes.
LEMMA CommitIs ==
    ASSUME IInv, NEW s \in Seats, CanAct(s), NEW amount \in Int,
           NEW t, t = Commit(table, s, amount)
    PROVE  \E paid \in Int :
               /\ paid = Smaller(amount, table.stack[s])
               /\ t.hand[s] = table.hand[s] + paid /\ t.street[s] = table.street[s] + paid
               /\ \A u \in Seats \ {s} : /\ t.hand[u] = table.hand[u]
                                         /\ t.status[u] = table.status[u]
                                         /\ t.street[u] = table.street[u]
               /\ t.acted = table.acted /\ t.bet = table.bet /\ t.minRaise = table.minRaise
<1>1. PICK paid : paid = Smaller(amount, table.stack[s])
  OBVIOUS
<1>2. paid \in Int
  BY <1>1, CanActFacts DEF Smaller
<1>3. t = Pay(table, s, paid)
  BY <1>1 DEF Commit
<1>4. TableInPlay(table)
  BY CanActFacts
<1> QED BY <1>1, <1>2, <1>3, <1>4 DEF Pay, WithChips, TableInPlay, TableType

\* Only the acting seat is marked.
LEMMA ActedTooIs ==
    ASSUME IInv, NEW s \in Seats, CanAct(s), NEW t, t.acted = table.acted
    PROVE  \A u \in Seats \ {s} : ActedToo(t, s)[u] = table.acted[u]
BY CanActFacts DEF ActedToo, TableInPlay, TableType

\* Only the acting seat and those that cannot act are marked.
LEMMA ActedAloneIs ==
    ASSUME NEW s \in Seats, NEW t, t.acted = table.acted
    PROVE  \A u \in Seats \ {s} : /\ ActedAlone(t, s)[u] => table.acted[u]
                                  /\ u \in Active(t) => ~ActedAlone(t, s)[u]
BY DEF ActedAlone

\* Commands that leave the bet alone.
LEMMA PassiveEffect ==
    ASSUME IInv, NEW s \in Seats, CanAct(s), NEW t,
           t.acted = table.acted, t.bet = table.bet, t.minRaise = table.minRaise,
           t.hand[s] >= table.hand[s], t.street[s] \in Int,
           t.street[s] <= table.street[s] \/ (table.bet > 0 /\ t.street[s] <= table.bet),
           \A u \in Seats \ {s} : /\ t.hand[u] = table.hand[u]
                                  /\ t.status[u] = table.status[u]
                                  /\ t.street[u] = table.street[u],
           StreetsBounded(table) => t.street[s] >= 0
    PROVE  CommandEffect(Acting(t, s), s)
<1>1. PICK u : u = Acting(t, s)
  OBVIOUS
<1>2. /\ u.hand = t.hand /\ u.status = t.status /\ u.street = t.street
      /\ u.acted = ActedToo(t, s) /\ u.bet = table.bet /\ u.minRaise = table.minRaise
  BY <1>1 DEF Acting, WithRound
<1>3. \A v \in Seats \ {s} : /\ u.hand[v] = table.hand[v]
                             /\ u.status[v] = table.status[v]
                             /\ u.acted[v] => table.acted[v]
  BY <1>2, ActedTooIs
<1>4. table.bet \in Nat /\ table.minRaise \in Nat \ {0} /\ table.street[s] \in Nat
  BY CanActFacts
<1>5. ~(u.bet - table.bet >= table.minRaise)
  BY <1>2, <1>4
<1>6. ASSUME StreetsBounded(table) PROVE StreetsBounded(u)
  <2>1. \A v \in Seats : table.street[v] <= table.bet + table.minRaise
                         /\ (table.bet = 0 => table.street[v] = 0)
    BY <1>6 DEF StreetsBounded
  <2>2. u.street[s] <= table.bet + table.minRaise /\ (table.bet = 0 => u.street[s] = 0)
    BY <1>2, <1>4, <1>6, <2>1
  <2>3. \A v \in Seats \ {s} : u.street[v] = table.street[v]
    BY <1>2
  <2> QED BY <1>2, <2>1, <2>2, <2>3 DEF StreetsBounded
<1> QED BY <1>1, <1>2, <1>3, <1>5, <1>6 DEF CommandEffect

\* The effect of a fold.
LEMMA FoldEffect ==
    ASSUME IInv, NEW s \in Seats, CanAct(s)
    PROVE  CommandEffect(Folded(s), s)
<1>1. PICK t : t = WithChips(table, table.stack, [table.status EXCEPT ![s] = "folded"],
                             table.street, table.hand)
  OBVIOUS
<1>2. /\ t.acted = table.acted /\ t.bet = table.bet /\ t.minRaise = table.minRaise
      /\ t.hand = table.hand /\ t.street = table.street
      /\ t.status = [table.status EXCEPT ![s] = "folded"]
  BY <1>1 DEF WithChips
<1>3. /\ table.hand[s] \in Nat /\ table.street[s] \in Nat
      /\ \A u \in Seats \ {s} : t.status[u] = table.status[u]
  BY <1>2, CanActFacts DEF TableInPlay, TableType
<1> QED BY <1>1, <1>2, <1>3, PassiveEffect DEF Folded

\* The effect of a check.
LEMMA CheckEffect ==
    ASSUME IInv, NEW s \in Seats, CanAct(s)
    PROVE  CommandEffect(Acting(table, s), s)
<1>1. table.hand[s] \in Nat /\ table.street[s] \in Nat
  BY CanActFacts DEF TableInPlay, TableType
<1> QED BY <1>1, PassiveEffect

\* The effect of a call.
LEMMA CallEffect ==
    ASSUME IInv, NEW s \in Seats, CanAct(s), table.bet > table.street[s]
    PROVE  CommandEffect(Called(s), s)
<1>1. PICK t : t = Commit(table, s, Missing(s, table.bet))
  OBVIOUS
<1>2. /\ table.hand[s] \in Nat /\ table.street[s] \in Nat
      /\ table.stack[s] \in Nat /\ table.bet \in Nat
  BY CanActFacts DEF TableInPlay, TableType
<1>3. Missing(s, table.bet) = table.bet - table.street[s]
      /\ Missing(s, table.bet) \in Int
  BY <1>2 DEF Missing
<1>4. PICK paid \in Int :
          /\ paid = Smaller(Missing(s, table.bet), table.stack[s])
          /\ t.hand[s] = table.hand[s] + paid /\ t.street[s] = table.street[s] + paid
          /\ \A u \in Seats \ {s} : /\ t.hand[u] = table.hand[u]
                                    /\ t.status[u] = table.status[u]
                                    /\ t.street[u] = table.street[u]
          /\ t.acted = table.acted /\ t.bet = table.bet /\ t.minRaise = table.minRaise
  BY <1>1, <1>3, CommitIs
<1>5. paid >= 0 /\ paid <= table.bet - table.street[s]
  BY <1>2, <1>3, <1>4 DEF Smaller
<1>6. /\ t.hand[s] >= table.hand[s] /\ t.street[s] \in Int /\ t.street[s] >= 0
      /\ table.bet > 0 /\ t.street[s] <= table.bet
  BY <1>2, <1>4, <1>5
<1> QED BY <1>1, <1>4, <1>6, PassiveEffect DEF Called

\* Commands that may change the bet.
LEMMA ActiveEffect ==
    ASSUME IInv, NEW s \in Seats, CanAct(s), NEW t, t.acted = table.acted,
           \A u \in Seats \ {s} : /\ t.hand[u] = table.hand[u]
                                  /\ t.status[u] = table.status[u],
           NEW acted, NEW bet, NEW minRaise,
           \/ acted = ActedAlone(t, s)
           \/ acted = ActedToo(t, s) /\ ~(bet - table.bet >= table.minRaise),
           Guided /\ StreetsBounded(table) =>
               /\ t.hand[s] >= table.hand[s]
               /\ bet # 0 /\ \A u \in Seats : t.street[u] <= bet + minRaise
    PROVE  CommandEffect(WithRound(t, acted, bet, minRaise), s)
<1>1. PICK r : r = WithRound(t, acted, bet, minRaise)
  OBVIOUS
<1>2. /\ r.hand = t.hand /\ r.status = t.status /\ r.street = t.street
      /\ r.acted = acted /\ r.bet = bet /\ r.minRaise = minRaise
  BY <1>1 DEF WithRound
<1>3. \A u \in Seats \ {s} : acted[u] => table.acted[u]
  BY ActedTooIs, ActedAloneIs
<1>4. ASSUME r.bet - table.bet >= table.minRaise, NEW u \in Active(r) \ {s}
      PROVE  ~r.acted[u]
  <2>1. acted = ActedAlone(t, s)
    BY <1>2, <1>4
  <2>2. u \in Active(t) /\ u \in Seats \ {s}
    BY <1>2 DEF Active
  <2> QED BY <1>2, <2>1, <2>2, ActedAloneIs
<1>5. Guided /\ StreetsBounded(table) => r.hand[s] >= table.hand[s] /\ StreetsBounded(r)
  BY <1>2 DEF StreetsBounded
<1> QED BY <1>1, <1>2, <1>3, <1>4, <1>5 DEF CommandEffect

\* The effect of a bet.
LEMMA BetEffect ==
    ASSUME IInv, NEW s \in Seats, CanAct(s), NEW amount \in Int, table.bet = 0,
           amount >= MinimumOpenBet(betting)
    PROVE  CommandEffect(WithBet(s, amount), s)
<1>1. PICK t : t = Commit(table, s, amount)
  OBVIOUS
<1>2. /\ table.hand[s] \in Nat /\ table.street[s] \in Nat /\ table.stack[s] \in Nat
      /\ table.stack[s] > 0
      /\ \A u \in Seats : table.street[u] \in Nat
  BY CanActFacts DEF TableInPlay, TableType
<1>3. amount > 0
  BY CanActFacts, BettingsAssumption DEF MinimumOpenBet, BlindsStructures, AnteStructures
<1>4. PICK paid \in Int :
          /\ paid = Smaller(amount, table.stack[s])
          /\ t.hand[s] = table.hand[s] + paid /\ t.street[s] = table.street[s] + paid
          /\ \A u \in Seats \ {s} : /\ t.hand[u] = table.hand[u]
                                    /\ t.status[u] = table.status[u]
                                    /\ t.street[u] = table.street[u]
          /\ t.acted = table.acted /\ t.bet = table.bet /\ t.minRaise = table.minRaise
  BY <1>1, CommitIs
<1>5. paid > 0
  BY <1>2, <1>3, <1>4 DEF Smaller
<1>6. PICK bet : bet = t.street[s]
  OBVIOUS
<1>7. ASSUME StreetsBounded(table)
      PROVE  /\ t.hand[s] >= table.hand[s] /\ bet # 0
             /\ \A u \in Seats : t.street[u] <= bet + amount
  <2>1. \A u \in Seats : table.street[u] = 0
    BY <1>7 DEF StreetsBounded
  <2>2. bet = paid /\ t.hand[s] = table.hand[s] + paid
    BY <1>4, <1>6, <2>1
  <2>3. \A u \in Seats \ {s} : t.street[u] = 0
    BY <1>4, <2>1
  <2>4. bet # 0 /\ t.hand[s] >= table.hand[s] /\ bet <= bet + amount /\ 0 <= bet + amount
    BY <1>2, <1>3, <1>5, <2>2
  <2> QED BY <1>6, <2>3, <2>4
<1>8. CommandEffect(WithRound(t, ActedAlone(t, s), bet, amount), s)
  BY <1>4, <1>7, ActiveEffect
<1> QED BY <1>1, <1>6, <1>8 DEF WithBet

\* The effect of a raise.
LEMMA RaiseEffect ==
    ASSUME IInv, NEW s \in Seats, CanAct(s), NEW amount \in Int, amount > table.bet,
           Requested(s, "raise", amount)
    PROVE  CommandEffect(Raised(s, amount), s)
<1>1. PICK t, raiseBy : /\ t = Commit(table, s, Missing(s, amount))
                        /\ raiseBy = amount - table.bet
  OBVIOUS
<1>2. /\ table.hand[s] \in Nat /\ table.street[s] \in Nat /\ table.stack[s] \in Nat
      /\ table.bet \in Nat /\ table.minRaise \in Nat \ {0}
      /\ \A u \in Seats : table.street[u] \in Nat
  BY CanActFacts DEF TableInPlay, TableType
<1>3. Missing(s, amount) = amount - table.street[s] /\ Missing(s, amount) \in Int
  BY <1>2 DEF Missing
<1>4. PICK paid \in Int :
          /\ paid = Smaller(Missing(s, amount), table.stack[s])
          /\ t.hand[s] = table.hand[s] + paid /\ t.street[s] = table.street[s] + paid
          /\ \A u \in Seats \ {s} : /\ t.hand[u] = table.hand[u]
                                    /\ t.status[u] = table.status[u]
                                    /\ t.street[u] = table.street[u]
          /\ t.acted = table.acted /\ t.bet = table.bet /\ t.minRaise = table.minRaise
  BY <1>1, <1>3, CommitIs
<1>5. PICK bet : bet = t.street[s]
  OBVIOUS
<1>6. bet \in Int /\ bet <= amount /\ raiseBy \in Int
  BY <1>1, <1>2, <1>3, <1>4, <1>5 DEF Smaller
\* The controls offer no more than the stack and no less than has been put in.
<1>7. ASSUME Guided, StreetsBounded(table)
      PROVE  /\ t.hand[s] >= table.hand[s] /\ bet = amount
             /\ \A u \in Seats : t.street[u] <= table.bet + table.minRaise \/ t.street[u] = amount
  <2>1. /\ amount <= table.street[s] + table.stack[s]
        /\ amount >= Smaller(table.bet + table.minRaise, table.street[s] + table.stack[s])
    <3>1. amount \in ControlBounds(s, "raise")
      BY <1>7 DEF Requested
    <3>2. ControlBounds(s, "raise") = Smaller(table.bet + table.minRaise, table.street[s] + table.stack[s])
                                          ..(table.street[s] + table.stack[s])
      BY DEF ControlBounds
    <3>3. Smaller(table.bet + table.minRaise, table.street[s] + table.stack[s]) \in Int
      BY <1>2 DEF Smaller
    <3> QED BY <1>2, <3>1, <3>2, <3>3
  <2>2. \A u \in Seats : table.street[u] <= table.bet + table.minRaise
    BY <1>7 DEF StreetsBounded
  <2>3. amount >= table.street[s]
    BY <1>2, <2>1, <2>2 DEF Smaller
  <2>4. paid = amount - table.street[s] /\ paid >= 0
    BY <1>2, <1>3, <1>4, <2>1, <2>3 DEF Smaller
  <2>5. bet = amount /\ t.hand[s] >= table.hand[s]
    BY <1>2, <1>4, <1>5, <2>4
  <2> QED BY <1>4, <1>5, <2>2, <2>5
<1>8. CASE raiseBy >= table.minRaise
  <2>1. Guided /\ StreetsBounded(table) =>
            /\ t.hand[s] >= table.hand[s]
            /\ bet # 0 /\ \A u \in Seats : t.street[u] <= bet + raiseBy
    BY <1>1, <1>2, <1>4, <1>6, <1>7, <1>8
  <2>2. CommandEffect(WithRound(t, ActedAlone(t, s), bet, raiseBy), s)
    BY <1>4, <2>1, ActiveEffect
  <2> QED BY <1>1, <1>4, <1>5, <1>8, <2>2 DEF Raised
<1>9. CASE ~(raiseBy >= table.minRaise)
  <2>1. Guided /\ StreetsBounded(table) =>
            /\ t.hand[s] >= table.hand[s]
            /\ bet # 0 /\ \A u \in Seats : t.street[u] <= bet + t.minRaise
    BY <1>1, <1>2, <1>4, <1>6, <1>7, <1>9
  <2>2. ~(bet - table.bet >= table.minRaise)
    BY <1>1, <1>2, <1>6, <1>9
  <2>3. CommandEffect(WithRound(t, ActedToo(t, s), bet, t.minRaise), s)
    BY <1>4, <2>1, <2>2, ActiveEffect
  <2> QED BY <1>1, <1>4, <1>5, <1>9, <2>3 DEF Raised
<1> QED BY <1>8, <1>9

\* The effect of an all-in.
LEMMA AllInEffect ==
    ASSUME IInv, NEW s \in Seats, CanAct(s)
    PROVE  CommandEffect(PutAllIn(s), s)
<1>1. PICK t, allInTo, raiseBy : /\ t = Commit(table, s, table.stack[s])
                                 /\ allInTo = table.street[s] + table.stack[s]
                                 /\ raiseBy = allInTo - table.bet
  OBVIOUS
<1>2. /\ table.hand[s] \in Nat /\ table.street[s] \in Nat /\ table.stack[s] \in Nat
      /\ table.stack[s] > 0
      /\ table.bet \in Nat /\ table.minRaise \in Nat \ {0}
      /\ \A u \in Seats : table.street[u] \in Nat
  BY CanActFacts DEF TableInPlay, TableType
<1>3. PICK paid \in Int :
          /\ paid = Smaller(table.stack[s], table.stack[s])
          /\ t.hand[s] = table.hand[s] + paid /\ t.street[s] = table.street[s] + paid
          /\ \A u \in Seats \ {s} : /\ t.hand[u] = table.hand[u]
                                    /\ t.status[u] = table.status[u]
                                    /\ t.street[u] = table.street[u]
          /\ t.acted = table.acted /\ t.bet = table.bet /\ t.minRaise = table.minRaise
  BY <1>1, <1>2, CommitIs
<1>4. /\ t.street[s] = allInTo /\ t.hand[s] >= table.hand[s]
      /\ allInTo \in Nat \ {0} /\ raiseBy \in Int
  BY <1>1, <1>2, <1>3 DEF Smaller
<1>5. ASSUME StreetsBounded(table)
      PROVE  \A u \in Seats : t.street[u] <= table.bet + table.minRaise \/ t.street[u] = allInTo
  BY <1>3, <1>4, <1>5 DEF StreetsBounded
<1>6. CASE raiseBy >= table.minRaise
  <2>1. StreetsBounded(table) =>
            allInTo # 0 /\ \A u \in Seats : t.street[u] <= allInTo + raiseBy
    BY <1>1, <1>2, <1>3, <1>4, <1>5, <1>6
  <2>2. CommandEffect(WithRound(t, ActedAlone(t, s), allInTo, raiseBy), s)
    BY <1>3, <1>4, <2>1, ActiveEffect
  <2> QED BY <1>1, <1>6, <2>2 DEF PutAllIn
<1>7. CASE ~(raiseBy >= table.minRaise)
  <2>1. PICK bet : bet = IF raiseBy > 0 THEN allInTo ELSE table.bet
    OBVIOUS
  <2>2. StreetsBounded(table) =>
            bet # 0 /\ \A u \in Seats : t.street[u] <= bet + t.minRaise
    BY <1>1, <1>2, <1>3, <1>4, <1>5, <1>7, <2>1
  <2>3. ~(bet - table.bet >= table.minRaise)
    BY <1>1, <1>2, <1>4, <1>7, <2>1
  <2>4. CommandEffect(WithRound(t, ActedToo(t, s), bet, t.minRaise), s)
    BY <1>3, <1>4, <2>2, <2>3, ActiveEffect
  <2> QED BY <1>1, <1>3, <1>7, <2>1, <2>4 DEF PutAllIn
<1> QED BY <1>6, <1>7

\* Every command is of one seat and has such an effect.
LEMMA NextEffect ==
    ASSUME IInv, Next
    PROVE  \E s \in Seats : \E t : CanAct(s) /\ CommandEffect(t, s) /\ After(t, s)
<1>1. ASSUME NEW s \in Seats, Fold(s) PROVE CanAct(s) /\ CommandEffect(Folded(s), s) /\ After(Folded(s), s)
  BY <1>1, FoldEffect DEF Fold
<1>2. ASSUME NEW s \in Seats, Check(s) PROVE CanAct(s) /\ CommandEffect(Acting(table, s), s) /\ After(Acting(table, s), s)
  BY <1>2, CheckEffect DEF Check
<1>3. ASSUME NEW s \in Seats, Call(s) PROVE CanAct(s) /\ CommandEffect(Called(s), s) /\ After(Called(s), s)
  BY <1>3, CallEffect DEF Call
<1>4. ASSUME NEW s \in Seats, AllIn(s) PROVE CanAct(s) /\ CommandEffect(PutAllIn(s), s) /\ After(PutAllIn(s), s)
  BY <1>4, AllInEffect DEF AllIn
<1>5. ASSUME NEW s \in Seats, NEW amount \in Amounts, Bet(s, amount)
      PROVE  CanAct(s) /\ CommandEffect(WithBet(s, amount), s) /\ After(WithBet(s, amount), s)
  BY <1>5, RequestsAssumption, BetEffect DEF Bet
<1>6. ASSUME NEW s \in Seats, NEW amount \in Amounts, Raise(s, amount)
      PROVE  CanAct(s) /\ CommandEffect(Raised(s, amount), s) /\ After(Raised(s, amount), s)
  BY <1>6, RequestsAssumption, RaiseEffect DEF Raise
<1> QED BY <1>1, <1>2, <1>3, <1>4, <1>5, <1>6 DEF Next

\* The tail of Apply settles the hand, deals the next street, or passes the
\* turn; it changes no commitment and no status.
LEMMA AfterEffect ==
    ASSUME stage # "finished", NEW t, NEW s, After(t, s)
    PROVE  /\ table'.hand = t.hand /\ table'.status = t.status
           /\ \/ /\ stage' = "finished"
                 /\ OnlyOneLive(t) \/ Active(t) = {} \/ BettingRoundComplete(t)
              \/ BettingRoundComplete(t) /\ table' = ResetStreet(betting, t)
              \/ stage' = stage /\ table' = t
<1>1. CASE WinByFolds(t)
  BY <1>1 DEF WinByFolds, SettledByFolds, WithRound, Paying, WithChips
<1>2. CASE Showdown(t) /\ (NobodyCanAct(t) \/ BettingRoundComplete(t))
  BY <1>2 DEF Showdown, NobodyCanAct, SettledByShowdown, ResetStreet, WithRound, Paying, WithChips
<1>3. CASE BettingRoundComplete(t) /\ NextStreet(t)
  BY <1>3 DEF NextStreet, ResetStreet, WithRound, WithChips
<1>4. CASE NextActor(t, s)
  BY <1>4 DEF NextActor
<1> QED BY <1>1, <1>2, <1>3, <1>4 DEF After, AfterTable

\* Guided hands keep their streets bounded.
GuidedInv == Guided /\ IInv /\ (stage # "finished" => StreetsBounded(table))

ChipsStep ==
    \A s \in Seats : /\ table'.hand[s] >= table.hand[s]
                     /\ table.status[s] = "folded" => table'.status[s] = "folded"
                     /\ s # currentSeat => table'.hand[s] = table.hand[s]

\* A new hand satisfies the guided invariant.
LEMMA GuidedInit == Init /\ Guided => GuidedInv
<1> SUFFICES ASSUME Init, Guided PROVE GuidedInv
  OBVIOUS
<1>1. IInv
  BY InitInvariant
<1>2. PICK t : t = AfterForcedBets(betting, buyIn)
  OBVIOUS
<1>3. ASSUME NEW u \in Seats
      PROVE  /\ t.street[u] <= t.bet + t.minRaise
             /\ t.bet = 0 => t.street[u] = 0
  <2>1. /\ betting \in Bettings /\ buyIn \in BuyIns
        /\ betting \in BlindsStructures \cup AnteStructures
        /\ buyIn \in [Seats -> Nat \ {0}]
    BY BettingsAssumption, BuyInsAssumption DEF Init
  <2>2. PICK paid : paid = ForcedPaid(betting, buyIn, u)
    OBVIOUS
  <2>3. /\ t.street[u] = paid /\ t.bet = OpeningBet(betting, buyIn)
        /\ t.minRaise = MinimumOpenBet(betting)
    BY <1>2, <2>2 DEF AfterForcedBets
  <2>4. paid \in Nat /\ OpeningBet(betting, buyIn) \in Nat /\ MinimumOpenBet(betting) \in Nat \ {0}
    BY <2>1, <2>2, ForcedPaidType, OpeningBetType
       DEF MinimumOpenBet, BlindsStructures, AnteStructures
  <2>5. CASE betting.type = "ante"
    <3>1. paid <= OpeningBet(betting, buyIn)
      BY <2>1, <2>2, <2>5, OpeningBetType
    <3> QED BY <2>3, <2>4, <3>1
  <2>6. CASE betting.type # "ante"
    <3>1. betting \in BlindsStructures
      BY <2>1, <2>6 DEF AnteStructures
    <3>2. paid <= betting.bigBlind
      BY <2>1, <2>2, <2>6, <3>1 DEF ForcedPaid, ForcedBet, Smaller, BlindsStructures
    <3>3. BigBlindSeat \in Seats /\ BigBlindSeat # SmallBlindSeat
      BY SeatsAssumption DEF BigBlindSeat, SmallBlindSeat, NextSeat, Seats
    <3>4. ForcedPaid(betting, buyIn, BigBlindSeat) > 0
      BY <2>1, <2>6, <3>1, <3>3 DEF ForcedPaid, ForcedBet, Smaller, BlindsStructures
    <3>5. OpeningBet(betting, buyIn) > 0 /\ MinimumOpenBet(betting) = betting.bigBlind
      BY <2>6, <3>4 DEF OpeningBet, MinimumOpenBet
    <3> QED BY <2>3, <2>4, <3>1, <3>2, <3>5 DEF BlindsStructures
  <2> QED BY <2>5, <2>6
<1>4. stage # "finished" => table = t
  BY <1>2 DEF Init
<1> QED BY <1>1, <1>3, <1>4 DEF GuidedInv, StreetsBounded

\* No guided step breaks it, or takes committed chips back.
LEMMA GuidedNext == GuidedInv /\ [Next]_vars => GuidedInv' /\ [ChipsStep]_vars
<1> SUFFICES ASSUME GuidedInv, [Next]_vars PROVE GuidedInv' /\ [ChipsStep]_vars
  OBVIOUS
<1>1. IInv /\ IInv'
  BY NextInvariant DEF GuidedInv
<1>2. CASE UNCHANGED vars
  BY <1>1, <1>2 DEF vars, GuidedInv, StreetsBounded
<1>3. CASE Next
  <2>1. PICK s \in Seats : \E t : CanAct(s) /\ CommandEffect(t, s) /\ After(t, s)
    BY <1>1, <1>3, NextEffect
  <2>a. PICK t : CanAct(s) /\ CommandEffect(t, s) /\ After(t, s)
    BY <2>1
  <2>2. stage # "finished" /\ s = currentSeat /\ table.status[s] = "active"
    BY <2>a DEF CanAct
  <2>3. /\ t.hand[s] >= table.hand[s] /\ StreetsBounded(t)
        /\ \A u \in Seats \ {s} : t.hand[u] = table.hand[u] /\ t.status[u] = table.status[u]
    BY <2>a, <2>2 DEF CommandEffect, GuidedInv
  <2>4. /\ table'.hand = t.hand /\ table'.status = t.status
        /\ \/ stage' = "finished"
           \/ BettingRoundComplete(t) /\ table' = ResetStreet(betting, t)
           \/ stage' = stage /\ table' = t
    BY <2>a, <2>2, AfterEffect
  <2>5. \A u \in Seats : table.hand[u] \in Nat
    BY <1>1 DEF IInv, TypeOK, TableType
  <2>6. ChipsStep
    BY <2>2, <2>3, <2>4, <2>5 DEF ChipsStep
  <2>7. stage' # "finished" => StreetsBounded(table)'
    <3>1. CASE table' = ResetStreet(betting, t)
      <4>1. table'.bet = 0 /\ \A u \in Seats : table'.street[u] = 0
        BY <3>1 DEF ResetStreet, WithRound, WithChips, NoChips
      <4>2. table'.minRaise \in Nat
        BY <1>1 DEF IInv, TypeOK, TableType
      <4> QED BY <4>1, <4>2 DEF StreetsBounded
    <3>2. CASE table' = t
      BY <2>3, <3>2 DEF StreetsBounded
    <3> QED BY <2>4, <3>1, <3>2
  <2> QED BY <1>1, <2>6, <2>7 DEF GuidedInv
<1> QED BY <1>2, <1>3

\* Chips never come back from the pots before the settlement and a folded seat
\* stays folded, when the requests come from the table's controls.  An API
\* client can ask for less than its seat has put in.
THEOREM ChipsStayIn == Guided /\ Spec => CommittedChipsStay
<1>1. Guided /\ Spec => [][ChipsStep]_vars
  BY GuidedInit, GuidedNext, PTL DEF Spec
<1> QED BY <1>1 DEF CommittedChipsStay, ChipsStep

\* A seat that owes an action has not acted.
OwingInv == IInv /\ (stage # "finished" => \A u \in owing \cap Active(table) : ~table.acted[u])

SkipStep == stage' # stage /\ ~OnlyOneLive(table')
                => owing \cap Active(table') \subseteq {currentSeat}

\* Nobody is missed when the hand begins.
LEMMA OwingFirst == Init => OwingInv
<1> SUFFICES ASSUME Init PROVE OwingInv
  OBVIOUS
<1>1. stage # "finished" => table = AfterForcedBets(betting, buyIn)
  BY DEF Init
<1>2. \A u \in Seats : ~AfterForcedBets(betting, buyIn).acted[u]
  BY DEF AfterForcedBets
<1> QED BY <1>1, <1>2, InitInvariant DEF OwingInv, Active

\* No step misses a seat that owes an action.
LEMMA OwingStep ==
    OwingInv /\ [Next /\ OwingNext]_<<vars, owing>> => OwingInv' /\ [SkipStep]_<<vars, owing>>
<1> SUFFICES ASSUME OwingInv, [Next /\ OwingNext]_<<vars, owing>>
             PROVE  OwingInv' /\ [SkipStep]_<<vars, owing>>
  OBVIOUS
<1>1. IInv /\ IInv'
  BY NextInvariant DEF OwingInv
<1>2. CASE UNCHANGED <<vars, owing>>
  BY <1>1, <1>2 DEF vars, OwingInv, Active
<1>3. CASE Next /\ OwingNext
  <2>1. PICK s \in Seats : \E t : CanAct(s) /\ CommandEffect(t, s) /\ After(t, s)
    BY <1>1, <1>3, NextEffect
  <2>a. PICK t : CanAct(s) /\ CommandEffect(t, s) /\ After(t, s)
    BY <2>1
  <2>2. stage # "finished" /\ s = currentSeat
    BY <2>a DEF CanAct
  <2>3. /\ \A u \in Seats \ {s} : /\ t.status[u] = table.status[u]
                                  /\ t.acted[u] => table.acted[u]
        /\ t.bet - table.bet >= table.minRaise => \A u \in Active(t) \ {s} : ~t.acted[u]
    BY <2>a DEF CommandEffect
  <2>4. /\ table'.status = t.status
        /\ \/ /\ stage' = "finished"
              /\ OnlyOneLive(t) \/ Active(t) = {} \/ BettingRoundComplete(t)
           \/ BettingRoundComplete(t) /\ table' = ResetStreet(betting, t)
           \/ stage' = stage /\ table' = t
    BY <2>a, <2>2, AfterEffect
  <2>5. \A u \in (owing \cap Active(t)) \ {s} : ~t.acted[u]
    BY <2>2, <2>3 DEF OwingInv, Active
  <2>6. CASE /\ stage' = "finished"
             /\ OnlyOneLive(t) \/ Active(t) = {} \/ BettingRoundComplete(t)
    <3>1. Active(table') = Active(t) /\ (OnlyOneLive(table') <=> OnlyOneLive(t))
      BY <2>4 DEF Active, Live, OnlyOneLive
    <3>2. ~OnlyOneLive(t) => owing \cap Active(t) \subseteq {currentSeat}
      BY <2>2, <2>5, <2>6 DEF BettingRoundComplete
    <3> QED BY <1>1, <2>6, <3>1, <3>2 DEF OwingInv, SkipStep
  <2>7. CASE BettingRoundComplete(t) /\ table' = ResetStreet(betting, t)
    <3>1. owing \cap Active(table') \subseteq {currentSeat}
      BY <2>2, <2>4, <2>5, <2>7 DEF BettingRoundComplete, Active
    <3>2. \A u \in Seats : ~table'.acted[u]
      BY <2>7 DEF ResetStreet, WithRound, WithChips, NobodyActed
    <3> QED BY <1>1, <3>1, <3>2 DEF OwingInv, SkipStep, Active
  <2>8. CASE stage' = stage /\ table' = t
    <3>1. owing' = IF t.bet - table.bet >= table.minRaise THEN Active(t) \ {s} ELSE owing \ {s}
      BY <1>3, <2>2, <2>8 DEF OwingNext, FullRaise
    <3>2. \A u \in owing' \cap Active(t) : ~t.acted[u]
      BY <2>3, <2>5, <3>1
    <3> QED BY <1>1, <2>8, <3>2 DEF OwingInv, SkipStep
  <2> QED BY <2>4, <2>6, <2>7, <2>8
<1> QED BY <1>2, <1>3

\* No street closes, the river into the showdown included, before every seat
\* that can still act has had its turn since the last full raise, whatever is
\* requested.
THEOREM NobodyIsSkipped == OwingSpec => NobodySkipped
<1>1. OwingSpec => [][SkipStep]_<<vars, owing>>
  BY OwingFirst, OwingStep, PTL DEF OwingSpec
<1> QED BY <1>1 DEF NobodySkipped, SkipStep

-----------------------------------------------------------------------------
(* Hands between equal stacks.  Distances around the table come first.     *)

\* The distances around the table, without the remainder.
LEMMA DistanceIs ==
    ASSUME NEW s \in Seats, NEW u \in Seats
    PROVE  Distance(s, u) = IF u >= s THEN u - s ELSE u - s + NumSeats
<1>1. /\ NumSeats \in Nat \ {0} /\ s \in Int /\ u \in Int
      /\ 1 <= s /\ s <= NumSeats /\ 1 <= u /\ u <= NumSeats
  BY SeatsAssumption DEF Seats
<1>2. CASE u >= s
  <2>1. PICK m : m = u - s
    OBVIOUS
  <2>2. m \in 0..NumSeats-1
    BY <1>1, <1>2, <2>1
  <2>3. m % NumSeats = m
    BY <1>1, <2>2
  <2> QED BY <1>2, <2>1, <2>3 DEF Distance
<1>3. CASE ~ (u >= s)
  <2>1. PICK m : m = u - s
    OBVIOUS
  <2>2. m + NumSeats \in 0..NumSeats-1 /\ m \in Int
    BY <1>1, <1>3, <2>1
  <2>3. m % NumSeats = m + NumSeats
    BY <1>1, <2>2
  <2> QED BY <1>3, <2>1, <2>3 DEF Distance
<1> QED BY <1>2, <1>3

\* Seen from the next seat that is nearer, a seat is that much nearer, and the
\* seat left behind is the farthest.
LEMMA DistanceFrom ==
    ASSUME NEW s \in Seats, NEW a \in Seats \ {s}, NEW u \in Seats \ {s},
           Distance(s, a) <= Distance(s, u)
    PROVE  /\ Distance(a, u) = Distance(s, u) - Distance(s, a)
           /\ Distance(a, u) < Distance(a, s)
           /\ Distance(s, u) \in Int /\ Distance(s, a) \in Int /\ Distance(a, s) \in Int
<1>1. /\ NumSeats \in Nat \ {0} /\ s \in Int /\ u \in Int /\ a \in Int
      /\ 1 <= s /\ s <= NumSeats /\ 1 <= u /\ u <= NumSeats /\ 1 <= a /\ a <= NumSeats
      /\ s # a /\ s # u
  BY SeatsAssumption DEF Seats
<1>2. /\ Distance(s, a) = IF a >= s THEN a - s ELSE a - s + NumSeats
      /\ Distance(s, u) = IF u >= s THEN u - s ELSE u - s + NumSeats
      /\ Distance(a, u) = IF u >= a THEN u - a ELSE u - a + NumSeats
      /\ Distance(a, s) = IF s >= a THEN s - a ELSE s - a + NumSeats
  BY DistanceIs
<1> QED BY <1>1, <1>2

\* The next actor is the nearest active seat.
LEMMA NextActorIs ==
    ASSUME NEW t, NEW s \in Seats, Active(t) \ {s} # {}
    PROVE  /\ NextActorAfter(t, s) \in Active(t) \ {s}
           /\ \A v \in Active(t) \ {s} : Distance(s, NextActorAfter(t, s)) <= Distance(s, v)
<1> DEFINE others == Active(t) \ {s}
           distances == {Distance(s, u) : u \in others}
<1>1. distances \subseteq Nat /\ distances # {}
  BY SeatsAssumption DEF Active, Seats, Distance
<1>2. PICK d \in distances : \A e \in distances : d <= e
  <2> HIDE DEF distances
  <2> QED BY <1>1, LeastNatural
<1>3. \E u \in others : \A v \in others : Distance(s, u) <= Distance(s, v)
  BY <1>2
<1> QED BY <1>3 DEF NextActorAfter

\* Between equal stacks: what each live seat has in the street and behind it
\* comes to the same, since all put the same into the streets before; the bet is
\* no more than that and no less than anyone has put in.
EvenTable(t) ==
    /\ \A s, u \in Live(t) : t.hand[s] - t.street[s] = t.hand[u] - t.street[u]
    /\ \A s \in Live(t) : t.street[s] <= t.bet /\ t.bet <= t.street[s] + t.stack[s]

\* The seat to act is asked, and clockwise from it the seats that are asked come
\* before those that are not.  Without the order a turn could pass over a seat
\* that is asked to one that is not.
TurnsInOrder(t, seat) ==
    /\ seat \in Asked(t)
    /\ \A u \in Asked(t), v \in Active(t) :
           Distance(seat, v) <= Distance(seat, u) => v \in Asked(t)

\* The inductive invariant of a hand between equal stacks.
EvenInv == /\ IInv
           /\ EqualStacks /\ stage # "finished" =>
                  EvenTable(table) /\ TurnsInOrder(table, currentSeat)

\* What a command of seat s does between equal stacks.
EvenEffect(t, s) ==
    /\ EvenTable(t)
    /\ \A u \in Seats \ {s} : t.status[u] = table.status[u] /\ t.stack[u] = table.stack[u]
    /\ s \notin Asked(t)
    /\ Asked(t) = Asked(table) \ {s} \/ Asked(t) = Active(t) \ {s}
    /\ \/ t.stack[s] < table.stack[s]
       \/ t.stack[s] = table.stack[s] /\ Asked(t) = Asked(table) \ {s}

\* The turn passes to a seat that is asked.
LEMMA TurnPasses ==
    ASSUME NEW t, NEW s \in Seats, table.status[s] = "active", TurnsInOrder(table, s),
           EvenEffect(t, s), Asked(t) # {}
    PROVE  TurnsInOrder(t, NextActorAfter(t, s))
<1>1. PICK a : a = NextActorAfter(t, s)
  OBVIOUS
<1>2. /\ s \notin Asked(t) /\ Asked(t) \subseteq Active(t) /\ Active(t) \subseteq Seats
      /\ Active(t) \ {s} = Active(table) \ {s}
  BY DEF EvenEffect, Asked, Active
<1>3. a \in Active(t) \ {s} /\ \A v \in Active(t) \ {s} : Distance(s, a) <= Distance(s, v)
  BY <1>1, <1>2, NextActorIs
<1>4. ASSUME NEW v \in Active(t) \ {s}, NEW u \in Asked(t), Distance(s, v) <= Distance(s, u)
      PROVE  v \in Asked(t)
  <2>1. CASE Asked(t) = Active(t) \ {s}
    BY <2>1
  <2>2. CASE Asked(t) = Asked(table) \ {s}
    <3>1. v \in Active(table) /\ u \in Asked(table)
      BY <1>2, <2>2
    <3>2. v \in Asked(table)
      BY <1>4, <3>1 DEF TurnsInOrder
    <3> QED BY <2>2, <3>2
  <2> QED BY <2>1, <2>2 DEF EvenEffect
<1>5. a \in Asked(t)
  <2>1. PICK u \in Asked(t) : TRUE
    OBVIOUS
  <2>2. Distance(s, a) <= Distance(s, u)
    BY <1>2, <1>3
  <2> QED BY <1>3, <1>4, <2>2
<1>6. ASSUME NEW u \in Asked(t), NEW v \in Active(t), Distance(a, v) <= Distance(a, u)
      PROVE  v \in Asked(t)
  <2>1. u \in Seats \ {s} /\ a \in Seats \ {s} /\ Distance(s, a) <= Distance(s, u)
    BY <1>2, <1>3
  <2>2. /\ Distance(a, u) = Distance(s, u) - Distance(s, a) /\ Distance(a, u) < Distance(a, s)
        /\ Distance(s, u) \in Int /\ Distance(s, a) \in Int /\ Distance(a, s) \in Int
    BY <2>1, DistanceFrom
  <2>3. v # s
    BY <1>6, <2>2
  <2>4. v \in Seats \ {s} /\ Distance(s, a) <= Distance(s, v)
    BY <1>2, <1>3, <2>3
  <2>5. Distance(a, v) = Distance(s, v) - Distance(s, a) /\ Distance(s, v) \in Int
    BY <2>1, <2>4, DistanceFrom
  <2>6. Distance(s, v) <= Distance(s, u)
    BY <1>6, <2>2, <2>5
  <2> QED BY <1>4, <2>3, <2>6
<1> QED BY <1>1, <1>5, <1>6 DEF TurnsInOrder

\* The next street starts with a seat that can act.
LEMMA StreetOpens ==
    ASSUME NEW t, TableInPlay(t), EvenTable(t), EqualStacks, BettingRoundComplete(t),
           ~OnlyOneLive(t), ~NobodyCanAct(t)
    PROVE  /\ EvenTable(ResetStreet(betting, t))
           /\ TurnsInOrder(ResetStreet(betting, t), NextActorAfter(t, Button))
<1>1. PICK r : r = ResetStreet(betting, t)
  OBVIOUS
<1>2. /\ r.hand = t.hand /\ r.stack = t.stack /\ r.status = t.status /\ r.bet = 0
      /\ \A u \in Seats : r.street[u] = 0 /\ ~r.acted[u]
  BY <1>1 DEF ResetStreet, WithRound, WithChips, NoChips, NobodyActed
<1>3. Active(r) = Active(t) /\ Live(r) = Live(t) /\ Active(t) \subseteq Live(t)
  BY <1>2 DEF Active, Live
<1>4. /\ Live(t) # {} /\ Cardinality(Live(t)) > 1 /\ Active(t) # {}
      /\ \A u \in Seats : /\ t.stack[u] \in Nat /\ t.hand[u] \in Nat /\ t.street[u] \in Nat
                          /\ t.stack[u] + t.hand[u] = buyIn[u]
                          /\ t.status[u] = "active" => t.stack[u] > 0
                          /\ t.status[u] = "all_in" => t.stack[u] = 0
      /\ t.bet \in Nat
  BY LiveCount DEF TableInPlay, TableType, NobodyCanAct
\* An all-in seat has put in as much as any other, so no other has chips left.
<1>5. Live(t) = Active(t)
  <2>1. SUFFICES ASSUME NEW u \in Live(t), u \notin Active(t) PROVE FALSE
    BY <1>3
  <2>2. PICK s \in Active(t) : TRUE
    BY <1>4
  <2>3. u \in Seats /\ s \in Seats /\ t.status[u] = "all_in" /\ t.status[s] = "active"
    BY <2>1, <2>2 DEF Live, Active
  <2>4. /\ t.hand[s] - t.street[s] = t.hand[u] - t.street[u]
        /\ t.street[u] <= t.bet /\ t.street[s] = t.bet /\ buyIn[s] = buyIn[u]
    BY <1>3, <2>3 DEF EvenTable, BettingRoundComplete, EqualStacks
  <2> QED BY <1>4, <2>3, <2>4
<1>6. /\ \A s, u \in Live(r) : r.hand[s] - r.street[s] = r.hand[u] - r.street[u]
      /\ \A s \in Live(r) : r.street[s] <= r.bet /\ r.bet <= r.street[s] + r.stack[s]
  <2>1. \A s, u \in Live(t) : t.hand[s] = t.hand[u]
    <3>1. SUFFICES ASSUME NEW s \in Live(t), NEW u \in Live(t) PROVE t.hand[s] = t.hand[u]
      OBVIOUS
    <3>2. s \in Seats /\ u \in Seats /\ t.street[s] = t.bet /\ t.street[u] = t.bet
      BY <1>5 DEF BettingRoundComplete, Active
    <3>3. t.hand[s] - t.street[s] = t.hand[u] - t.street[u]
      BY DEF EvenTable
    <3> QED BY <1>4, <3>2, <3>3
  <2>2. \A s \in Live(t) : s \in Seats
    BY DEF Live
  <2> QED BY <1>2, <1>3, <1>4, <2>1, <2>2
<1>7. Asked(r) = Active(r)
  BY <1>2 DEF Asked, Active
<1>8. NextActorAfter(t, Button) \in Active(t)
  <2>1. Active(t) \ {Button} # {}
    <3>1. Active(t) # {Button}
      <4>1. Cardinality(Active(t)) > 1
        BY <1>4, <1>5
      <4>2. Cardinality({Button}) = 1
        BY FS_Singleton
      <4> QED BY <4>1, <4>2
    <3> QED BY <1>4, <3>1
  <2>2. Button \in Seats
    BY SeatsAssumption
  <2> QED BY <2>1, <2>2, NextActorIs
<1> QED BY <1>1, <1>3, <1>6, <1>7, <1>8 DEF EvenTable, TurnsInOrder

-----------------------------------------------------------------------------
(* What a command does between equal stacks.                               *)

\* What the invariant tells of the live seats when one of them acts.
LEMMA EvenFacts ==
    ASSUME IInv, EqualStacks, EvenTable(table), NEW s \in Seats, CanAct(s)
    PROVE  /\ s \in Live(table)
           /\ \A u \in Seats : /\ table.stack[u] \in Nat /\ table.hand[u] \in Nat
                               /\ table.street[u] \in Nat /\ table.acted[u] \in BOOLEAN
           /\ table.bet \in Nat /\ table.minRaise \in Nat \ {0}
           /\ table.stack[s] > 0
           /\ \A u \in Live(table) :
                  /\ table.street[u] + table.stack[u] = table.street[s] + table.stack[s]
                  /\ table.street[u] <= table.bet
                  /\ table.bet <= table.street[s] + table.stack[s]
<1>1. /\ TableInPlay(table) /\ table.status[s] = "active"
  BY CanActFacts
<1>2. /\ s \in Live(table)
      /\ \A u \in Seats : /\ table.stack[u] \in Nat /\ table.hand[u] \in Nat
                          /\ table.street[u] \in Nat /\ table.acted[u] \in BOOLEAN
                          /\ table.stack[u] + table.hand[u] = buyIn[u]
      /\ table.bet \in Nat /\ table.minRaise \in Nat \ {0}
      /\ table.stack[s] > 0
  BY <1>1 DEF TableInPlay, TableType, Live
<1>3. ASSUME NEW u \in Live(table)
      PROVE  /\ table.street[u] + table.stack[u] = table.street[s] + table.stack[s]
             /\ table.street[u] <= table.bet
             /\ table.bet <= table.street[s] + table.stack[s]
  <2>1. u \in Seats /\ buyIn[u] = buyIn[s]
    BY DEF Live, EqualStacks
  <2>2. /\ table.hand[u] - table.street[u] = table.hand[s] - table.street[s]
        /\ table.street[u] <= table.bet /\ table.bet <= table.street[s] + table.stack[s]
    BY <1>2 DEF EvenTable
  <2> QED BY <1>2, <2>1, <2>2
<1> QED BY <1>2, <1>3

\* What a payment changes, the stack and the status of the seat included.
LEMMA PaymentIs ==
    ASSUME IInv, NEW s \in Seats, CanAct(s), NEW amount \in Int,
           NEW t, t = Commit(table, s, amount)
    PROVE  \E paid \in Int :
               /\ paid = Smaller(amount, table.stack[s])
               /\ t.stack[s] = table.stack[s] - paid
               /\ t.hand[s] = table.hand[s] + paid /\ t.street[s] = table.street[s] + paid
               /\ t.status[s] = IF table.stack[s] = paid THEN "all_in" ELSE "active"
               /\ \A u \in Seats \ {s} : /\ t.stack[u] = table.stack[u]
                                         /\ t.hand[u] = table.hand[u]
                                         /\ t.status[u] = table.status[u]
                                         /\ t.street[u] = table.street[u]
               /\ t.acted = table.acted /\ t.bet = table.bet /\ t.minRaise = table.minRaise
<1>1. PICK paid : paid = Smaller(amount, table.stack[s])
  OBVIOUS
<1>2. paid \in Int
  BY <1>1, CanActFacts DEF Smaller
<1>3. t = Pay(table, s, paid)
  BY <1>1 DEF Commit
<1>4. TableInPlay(table) /\ table.status[s] = "active"
  BY CanActFacts
<1> QED BY <1>1, <1>2, <1>3, <1>4 DEF Pay, WithChips, TableInPlay, TableType

\* The seat that acts is marked.
LEMMA ActorMarked ==
    ASSUME IInv, NEW s \in Seats, CanAct(s), NEW t, t.acted = table.acted
    PROVE  /\ ActedToo(t, s)[s] /\ ActedAlone(t, s)[s]
           /\ \A u \in Seats \ {s} : /\ ActedToo(t, s)[u] = table.acted[u]
                                     /\ u \in Active(t) => ~ActedAlone(t, s)[u]
BY CanActFacts, ActedTooIs, ActedAloneIs DEF ActedToo, ActedAlone, TableInPlay, TableType

\* Commands without a payment.
LEMMA EvenPass ==
    ASSUME IInv, EqualStacks, EvenTable(table), NEW s \in Seats, CanAct(s), NEW t,
           t.stack = table.stack, t.hand = table.hand, t.street = table.street,
           t.acted = table.acted, t.bet = table.bet,
           \A u \in Seats \ {s} : t.status[u] = table.status[u],
           t.status[s] = "folded" \/ (t.status[s] = "active" /\ table.street[s] = table.bet)
    PROVE  EvenEffect(Acting(t, s), s)
<1>1. PICK r : r = Acting(t, s)
  OBVIOUS
<1>2. /\ r.stack = table.stack /\ r.hand = table.hand /\ r.street = table.street
      /\ r.status = t.status /\ r.acted = ActedToo(t, s) /\ r.bet = table.bet
  BY <1>1 DEF Acting, WithRound
<1>3. /\ r.acted[s] /\ \A u \in Seats \ {s} : r.acted[u] = table.acted[u]
  BY <1>2, ActorMarked
<1>4. table.status[s] = "active"
  BY DEF CanAct
<1>5. Live(r) \subseteq Live(table)
  BY <1>2, <1>4 DEF Live
<1>6. EvenTable(r)
  BY <1>2, <1>5 DEF EvenTable
<1>7. s \notin Asked(r)
  BY <1>2, <1>3 DEF Asked, Active
<1>8. Asked(r) = Asked(table) \ {s}
  BY <1>2, <1>3, <1>7 DEF Asked, Active
<1> QED BY <1>1, <1>2, <1>6, <1>7, <1>8 DEF EvenEffect

\* Commands with a payment.
LEMMA EvenPay ==
    ASSUME IInv, EqualStacks, EvenTable(table), NEW s \in Seats, CanAct(s),
           NEW amount \in Int, amount > 0, NEW t, t = Commit(table, s, amount),
           NEW acted, acted = ActedToo(t, s) \/ acted = ActedAlone(t, s),
           NEW bet \in Int, bet >= table.bet, t.street[s] <= bet,
           bet = table.bet \/ bet = t.street[s],
           t.status[s] = "active" => t.street[s] = bet,
           NEW minRaise
    PROVE  EvenEffect(WithRound(t, acted, bet, minRaise), s)
<1>1. PICK r : r = WithRound(t, acted, bet, minRaise)
  OBVIOUS
<1>2. PICK paid \in Int :
          /\ paid = Smaller(amount, table.stack[s])
          /\ t.stack[s] = table.stack[s] - paid
          /\ t.hand[s] = table.hand[s] + paid /\ t.street[s] = table.street[s] + paid
          /\ t.status[s] = IF table.stack[s] = paid THEN "all_in" ELSE "active"
          /\ \A u \in Seats \ {s} : /\ t.stack[u] = table.stack[u]
                                    /\ t.hand[u] = table.hand[u]
                                    /\ t.status[u] = table.status[u]
                                    /\ t.street[u] = table.street[u]
          /\ t.acted = table.acted /\ t.bet = table.bet /\ t.minRaise = table.minRaise
  BY ONLY IInv, s \in Seats, CanAct(s), amount \in Int, t = Commit(table, s, amount), PaymentIs
<1>3. /\ r.stack = t.stack /\ r.hand = t.hand /\ r.street = t.street
      /\ r.status = t.status /\ r.acted = acted /\ r.bet = bet
  BY <1>1 DEF WithRound
<1>4. /\ s \in Live(table)
      /\ \A u \in Seats : /\ table.stack[u] \in Nat /\ table.hand[u] \in Nat
                          /\ table.street[u] \in Nat /\ table.acted[u] \in BOOLEAN
      /\ table.bet \in Nat /\ table.stack[s] > 0
      /\ \A u \in Live(table) :
             /\ table.street[u] + table.stack[u] = table.street[s] + table.stack[s]
             /\ table.street[u] <= table.bet
             /\ table.bet <= table.street[s] + table.stack[s]
  BY EvenFacts
<1>5. paid > 0 /\ paid <= table.stack[s]
  BY <1>2, <1>4 DEF Smaller
<1>6. Live(r) = Live(table) /\ \A u \in Live(table) : u \in Seats
  BY <1>2, <1>3, <1>4 DEF Live
<1>7. \A u \in Live(table) : r.hand[u] - r.street[u] = table.hand[u] - table.street[u]
  BY <1>2, <1>3, <1>4, <1>6
<1>8. \A u \in Live(table) : r.street[u] <= r.bet /\ r.bet <= r.street[u] + r.stack[u]
  <2>1. SUFFICES ASSUME NEW u \in Live(table)
                 PROVE  r.street[u] <= r.bet /\ r.bet <= r.street[u] + r.stack[u]
    OBVIOUS
  <2>2. bet <= table.street[s] + table.stack[s]
    BY <1>2, <1>4, <1>5
  <2>3. CASE u = s
    BY <1>2, <1>3, <1>4, <2>2, <2>3
  <2>4. CASE u # s
    <3>1. r.street[u] = table.street[u] /\ r.stack[u] = table.stack[u]
      BY <1>2, <1>3, <1>6, <2>4
    <3> QED BY <1>3, <1>4, <1>6, <2>2, <3>1
  <2> QED BY <2>3, <2>4
<1>9. EvenTable(r)
  <2>1. \A u, v \in Live(table) : table.hand[u] - table.street[u] = table.hand[v] - table.street[v]
    BY DEF EvenTable
  <2> QED BY <1>6, <1>7, <1>8, <2>1 DEF EvenTable
<1>10. r.acted[s]
  BY <1>2, <1>3, ActorMarked
<1>11. s \notin Asked(r)
  BY <1>3, <1>10 DEF Asked, Active
<1>12. Asked(r) = Asked(table) \ {s} \/ Asked(r) = Active(r) \ {s}
  <2>1. CASE acted = ActedAlone(t, s)
    <3>1. \A u \in Active(r) \ {s} : ~r.acted[u]
      BY <1>2, <1>3, <2>1, ActorMarked DEF Active
    <3> QED BY <1>11, <3>1 DEF Asked
  <2>2. CASE acted = ActedToo(t, s) /\ bet = table.bet
    <3>1. \A u \in Seats \ {s} : /\ r.acted[u] = table.acted[u] /\ r.status[u] = table.status[u]
                                 /\ r.street[u] = table.street[u] /\ r.bet = table.bet
      BY <1>2, <1>3, <2>2, ActorMarked
    <3> QED BY <1>11, <3>1 DEF Asked, Active
  <2>3. CASE bet # table.bet
    <3>1. ASSUME NEW u \in Active(r) \ {s} PROVE r.street[u] # r.bet
      <4>1. u \in Live(table) /\ u \in Seats \ {s}
        BY <1>6, <3>1 DEF Active, Live
      <4> QED BY <1>2, <1>3, <1>4, <2>3, <4>1
    <3> QED BY <1>11, <3>1 DEF Asked
  <2> QED BY <2>1, <2>2, <2>3
<1>13. /\ \A u \in Seats \ {s} : r.status[u] = table.status[u] /\ r.stack[u] = table.stack[u]
       /\ r.stack[s] < table.stack[s]
  BY <1>2, <1>3, <1>4, <1>5
<1> QED BY <1>1, <1>9, <1>11, <1>12, <1>13 DEF EvenEffect

\* Every command is of one seat, leaves the table in play and has such an effect.
LEMMA EvenCommand ==
    ASSUME IInv, EqualStacks, EvenTable(table), Next
    PROVE  \E s \in Seats : \E t : CanAct(s) /\ TableInPlay(t) /\ EvenEffect(t, s) /\ After(t, s)
<1>1. ASSUME NEW s \in Seats, Fold(s)
      PROVE  CanAct(s) /\ TableInPlay(Folded(s)) /\ EvenEffect(Folded(s), s) /\ After(Folded(s), s)
  <2>1. CanAct(s) /\ After(Folded(s), s)
    BY <1>1 DEF Fold
  <2>2. PICK t : t = WithChips(table, table.stack, [table.status EXCEPT ![s] = "folded"],
                               table.street, table.hand)
    OBVIOUS
  <2>3. TableInPlay(table) /\ ~OnlyOneLive(table)
    BY <2>1, CanActFacts
  <2>4. /\ t.stack = table.stack /\ t.hand = table.hand /\ t.street = table.street
        /\ t.acted = table.acted /\ t.bet = table.bet
        /\ t.status[s] = "folded"
        /\ \A u \in Seats \ {s} : t.status[u] = table.status[u]
    BY <2>2, <2>3 DEF WithChips, TableInPlay, TableType
  <2>5. EvenEffect(Acting(t, s), s)
    BY <2>1, <2>4, EvenPass
  <2> QED BY <2>1, <2>2, <2>3, <2>5, FoldInPlay DEF Folded
<1>2. ASSUME NEW s \in Seats, Check(s)
      PROVE  CanAct(s) /\ TableInPlay(Acting(table, s)) /\ EvenEffect(Acting(table, s), s)
             /\ After(Acting(table, s), s)
  <2>1. CanAct(s) /\ After(Acting(table, s), s) /\ table.street[s] = table.bet
    BY <1>2 DEF Check
  <2>2. TableInPlay(Acting(table, s))
    BY <2>1, CanActFacts, ActedTypes, RoundInPlay DEF Acting
  <2>3. table.status[s] = "active"
    BY <2>1, CanActFacts
  <2> QED BY <2>1, <2>2, <2>3, EvenPass
<1>3. ASSUME NEW s \in Seats, Call(s)
      PROVE  CanAct(s) /\ TableInPlay(Called(s)) /\ EvenEffect(Called(s), s) /\ After(Called(s), s)
  <2>1. CanAct(s) /\ After(Called(s), s) /\ table.bet > table.street[s]
    BY <1>3 DEF Call
  <2>2. PICK amount, t : amount = Missing(s, table.bet) /\ t = Commit(table, s, amount)
    OBVIOUS
  <2>3. /\ table.stack[s] \in Nat /\ table.street[s] \in Nat /\ table.bet \in Nat
        /\ amount = table.bet - table.street[s]
    BY <2>1, <2>2, CanActFacts DEF Missing
  <2>4. amount \in Int /\ amount > 0
    BY <2>1, <2>3
  <2>5. PICK paid \in Int :
            /\ paid = Smaller(amount, table.stack[s])
            /\ t.street[s] = table.street[s] + paid
            /\ t.status[s] = IF table.stack[s] = paid THEN "all_in" ELSE "active"
            /\ t.bet = table.bet
    BY <2>1, <2>2, <2>4, PaymentIs
  <2>6. t.street[s] <= table.bet /\ (t.status[s] = "active" => t.street[s] = table.bet)
    BY <2>3, <2>5 DEF Smaller
  <2>7. EvenEffect(WithRound(t, ActedToo(t, s), table.bet, t.minRaise), s)
    BY <2>1, <2>2, <2>3, <2>4, <2>6, EvenPay
  <2>8. Called(s) = WithRound(t, ActedToo(t, s), table.bet, t.minRaise)
    BY <2>2, <2>5 DEF Called, Acting
  <2> QED BY <2>1, <2>7, <2>8, CalledInPlay
<1>4. ASSUME NEW s \in Seats, AllIn(s)
      PROVE  CanAct(s) /\ TableInPlay(PutAllIn(s)) /\ EvenEffect(PutAllIn(s), s) /\ After(PutAllIn(s), s)
  <2>1. CanAct(s) /\ After(PutAllIn(s), s)
    BY <1>4 DEF AllIn
  <2>2. PICK amount, t, allInTo, raiseBy :
            /\ amount = table.stack[s] /\ t = Commit(table, s, amount)
            /\ allInTo = table.street[s] + table.stack[s] /\ raiseBy = allInTo - table.bet
    OBVIOUS
  <2>3. /\ table.stack[s] \in Nat /\ table.street[s] \in Nat /\ table.stack[s] > 0
        /\ table.bet \in Nat /\ table.minRaise \in Nat \ {0}
        /\ allInTo \in Int /\ allInTo >= table.bet /\ amount \in Int /\ amount > 0
    BY <2>1, <2>2, EvenFacts
  <2>4. amount \in Int /\ t = Commit(table, s, amount)
    BY <2>2, <2>3
  <2>5. PICK paid \in Int :
            /\ paid = Smaller(amount, table.stack[s])
            /\ t.street[s] = table.street[s] + paid
            /\ t.status[s] = IF table.stack[s] = paid THEN "all_in" ELSE "active"
            /\ t.bet = table.bet
    BY <2>1, <2>4, PaymentIs
  <2>6. t.street[s] = allInTo /\ t.status[s] # "active"
    BY <2>2, <2>3, <2>5 DEF Smaller
  <2>7. CASE raiseBy >= table.minRaise
    <3>1. EvenEffect(WithRound(t, ActedAlone(t, s), allInTo, raiseBy), s)
      <4>1. PICK acted : acted = ActedAlone(t, s)
        OBVIOUS
      <4>2. t.street[s] <= allInTo /\ allInTo = t.street[s]
        BY <2>3, <2>6
      <4>3. EvenEffect(WithRound(t, acted, allInTo, raiseBy), s)
        BY <2>1, <2>2, <2>3, <2>6, <4>1, <4>2, EvenPay
      <4> QED BY <4>1, <4>3
    <3>2. PutAllIn(s) = WithRound(t, ActedAlone(t, s), allInTo, raiseBy)
      BY <2>2, <2>7 DEF PutAllIn
    <3> QED BY <2>1, <3>1, <3>2, AllInInPlay
  <2>8. CASE ~(raiseBy >= table.minRaise)
    <3>1. PICK bet : bet = IF raiseBy > 0 THEN allInTo ELSE table.bet
      OBVIOUS
    <3>2. /\ bet \in Int /\ bet >= table.bet /\ allInTo <= bet
          /\ bet = table.bet \/ bet = allInTo
      BY <2>2, <2>3, <3>1
    <3>3. EvenEffect(WithRound(t, ActedToo(t, s), bet, t.minRaise), s)
      BY <2>1, <2>2, <2>3, <2>6, <3>2, EvenPay
    <3>4. PutAllIn(s) = WithRound(t, ActedToo(t, s), bet, t.minRaise)
      BY <2>2, <2>5, <2>8, <3>1 DEF PutAllIn
    <3> QED BY <2>1, <3>3, <3>4, AllInInPlay
  <2> QED BY <2>7, <2>8
<1>5. ASSUME NEW s \in Seats, NEW amount \in Amounts, Bet(s, amount)
      PROVE  CanAct(s) /\ TableInPlay(WithBet(s, amount)) /\ EvenEffect(WithBet(s, amount), s)
             /\ After(WithBet(s, amount), s)
  <2>1. /\ CanAct(s) /\ After(WithBet(s, amount), s)
        /\ table.bet = 0 /\ amount >= MinimumOpenBet(betting) /\ amount \in Int
    BY <1>5, RequestsAssumption DEF Bet
  <2>2. amount > 0
    BY <2>1, CanActFacts, BettingsAssumption DEF MinimumOpenBet, BlindsStructures, AnteStructures
  <2>3. PICK t : t = Commit(table, s, amount)
    OBVIOUS
  <2>4. PICK paid \in Int :
            /\ paid = Smaller(amount, table.stack[s])
            /\ t.street[s] = table.street[s] + paid
    BY <2>1, <2>3, PaymentIs
  <2>5. PICK bet : bet = t.street[s]
    OBVIOUS
  <2>6. bet \in Int /\ bet >= table.bet
    <3>1. table.street[s] \in Nat /\ table.stack[s] \in Nat
      BY <2>1, CanActFacts
    <3> QED BY <2>1, <2>2, <2>4, <2>5, <3>1 DEF Smaller
  <2>7. EvenEffect(WithRound(t, ActedAlone(t, s), bet, amount), s)
    BY <2>1, <2>2, <2>3, <2>5, <2>6, EvenPay
  <2>8. WithBet(s, amount) = WithRound(t, ActedAlone(t, s), bet, amount)
    BY <2>3, <2>5 DEF WithBet
  <2> QED BY <2>1, <2>7, <2>8, BetInPlay
<1>6. ASSUME NEW s \in Seats, NEW amount \in Amounts, Raise(s, amount)
      PROVE  CanAct(s) /\ TableInPlay(Raised(s, amount)) /\ EvenEffect(Raised(s, amount), s)
             /\ After(Raised(s, amount), s)
  <2>1. /\ CanAct(s) /\ After(Raised(s, amount), s)
        /\ amount > table.bet /\ amount \in Int
    BY <1>6, RequestsAssumption DEF Raise
  <2>2. PICK missing, t, raiseBy : /\ missing = Missing(s, amount) /\ t = Commit(table, s, missing)
                                   /\ raiseBy = amount - table.bet
    OBVIOUS
  <2>3. /\ table.stack[s] \in Nat /\ table.street[s] \in Nat /\ table.bet \in Nat
        /\ table.street[s] <= table.bet /\ table.bet <= table.street[s] + table.stack[s]
    BY <2>1, EvenFacts
  <2>4. missing = amount - table.street[s] /\ missing \in Int /\ missing > 0
    BY <2>1, <2>2, <2>3 DEF Missing
  <2>5. PICK paid \in Int :
            /\ paid = Smaller(missing, table.stack[s])
            /\ t.street[s] = table.street[s] + paid
            /\ t.minRaise = table.minRaise
    BY <2>1, <2>2, <2>4, PaymentIs
  <2>6. PICK bet : bet = t.street[s]
    OBVIOUS
  <2>7. bet \in Int /\ bet >= table.bet
    BY <2>1, <2>3, <2>4, <2>5, <2>6 DEF Smaller
  <2>8. /\ EvenEffect(WithRound(t, ActedAlone(t, s), bet, raiseBy), s)
        /\ EvenEffect(WithRound(t, ActedToo(t, s), bet, t.minRaise), s)
    <3>1. t.street[s] <= bet /\ bet = t.street[s]
      BY <2>6, <2>7
    <3>2. ASSUME NEW acted, acted = ActedToo(t, s) \/ acted = ActedAlone(t, s), NEW minRaise
          PROVE  EvenEffect(WithRound(t, acted, bet, minRaise), s)
      BY <2>1, <2>2, <2>4, <2>7, <3>1, <3>2, EvenPay
    <3> QED BY <3>2
  <2>9. \/ Raised(s, amount) = WithRound(t, ActedAlone(t, s), bet, raiseBy)
        \/ Raised(s, amount) = WithRound(t, ActedToo(t, s), bet, t.minRaise)
    BY <2>2, <2>6 DEF Raised
  <2> QED BY <2>1, <2>8, <2>9, RaiseInPlay
<1> QED BY <1>1, <1>2, <1>3, <1>4, <1>5, <1>6 DEF Next

\* Whatever follows the command keeps the turn order, until the settlement.
LEMMA EvenAfter ==
    ASSUME EvenInv, EqualStacks, NEW s \in Seats, CanAct(s),
           NEW t, TableInPlay(t), EvenEffect(t, s), AfterTable(t, s), stage' # "finished"
    PROVE  EvenTable(table') /\ TurnsInOrder(table', currentSeat')
<1>1. /\ s = currentSeat /\ table.status[s] = "active" /\ stage # "finished"
      /\ TurnsInOrder(table, s)
  BY DEF EvenInv, CanAct
<1>2. ~OnlyOneLive(t) /\ ~NobodyCanAct(t)
  BY DEF AfterTable, WinByFolds, Showdown
<1>3. CASE BettingRoundComplete(t) /\ NextStreet(t)
  BY <1>2, <1>3, StreetOpens DEF EvenEffect, NextStreet
<1>4. CASE ~BettingRoundComplete(t) /\ NextActor(t, s)
  <2>1. Asked(t) # {}
    BY <1>4 DEF BettingRoundComplete, Asked
  <2>2. TurnsInOrder(t, NextActorAfter(t, s))
    BY <1>1, <2>1, TurnPasses
  <2> QED BY <1>4, <2>2 DEF EvenEffect, NextActor
<1>5. ~Showdown(t) /\ ~WinByFolds(t)
  BY DEF Showdown, WinByFolds
<1> QED BY <1>2, <1>3, <1>4, <1>5 DEF AfterTable

\* The step of EvenHandsAdvance.
Nearer ==
    \/ StreetsLeft[stage'] < StreetsLeft[stage]
    \/ /\ stage' = stage
       /\ \/ ChipsLeft(table') < ChipsLeft(table)
          \/ /\ ChipsLeft(table') = ChipsLeft(table)
             /\ Cardinality(Asked(table')) < Cardinality(Asked(table))

\* A command brings the settlement nearer.
LEMMA EvenNearer ==
    ASSUME EvenInv, EqualStacks, NEW s \in Seats, CanAct(s),
           NEW t, TableInPlay(t), EvenEffect(t, s), AfterTable(t, s)
    PROVE  Nearer
<1>1. /\ s = currentSeat /\ stage \in {"preflop", "flop", "turn", "river"}
      /\ s \in Asked(table) /\ TableInPlay(table)
  BY DEF EvenInv, IInv, TypeOK, Stages, CanAct, TurnsInOrder
<1>2. CASE stage' = "finished"
  BY <1>1, <1>2 DEF Nearer, StreetsLeft
<1>3. CASE stage # "river" /\ NextStreet(t)
  <2>1. stage' = Street(stage)
    BY <1>3 DEF NextStreet
  <2>2. \/ stage = "preflop" /\ stage' = "flop"
        \/ stage = "flop" /\ stage' = "turn"
        \/ stage = "turn" /\ stage' = "river"
    BY <1>1, <1>3, <2>1 DEF Street
  <2> QED BY <2>2 DEF Nearer, StreetsLeft
<1>4. CASE NextActor(t, s)
  <2>1. table' = t /\ stage' = stage
    BY <1>4 DEF NextActor
  <2>2. /\ t.stack \in [Seats -> Nat] /\ table.stack \in [Seats -> Nat]
        /\ \A u \in Seats \ {s} : t.stack[u] = table.stack[u]
    BY <1>1 DEF TableInPlay, EvenEffect
  <2>3. /\ ChipsLeft(t) = SumFunctionOnSet(t.stack, Seats)
        /\ ChipsLeft(table) = SumFunctionOnSet(table.stack, Seats)
    BY <2>2 DEF ChipsLeft, SumFunction
  <2>4. /\ ChipsLeft(t) = t.stack[s] + SumFunctionOnSet(t.stack, Seats \ {s})
        /\ ChipsLeft(table) = table.stack[s] + SumFunctionOnSet(table.stack, Seats \ {s})
    BY <2>2, <2>3, SeatsFinite, SumRemove
  <2>5. SumFunctionOnSet(t.stack, Seats \ {s}) = SumFunctionOnSet(table.stack, Seats \ {s})
        /\ SumFunctionOnSet(t.stack, Seats \ {s}) \in Int
    <3>1. PICK S : S = Seats \ {s}
      OBVIOUS
    <3>2. /\ IsFiniteSet(S)
          /\ \A u \in S : t.stack[u] \in Int /\ table.stack[u] = t.stack[u]
      BY <2>2, <3>1, SeatsFinite, FS_Subset
    <3> QED BY <3>1, <3>2, SumEqual, SumType
  <2>6. t.stack[s] \in Int /\ table.stack[s] \in Int
    BY <2>2
  <2>7. CASE t.stack[s] < table.stack[s]
    BY <2>1, <2>4, <2>5, <2>6, <2>7 DEF Nearer
  <2>8. CASE t.stack[s] = table.stack[s] /\ Asked(t) = Asked(table) \ {s}
    <3>1. Asked(table) \subseteq Seats /\ IsFiniteSet(Asked(table))
      BY SeatsFinite, FS_Subset DEF Asked, Active
    <3>2. Cardinality(Asked(t)) = Cardinality(Asked(table)) - 1
      BY <1>1, <2>8, <3>1, FS_RemoveElement
    <3>3. Cardinality(Asked(table)) \in Int
      BY <3>1, FS_CardinalityType
    <3> QED BY <2>1, <2>4, <2>5, <2>8, <3>2, <3>3 DEF Nearer
  <2> QED BY <2>7, <2>8 DEF EvenEffect
<1> QED BY <1>2, <1>3, <1>4 DEF AfterTable, WinByFolds, Showdown

-----------------------------------------------------------------------------
(* The forced bets between equal stacks.                                   *)

\* The next seat, without the remainder.
LEMMA NextSeatIs ==
    ASSUME NEW s \in Seats
    PROVE  NextSeat(s) = IF s = NumSeats THEN 1 ELSE s + 1
<1>1. NumSeats \in Nat \ {0} /\ s \in Int /\ 1 <= s /\ s <= NumSeats
  BY SeatsAssumption DEF Seats
<1>2. CASE s = NumSeats
  <2>1. s % NumSeats = 0
    BY <1>1, <1>2
  <2> QED BY <1>2, <2>1 DEF NextSeat
<1>3. CASE s # NumSeats
  <2>1. s \in 0..NumSeats-1
    BY <1>1, <1>3
  <2>2. s % NumSeats = s
    BY <1>1, <2>1
  <2> QED BY <1>1, <1>3, <2>2 DEF NextSeat
<1> QED BY <1>2, <1>3

\* The blinds sit at two seats; at a table of three or more the seat after them
\* is a third one.
LEMMA BlindSeats ==
    /\ SmallBlindSeat \in Seats /\ BigBlindSeat \in Seats /\ SmallBlindSeat # BigBlindSeat
    /\ NumSeats # 2 => /\ NextSeat(BigBlindSeat) \in Seats
                       /\ NextSeat(BigBlindSeat) \notin {SmallBlindSeat, BigBlindSeat}
<1>1. /\ NumSeats \in Nat /\ NumSeats >= 2 /\ Button \in Seats
      /\ \A s : s \in Seats <=> s \in Int /\ 1 <= s /\ s <= NumSeats
  BY SeatsAssumption DEF Seats
<1>2. \A s \in Seats : /\ NextSeat(s) = IF s = NumSeats THEN 1 ELSE s + 1
                       /\ NextSeat(s) \in Seats
  BY <1>1, NextSeatIs
<1>3. PICK sb, bb, third : sb = SmallBlindSeat /\ bb = BigBlindSeat /\ third = NextSeat(bb)
  OBVIOUS
<1>4. sb \in Seats /\ sb = IF NumSeats = 2 THEN Button ELSE NextSeat(Button)
  BY <1>1, <1>2, <1>3 DEF SmallBlindSeat
<1>5. bb \in Seats /\ bb = IF sb = NumSeats THEN 1 ELSE sb + 1
  BY <1>2, <1>3, <1>4 DEF BigBlindSeat
<1>6. third \in Seats /\ third = IF bb = NumSeats THEN 1 ELSE bb + 1
  BY <1>2, <1>3, <1>5
<1>7. sb # bb /\ (NumSeats # 2 => third # sb /\ third # bb)
  BY <1>1, <1>4, <1>5, <1>6
<1> QED BY <1>3, <1>4, <1>5, <1>6, <1>7

\* What the forced bets leave between equal stacks: no seat has put in more than
\* the bet, the bet is in everybody's reach, and the first to act can act.
LEMMA ForcedBetsEven ==
    ASSUME betting \in Bettings, buyIn \in BuyIns, EqualStacks,
           NEW t, t = AfterForcedBets(betting, buyIn), Active(t) # {}
    PROVE  /\ EvenTable(t)
           /\ PreflopFirstActor(betting, t) \in Active(t)
<1> DEFINE paid(s) == ForcedPaid(betting, buyIn, s)
<1>1. /\ betting \in BlindsStructures \cup AnteStructures
      /\ buyIn \in [Seats -> Nat \ {0}]
  BY BettingsAssumption, BuyInsAssumption
<1>2. \A s \in Seats : paid(s) \in Nat /\ paid(s) <= buyIn[s]
  BY ForcedPaidType
<1>3. \A s \in Seats : paid(s) = IF ForcedBet(betting, s) < buyIn[s]
                                 THEN ForcedBet(betting, s) ELSE buyIn[s]
  BY DEF ForcedPaid, Smaller
<1>4. PICK low \in Nat \ {0} : \A s \in Seats : buyIn[s] = low
  <2>1. PICK s \in Seats : TRUE
    BY SeatsAssumption
  <2> QED BY <1>1, <2>1 DEF EqualStacks
<1> HIDE DEF paid
<1>5. /\ \A s \in Seats : /\ t.stack[s] = low - paid(s) /\ t.street[s] = paid(s)
                          /\ t.hand[s] = paid(s)
                          /\ s \in Active(t) <=> paid(s) # low
      /\ t.bet = OpeningBet(betting, buyIn)
  <2>1. \A s \in Seats : /\ t.stack[s] = buyIn[s] - paid(s) /\ t.street[s] = paid(s)
                         /\ t.hand[s] = paid(s)
                         /\ t.status[s] = IF paid(s) = buyIn[s] THEN "all_in" ELSE "active"
    BY DEF AfterForcedBets, paid
  <2>2. t.bet = OpeningBet(betting, buyIn)
    BY DEF AfterForcedBets
  <2> QED BY <1>4, <2>1, <2>2 DEF Active
<1>6. \E s \in Seats : OpeningBet(betting, buyIn) = paid(s)
  BY OpeningBetType DEF paid
<1>7. t.bet \in Nat /\ t.bet <= low
  BY <1>2, <1>4, <1>5, <1>6
<1>8. \A s \in Seats : paid(s) <= low
  BY <1>2, <1>4
<1>9. PICK active \in Active(t) : TRUE
  OBVIOUS
<1>10. active \in Seats /\ paid(active) < low
  <2>1. active \in Seats
    BY DEF Active
  <2> QED BY <1>2, <1>4, <1>5, <1>8, <2>1
<1>11. ASSUME \A s \in Seats : paid(s) <= t.bet PROVE EvenTable(t)
  <2>1. Live(t) \subseteq Seats
    BY DEF Live
  <2>2. \A s \in Seats : t.hand[s] - t.street[s] = 0
    BY <1>2, <1>5
  <2>3. \A s \in Seats : t.street[s] <= t.bet /\ t.bet <= t.street[s] + t.stack[s]
    BY <1>2, <1>4, <1>5, <1>7, <1>11
  <2> QED BY <2>1, <2>2, <2>3 DEF EvenTable
<1>12. CASE betting.type = "ante"
  <2>1. \A s \in Seats : paid(s) <= t.bet
    BY <1>5, <1>12, OpeningBetType DEF paid
  <2>2. betting \in AnteStructures
    BY <1>1, <1>12 DEF BlindsStructures
  <2>3. Button \in Seats
    BY SeatsAssumption
  <2>4. /\ betting.ante \in Nat \ {0} /\ betting.buttonBlind \in Nat \ {0}
        /\ \A s \in Seats : ForcedBet(betting, s)
                              = betting.ante + (IF s = Button THEN betting.buttonBlind ELSE 0)
    BY <1>12, <2>2 DEF ForcedBet, AnteStructures
  <2>5. PICK u \in Seats : u # Button
    <3>1. 1 \in Seats /\ 2 \in Seats
      BY SeatsAssumption DEF Seats
    <3> QED BY <3>1
  \* A seat that the ante puts all in takes the button with it.
  <2>6. \A s \in Seats \ {Button} : paid(s) = IF betting.ante < low THEN betting.ante ELSE low
    BY <1>3, <1>4, <2>4
  <2>7. paid(Button) = IF betting.ante + betting.buttonBlind < low
                       THEN betting.ante + betting.buttonBlind ELSE low
    BY <1>3, <1>4, <2>3, <2>4
  <2>8. paid(u) # low
    BY <1>4, <1>10, <2>3, <2>4, <2>5, <2>6, <2>7
  <2>9. Active(t) \ {Button} # {}
    BY <1>5, <2>5, <2>8
  <2> QED BY <1>11, <1>12, <2>1, <2>3, <2>9, NextActorIs DEF PreflopFirstActor
<1>13. CASE betting.type # "ante"
  <2>1. betting \in BlindsStructures
    BY <1>1, <1>13 DEF AnteStructures
  <2>2. /\ betting.smallBlind \in Nat \ {0} /\ betting.bigBlind \in Nat \ {0}
        /\ betting.smallBlind < betting.bigBlind
        /\ \A s \in Seats : ForcedBet(betting, s) = IF s = SmallBlindSeat THEN betting.smallBlind
                                                    ELSE IF s = BigBlindSeat THEN betting.bigBlind
                                                    ELSE 0
    BY <1>13, <2>1 DEF ForcedBet, BlindsStructures
  <2>3. t.bet = paid(BigBlindSeat)
    BY <1>5, <1>13 DEF OpeningBet, paid
  <2>4. \A s \in Seats : /\ s = SmallBlindSeat => paid(s) = IF betting.smallBlind < low THEN betting.smallBlind ELSE low
                         /\ s = BigBlindSeat => paid(s) = IF betting.bigBlind < low THEN betting.bigBlind ELSE low
                         /\ s \notin {SmallBlindSeat, BigBlindSeat} => paid(s) = 0
    BY <1>3, <1>4, <2>2, BlindSeats
  <2>5. \A s \in Seats : paid(s) <= t.bet
    BY <1>4, <2>2, <2>3, <2>4, BlindSeats
  <2>6. CASE NumSeats # 2
    <3>1. NextSeat(BigBlindSeat) \in Seats /\ paid(NextSeat(BigBlindSeat)) = 0
      BY <2>4, <2>6, BlindSeats
    <3>2. NextSeat(BigBlindSeat) \in Active(t)
      BY <1>4, <1>5, <3>1
    <3> QED BY <1>11, <1>13, <2>5, <2>6, <3>2 DEF PreflopFirstActor
  <2>7. CASE NumSeats = 2
    <3>1. SmallBlindSeat = Button /\ Button \in Seats
      BY <2>7, SeatsAssumption DEF SmallBlindSeat
    <3>2. active \in {SmallBlindSeat, BigBlindSeat}
      <4>1. \A s, u, v \in Seats : s = u \/ s = v \/ u = v
        BY <2>7 DEF Seats
      <4> QED BY <1>10, <4>1, BlindSeats
    <3>3. paid(Button) # low
      BY <1>4, <1>10, <2>2, <2>4, <3>1, <3>2, BlindSeats
    <3>4. Button \in Active(t)
      BY <1>5, <3>1, <3>3
    <3> QED BY <1>11, <1>13, <2>5, <2>7, <3>4 DEF PreflopFirstActor
  <2> QED BY <2>6, <2>7
<1> QED BY <1>12, <1>13

\* A new hand between equal stacks satisfies the invariant.
LEMMA EvenInit == Init => EvenInv
<1> SUFFICES ASSUME Init PROVE EvenInv
  OBVIOUS
<1>1. IInv
  BY InitInvariant
<1>2. ASSUME EqualStacks, stage # "finished"
      PROVE  EvenTable(table) /\ TurnsInOrder(table, currentSeat)
  <2>1. PICK t : t = AfterForcedBets(betting, buyIn)
    OBVIOUS
  <2>2. /\ betting \in Bettings /\ buyIn \in BuyIns
        /\ table = t /\ ~NobodyCanAct(t) /\ currentSeat = PreflopFirstActor(betting, t)
    BY <1>2, <2>1 DEF Init
  <2>3. Active(t) # {}
    BY <1>1, <1>2, <2>2, LiveCount DEF IInv, TableInPlay, NobodyCanAct
  <2>4. EvenTable(t) /\ PreflopFirstActor(betting, t) \in Active(t)
    BY <1>2, <2>1, <2>2, <2>3, ForcedBetsEven
  <2>5. Asked(t) = Active(t)
    BY <2>1 DEF AfterForcedBets, Asked, Active
  <2> QED BY <2>2, <2>4, <2>5 DEF TurnsInOrder
<1> QED BY <1>1, <1>2 DEF EvenInv

\* No step breaks it, and every command brings the settlement nearer.
LEMMA EvenNext == EvenInv /\ [Next]_vars => EvenInv' /\ [EqualStacks => Nearer]_vars
<1> SUFFICES ASSUME EvenInv, [Next]_vars PROVE EvenInv' /\ [EqualStacks => Nearer]_vars
  OBVIOUS
<1>1. IInv /\ IInv'
  BY NextInvariant DEF EvenInv
<1>2. CASE UNCHANGED vars
  <2>1. EqualStacks' <=> EqualStacks
    BY <1>2 DEF vars, EqualStacks
  <2>2. table' = table /\ currentSeat' = currentSeat /\ stage' = stage
    BY <1>2 DEF vars
  <2> QED BY <1>1, <1>2, <2>1, <2>2 DEF EvenInv, EvenTable, TurnsInOrder, Asked, Active, Live
<1>3. CASE Next
  <2>1. buyIn' = buyIn /\ stage # "finished"
    BY <1>3 DEF Next, Fold, Check, Call, AllIn, Bet, Raise, After, CanAct
  <2>2. EqualStacks' <=> EqualStacks
    BY <2>1 DEF EqualStacks
  <2>3. CASE EqualStacks
    <3>1. PICK s \in Seats : \E t : CanAct(s) /\ TableInPlay(t) /\ EvenEffect(t, s) /\ After(t, s)
      BY <1>1, <1>3, <2>1, <2>3, EvenCommand DEF EvenInv
    <3>2. PICK t : CanAct(s) /\ TableInPlay(t) /\ EvenEffect(t, s) /\ AfterTable(t, s)
      BY <3>1 DEF After
    <3>3. Nearer
      BY <2>3, <3>2, EvenNearer
    <3>4. stage' # "finished" => EvenTable(table') /\ TurnsInOrder(table', currentSeat')
      BY <2>3, <3>2, EvenAfter
    <3>5. stage' # "finished" => (EvenTable(table) /\ TurnsInOrder(table, currentSeat))'
      BY <3>4 DEF EvenTable, TurnsInOrder, Asked, Active, Live, Distance
    <3> QED BY <1>1, <3>3, <3>5 DEF EvenInv
  <2>4. CASE ~EqualStacks
    BY <1>1, <2>2, <2>4 DEF EvenInv
  <2> QED BY <2>3, <2>4
<1> QED BY <1>2, <1>3

\* A hand between equal stacks is settled or has a seat to act that can, for any
\* number of seats, any blinds or antes, stacks and requests: New and Apply never
\* leave the turn with nobody, or with a seat that is all in or has folded.
THEOREM EvenHandsNeverStick == Spec => []EvenHandsPlayOn
<1>1. EvenInv => EvenHandsPlayOn
  BY DEF EvenInv, EvenHandsPlayOn, SomebodyCanAct, CanAct, TurnsInOrder, Asked, Active
<1> QED BY <1>1, EvenInit, EvenNext, PTL DEF Spec

\* Every command of a hand between equal stacks closes its street, puts chips into
\* the pots, or leaves a seat less to ask, whatever is requested.
THEOREM EvenHandsComeNearer == Spec => EvenHandsAdvance
<1>1. Spec => [][EqualStacks => Nearer]_vars
  BY EvenInit, EvenNext, PTL DEF Spec
<1> QED BY <1>1 DEF EvenHandsAdvance, Nearer
=============================================================================
