------------------------------ MODULE SumProofs ------------------------------
(***************************************************************************)
(* Sums of integers over finite sets: SumFunctionOnSet(f, S) adds the      *)
(* values of f on S.  Facts about it are shown by induction over the       *)
(* subsets of a finite set.                                                *)
(***************************************************************************)
EXTENDS Integers, FiniteSets, Functions, FiniteSetTheorems, TLAPS

(***************************************************************************)
(* Least and greatest elements.                                            *)
(***************************************************************************)

\* A set of natural numbers has a least one.
LEMMA LeastNatural ==
    ASSUME NEW T, T \subseteq Nat, T # {}
    PROVE  \E x \in T : \A y \in T : x <= y
<1>1. PICK R : R = OpToRel(<, Nat)
  OBVIOUS
<1>2. IsWellFoundedOn(R, Nat)
  BY <1>1, NatLessThanWellFounded
<1>3. PICK x \in T : \A y \in T : ~ (<<y, x>> \in R)
  BY <1>2, WFMin
<1>4. \A y \in T : ~ (y < x)
  BY <1>1, <1>3 DEF OpToRel
<1> QED BY <1>4

\* A collection of subsets of a finite set has one that contains no other.
LEMMA MinimalSubset ==
    ASSUME NEW S, IsFiniteSet(S), NEW Bad, Bad \subseteq SUBSET S, Bad # {}
    PROVE  \E T \in Bad : \A U \in Bad : U \subseteq T => U = T
<1>1. IsWellFoundedOn(StrictSubsetOrdering(S), SUBSET S)
  BY FS_StrictSubsetOrderingWellFounded, FS_FiniteSubsetsOfFinite
<1>2. PICK T \in Bad : \A U \in Bad : ~ (<<U, T>> \in StrictSubsetOrdering(S))
  BY <1>1, WFMin
<1>3. ASSUME NEW U \in Bad, U \subseteq T PROVE U = T
  <2>1. <<U, T>> \in (SUBSET S) \X (SUBSET S)
    OBVIOUS
  <2>2. ~ (<<U, T>> \in StrictSubsetOrdering(S))
    BY <1>2
  <2> QED BY <1>3, <2>1, <2>2 DEF StrictSubsetOrdering
<1> QED BY <1>3

-----------------------------------------------------------------------------
(* The sum of no values is 0; a sum is the first value and the rest.       *)

First(s) == CHOOSE x \in s : TRUE

\* it adds up the values of f on the sets in C.
Adds(it, f, C) ==
    it = [s \in C |-> IF s = {} THEN 0 ELSE f[First(s)] + it[s \ {First(s)}]]

\* The element a sum takes first is one of the set.
LEMMA FirstIn == \A s : s # {} => First(s) \in s
BY DEF First

\* The definition unfolded.
LEMMA SumIs ==
    ASSUME NEW f, NEW S
    PROVE  SumFunctionOnSet(f, S) = (CHOOSE it : Adds(it, f, SUBSET S))[S]
BY DEF SumFunctionOnSet, FoldFunctionOnSet, MapThenFoldSet, Adds, First

\* Two functions that add up the same values agree where both are defined.
LEMMA AddsUnique ==
    ASSUME NEW f, NEW A, NEW B, NEW a, NEW b,
           Adds(a, f, SUBSET A), Adds(b, f, SUBSET B),
           NEW S, IsFiniteSet(S), S \subseteq A, S \subseteq B
    PROVE  a[S] = b[S]
<1> DEFINE Bad == {s \in SUBSET S : a[s] # b[s]}
<1>1. SUFFICES ASSUME Bad # {} PROVE FALSE
  OBVIOUS
<1>2. PICK T \in Bad : \A U \in Bad : U \subseteq T => U = T
  <2>1. Bad \subseteq SUBSET S
    OBVIOUS
  <2> HIDE DEF Bad
  <2> QED BY <1>1, <2>1, MinimalSubset
<1>3. \A s \in SUBSET S : /\ a[s] = IF s = {} THEN 0 ELSE f[First(s)] + a[s \ {First(s)}]
                         /\ b[s] = IF s = {} THEN 0 ELSE f[First(s)] + b[s \ {First(s)}]
  BY DEF Adds
<1>4. T # {}
  BY <1>2, <1>3
<1>5. T \ {First(T)} \notin Bad
  BY <1>2, <1>4, FirstIn
<1> QED BY <1>2, <1>3, <1>4, <1>5

\* On a finite set there is a function that adds up the values.
LEMMA AddsExists ==
    ASSUME NEW f, NEW S, IsFiniteSet(S)
    PROVE  \E it : Adds(it, f, SUBSET S)
<1> DEFINE Bad == {s \in SUBSET S : ~ \E it : Adds(it, f, SUBSET s)}
<1>1. SUFFICES ASSUME Bad # {} PROVE FALSE
  OBVIOUS
<1>2. PICK T \in Bad : \A U \in Bad : U \subseteq T => U = T
  <2>1. Bad \subseteq SUBSET S
    OBVIOUS
  <2> HIDE DEF Bad
  <2> QED BY <1>1, <2>1, MinimalSubset
<1> DEFINE Rest(s) == s \ {First(s)}
           V(s) == (CHOOSE it : Adds(it, f, SUBSET s))[s]
           g == [s \in SUBSET T |-> IF s = {} THEN 0 ELSE f[First(s)] + V(Rest(s))]
<1>3. \A s \in SUBSET T : s # T => Adds(CHOOSE it : Adds(it, f, SUBSET s), f, SUBSET s)
  <2>1. ASSUME NEW s \in SUBSET T, s # T PROVE \E it : Adds(it, f, SUBSET s)
    BY <1>2, <2>1
  <2> QED BY <2>1
<1>4. ASSUME NEW s \in SUBSET T, s # T PROVE g[s] = V(s)
  <2>1. PICK h : h = CHOOSE it : Adds(it, f, SUBSET s)
    OBVIOUS
  <2>2. Adds(h, f, SUBSET s)
    BY <1>3, <1>4, <2>1
  <2>3. h[s] = IF s = {} THEN 0 ELSE f[First(s)] + h[Rest(s)]
    BY <2>2 DEF Adds
  <2>4. ASSUME s # {} PROVE h[Rest(s)] = V(Rest(s))
    <3>1. PICK k : k = CHOOSE it : Adds(it, f, SUBSET (Rest(s)))
      OBVIOUS
    <3>2. Rest(s) \in SUBSET T /\ Rest(s) # T /\ IsFiniteSet(Rest(s))
      BY <1>2, <1>4, <2>4, FirstIn, FS_Subset
    <3>3. Adds(k, f, SUBSET (Rest(s)))
      BY <1>3, <3>1, <3>2
    <3> HIDE DEF Rest
    <3>4. Rest(s) \subseteq s
      BY DEF Rest
    <3>5. h[Rest(s)] = k[Rest(s)]
      BY <2>2, <3>2, <3>3, <3>4, AddsUnique
    <3> QED BY <3>1, <3>5
  <2> QED BY <2>1, <2>3, <2>4
<1>5. \A s \in SUBSET T : s # {} => Rest(s) \in SUBSET T /\ Rest(s) # T
  BY FirstIn
<1>6. \A s \in SUBSET T : s # {} => g[Rest(s)] = V(Rest(s))
  BY <1>4, <1>5
<1>7. Adds(g, f, SUBSET T)
  <2>1. \A s \in SUBSET T : g[s] = IF s = {} THEN 0 ELSE f[First(s)] + V(Rest(s))
    OBVIOUS
  <2>2. g = [s \in SUBSET T |-> g[s]]
    OBVIOUS
  <2> HIDE DEF g, V
  <2>3. g = [s \in SUBSET T |-> IF s = {} THEN 0 ELSE f[First(s)] + g[Rest(s)]]
    BY <2>1, <2>2, <1>6
  <2> QED BY <2>3 DEF Adds
<1> HIDE DEF g
<1> QED BY <1>2, <1>7

\* The sum of a set that is not empty.
LEMMA SumFirst ==
    ASSUME NEW f, NEW S, IsFiniteSet(S), S # {}
    PROVE  SumFunctionOnSet(f, S) = f[First(S)] + SumFunctionOnSet(f, S \ {First(S)})
<1> DEFINE R == S \ {First(S)}
<1>1. PICK a : a = CHOOSE it : Adds(it, f, SUBSET S)
  OBVIOUS
<1>2. PICK b : b = CHOOSE it : Adds(it, f, SUBSET R)
  OBVIOUS
<1>3. IsFiniteSet(R) /\ R \subseteq S
  BY FS_Subset
<1> HIDE DEF R
<1>4. Adds(a, f, SUBSET S) /\ Adds(b, f, SUBSET R)
  BY <1>1, <1>2, <1>3, AddsExists
<1>5. a[R] = b[R]
  BY <1>3, <1>4, AddsUnique
<1>6. a[S] = f[First(S)] + a[R]
  BY <1>4 DEF Adds, R
<1> QED BY <1>1, <1>2, <1>5, <1>6, SumIs DEF R

\* Whatever adds up the values has the sum.
LEMMA SumOfAdds ==
    ASSUME NEW f, NEW S, IsFiniteSet(S), NEW a, Adds(a, f, SUBSET S)
    PROVE  a[S] = SumFunctionOnSet(f, S)
<1>1. PICK b : b = CHOOSE it : Adds(it, f, SUBSET S)
  OBVIOUS
<1>2. Adds(b, f, SUBSET S)
  BY <1>1, AddsExists
<1>3. a[S] = b[S]
  BY <1>2, AddsUnique
<1> QED BY <1>1, <1>3, SumIs

\* The sum of no values is 0.
LEMMA SumEmpty == ASSUME NEW f PROVE SumFunctionOnSet(f, {}) = 0
<1>1. PICK a : a = CHOOSE it : Adds(it, f, SUBSET {})
  OBVIOUS
<1>2. Adds(a, f, SUBSET {})
  BY <1>1, AddsExists, FS_EmptySet
<1>3. a[{}] = 0
  BY <1>2 DEF Adds
<1> QED BY <1>1, <1>3, SumIs

-----------------------------------------------------------------------------
(* Induction over the subsets of a finite set, for a set of good subsets.  *)

\* A set of subsets that has the empty one, and each whose smaller ones it has, has S.
LEMMA SubsetInduction ==
    ASSUME NEW S, IsFiniteSet(S), NEW Good, {} \in Good,
           \A T \in SUBSET S : T # {} /\ (\A x \in T : T \ {x} \in Good) => T \in Good
    PROVE  S \in Good
<1> DEFINE Bad == {T \in SUBSET S : T \notin Good}
<1>1. SUFFICES ASSUME Bad # {} PROVE FALSE
  OBVIOUS
<1>2. PICK T \in Bad : \A U \in Bad : U \subseteq T => U = T
  <2>1. Bad \subseteq SUBSET S
    OBVIOUS
  <2> HIDE DEF Bad
  <2> QED BY <1>1, <2>1, MinimalSubset
<1>3. T \in SUBSET S /\ T # {} /\ T \notin Good
  BY <1>2
<1>4. ASSUME NEW x \in T PROVE T \ {x} \in Good
  <2>1. T \ {x} \notin Bad
    BY <1>2
  <2>2. T \ {x} \in SUBSET S
    BY <1>3
  <2> QED BY <2>1, <2>2
<1> QED BY <1>3, <1>4

\* Of the values of f on a finite set one is the greatest.
LEMMA GreatestValue ==
    ASSUME NEW f, NEW S, IsFiniteSet(S), S # {}, \A x \in S : f[x] \in Int
    PROVE  \E x \in S : \A y \in S : f[y] <= f[x]
<1> DEFINE Greatest(T) == \E x \in T : \A y \in T : f[y] <= f[x]
           Good == {T \in SUBSET S : T = {} \/ Greatest(T)}
<1>1. {} \in Good
  OBVIOUS
<1>2. ASSUME NEW T \in SUBSET S, T # {}, \A x \in T : T \ {x} \in Good
      PROVE  T \in Good
  <2>1. PICK z \in T : TRUE
    BY <1>2
  <2>2. CASE T \ {z} = {}
    <3>1. \A y \in T : f[y] <= f[z]
      BY <2>2
    <3> QED BY <3>1
  <2>3. CASE T \ {z} # {}
    <3>1. PICK x \in T \ {z} : \A y \in T \ {z} : f[y] <= f[x]
      BY <1>2, <2>3
    <3>2. CASE f[z] <= f[x]
      BY <3>1, <3>2
    <3>3. CASE ~ (f[z] <= f[x])
      <4>1. \A y \in T : f[y] <= f[z]
        BY <3>1, <3>3
      <4> QED BY <4>1
    <3> QED BY <3>2, <3>3
  <2> QED BY <2>2, <2>3
<1> HIDE DEF Good
<1>3. S \in Good
  BY <1>1, <1>2, SubsetInduction
<1> QED BY <1>3 DEF Good

\* A finite set of integers has a greatest one.
LEMMA GreatestInteger ==
    ASSUME NEW S, IsFiniteSet(S), S # {}, S \subseteq Int
    PROVE  \E x \in S : \A y \in S : y <= x
<1> DEFINE f == [x \in S |-> x]
<1>1. \A x \in S : f[x] = x /\ f[x] \in Int
  OBVIOUS
<1> HIDE DEF f
<1>2. PICK x \in S : \A y \in S : f[y] <= f[x]
  BY <1>1, GreatestValue
<1> QED BY <1>1, <1>2

-----------------------------------------------------------------------------
(* Sums of integers.                                                       *)

\* A sum of integers is an integer.
LEMMA SumType ==
    ASSUME NEW f, NEW S, IsFiniteSet(S), \A x \in S : f[x] \in Int
    PROVE  SumFunctionOnSet(f, S) \in Int
<1> DEFINE Good == {T \in SUBSET S : SumFunctionOnSet(f, T) \in Int}
<1>1. {} \in Good
  BY SumEmpty
<1>2. ASSUME NEW T \in SUBSET S, T # {}, \A x \in T : T \ {x} \in Good
      PROVE  T \in Good
  <2>1. PICK y : y = First(T)
    OBVIOUS
  <2>2. IsFiniteSet(T) /\ y \in T
    BY <1>2, <2>1, FirstIn, FS_Subset
  <2>3. SumFunctionOnSet(f, T) = f[y] + SumFunctionOnSet(f, T \ {y})
    BY <1>2, <2>1, <2>2, SumFirst
  <2>4. f[y] \in Int /\ SumFunctionOnSet(f, T \ {y}) \in Int
    BY <1>2, <2>2
  <2> QED BY <2>3, <2>4
<1> HIDE DEF Good
<1>3. S \in Good
  BY <1>1, <1>2, SubsetInduction
<1> QED BY <1>3 DEF Good

\* Any value can be taken out of a sum.
LEMMA SumRemove ==
    ASSUME NEW f, NEW S, IsFiniteSet(S), \A x \in S : f[x] \in Int
    PROVE  \A x \in S : SumFunctionOnSet(f, S) = f[x] + SumFunctionOnSet(f, S \ {x})
<1> DEFINE Out(T) == \A x \in T : SumFunctionOnSet(f, T) = f[x] + SumFunctionOnSet(f, T \ {x})
           Good == {T \in SUBSET S : Out(T)}
<1>1. {} \in Good
  OBVIOUS
<1>2. ASSUME NEW T \in SUBSET S, T # {}, \A x \in T : T \ {x} \in Good
      PROVE  T \in Good
  <2>1. IsFiniteSet(T) /\ First(T) \in T /\ \A U \in SUBSET T : IsFiniteSet(U)
    BY <1>2, FirstIn, FS_Subset
  <2> DEFINE y == First(T)
  <2>2. SumFunctionOnSet(f, T) = f[y] + SumFunctionOnSet(f, T \ {y})
    BY <1>2, <2>1, SumFirst
  <2>3. \A U \in SUBSET T : SumFunctionOnSet(f, U) \in Int
    BY <2>1, SumType
  <2> HIDE DEF y
  <2>4. y \in T
    BY <2>1 DEF y
  <2>5. ASSUME NEW x \in T, x # y
        PROVE  SumFunctionOnSet(f, T) = f[x] + SumFunctionOnSet(f, T \ {x})
    <3>1. PICK both : both = (T \ {y}) \ {x}
      OBVIOUS
    <3>2. SumFunctionOnSet(f, T \ {y}) = f[x] + SumFunctionOnSet(f, both)
      BY <1>2, <2>4, <2>5, <3>1
    <3>3. both = (T \ {x}) \ {y}
      BY <3>1
    <3>4. SumFunctionOnSet(f, T \ {x}) = f[y] + SumFunctionOnSet(f, both)
      BY <1>2, <2>4, <2>5, <3>3
    <3>5. f[x] \in Int /\ f[y] \in Int /\ SumFunctionOnSet(f, both) \in Int
      BY <2>3, <2>4, <3>1
    <3>6. SumFunctionOnSet(f, T) = f[y] + (f[x] + SumFunctionOnSet(f, both))
      BY <2>2, <3>2
    <3> QED BY <3>4, <3>5, <3>6
  <2>6. Out(T)
    BY <2>2, <2>5
  <2> QED BY <2>6
<1> HIDE DEF Good
<1>3. S \in Good
  BY <1>1, <1>2, SubsetInduction
<1> QED BY <1>3 DEF Good

\* Values that do not exceed each other add up to sums that do not.
LEMMA SumLeq ==
    ASSUME NEW f, NEW g, NEW S, IsFiniteSet(S),
           \A x \in S : f[x] \in Int /\ g[x] \in Int /\ f[x] <= g[x]
    PROVE  SumFunctionOnSet(f, S) <= SumFunctionOnSet(g, S)
<1> DEFINE Good == {T \in SUBSET S : SumFunctionOnSet(f, T) <= SumFunctionOnSet(g, T)}
<1>1. {} \in Good
  BY SumEmpty
<1>2. ASSUME NEW T \in SUBSET S, T # {}, \A x \in T : T \ {x} \in Good
      PROVE  T \in Good
  <2>1. PICK y \in T : TRUE
    BY <1>2
  <2>2. IsFiniteSet(T) /\ IsFiniteSet(T \ {y})
    BY FS_Subset
  <2>3. /\ SumFunctionOnSet(f, T) = f[y] + SumFunctionOnSet(f, T \ {y})
        /\ SumFunctionOnSet(g, T) = g[y] + SumFunctionOnSet(g, T \ {y})
    BY <2>2, SumRemove
  <2>4. SumFunctionOnSet(f, T \ {y}) \in Int /\ SumFunctionOnSet(g, T \ {y}) \in Int
    BY <2>2, SumType
  <2>5. SumFunctionOnSet(f, T \ {y}) <= SumFunctionOnSet(g, T \ {y})
    BY <1>2
  <2> QED BY <2>3, <2>4, <2>5
<1> HIDE DEF Good
<1>3. S \in Good
  BY <1>1, <1>2, SubsetInduction
<1> QED BY <1>3 DEF Good

\* A sum of natural numbers is one.
LEMMA SumNatural ==
    ASSUME NEW f, NEW S, IsFiniteSet(S), \A x \in S : f[x] \in Nat
    PROVE  SumFunctionOnSet(f, S) \in Nat
<1> DEFINE Good == {T \in SUBSET S : SumFunctionOnSet(f, T) \in Nat}
<1>1. {} \in Good
  BY SumEmpty
<1>2. ASSUME NEW T \in SUBSET S, T # {}, \A x \in T : T \ {x} \in Good
      PROVE  T \in Good
  <2>1. PICK y \in T : TRUE
    BY <1>2
  <2>2. SumFunctionOnSet(f, T) = f[y] + SumFunctionOnSet(f, T \ {y})
    BY FS_Subset, SumRemove
  <2>3. f[y] \in Nat /\ SumFunctionOnSet(f, T \ {y}) \in Nat
    BY <1>2
  <2> QED BY <2>2, <2>3
<1> HIDE DEF Good
<1>3. S \in Good
  BY <1>1, <1>2, SubsetInduction
<1> QED BY <1>3 DEF Good

\* Sums of the same values are equal.
LEMMA SumEqual ==
    ASSUME NEW f, NEW g, NEW S, IsFiniteSet(S),
           \A x \in S : f[x] \in Int /\ g[x] = f[x]
    PROVE  SumFunctionOnSet(f, S) = SumFunctionOnSet(g, S)
<1>1. SumFunctionOnSet(f, S) <= SumFunctionOnSet(g, S)
  BY SumLeq
<1>2. SumFunctionOnSet(g, S) <= SumFunctionOnSet(f, S)
  BY SumLeq
<1>3. SumFunctionOnSet(f, S) \in Int /\ SumFunctionOnSet(g, S) \in Int
  BY SumType
<1> QED BY <1>1, <1>2, <1>3

\* The sum of sums.
LEMMA SumPlus ==
    ASSUME NEW f, NEW g, NEW h, NEW S, IsFiniteSet(S),
           \A x \in S : f[x] \in Int /\ g[x] \in Int /\ h[x] = f[x] + g[x]
    PROVE  SumFunctionOnSet(h, S) = SumFunctionOnSet(f, S) + SumFunctionOnSet(g, S)
<1> DEFINE Good == {T \in SUBSET S : SumFunctionOnSet(h, T)
                                     = SumFunctionOnSet(f, T) + SumFunctionOnSet(g, T)}
<1>1. {} \in Good
  BY SumEmpty
<1>2. ASSUME NEW T \in SUBSET S, T # {}, \A x \in T : T \ {x} \in Good
      PROVE  T \in Good
  <2>1. PICK y \in T : TRUE
    BY <1>2
  <2>2. IsFiniteSet(T) /\ IsFiniteSet(T \ {y})
    BY FS_Subset
  <2>3. /\ SumFunctionOnSet(f, T) = f[y] + SumFunctionOnSet(f, T \ {y})
        /\ SumFunctionOnSet(g, T) = g[y] + SumFunctionOnSet(g, T \ {y})
        /\ SumFunctionOnSet(h, T) = h[y] + SumFunctionOnSet(h, T \ {y})
    BY <2>2, SumRemove
  <2>4. SumFunctionOnSet(f, T \ {y}) \in Int /\ SumFunctionOnSet(g, T \ {y}) \in Int
    BY <2>2, SumType
  <2>5. SumFunctionOnSet(h, T \ {y})
            = SumFunctionOnSet(f, T \ {y}) + SumFunctionOnSet(g, T \ {y})
    BY <1>2
  <2> QED BY <2>3, <2>4, <2>5
<1> HIDE DEF Good
<1>3. S \in Good
  BY <1>1, <1>2, SubsetInduction
<1> QED BY <1>3 DEF Good

\* Values outside a part add nothing if they are 0.
LEMMA SumPart ==
    ASSUME NEW f, NEW S, IsFiniteSet(S), NEW P, P \subseteq S,
           \A x \in S : f[x] \in Int, \A x \in S \ P : f[x] = 0
    PROVE  SumFunctionOnSet(f, S) = SumFunctionOnSet(f, P)
<1> DEFINE Good == {T \in SUBSET S : SumFunctionOnSet(f, T) = SumFunctionOnSet(f, T \cap P)}
<1>1. {} \in Good
  OBVIOUS
<1>2. ASSUME NEW T \in SUBSET S, T # {}, \A x \in T : T \ {x} \in Good
      PROVE  T \in Good
  <2>1. PICK y \in T : TRUE
    BY <1>2
  <2>2. IsFiniteSet(T) /\ IsFiniteSet(T \cap P)
    BY FS_Subset
  <2>3. SumFunctionOnSet(f, T) = f[y] + SumFunctionOnSet(f, T \ {y})
    BY <2>2, SumRemove
  <2>4. SumFunctionOnSet(f, T \ {y}) = SumFunctionOnSet(f, (T \ {y}) \cap P)
    BY <1>2
  <2>5. CASE y \in P
    <3>1. SumFunctionOnSet(f, T \cap P) = f[y] + SumFunctionOnSet(f, (T \cap P) \ {y})
      BY <2>2, <2>5, SumRemove
    <3>2. (T \cap P) \ {y} = (T \ {y}) \cap P
      OBVIOUS
    <3> QED BY <2>3, <2>4, <3>1, <3>2
  <2>6. CASE y \notin P
    <3>1. (T \ {y}) \cap P = T \cap P
      BY <2>6
    <3>2. SumFunctionOnSet(f, T \cap P) \in Int
      BY <2>2, SumType
    <3> QED BY <2>3, <2>4, <2>6, <3>1, <3>2
  <2> QED BY <2>5, <2>6
<1> HIDE DEF Good
<1>3. S \in Good
  BY <1>1, <1>2, SubsetInduction
<1>4. S \cap P = P
  OBVIOUS
<1> QED BY <1>3, <1>4 DEF Good

\* The sum of a value is the value.
LEMMA SumOne ==
    ASSUME NEW f, NEW x, f[x] \in Int
    PROVE  SumFunctionOnSet(f, {x}) = f[x]
<1>1. IsFiniteSet({x}) /\ {x} \ {x} = {}
  BY FS_Singleton
<1>2. SumFunctionOnSet(f, {x}) = f[x] + SumFunctionOnSet(f, {x} \ {x})
  BY <1>1, SumRemove
<1> QED BY <1>1, <1>2, SumEmpty

\* The sum of a constant.
LEMMA SumConstant ==
    ASSUME NEW f, NEW S, IsFiniteSet(S), NEW k \in Int, \A x \in S : f[x] = k
    PROVE  SumFunctionOnSet(f, S) = k * Cardinality(S)
<1> DEFINE Good == {T \in SUBSET S : SumFunctionOnSet(f, T) = k * Cardinality(T)}
<1>1. {} \in Good
  BY SumEmpty, FS_EmptySet
<1>2. ASSUME NEW T \in SUBSET S, T # {}, \A x \in T : T \ {x} \in Good
      PROVE  T \in Good
  <2>1. PICK y \in T : TRUE
    BY <1>2
  <2>2. IsFiniteSet(T) /\ IsFiniteSet(T \ {y})
    BY FS_Subset
  <2>3. SumFunctionOnSet(f, T) = k + SumFunctionOnSet(f, T \ {y})
    BY <2>2, SumRemove
  <2>4. SumFunctionOnSet(f, T \ {y}) = k * Cardinality(T \ {y})
    BY <1>2
  <2>5. PICK n : n = Cardinality(T \ {y})
    OBVIOUS
  <2>6. n \in Nat /\ Cardinality(T) = n + 1
    <3>1. Cardinality(T \ {y}) = Cardinality(T) - 1
      BY <2>2, FS_RemoveElement
    <3>2. Cardinality(T) \in Nat /\ n \in Nat
      BY <2>2, <2>5, FS_CardinalityType
    <3> QED BY <2>5, <3>1, <3>2
  <2>7. k + k * n = k * (n + 1)
    BY <2>6
  <2> QED BY <2>3, <2>4, <2>5, <2>6, <2>7
<1> HIDE DEF Good
<1>3. S \in Good
  BY <1>1, <1>2, SubsetInduction
<1> QED BY <1>3 DEF Good

\* A table of integers, f by rows and g by columns, with the sums of its rows
\* and of its columns.
CrossTable(f, g, rows, columns, X, Y) ==
    /\ \A x \in X : \A y \in Y : f[x][y] \in Int /\ g[y][x] = f[x][y]
    /\ \A x \in X : rows[x] = SumFunctionOnSet(f[x], Y)
    /\ \A y \in Y : columns[y] = SumFunctionOnSet(g[y], X)

\* The rows and the columns add up to the same.
LEMMA SumSwap ==
    ASSUME NEW f, NEW g, NEW rows, NEW columns, NEW X, NEW Y,
           IsFiniteSet(X), IsFiniteSet(Y), CrossTable(f, g, rows, columns, X, Y)
    PROVE  SumFunctionOnSet(rows, X) = SumFunctionOnSet(columns, Y)
<1>0. /\ \A x \in X : \A y \in Y : f[x][y] \in Int /\ g[y][x] = f[x][y]
      /\ \A x \in X : rows[x] = SumFunctionOnSet(f[x], Y)
      /\ \A y \in Y : columns[y] = SumFunctionOnSet(g[y], X)
  BY DEF CrossTable
<1> DEFINE sums(T) == [y \in Y |-> SumFunctionOnSet(g[y], T)]
           Good == {T \in SUBSET X : SumFunctionOnSet(rows, T) = SumFunctionOnSet(sums(T), Y)}
<1>1. {} \in Good
  <2>1. PICK a : a = sums({})
    OBVIOUS
  <2>2. \A y \in Y : a[y] = 0
    BY <2>1, SumEmpty
  <2>3. SumFunctionOnSet(a, Y) = SumFunctionOnSet(a, {})
    BY <2>2, SumPart
  <2> QED BY <2>1, <2>3, SumEmpty
<1>2. \A x \in X : rows[x] \in Int
  <2> SUFFICES ASSUME NEW x \in X PROVE rows[x] \in Int
    OBVIOUS
  <2>1. PICK h : h = f[x]
    OBVIOUS
  <2>2. \A y \in Y : h[y] \in Int
    BY <1>0, <2>1
  <2>3. SumFunctionOnSet(h, Y) \in Int
    BY <2>2, SumType
  <2> QED BY <1>0, <2>1, <2>3
<1>3. ASSUME NEW T \in SUBSET X, T # {}, \A x \in T : T \ {x} \in Good
      PROVE  T \in Good
  <2>1. PICK z \in T : TRUE
    BY <1>3
  <2>2. IsFiniteSet(T) /\ IsFiniteSet(T \ {z})
    BY FS_Subset
  <2>3. SumFunctionOnSet(rows, T) = rows[z] + SumFunctionOnSet(rows, T \ {z})
    BY <1>2, <2>2, SumRemove
  <2>4. PICK a, b, c : a = f[z] /\ b = sums(T \ {z}) /\ c = sums(T)
    OBVIOUS
  <2>5. ASSUME NEW y \in Y PROVE a[y] \in Int /\ b[y] \in Int /\ c[y] = a[y] + b[y]
    <3>1. PICK h : h = g[y]
      OBVIOUS
    <3>2. \A x \in X : h[x] = f[x][y] /\ h[x] \in Int
      BY <1>0, <3>1
    <3>3. SumFunctionOnSet(h, T) = h[z] + SumFunctionOnSet(h, T \ {z})
      BY <2>2, <3>2, SumRemove
    <3>4. SumFunctionOnSet(h, T \ {z}) \in Int
      BY <2>2, <3>2, SumType
    <3>5. b[y] = SumFunctionOnSet(h, T \ {z}) /\ c[y] = SumFunctionOnSet(h, T)
      BY <2>4, <3>1
    <3>6. a[y] = h[z] /\ a[y] \in Int
      BY <1>0, <2>4, <3>2
    <3> QED BY <3>3, <3>4, <3>5, <3>6
  <2>6. SumFunctionOnSet(c, Y) = SumFunctionOnSet(a, Y) + SumFunctionOnSet(b, Y)
    BY <2>5, SumPlus
  <2>7. rows[z] = SumFunctionOnSet(a, Y)
    BY <1>0, <2>4
  <2>8. SumFunctionOnSet(rows, T \ {z}) = SumFunctionOnSet(b, Y)
    BY <1>3, <2>4
  <2> QED BY <2>3, <2>4, <2>6, <2>7, <2>8
<1> HIDE DEF Good
<1>4. X \in Good
  BY <1>1, <1>3, SubsetInduction
<1>5. PICK a : a = sums(X)
  OBVIOUS
<1>6. SumFunctionOnSet(rows, X) = SumFunctionOnSet(a, Y)
  BY <1>4, <1>5 DEF Good
<1>7. ASSUME NEW y \in Y PROVE a[y] \in Int /\ columns[y] = a[y]
  <2>1. PICK h : h = g[y]
    OBVIOUS
  <2>2. \A x \in X : h[x] \in Int
    BY <1>0, <2>1
  <2>3. SumFunctionOnSet(h, X) \in Int
    BY <2>2, SumType
  <2> QED BY <1>0, <1>5, <2>1, <2>3
<1>8. SumFunctionOnSet(a, Y) = SumFunctionOnSet(columns, Y)
  BY <1>7, SumEqual
<1> QED BY <1>6, <1>8
=============================================================================
