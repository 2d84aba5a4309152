----------------------------- MODULE OrderLemmas -----------------------------
(* What the proofs need of numbers and of places in a sequence: induction, the
   least and the greatest of a finite set, and that the elements Picked are
   those at the places, in their order. *)
EXTENDS Places, FiniteSetsExt, Integers, Sequences, FiniteSetTheorems,
        WellFoundedInduction, TLAPS

-----------------------------------------------------------------------------
(* The induction of the natural numbers, over a set. *)
LEMMA NatInd ==
    ASSUME NEW S \in SUBSET Nat, 0 \in S, \A n \in S : n + 1 \in S
    PROVE  S = Nat
<1> SUFFICES ASSUME S # Nat PROVE FALSE
  OBVIOUS
<1> DEFINE T == Nat \ S
<1>1. T \subseteq Nat /\ T # {}
  OBVIOUS
<1>2. PICK t \in T : \A y \in T : ~ (<<y, t>> \in OpToRel(<, Nat))
  BY <1>1, NatLessThanWellFounded, WFMin
<1>3. \A y \in T : ~ (y < t)
  BY <1>1, <1>2 DEF OpToRel
<1>4. t # 0 /\ t \in Nat
  OBVIOUS
<1>5. t - 1 \in Nat /\ t - 1 < t
  BY <1>4
<1>6. t - 1 \in S
  BY <1>3, <1>5
<1> QED BY <1>4, <1>6

LEMMA HasLeast ==
  ASSUME NEW I \in SUBSET Nat, I # {}
  PROVE  \E m \in I : \A x \in I : m <= x
<1>1. PICK m \in I : \A y \in I : ~ (<<y, m>> \in OpToRel(<, Nat))
  BY NatLessThanWellFounded, WFMin
<1>2. \A y \in I : ~ (y < m)
  BY <1>1 DEF OpToRel
<1> QED BY <1>2

\* Among numbers that are bounded there is a largest.
LEMMA HasMax ==
    ASSUME NEW S \in SUBSET Nat, S # {}, NEW n \in Nat, \A x \in S : x <= n
    PROVE  Max(S) \in S /\ \A x \in S : x <= Max(S)
<1> DEFINE T == {n - x : x \in S}
<1>1. T \subseteq Nat /\ T # {}
  <2>1. \A x \in S : n - x \in Nat
    <3> TAKE x \in S
    <3>1. x \in Nat /\ x <= n
      OBVIOUS
    <3> QED BY <3>1
  <2> QED BY <2>1
<1> HIDE DEF T
<1>2. PICK t \in T : \A y \in T : ~ (<<y, t>> \in OpToRel(<, Nat))
  BY <1>1, NatLessThanWellFounded, WFMin
<1>3. \A y \in T : ~ (y < t)
  BY <1>1, <1>2 DEF OpToRel
<1>4. PICK m \in S : t = n - m
  BY DEF T
<1>5. \A x \in S : n - x \in T
  BY DEF T
<1>6. \A x \in S : m >= x
  <2> TAKE x \in S
  <2>1. x \in Nat /\ m \in Nat /\ ~ (n - x < n - m)
    BY <1>3, <1>4, <1>5
  <2> QED BY <2>1
<1> QED BY <1>6 DEF Max

\* How many places of I there are up to i.
Rank(I, i) == Cardinality({j \in I : j <= i})

LEMMA RankIs ==
  ASSUME NEW I \in SUBSET Nat, IsFiniteSet(I), NEW i \in I
  PROVE  Rank(I, i) \in 1..Cardinality(I)
<1> DEFINE T == {j \in I : j <= i}
<1>1. IsFiniteSet(T) /\ Cardinality(T) <= Cardinality(I) /\ Cardinality(T) \in Nat
      /\ Cardinality(I) \in Nat
  <2>1. T \subseteq I
    OBVIOUS
  <2> QED BY <2>1, FS_Subset, FS_CardinalityType
<1>2. i \in T
  OBVIOUS
<1>3. Cardinality(T) # 0
  BY <1>1, <1>2, FS_EmptySet
<1> QED BY <1>1, <1>3 DEF Rank

LEMMA RankGrows ==
  ASSUME NEW I \in SUBSET Nat, IsFiniteSet(I), NEW i \in I, NEW k \in I, i < k
  PROVE  Rank(I, i) < Rank(I, k)
<1> DEFINE T == {j \in I : j <= i}
           U == {j \in I : j <= k}
<1>1. IsFiniteSet(U)
  BY FS_Subset
<1>2. T \subseteq U /\ k \in U /\ k \notin T
  <2>1. i \in Nat /\ k \in Nat
    OBVIOUS
  <2>2. \A j \in I : j <= i => j <= k
    <3> TAKE j \in I
    <3>1. j \in Nat
      OBVIOUS
    <3> QED BY <2>1, <3>1
  <2>3. k <= k /\ ~ (k <= i)
    BY <2>1
  <2> QED BY <2>2, <2>3
<1>3. Cardinality(T) \in Nat /\ Cardinality(U) \in Nat /\ Cardinality(T) <= Cardinality(U)
      /\ (Cardinality(T) = Cardinality(U) => T = U)
  BY <1>1, <1>2, FS_Subset, FS_CardinalityType
<1> QED BY <1>2, <1>3 DEF Rank

\* Every rank is some place's.
LEMMA RankOnto ==
  ASSUME NEW I \in SUBSET Nat, IsFiniteSet(I), NEW n \in 1..Cardinality(I)
  PROVE  \E i \in I : Rank(I, i) = n
<1> DEFINE S == {k \in Nat : \A J \in SUBSET Nat :
                    IsFiniteSet(J) /\ Cardinality(J) = k =>
                        \A m \in 1..k : \E i \in J : Rank(J, i) = m}
<1>1. 0 \in S
  OBVIOUS
<1>2. ASSUME NEW k \in S PROVE k + 1 \in S
  <2> SUFFICES ASSUME NEW J \in SUBSET Nat, IsFiniteSet(J), Cardinality(J) = k + 1,
                      NEW m \in 1..k + 1
               PROVE  \E i \in J : Rank(J, i) = m
    OBVIOUS
  <2>1. k \in Nat
    OBVIOUS
  <2>2. J # {}
    BY <2>1, FS_EmptySet
  <2>3. PICK least \in J : \A x \in J : least <= x
    BY <2>2, HasLeast
  <2> DEFINE K == J \ {least}
  <2>4. K \in SUBSET Nat /\ IsFiniteSet(K) /\ Cardinality(K) = k
    BY <2>1, FS_RemoveElement
  <2>5. CASE m = 1
    <3>1. {j \in J : j <= least} = {least}
      <4>1. \A j \in J : j <= least <=> j = least
        <5> TAKE j \in J
        <5>1. j \in Nat /\ least \in Nat /\ least <= j
          BY <2>3
        <5> QED BY <5>1
      <4> QED BY <4>1
    <3>2. Rank(J, least) = 1
      BY <3>1, FS_Singleton DEF Rank
    <3> QED BY <2>5, <3>2
  <2>6. CASE m # 1
    <3>1. m - 1 \in 1..k
      BY <2>1, <2>6
    <3>2. PICK i \in K : Rank(K, i) = m - 1
      BY <2>4, <3>1
    <3> DEFINE T == {j \in K : j <= i}
    <3>3. {j \in J : j <= i} = T \cup {least} /\ least \notin T
      BY <2>3
    <3>4. IsFiniteSet(T)
      BY <2>4, FS_Subset
    <3>5. Cardinality(T \cup {least}) = Cardinality(T) + 1
      BY <3>3, <3>4, FS_AddElement
    <3>6. Rank(J, i) = m
      BY <3>2, <3>3, <3>5 DEF Rank
    <3> QED BY <3>2, <3>6
  <2> QED BY <2>5, <2>6
<1>3. S = Nat
  <2> HIDE DEF S
  <2>1. S \in SUBSET Nat
    BY DEF S
  <2> QED BY <1>1, <1>2, <2>1, NatInd
<1> QED BY <1>3, FS_CardinalityType

\* The n-th place is a place, and n is its rank.
LEMMA NthIs ==
  ASSUME NEW I \in SUBSET Nat, IsFiniteSet(I), NEW n \in 1..Cardinality(I)
  PROVE  Nth(I, n) \in I /\ Rank(I, Nth(I, n)) = n
BY RankOnto DEF Nth, Rank

\* A place is the n-th when n is its rank.
LEMMA NthOfRank ==
  ASSUME NEW I \in SUBSET Nat, IsFiniteSet(I), NEW i \in I
  PROVE  Nth(I, Rank(I, i)) = i
<1> DEFINE k == Nth(I, Rank(I, i))
<1>1. k \in I /\ Rank(I, k) = Rank(I, i)
  BY RankIs, NthIs
<1>2. Rank(I, i) \in Nat /\ Rank(I, k) \in Nat
  BY <1>1, RankIs
<1>3. ~ (k < i) /\ ~ (i < k)
  <2> HIDE DEF k
  <2> QED BY <1>1, <1>2, RankGrows
<1> HIDE DEF k
<1>4. i \in Nat /\ k \in Nat
  BY <1>1
<1>5. k = i
  BY <1>3, <1>4
<1> QED BY <1>5 DEF k

\* The places are numbered in their order.
LEMMA NthGrows ==
  ASSUME NEW I \in SUBSET Nat, IsFiniteSet(I), NEW n \in 1..Cardinality(I),
         NEW m \in 1..Cardinality(I), n < m
  PROVE  Nth(I, n) < Nth(I, m)
<1>1. Nth(I, n) \in I /\ Rank(I, Nth(I, n)) = n /\ Nth(I, m) \in I /\ Rank(I, Nth(I, m)) = m
  BY NthIs
<1>2. n \in Nat /\ m \in Nat
  BY FS_CardinalityType
<1> DEFINE i == Nth(I, n)
           k == Nth(I, m)
<1> HIDE DEF i, k
<1>3. i \in I /\ Rank(I, i) = n /\ k \in I /\ Rank(I, k) = m
  BY <1>1 DEF i, k
<1>4. i \in Nat /\ k \in Nat
  BY <1>3
<1>5. ~ (k < i) /\ k # i
  BY <1>2, <1>3, RankGrows
<1>6. i < k
  BY <1>4, <1>5
<1> QED BY <1>6 DEF i, k

\* A place behind all the others is the last one, and moves none of them.
LEMMA NthExtended ==
  ASSUME NEW I \in SUBSET Nat, IsFiniteSet(I), NEW a \in Nat, \A i \in I : i < a
  PROVE  /\ IsFiniteSet(I \cup {a})
         /\ Cardinality(I \cup {a}) = Cardinality(I) + 1
         /\ \A n \in 1..Cardinality(I) : Nth(I \cup {a}, n) = Nth(I, n)
         /\ Nth(I \cup {a}, Cardinality(I) + 1) = a
<1> DEFINE J == I \cup {a}
<1>1. a \notin I
  OBVIOUS
<1>2. J \in SUBSET Nat /\ IsFiniteSet(J) /\ Cardinality(J) = Cardinality(I) + 1
  BY <1>1, FS_AddElement
<1>3. \A i \in I : Rank(J, i) = Rank(I, i)
  <2> TAKE i \in I
  <2>1. {j \in J : j <= i} = {j \in I : j <= i}
    OBVIOUS
  <2> QED BY <2>1 DEF Rank
<1>4. Rank(J, a) = Cardinality(J)
  <2>1. \A j \in J : j <= a
    OBVIOUS
  <2>2. {j \in J : j <= a} = J
    BY <2>1
  <2> QED BY <2>2 DEF Rank
<1>5. \A n \in 1..Cardinality(I) : Nth(J, n) = Nth(I, n)
  <2> TAKE n \in 1..Cardinality(I)
  <2>1. Nth(I, n) \in I /\ Rank(I, Nth(I, n)) = n
    BY NthIs
  <2>2. Rank(J, Nth(I, n)) = n /\ Nth(I, n) \in J
    BY <1>3, <2>1
  <2> HIDE DEF J
  <2> QED BY <1>2, <2>2, NthOfRank
<1>6. Nth(J, Cardinality(I) + 1) = a
  <2>1. a \in J
    OBVIOUS
  <2> HIDE DEF J
  <2> QED BY <1>2, <1>4, <2>1, NthOfRank
<1> QED BY <1>2, <1>5, <1>6

\* The elements picked are those at the places, one for each.
LEMMA PickedIs ==
  ASSUME NEW I \in SUBSET Nat, IsFiniteSet(I), NEW s
  PROVE  /\ Cardinality(I) \in Nat
         /\ DOMAIN Picked(s, I) = 1..Cardinality(I)
         /\ Len(Picked(s, I)) = Cardinality(I)
         /\ \A n \in 1..Cardinality(I) : Picked(s, I)[n] = s[Nth(I, n)]
         /\ \A n \in 1..Cardinality(I) : Nth(I, n) \in I
         /\ \A i \in I : \E n \in 1..Cardinality(I) : Picked(s, I)[n] = s[i]
<1>1. Cardinality(I) \in Nat
  BY FS_CardinalityType
<1>2. /\ DOMAIN Picked(s, I) = 1..Cardinality(I)
      /\ \A n \in 1..Cardinality(I) : Picked(s, I)[n] = s[Nth(I, n)]
  BY DEF Picked
<1>3. Len(Picked(s, I)) = Cardinality(I)
  BY <1>1 DEF Picked
<1>4. \A n \in 1..Cardinality(I) : Nth(I, n) \in I
  BY NthIs
<1>5. ASSUME NEW i \in I PROVE \E n \in 1..Cardinality(I) : Picked(s, I)[n] = s[i]
  BY <1>2, RankIs, NthOfRank
<1> QED BY <1>1, <1>2, <1>3, <1>4, <1>5
==============================================================================
