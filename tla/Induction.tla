----------------------------- MODULE Induction -----------------------------
(***************************************************************************)
(* Induction over numbers and over finite sets, in a form that needs no    *)
(* operator as a parameter: a property is the set of what has it.  Both    *)
(* are derived from the library's theorems on well-founded orderings.      *)
(* With them what the proofs share: sums of numbers, parts of a sequence.  *)
(***************************************************************************)
EXTENDS Integers, Subsequences, SequenceTheorems, FiniteSetTheorems, WellFoundedInduction, TLAPS

LEMMA SubsetsAreWellFounded ==
  ASSUME NEW S, IsFiniteSet(S)
  PROVE  IsWellFoundedOn(StrictSubsetOrdering(S), SUBSET S)
<1>1. FiniteSubsetsOf(S) = SUBSET S
  BY FS_FiniteSubsetsOfFinite
<1> QED BY <1>1, FS_StrictSubsetOrderingWellFounded

\* A set of numbers that is not empty has a smallest one.
LEMMA NatMin ==
  ASSUME NEW T \in SUBSET Nat, T # {}
  PROVE  \E m \in T : \A k \in T : m <= k
<1>0. PICK n \in T : TRUE
  OBVIOUS
<1> DEFINE P == {1..k : k \in {j \in T : j <= n}}
<1>1. IsWellFoundedOn(StrictSubsetOrdering(1..n), SUBSET (1..n))
  <2>1. IsFiniteSet(1..n)
    BY FS_Interval
  <2> QED BY <2>1, SubsetsAreWellFounded
<1>2. P \subseteq SUBSET (1..n) /\ P # {}
  BY <1>0
<1>3. PICK X \in P : \A Y \in P : ~(<<Y, X>> \in StrictSubsetOrdering(1..n))
  BY <1>1, <1>2, WFMin
<1>4. PICK m \in T : m <= n /\ X = 1..m
  OBVIOUS
<1>5. ASSUME NEW k \in T, k < m PROVE FALSE
  <2>1. 1..k \in P /\ 1..k \subseteq 1..m /\ m \notin 1..k /\ m \in 1..m
    BY <1>4, <1>5
  <2> QED BY <1>2, <1>3, <1>4, <2>1 DEF StrictSubsetOrdering
<1> QED BY <1>5

LEMMA NatByInduction ==
  ASSUME NEW P, 0 \in P, \A n \in Nat : n \in P => n + 1 \in P
  PROVE  Nat \subseteq P
<1> SUFFICES ASSUME NEW n \in Nat, n \notin P PROVE FALSE
  OBVIOUS
<1>1. PICK m \in Nat \ P : \A k \in Nat \ P : m <= k
  BY NatMin
<1>2. m # 0 /\ m - 1 \in Nat /\ m - 1 \notin Nat \ P
  BY <1>1
<1> QED BY <1>1, <1>2

LEMMA SetByInduction ==
  ASSUME NEW S, IsFiniteSet(S), NEW P, {} \in P,
         \A T \in SUBSET S : \A x \in S \ T : T \in P => T \cup {x} \in P
  PROVE  S \in P
<1> SUFFICES ASSUME S \notin P PROVE FALSE
  OBVIOUS
<1> DEFINE Q == {T \in SUBSET S : T \notin P}
<1>1. S \in Q
  OBVIOUS
<1>2. PICK X \in Q : \A Y \in Q : ~(<<Y, X>> \in StrictSubsetOrdering(S))
  BY <1>1, SubsetsAreWellFounded, WFMin
<1>3. PICK x \in X : TRUE
  OBVIOUS
<1>4. X \ {x} \in SUBSET S /\ x \in S \ (X \ {x}) /\ X = (X \ {x}) \cup {x} /\ X \ {x} # X
  BY <1>2, <1>3
<1>5. X \ {x} \notin P
  BY <1>2, <1>4
<1>6. <<X \ {x}, X>> \in StrictSubsetOrdering(S)
  BY <1>4 DEF StrictSubsetOrdering
<1> QED BY <1>2, <1>4, <1>5, <1>6

---------------------------------------------------------------------------
\* Sums of the numbers d[1], ..., d[n]

IsSums(f, d, n) == f[0] = 0 /\ \A k \in 1..n : f[k] = f[k - 1] + d[k]

Total(d, n) == (CHOOSE f \in [0..n -> Int] : IsSums(f, d, n))[n]

LEMMA SumsExist ==
  ASSUME NEW n \in Nat, NEW d, \A k \in 1..n : d[k] \in Int
  PROVE  \E f \in [0..n -> Int] : IsSums(f, d, n)
<1> DEFINE P == {m \in Nat : m <= n => \E f \in [0..m -> Int] : IsSums(f, d, m)}
<1>1. 0 \in P
  <2>1. [k \in 0..0 |-> 0] \in [0..0 -> Int] /\ IsSums([k \in 0..0 |-> 0], d, 0)
    BY DEF IsSums
  <2> QED BY <2>1
<1>2. ASSUME NEW m \in Nat, m \in P PROVE m + 1 \in P
  <2> SUFFICES ASSUME m + 1 <= n PROVE \E f \in [0..(m + 1) -> Int] : IsSums(f, d, m + 1)
    OBVIOUS
  <2>1. PICK f \in [0..m -> Int] : IsSums(f, d, m)
    BY <1>2
  <2> DEFINE g == [k \in 0..(m + 1) |-> IF k = m + 1 THEN f[m] + d[m + 1] ELSE f[k]]
  <2>2. g \in [0..(m + 1) -> Int]
    BY <2>1
  <2>3. IsSums(g, d, m + 1)
    BY <2>1 DEF IsSums
  <2> QED BY <2>2, <2>3
<1> HIDE DEF P
<1>3. n \in P
  BY <1>1, <1>2, NatByInduction
<1> QED BY <1>3 DEF P

LEMMA SumsAreUnique ==
  ASSUME NEW n \in Nat, NEW d, \A k \in 1..n : d[k] \in Int,
         NEW f, IsSums(f, d, n), NEW g, IsSums(g, d, n)
  PROVE  \A k \in 0..n : f[k] = g[k]
<1> DEFINE P == {m \in Nat : m <= n => f[m] = g[m]}
<1>1. 0 \in P
  BY DEF IsSums
<1>2. ASSUME NEW m \in Nat, m \in P PROVE m + 1 \in P
  <2> SUFFICES ASSUME m + 1 <= n PROVE f[m + 1] = g[m + 1]
    OBVIOUS
  <2>1. f[m] = g[m] /\ m + 1 \in 1..n /\ (m + 1) - 1 = m
    BY <1>2
  <2> QED BY <2>1 DEF IsSums
<1> HIDE DEF P
<1>3. Nat \subseteq P
  BY <1>1, <1>2, NatByInduction
<1> QED BY <1>3 DEF P

\* Whatever satisfies the recursion gives the total.
LEMMA TotalIs ==
  ASSUME NEW n \in Nat, NEW d, \A k \in 1..n : d[k] \in Int, NEW f, IsSums(f, d, n)
  PROVE  f[n] = Total(d, n) /\ Total(d, n) \in Int
<1> DEFINE g == CHOOSE g \in [0..n -> Int] : IsSums(g, d, n)
<1>1. g \in [0..n -> Int] /\ IsSums(g, d, n)
  BY SumsExist
<1>2. Total(d, n) = g[n]
  BY DEF Total
<1> HIDE DEF g
<1>3. f[n] = g[n]
  BY <1>1, SumsAreUnique
<1> QED BY <1>1, <1>2, <1>3

LEMMA TotalIsNumber ==
  ASSUME NEW n \in Nat, NEW d, \A k \in 1..n : d[k] \in Int
  PROVE  Total(d, n) \in Int
<1>1. PICK f \in [0..n -> Int] : IsSums(f, d, n)
  BY SumsExist
<1> QED BY <1>1, TotalIs

LEMMA TotalOfNone == ASSUME NEW d PROVE Total(d, 0) = 0
<1>1. IsSums([k \in 0..0 |-> 0], d, 0)
  BY DEF IsSums
<1> QED BY <1>1, TotalIs

\* One number more.
LEMMA TotalOfMore ==
  ASSUME NEW n \in Nat, NEW d, \A k \in 1..(n + 1) : d[k] \in Int
  PROVE  Total(d, n + 1) = Total(d, n) + d[n + 1]
<1>1. PICK f \in [0..(n + 1) -> Int] : IsSums(f, d, n + 1)
  BY SumsExist
<1>2. IsSums(f, d, n)
  BY <1>1 DEF IsSums
<1>3. f[n + 1] = Total(d, n + 1) /\ f[n] = Total(d, n)
  BY <1>1, <1>2, TotalIs
<1> QED BY <1>1, <1>3 DEF IsSums

\* The same numbers have the same total, and what one number grows by the total does.
LEMMA TotalOfSame ==
  ASSUME NEW n \in Nat, NEW d, NEW e, \A k \in 1..n : d[k] \in Int /\ e[k] = d[k]
  PROVE  Total(e, n) = Total(d, n)
<1>1. PICK f \in [0..n -> Int] : IsSums(f, d, n)
  BY SumsExist
<1>2. IsSums(f, e, n)
  BY <1>1 DEF IsSums
<1> QED BY <1>1, <1>2, TotalIs

LEMMA TotalOfChange ==
  ASSUME NEW n \in Nat, NEW d, NEW e, NEW m \in 1..n, NEW v \in Int,
         \A k \in 1..n : d[k] \in Int /\ e[k] = IF k = m THEN d[k] + v ELSE d[k]
  PROVE  Total(e, n) = Total(d, n) + v
<1>1. PICK f \in [0..n -> Int] : IsSums(f, d, n)
  BY SumsExist
<1> DEFINE g == [k \in 0..n |-> IF k >= m THEN f[k] + v ELSE f[k]]
<1>2. IsSums(g, e, n)
  <2>1. g[0] = 0
    BY <1>1 DEF IsSums
  <2>2. ASSUME NEW k \in 1..n PROVE g[k] = g[k - 1] + e[k]
    <3>1. k \in 0..n /\ k - 1 \in 0..n /\ f[k] \in Int /\ f[k - 1] \in Int
      BY <1>1
    <3>2. f[k] = f[k - 1] + d[k] /\ d[k] \in Int
      BY <1>1 DEF IsSums
    <3>3. /\ g[k] = IF k >= m THEN f[k] + v ELSE f[k]
          /\ g[k - 1] = IF k - 1 >= m THEN f[k - 1] + v ELSE f[k - 1]
      BY <3>1
    <3>4. e[k] = IF k = m THEN d[k] + v ELSE d[k]
      OBVIOUS
    <3> HIDE DEF g
    <3>5. CASE k < m
      BY <3>1, <3>2, <3>3, <3>4, <3>5
    <3>6. CASE k = m
      BY <3>1, <3>2, <3>3, <3>4, <3>6
    <3>7. CASE k > m
      BY <3>1, <3>2, <3>3, <3>4, <3>7
    <3> QED BY <3>5, <3>6, <3>7
  <2> QED BY <2>1, <2>2 DEF IsSums
<1>3. f[n] = Total(d, n)
  BY <1>1, TotalIs
<1>4. g[n] = Total(e, n)
  <2>1. \A k \in 1..n : e[k] \in Int
    OBVIOUS
  <2> HIDE DEF g
  <2> QED BY <1>2, <2>1, TotalIs
<1> QED BY <1>1, <1>3, <1>4

---------------------------------------------------------------------------
(* Parts of a sequence *)

\* The first n positions are n.
LEMMA FirstPositions ==
  ASSUME NEW n \in Nat
  PROVE  IsFiniteSet(1..n) /\ Cardinality(1..n) = n
<1>1. 1 \in Int /\ n \in Int /\ (1 > n => n = 0)
  OBVIOUS
<1> QED BY <1>1, FS_Interval

\* Positions have different places, and every place has its position.
LEMMA PlacesAreTaken ==
  ASSUME NEW n \in Nat, NEW at \in SUBSET (1..n)
  PROVE  /\ Cardinality(at) \in Nat /\ Cardinality(at) <= n
         /\ \A i \in at : Place(i, at) \in 1..Cardinality(at)
         /\ \A i, j \in at : i < j => Place(i, at) < Place(j, at)
         /\ \A i, j \in at : Place(i, at) = Place(j, at) => i = j
         /\ \A k \in 1..Cardinality(at) : \E i \in at : Place(i, at) = k
<1>0. \A i \in at : i \in Int
  OBVIOUS
<1>1. IsFiniteSet(at) /\ Cardinality(at) \in Nat /\ Cardinality(at) <= n
  <2>1. IsFiniteSet(1..n) /\ Cardinality(1..n) = n
    BY FirstPositions
  <2>2. IsFiniteSet(at) /\ Cardinality(at) <= n
    BY <2>1, FS_Subset
  <2> QED BY <2>2, FS_CardinalityType
<1> DEFINE upTo(i) == {j \in at : j <= i}
<1>2. ASSUME NEW i \in at
      PROVE  IsFiniteSet(upTo(i)) /\ Place(i, at) = Cardinality(upTo(i)) /\ Place(i, at) \in 1..Cardinality(at)
  <2>1. upTo(i) \in SUBSET at /\ i \in upTo(i)
    OBVIOUS
  <2>2. /\ IsFiniteSet(upTo(i)) /\ Cardinality(upTo(i)) \in Nat
        /\ Cardinality(upTo(i)) <= Cardinality(at) /\ Cardinality(upTo(i)) # 0
    BY <1>1, <2>1, FS_Subset, FS_CardinalityType, FS_EmptySet
  <2> QED BY <1>1, <2>2 DEF Place
<1>3. ASSUME NEW i \in at, NEW j \in at, i < j PROVE Place(i, at) < Place(j, at)
  <2>1. upTo(i) \in SUBSET upTo(j) /\ upTo(i) # upTo(j)
    <3>1. j \in upTo(j) /\ j \notin upTo(i)
      BY <1>0, <1>3
    <3>2. \A k \in upTo(i) : k \in upTo(j)
      BY <1>0, <1>3
    <3> QED BY <3>1, <3>2
  <2>2. /\ Cardinality(upTo(i)) <= Cardinality(upTo(j))
        /\ Cardinality(upTo(i)) # Cardinality(upTo(j))
    BY <1>2, <2>1, FS_Subset
  <2> QED BY <1>1, <1>2, <2>2
<1>4. \A i, j \in at : Place(i, at) = Place(j, at) => i = j
  <2> SUFFICES ASSUME NEW i \in at, NEW j \in at, Place(i, at) = Place(j, at), i # j PROVE FALSE
    OBVIOUS
  <2>1. i < j \/ j < i
    BY <1>0
  <2>2. Place(i, at) \in Int /\ Place(j, at) \in Int
    <3>1. Place(i, at) \in 1..Cardinality(at) /\ Place(j, at) \in 1..Cardinality(at)
      BY <1>2
    <3> QED BY <3>1
  <2>3. ~(Place(i, at) < Place(j, at)) /\ ~(Place(j, at) < Place(i, at))
    BY <2>2
  <2> QED BY <1>3, <2>1, <2>3
<1> DEFINE f == [i \in at |-> Place(i, at)]
<1>5. f \in Injection(at, 1..Cardinality(at))
  BY <1>2, <1>4 DEF Injection, IsInjective
<1>6. f \in Surjection(at, 1..Cardinality(at))
  <2>1. IsFiniteSet(1..Cardinality(at)) /\ Cardinality(1..Cardinality(at)) = Cardinality(at)
    BY <1>1, FirstPositions
  <2> HIDE DEF f
  <2> QED BY <1>5, <2>1, FS_Injection
<1>7. \A k \in 1..Cardinality(at) : \E i \in at : f[i] = k
  BY <1>6 DEF Surjection
<1> QED BY <1>1, <1>2, <1>3, <1>4, <1>7

\* What is picked are the elements at the positions, all of them.
LEMMA PickedOf ==
  ASSUME NEW S, NEW s \in Seq(S), NEW at \in SUBSET (1..Len(s))
  PROVE  /\ Picked(s, at) \in Seq(S) /\ Len(Picked(s, at)) \in Nat
         /\ \A k \in 1..Len(Picked(s, at)) : \E i \in at : Picked(s, at)[k] = s[i]
         /\ \A i \in at : \E k \in 1..Len(Picked(s, at)) : Picked(s, at)[k] = s[i]
<1> DEFINE m == Cardinality(at)
           p == Picked(s, at)
           pos(k) == CHOOSE i \in at : Place(i, at) = k
<1>1. PICK n \in Nat : n = Len(s)
  OBVIOUS
<1>2. /\ m \in Nat
      /\ \A i \in at : Place(i, at) \in 1..m
      /\ \A i, j \in at : Place(i, at) = Place(j, at) => i = j
      /\ \A k \in 1..m : \E i \in at : Place(i, at) = k
  BY <1>1, PlacesAreTaken
<1>3. p = [k \in 1..m |-> s[pos(k)]]
  BY DEF Picked
<1> HIDE DEF m, p
<1>4. \A k \in 1..m : pos(k) \in at /\ Place(pos(k), at) = k
  BY <1>2
<1>5. \A i \in at : pos(Place(i, at)) = i
  BY <1>2, <1>4
<1> HIDE DEF pos
<1>6. \A i \in at : s[i] \in S
  BY ElementOfSeq
<1>7. p \in Seq(S) /\ Len(p) = m
  <2>1. p \in [1..m -> S]
    BY <1>3, <1>4, <1>6
  <2> QED BY <1>2, <2>1
<1>8. \A k \in 1..m : p[k] = s[pos(k)]
  BY <1>3
<1>9. \A i \in at : Place(i, at) \in 1..m /\ p[Place(i, at)] = s[i]
  BY <1>2, <1>5, <1>8
<1> QED BY <1>2, <1>4, <1>7, <1>8, <1>9 DEF p

\* To pick everything changes nothing.
LEMMA PickedAll ==
  ASSUME NEW S, NEW s \in Seq(S)
  PROVE  Picked(s, 1..Len(s)) = s
<1>1. PICK n \in Nat : n = Len(s)
  OBVIOUS
<1>2. \A i \in 1..n : Place(i, 1..n) = i
  <2> SUFFICES ASSUME NEW i \in 1..n PROVE Place(i, 1..n) = i
    OBVIOUS
  <2>1. {j \in 1..n : j <= i} = 1..i
    OBVIOUS
  <2>2. Cardinality(1..i) = i
    BY FirstPositions
  <2> QED BY <2>1, <2>2 DEF Place
<1>3. \A k \in 1..n : (CHOOSE i \in 1..n : Place(i, 1..n) = k) = k
  BY <1>2
<1>4. Cardinality(1..n) = n
  BY FirstPositions
<1> DEFINE pos(k) == CHOOSE i \in 1..n : Place(i, 1..n) = k
<1>5. Picked(s, 1..n) = [k \in 1..n |-> s[pos(k)]]
  BY Zenon, <1>4 DEF Picked
<1>6. \A k \in 1..n : pos(k) = k
  BY <1>3
<1> HIDE DEF pos
<1>7. [k \in 1..n |-> s[pos(k)]] = [k \in 1..n |-> s[k]]
  BY <1>6
<1> QED BY <1>1, <1>5, <1>7

\* What is picked comes in the order of the sequence, each element from a position of its own.
InOrder(p, s, at) ==
  \E pos \in [1..Len(p) -> at] :
    /\ \A k \in 1..Len(p) : p[k] = s[pos[k]]
    /\ \A k, l \in 1..Len(p) : k < l => pos[k] < pos[l]
    /\ \A i \in at : \E k \in 1..Len(p) : pos[k] = i

LEMMA PickedInOrder ==
  ASSUME NEW S, NEW s \in Seq(S), NEW at \in SUBSET (1..Len(s))
  PROVE  InOrder(Picked(s, at), s, at)
<1> DEFINE m == Cardinality(at)
           pos == [k \in 1..m |-> CHOOSE i \in at : Place(i, at) = k]
<1>1. PICK n \in Nat : n = Len(s)
  OBVIOUS
<1>0. \A i \in at : i \in Int
  BY <1>1
<1>2. /\ m \in Nat
      /\ \A i \in at : Place(i, at) \in 1..m
      /\ \A i, j \in at : i < j => Place(i, at) < Place(j, at)
      /\ \A i, j \in at : Place(i, at) = Place(j, at) => i = j
      /\ \A k \in 1..m : \E i \in at : Place(i, at) = k
  BY <1>1, PlacesAreTaken
<1> HIDE DEF m
<1>3. \A k \in 1..m : pos[k] \in at /\ Place(pos[k], at) = k
  BY <1>2
<1>4. pos \in [1..m -> at]
  BY <1>3
<1>5. Picked(s, at) = [k \in 1..m |-> s[pos[k]]]
  BY DEF Picked, m
<1>6. Len(Picked(s, at)) = m
  BY <1>2, <1>5
<1> HIDE DEF pos
<1>7. ASSUME NEW k \in 1..m, NEW l \in 1..m, k < l PROVE pos[k] < pos[l]
  <2>1. pos[k] \in at /\ pos[l] \in at /\ Place(pos[k], at) = k /\ Place(pos[l], at) = l
    BY <1>3
  <2>2. pos[k] \in Int /\ pos[l] \in Int /\ pos[k] # pos[l]
    <3>1. k # l
      BY <1>2, <1>7
    <3> QED BY <1>0, <2>1, <3>1
  <2>3. ASSUME pos[l] < pos[k] PROVE FALSE
    <3>1. Place(pos[l], at) < Place(pos[k], at)
      BY <1>2, <2>1, <2>3
    <3> QED BY <1>2, <1>7, <2>1, <3>1
  <2> QED BY <2>2, <2>3
<1>8. \A i \in at : Place(i, at) \in 1..m /\ pos[Place(i, at)] = i
  BY <1>2, <1>3
<1>9. \A k \in 1..m : Picked(s, at)[k] = s[pos[k]]
  BY <1>5
<1> QED BY <1>4, <1>6, <1>7, <1>8, <1>9 DEF InOrder

\* The end of a sequence, from a position on.
LEMMA EndOf ==
  ASSUME NEW S, NEW s \in Seq(S), NEW first \in 1..(Len(s) + 1)
  PROVE  /\ SubSeq(s, first, Len(s)) \in Seq(S)
         /\ Len(SubSeq(s, first, Len(s))) = Len(s) - first + 1
         /\ \A i \in 1..(Len(s) - first + 1) : SubSeq(s, first, Len(s))[i] = s[first + i - 1]
<1>1. Len(s) \in Nat /\ first \in Int /\ Len(s) \in Int
  BY LenProperties
<1>2. \A i \in first..Len(s) : s[i] \in S
  BY <1>1, ElementOfSeq
<1>3. /\ SubSeq(s, first, Len(s)) \in Seq(S)
      /\ Len(SubSeq(s, first, Len(s))) = IF first <= Len(s) THEN Len(s) - first + 1 ELSE 0
      /\ \A i \in 1..(Len(s) - first + 1) : SubSeq(s, first, Len(s))[i] = s[first + i - 1]
  BY <1>1, <1>2, SubSeqProperties
<1> QED BY <1>1, <1>3

\* One sequence after another.
LEMMA ConcatOf ==
  ASSUME NEW S, NEW s \in Seq(S), NEW t \in Seq(S), NEW n \in Nat, n = Len(s)
  PROVE  /\ s \o t \in Seq(S) /\ Len(s \o t) = n + Len(t)
         /\ \A i \in 1..n : (s \o t)[i] = s[i]
         /\ \A i \in 1..Len(t) : (s \o t)[n + i] = t[i]
<1> PICK m \in Nat : m = Len(t)
  BY LenProperties
<1>1. /\ s \o t \in Seq(S) /\ Len(s \o t) = n + m
      /\ \A i \in 1..(n + m) : (s \o t)[i] = IF i <= n THEN s[i] ELSE t[i - n]
  BY ConcatProperties
<1>2. \A i \in 1..n : i \in 1..(n + m) /\ i <= n
  OBVIOUS
<1>3. \A i \in 1..m : n + i \in 1..(n + m) /\ ~(n + i <= n) /\ (n + i) - n = i
  OBVIOUS
<1>4. ASSUME NEW i \in 1..m PROVE (s \o t)[n + i] = t[i]
  BY <1>1, <1>3
<1> QED BY <1>1, <1>2, <1>4

\* The first of one sequence becomes the last of another: together they are what they were.
LEMMA HandedOver ==
  ASSUME NEW S, NEW s \in Seq(S), NEW t \in Seq(S), t # <<>>
  PROVE  Append(s, Head(t)) \o Tail(t) = s \o t
<1> PICK n \in Nat : n = Len(s)
  BY LenProperties
<1> PICK m \in Nat \ {0} : m = Len(t)
  BY EmptySeq
<1>1. /\ Head(t) \in S /\ Head(t) = t[1] /\ Tail(t) \in Seq(S) /\ Len(Tail(t)) = m - 1
      /\ \A i \in 1..(m - 1) : Tail(t)[i] = t[i + 1]
  BY HeadTailProperties
<1> PICK a : a = Append(s, Head(t))
  OBVIOUS
<1> PICK b : b = Tail(t)
  OBVIOUS
<1>2. a \in Seq(S) /\ Len(a) = n + 1 /\ a[n + 1] = t[1] /\ \A i \in 1..n : a[i] = s[i]
  BY <1>1, AppendProperties
<1>3. /\ a \o b \in Seq(S) /\ Len(a \o b) = (n + 1) + (m - 1)
      /\ \A i \in 1..(n + 1) : (a \o b)[i] = a[i]
      /\ \A i \in 1..(m - 1) : (a \o b)[n + 1 + i] = b[i]
  <2>1. PICK q \in Nat : q = n + 1 /\ q = Len(a)
    BY <1>2
  <2>2. a \in Seq(S) /\ b \in Seq(S) /\ Len(b) = m - 1
    BY <1>1, <1>2
  <2>3. ASSUME NEW x \in Seq(S), NEW y \in Seq(S), q = Len(x)
        PROVE  /\ x \o y \in Seq(S) /\ Len(x \o y) = q + Len(y)
               /\ \A i \in 1..q : (x \o y)[i] = x[i]
               /\ \A i \in 1..Len(y) : (x \o y)[q + i] = y[i]
    BY <2>3, ConcatOf
  <2>4. /\ a \o b \in Seq(S) /\ Len(a \o b) = q + Len(b)
        /\ \A i \in 1..q : (a \o b)[i] = a[i]
        /\ \A i \in 1..Len(b) : (a \o b)[q + i] = b[i]
    BY <2>1, <2>2, <2>3
  <2> QED BY <2>1, <2>2, <2>4
<1>4. /\ s \o t \in Seq(S) /\ Len(s \o t) = n + m
      /\ \A i \in 1..n : (s \o t)[i] = s[i]
      /\ \A i \in 1..m : (s \o t)[n + i] = t[i]
  BY ConcatOf
<1>5. ASSUME NEW i \in 1..(n + m) PROVE (a \o b)[i] = (s \o t)[i]
  <2>1. CASE i \in 1..n
    <3>1. i \in 1..(n + 1)
      BY <2>1
    <3> QED BY <1>2, <1>3, <1>4, <2>1, <3>1
  <2>2. CASE i = n + 1
    <3>1. n + 1 \in 1..(n + 1) /\ 1 \in 1..m
      OBVIOUS
    <3> QED BY <1>2, <1>3, <1>4, <2>2, <3>1
  <2>3. CASE i > n + 1
    <3>1. PICK j \in 1..(m - 1) : i = n + 1 + j
      <4>1. i - n - 1 \in 1..(m - 1) /\ i = n + 1 + (i - n - 1)
        BY <2>3
      <4> QED BY <4>1
    <3>2. j + 1 \in 1..m /\ n + (j + 1) = n + 1 + j
      BY <3>1
    <3>3. (s \o t)[n + (j + 1)] = t[j + 1]
      BY <1>4, <3>2
    <3>4. (a \o b)[n + 1 + j] = t[j + 1]
      BY <1>1, <1>3
    <3> QED BY <3>1, <3>2, <3>3, <3>4
  <2> QED BY <2>1, <2>2, <2>3
<1>6. Len(a \o b) = n + m
  BY <1>3
<1>7. a \o b = s \o t
  BY <1>3, <1>4, <1>5, <1>6, SeqEqual
<1> QED BY <1>7

\* A finite set of numbers that is not empty has a largest one.
LEMMA LargestOf ==
  ASSUME NEW S \in SUBSET Int, IsFiniteSet(S), S # {}
  PROVE  \E m \in S : \A k \in S : m >= k
<1> DEFINE P == {T \in SUBSET S : T # {} => \E m \in T : \A k \in T : m >= k}
<1>1. {} \in P
  OBVIOUS
<1>2. ASSUME NEW T \in SUBSET S, NEW x \in S \ T, T \in P PROVE T \cup {x} \in P
  <2> SUFFICES \E m \in T \cup {x} : \A k \in T \cup {x} : m >= k
    OBVIOUS
  <2>1. CASE T = {}
    BY <2>1
  <2>2. CASE T # {}
    <3>1. PICK m \in T : \A k \in T : m >= k
      BY <1>2, <2>2
    <3>2. CASE m >= x
      BY <3>1, <3>2
    <3>3. CASE x >= m
      BY <3>1, <3>3
    <3> QED BY <3>2, <3>3
  <2> QED BY <2>1, <2>2
<1> HIDE DEF P
<1>3. S \in P
  BY <1>1, <1>2, SetByInduction
<1> QED BY <1>3 DEF P

---------------------------------------------------------------------------
\* Sums over some positions of a list

\* What such a sum adds up, position by position.
Chosen(s, at) == [k \in 1..Len(s) |-> IF k \in at THEN s[k] ELSE 0]

LEMMA SumAtIsTotal ==
  ASSUME NEW s \in Seq(Int), NEW at
  PROVE  /\ SumAt(s, at) = Total(Chosen(s, at), Len(s)) /\ SumAt(s, at) \in Int
         /\ \A k \in 1..Len(s) : Chosen(s, at)[k] \in Int
<1> DEFINE d == Chosen(s, at)
<1>1. PICK n \in Nat : n = Len(s)
  OBVIOUS
<1>2. \A k \in 1..n : d[k] = (IF k \in at THEN s[k] ELSE 0) /\ d[k] \in Int
  BY <1>1, ElementOfSeq DEF Chosen
<1> DEFINE IsSum(f) == f = [k \in 0..n |-> IF k = 0 THEN 0
                                          ELSE f[k - 1] + (IF k \in at THEN s[k] ELSE 0)]
           sum == CHOOSE f : IsSum(f)
<1>3. \E f : IsSum(f)
  <2> HIDE DEF d
  <2>1. PICK f \in [0..n -> Int] : IsSums(f, d, n)
    BY <1>2, SumsExist
  <2>2. ASSUME NEW k \in 0..n
        PROVE  f[k] = IF k = 0 THEN 0 ELSE f[k - 1] + (IF k \in at THEN s[k] ELSE 0)
    <3>1. CASE k = 0
      BY <2>1, <3>1 DEF IsSums
    <3>2. CASE k # 0
      <4>1. k \in 1..n
        BY <3>2
      <4> QED BY <1>2, <2>1, <3>2, <4>1 DEF IsSums
    <3> QED BY <3>1, <3>2
  <2> QED BY <2>1, <2>2
<1>4. IsSum(sum)
  BY <1>3
<1>5. SumAt(s, at) = sum[n]
  BY <1>1 DEF SumAt
<1> HIDE DEF sum
<1>6. IsSums(sum, d, n)
  <2>1. sum[0] = 0
    BY <1>4
  <2>2. ASSUME NEW k \in 1..n PROVE sum[k] = sum[k - 1] + d[k]
    <3>1. k \in 0..n /\ k # 0
      OBVIOUS
    <3>2. sum[k] = sum[k - 1] + (IF k \in at THEN s[k] ELSE 0)
      BY <1>4, <3>1
    <3> QED BY <1>2, <3>2
  <2> QED BY <2>1, <2>2 DEF IsSums
<1> HIDE DEF IsSum, d
<1>7. sum[n] = Total(d, n) /\ Total(d, n) \in Int
  BY <1>2, <1>6, TotalIs
<1> QED BY <1>1, <1>2, <1>5, <1>7 DEF d

\* Numbers that are zero add nothing.
LEMMA TotalOfZeros ==
  ASSUME NEW n \in Nat, NEW d, \A k \in 1..n : d[k] \in Int, NEW m \in 0..n,
         \A k \in 1..n : k > m => d[k] = 0
  PROVE  Total(d, n) = Total(d, m)
<1>1. PICK f \in [0..n -> Int] : IsSums(f, d, n)
  BY SumsExist
<1> DEFINE P == {i \in Nat : m + i <= n => f[m + i] = f[m]}
<1>2. 0 \in P
  OBVIOUS
<1>3. ASSUME NEW i \in Nat, i \in P PROVE i + 1 \in P
  <2> SUFFICES ASSUME m + (i + 1) <= n PROVE f[m + (i + 1)] = f[m]
    OBVIOUS
  <2>1. PICK k \in 1..n : k = m + (i + 1)
    OBVIOUS
  <2>2. k > m /\ k - 1 = m + i /\ m + i <= n
    BY <2>1
  <2>3. f[k] = f[k - 1] + d[k] /\ d[k] = 0 /\ f[m + i] = f[m] /\ f[m] \in Int
    BY <1>1, <1>3, <2>2 DEF IsSums
  <2> QED BY <2>1, <2>2, <2>3
<1> HIDE DEF P
<1>4. PICK i \in Nat : m + i = n
  <2>1. n - m \in Nat /\ m + (n - m) = n
    OBVIOUS
  <2> QED BY <2>1
<1>5. f[n] = f[m]
  <2>1. i \in P
    BY <1>2, <1>3, NatByInduction
  <2> QED BY <1>4, <2>1 DEF P
<1>6. IsSums(f, d, m)
  BY <1>1 DEF IsSums
<1>7. f[n] = Total(d, n)
  BY <1>1, TotalIs
<1>8. f[m] = Total(d, m)
  BY <1>6, TotalIs
<1> QED BY <1>5, <1>7, <1>8

\* The numbers at the positions that are not zero have the total of all.
IsSelection(pos, d, e, m, n) ==
  /\ \A k, l \in 1..m : k < l => pos[k] < pos[l]
  /\ \A i \in 1..n : d[i] # 0 => \E k \in 1..m : pos[k] = i
  /\ \A k \in 1..m : e[k] = d[pos[k]]

LEMMA TotalOfPicked ==
  ASSUME NEW n \in Nat, NEW d, \A k \in 1..n : d[k] \in Int,
         NEW m \in Nat, NEW pos \in [1..m -> 1..n], NEW e, IsSelection(pos, d, e, m, n)
  PROVE  Total(e, m) = Total(d, n)
<1>6. /\ \A k, l \in 1..m : k < l => pos[k] < pos[l]
      /\ \A i \in 1..n : d[i] # 0 => \E k \in 1..m : pos[k] = i
      /\ \A k \in 1..m : e[k] = d[pos[k]]
  BY DEF IsSelection
<1>0. ASSUME NEW k \in 1..m PROVE e[k] \in Int /\ pos[k] \in 1..n /\ pos[k] \in Int
  <2>1. pos[k] \in 1..n
    OBVIOUS
  <2>2. e[k] = d[pos[k]]
    BY <1>6
  <2> QED BY <2>1, <2>2
<1> DEFINE end(k) == IF k = 0 THEN 0 ELSE pos[k]
           P == {k \in Nat : k <= m => Total(e, k) = Total(d, end(k))}
<1>1. 0 \in P
  BY TotalOfNone
<1>2. ASSUME NEW k \in Nat, k \in P PROVE k + 1 \in P
  <2> SUFFICES ASSUME k + 1 <= m PROVE Total(e, k + 1) = Total(d, end(k + 1))
    OBVIOUS
  <2>1. PICK b \in Nat : b + 1 = pos[k + 1] /\ b + 1 <= n
    <3>1. k + 1 \in 1..m
      OBVIOUS
    <3>2. pos[k + 1] \in 1..n
      BY <1>0, <3>1
    <3>3. pos[k + 1] - 1 \in Nat /\ (pos[k + 1] - 1) + 1 = pos[k + 1]
      BY <3>2
    <3> QED BY <3>2, <3>3
  <2>2. PICK a \in 0..b : a = end(k)
    <3>1. CASE k = 0
      BY <3>1
    <3>2. CASE k # 0
      <4>1. k \in 1..m /\ k + 1 \in 1..m /\ k < k + 1
        BY <3>2
      <4>2. pos[k] < pos[k + 1] /\ pos[k] \in 1..n
        BY <1>0, <1>6, <4>1
      <4> QED BY <2>1, <3>2, <4>2
    <3> QED BY <3>1, <3>2
  <2>3. ASSUME NEW i \in 1..b, i > a PROVE d[i] = 0
    <3> SUFFICES ASSUME d[i] # 0 PROVE FALSE
      OBVIOUS
    <3>1. i \in 1..n
      BY <2>1
    <3>2. PICK l \in 1..m : pos[l] = i
      BY <1>6, <3>1
    <3>3. CASE l <= k
      <4>1. k \in 1..m /\ k # 0 /\ end(k) = pos[k]
        BY <3>3
      <4>2. l = k \/ pos[l] < pos[k]
        BY <1>6, <3>3, <4>1
      <4>3. pos[l] \in Int /\ pos[k] \in Int
        BY <1>0, <4>1
      <4> QED BY <2>2, <2>3, <3>2, <4>1, <4>2, <4>3
    <3>4. CASE l > k
      <4>1. k + 1 \in 1..m /\ (l = k + 1 \/ k + 1 < l)
        BY <3>4
      <4>2. l = k + 1 \/ pos[k + 1] < pos[l]
        BY <1>6, <4>1
      <4> QED BY <2>1, <3>2, <4>2
    <3> QED BY <3>3, <3>4
  <2>4. Total(d, b) = Total(d, a)
    <3>1. \A i \in 1..b : d[i] \in Int
      BY <2>1
    <3> QED BY <2>3, <3>1, TotalOfZeros
  <2>5. Total(d, b + 1) = Total(d, b) + d[b + 1]
    <3>1. \A i \in 1..(b + 1) : d[i] \in Int
      BY <2>1
    <3> QED BY <3>1, TotalOfMore
  <2>6. Total(e, k + 1) = Total(e, k) + e[k + 1]
    <3>1. \A i \in 1..(k + 1) : e[i] \in Int
      BY <1>0
    <3> QED BY <3>1, TotalOfMore
  <2>7. e[k + 1] = d[b + 1] /\ end(k + 1) = b + 1
    BY <1>6, <2>1
  <2>8. Total(e, k) = Total(d, a)
    BY <1>2, <2>2
  <2> QED BY <2>4, <2>5, <2>6, <2>7, <2>8
<1> HIDE DEF P
<1>3. m \in P
  BY <1>1, <1>2, NatByInduction
<1>4. PICK a \in 0..n : a = end(m)
  BY <1>0
<1>5. ASSUME NEW i \in 1..n, i > a PROVE d[i] = 0
  <2> SUFFICES ASSUME d[i] # 0 PROVE FALSE
    OBVIOUS
  <2>1. PICK l \in 1..m : pos[l] = i
    BY <1>6
  <2>2. m \in 1..m /\ a = pos[m] /\ (l = m \/ l < m)
    BY <1>4
  <2>3. l = m \/ pos[l] < pos[m]
    BY <1>6, <2>2
  <2> QED BY <1>0, <1>5, <2>1, <2>2, <2>3
<1>7. Total(d, n) = Total(d, a)
  BY <1>5, TotalOfZeros
<1> QED BY <1>3, <1>4, <1>7 DEF P

\* The sum of negated numbers.
LEMMA TotalOfNegated ==
  ASSUME NEW n \in Nat, NEW d, NEW e, \A k \in 1..n : d[k] \in Int /\ e[k] = -d[k]
  PROVE  Total(e, n) = -Total(d, n)
<1>1. PICK f \in [0..n -> Int] : IsSums(f, d, n)
  BY SumsExist
<1> DEFINE g == [k \in 0..n |-> -f[k]]
<1>2. g[n] = -f[n] /\ g[0] = -f[0]
  OBVIOUS
<1>3. IsSums(g, e, n)
  <2>1. g[0] = 0
    BY <1>1, <1>2 DEF IsSums
  <2>2. ASSUME NEW k \in 1..n PROVE g[k] = g[k - 1] + e[k]
    <3>1. k \in 0..n /\ k - 1 \in 0..n /\ f[k] \in Int /\ f[k - 1] \in Int
      BY <1>1
    <3>2. f[k] = f[k - 1] + d[k] /\ d[k] \in Int /\ e[k] = -d[k]
      BY <1>1 DEF IsSums
    <3>3. g[k] = -f[k] /\ g[k - 1] = -f[k - 1]
      BY <3>1
    <3> HIDE DEF g
    <3> QED BY <3>1, <3>2, <3>3
  <2> QED BY <2>1, <2>2 DEF IsSums
<1> HIDE DEF g
<1>4. f[n] = Total(d, n)
  BY <1>1, TotalIs
<1>5. g[n] = Total(e, n)
  <2>1. \A k \in 1..n : e[k] \in Int
    OBVIOUS
  <2> QED BY <1>3, <2>1, TotalIs
<1> QED BY <1>2, <1>4, <1>5

\* One number of n that grows, as a fact with a name.
GrowsAt(d, e, n, m, v) ==
  /\ \A k \in 1..n : d[k] \in Int
  /\ \A k \in 1..n : e[k] = IF k = m THEN d[k] + v ELSE d[k]

LEMMA TotalOfGrowth ==
  ASSUME NEW n \in Nat, NEW d, NEW e, NEW m \in 1..n, NEW v \in Int, GrowsAt(d, e, n, m, v)
  PROVE  Total(e, n) = Total(d, n) + v
<1>1. \A k \in 1..n : d[k] \in Int
  BY DEF GrowsAt
<1>2. \A k \in 1..n : e[k] = IF k = m THEN d[k] + v ELSE d[k]
  BY DEF GrowsAt
<1> QED BY <1>1, <1>2, TotalOfChange

\* Numbers in groups: c[j] has those of group j, and zeros, and t[j] their total.
IsGrouped(t, c, w, group, n, m) ==
  /\ \A j \in 1..m : \A k \in 1..n : c[j][k] = IF group[k] = j THEN w[k] ELSE 0
  /\ \A j \in 1..m : t[j] = Total(c[j], n)

LEMMA TotalByGroup ==
  ASSUME NEW n \in Nat, NEW m \in Nat, NEW w, \A k \in 1..n : w[k] \in Int,
         NEW group \in [1..n -> 1..m], NEW c, NEW t, IsGrouped(t, c, w, group, n, m)
  PROVE  Total(t, m) = Total(w, n)
<1> DEFINE D(k) == [j \in 1..m |-> Total(c[j], k)]
           P == {k \in Nat : k <= n => Total(D(k), m) = Total(w, k)}
<1>4. ASSUME NEW j \in 1..m, NEW i \in 1..n PROVE c[j][i] \in Int
  <2>1. c[j][i] = IF group[i] = j THEN w[i] ELSE 0
    BY DEF IsGrouped
  <2> QED BY <2>1
<1>5. ASSUME NEW k \in 0..n, NEW j \in 1..m PROVE D(k)[j] = Total(c[j], k) /\ Total(c[j], k) \in Int
  <2>1. \A i \in 1..k : i \in 1..n
    OBVIOUS
  <2>2. \A i \in 1..k : c[j][i] \in Int
    BY <1>4, <2>1
  <2>3. Total(c[j], k) \in Int
    <3>1. PICK x : x = c[j]
      OBVIOUS
    <3>2. \A i \in 1..k : x[i] \in Int
      BY <2>2, <3>1
    <3>3. Total(x, k) \in Int
      BY <3>2, TotalIsNumber
    <3> QED BY <3>1, <3>3
  <2> QED BY <2>3
<1>1. 0 \in P
  <2> DEFINE d == D(0)
  <2>1. \A j \in 1..m : d[j] = 0
    BY TotalOfNone
  <2> HIDE DEF d
  <2>2. Total(d, m) = Total(d, 0)
    BY <2>1, TotalOfZeros
  <2> QED BY <2>2, TotalOfNone DEF d
<1>2. ASSUME NEW k \in Nat, k \in P PROVE k + 1 \in P
  <2> SUFFICES ASSUME k + 1 <= n PROVE Total(D(k + 1), m) = Total(w, k + 1)
    OBVIOUS
  <2>1. PICK l \in 1..n : l = k + 1
    OBVIOUS
  <2>10. \A i \in 1..(k + 1) : i \in 1..n
    OBVIOUS
  <2>2. ASSUME NEW j \in 1..m
        PROVE  Total(c[j], k + 1) = Total(c[j], k) + IF group[l] = j THEN w[l] ELSE 0
    <3>1. \A i \in 1..(k + 1) : c[j][i] \in Int
      BY <1>4, <2>10
    <3>2. Total(c[j], k + 1) = Total(c[j], k) + c[j][k + 1]
      BY <3>1, TotalOfMore
    <3> QED BY <2>1, <3>2 DEF IsGrouped
  <2> DEFINE d == D(k)
             e == D(k + 1)
  <2>3. PICK g \in 1..m : g = group[l]
    OBVIOUS
  <2>4. PICK v \in Int : v = w[l]
    OBVIOUS
  <2>5. ASSUME NEW j \in 1..m PROVE d[j] \in Int /\ e[j] = IF j = g THEN d[j] + v ELSE d[j]
    <3>1. d[j] = Total(c[j], k) /\ e[j] = Total(c[j], k + 1) /\ d[j] \in Int
      BY <1>5
    <3> QED BY <2>2, <2>3, <2>4, <3>1
  <2> HIDE DEF d, e
  <2>9. \A j \in 1..m : d[j] \in Int
    BY <2>5
  <2>11. \A j \in 1..m : e[j] = IF j = g THEN d[j] + v ELSE d[j]
    BY <2>5
  <2> HIDE DEF P, D
  <2>6. Total(e, m) = Total(d, m) + v
    <3>1. GrowsAt(d, e, m, g, v)
      BY <2>9, <2>11 DEF GrowsAt
    <3> QED BY <3>1, TotalOfGrowth
  <2>7. Total(w, k + 1) = Total(w, k) + w[k + 1]
    <3>1. \A i \in 1..(k + 1) : w[i] \in Int
      BY <2>10
    <3> QED BY <3>1, TotalOfMore
  <2>8. Total(d, m) = Total(w, k)
    BY <1>2 DEF d, P, D
  <2> QED BY <2>1, <2>4, <2>6, <2>7, <2>8 DEF e, D
<1> HIDE DEF P
<1>3. n \in P
  BY <1>1, <1>2, NatByInduction
<1>6. Total(t, m) = Total(D(n), m)
  <2> DEFINE d == D(n)
  <2>1. \A j \in 1..m : d[j] \in Int /\ t[j] = d[j]
    BY <1>5 DEF IsGrouped
  <2> HIDE DEF d
  <2> QED BY <2>1, TotalOfSame DEF d
<1> QED BY <1>3, <1>6 DEF P

LEMMA TotalOfSums ==
  ASSUME NEW n \in Nat, NEW d, NEW e, NEW s,
         \A k \in 1..n : d[k] \in Int /\ e[k] \in Int /\ s[k] = d[k] + e[k]
  PROVE  Total(s, n) = Total(d, n) + Total(e, n)
<1>1. PICK f \in [0..n -> Int] : IsSums(f, d, n)
  BY SumsExist
<1>2. PICK g \in [0..n -> Int] : IsSums(g, e, n)
  BY SumsExist
<1> DEFINE h == [k \in 0..n |-> f[k] + g[k]]
<1>3. h[n] = f[n] + g[n] /\ h[0] = f[0] + g[0]
  OBVIOUS
<1>4. IsSums(h, s, n)
  <2>1. h[0] = 0
    BY <1>1, <1>2, <1>3 DEF IsSums
  <2>2. ASSUME NEW k \in 1..n PROVE h[k] = h[k - 1] + s[k]
    <3>1. k \in 0..n /\ k - 1 \in 0..n
      OBVIOUS
    <3>2. f[k] \in Int /\ f[k - 1] \in Int /\ g[k] \in Int /\ g[k - 1] \in Int
      BY <3>1
    <3>3. f[k] = f[k - 1] + d[k] /\ g[k] = g[k - 1] + e[k]
      BY <1>1, <1>2 DEF IsSums
    <3>4. d[k] \in Int /\ e[k] \in Int /\ s[k] = d[k] + e[k]
      OBVIOUS
    <3>5. h[k] = f[k] + g[k] /\ h[k - 1] = f[k - 1] + g[k - 1]
      BY <3>1
    <3> HIDE DEF h
    <3> QED BY SMTT(30), <3>2, <3>3, <3>4, <3>5
  <2> QED BY <2>1, <2>2 DEF IsSums
<1> HIDE DEF h
<1>5. f[n] = Total(d, n) /\ g[n] = Total(e, n)
  BY <1>1, <1>2, TotalIs
<1>6. h[n] = Total(s, n)
  <2>1. \A k \in 1..n : s[k] \in Int
    OBVIOUS
  <2> QED BY <1>4, <2>1, TotalIs
<1> QED BY <1>3, <1>5, <1>6

\* The least and the largest of the first numbers of a sequence.
LEMMA FirstAreFinite ==
  ASSUME NEW s \in Seq(Int), NEW n \in 1..Len(s)
  PROVE  /\ {s[i] : i \in 1..n} \in SUBSET Int /\ {s[i] : i \in 1..n} # {}
         /\ IsFiniteSet({s[i] : i \in 1..n})
<1> DEFINE T == {s[i] : i \in 1..n}
           f == [i \in 1..n |-> s[i]]
<1>1. \A i \in 1..n : s[i] \in Int
  OBVIOUS
<1>2. f \in Surjection(1..n, T)
  <2>1. f \in [1..n -> T]
    OBVIOUS
  <2>2. \A t \in T : \E i \in 1..n : f[i] = t
    OBVIOUS
  <2> QED BY <2>1, <2>2 DEF Surjection
<1>3. IsFiniteSet(1..n)
  BY FirstPositions
<1>4. IsFiniteSet(T)
  BY <1>2, <1>3, FS_Surjection
<1>5. s[1] \in T
  OBVIOUS
<1> QED BY <1>1, <1>4, <1>5

LEMMA LeastOf ==
  ASSUME NEW S \in SUBSET Int, IsFiniteSet(S), S # {}
  PROVE  \E m \in S : \A k \in S : m <= k
<1> DEFINE T == {-k : k \in S}
           f == [k \in S |-> -k]
<1>1. f \in Surjection(S, T)
  <2>1. f \in [S -> T]
    OBVIOUS
  <2>2. \A t \in T : \E k \in S : f[k] = t
    OBVIOUS
  <2> QED BY <2>1, <2>2 DEF Surjection
<1>2. IsFiniteSet(T)
  BY <1>1, FS_Surjection
<1>3. T \in SUBSET Int /\ T # {}
  <2>1. \A k \in S : -k \in Int
    OBVIOUS
  <2>2. PICK k : k \in S
    OBVIOUS
  <2>3. -k \in T
    BY <2>2
  <2> QED BY <2>1, <2>3
<1>4. \E m \in T : \A k \in T : m >= k
  <2> HIDE DEF T
  <2> QED BY <1>2, <1>3, LargestOf
<1>5. PICK m \in S : \A k \in T : -m >= k
  BY <1>4
<1>6. ASSUME NEW k \in S PROVE m <= k
  <2>1. -k \in T
    OBVIOUS
  <2>2. -m >= -k
    BY <1>5, <2>1
  <2>3. m \in Int /\ k \in Int
    OBVIOUS
  <2> QED BY <2>2, <2>3
<1> QED BY <1>6

\* The sum at some positions lies between as often the least of the numbers there and as
\* often the largest; the largest is given by a bound of four times each.
LEMMA SumAtBounds ==
  ASSUME NEW s \in Seq(Int), NEW at \in SUBSET (1..Len(s)), NEW low \in Int, NEW top \in Int,
         \A i \in at : low <= s[i] /\ 4 * s[i] <= top
  PROVE  4 * SumAt(s, at) <= Cardinality(at) * top /\ Cardinality(at) * low <= SumAt(s, at)
<1> DEFINE n == Len(s)
           d == Chosen(s, at)
           First(k) == {i \in at : i <= k}
           Holds(k) == /\ Cardinality(First(k)) \in Nat /\ IsFiniteSet(First(k))
                       /\ 4 * Total(d, k) <= Cardinality(First(k)) * top
                       /\ Cardinality(First(k)) * low <= Total(d, k)
           P == {k \in Nat : k <= n => Holds(k)}
<1>1. n \in Nat /\ (\A i \in 1..n : s[i] \in Int) /\ (\A i \in 1..n : d[i] \in Int)
  BY SumAtIsTotal
<1>2. \A i \in 1..n : d[i] = IF i \in at THEN s[i] ELSE 0
  BY DEF Chosen
<1>10. \A i \in at : i \in Int /\ 1 <= i /\ i <= n
  BY <1>1
<1>3. 0 \in P
  <2>1. First(0) = {}
    <3>1. ASSUME NEW i \in First(0) PROVE FALSE
      <4>1. i \in at /\ i <= 0
        OBVIOUS
      <4> QED BY <1>10, <4>1
    <3> HIDE DEF First
    <3> QED BY <3>1
  <2>2. Cardinality({}) = 0 /\ IsFiniteSet({})
    BY FS_EmptySet
  <2>3. Total(d, 0) = 0
    BY TotalOfNone
  <2>4. Holds(0)
    <3>1. 0 * top = 0 /\ 0 * low = 0 /\ 4 * 0 = 0
      OBVIOUS
    <3>2. Cardinality(First(0)) = 0 /\ IsFiniteSet(First(0)) /\ Total(d, 0) = 0
      BY <2>1, <2>2, <2>3
    <3> HIDE DEF First, d
    <3> QED BY <3>1, <3>2
  <2> QED BY <2>4
<1>4. ASSUME NEW k \in Nat, k \in P PROVE k + 1 \in P
  <2>1. SUFFICES ASSUME k + 1 <= n PROVE Holds(k + 1)
    OBVIOUS
  <2>2. Holds(k)
    BY <1>1, <1>4, <2>1
  <2>3. PICK c : c = Cardinality(First(k))
    OBVIOUS
  <2>4. PICK t : t = Total(d, k)
    OBVIOUS
  <2>5. t \in Int
    <3>1. \A i \in 1..k : d[i] \in Int
      BY <1>1, <2>1
    <3> QED BY <2>4, <3>1, TotalIsNumber
  <2>6. Total(d, k + 1) = t + d[k + 1]
    <3>1. \A i \in 1..(k + 1) : d[i] \in Int
      BY <1>1, <2>1
    <3> QED BY <2>4, <3>1, TotalOfMore
  <2>7. c \in Nat /\ IsFiniteSet(First(k)) /\ 4 * t <= c * top /\ c * low <= t
    BY <2>2, <2>3, <2>4
  <2>8. k + 1 \in 1..n
    BY <1>1, <2>1
  <2>9. CASE k + 1 \in at
    <3>1. First(k + 1) = First(k) \cup {k + 1} /\ k + 1 \notin First(k)
      <4>1. ASSUME NEW i \in at PROVE i <= k + 1 <=> i <= k \/ i = k + 1
        BY <1>10
      <4>2. ~(k + 1 <= k) /\ k + 1 <= k + 1
        OBVIOUS
      <4>3. ASSUME NEW i PROVE i \in First(k + 1) <=> i \in First(k) \/ i = k + 1
        BY <2>9, <4>1, <4>2, Zenon
      <4>4. k + 1 \notin First(k)
        BY <4>2, Zenon
      <4> HIDE DEF First
      <4> QED BY <4>3, <4>4
    <3>2. IsFiniteSet(First(k + 1)) /\ Cardinality(First(k + 1)) = c + 1
      <4>1. PICK F : F = First(k)
        OBVIOUS
      <4>2. PICK x : x = k + 1
        OBVIOUS
      <4>3. First(k + 1) = F \cup {x} /\ x \notin F /\ IsFiniteSet(F) /\ c = Cardinality(F)
        BY <2>3, <2>7, <3>1, <4>1, <4>2
      <4> HIDE DEF First
      <4>4. IsFiniteSet(F \cup {x}) /\ Cardinality(F \cup {x}) = c + 1
        BY <4>3, FS_AddElement
      <4> QED BY <4>3, <4>4
    <3>3. PICK v \in Int : v = s[k + 1]
      BY <1>1, <2>8
    <3>4. low <= v /\ 4 * v <= top
      BY <2>9, <3>3
    <3>5. Total(d, k + 1) = t + v
      BY <1>2, <2>6, <2>8, <2>9, <3>3
    <3>6. (c + 1) * top = c * top + top /\ (c + 1) * low = c * low + low
      BY <2>7
    <3>7. 4 * (t + v) <= (c + 1) * top /\ (c + 1) * low <= t + v
      <4>1. PICK x \in Int : x = c * top
        BY <2>7
      <4>2. PICK y \in Int : y = c * low
        BY <2>7
      <4> QED BY <2>5, <2>7, <3>3, <3>4, <3>6, <4>1, <4>2
    <3>8. c + 1 \in Nat
      BY <2>7
    <3> HIDE DEF First, d
    <3> QED BY <3>2, <3>5, <3>7, <3>8
  <2>10. CASE k + 1 \notin at
    <3>1. First(k + 1) = First(k)
      <4>1. ASSUME NEW i \in at PROVE i <= k + 1 <=> i <= k
        BY <1>10, <2>10
      <4> QED BY <4>1
    <3>2. Total(d, k + 1) = t
      BY <1>2, <2>5, <2>6, <2>8, <2>10
    <3> HIDE DEF First, d
    <3> QED BY <2>3, <2>7, <3>1, <3>2
  <2> QED BY <2>9, <2>10
<1>5. Nat \subseteq P
  <2> HIDE DEF P
  <2> QED BY <1>3, <1>4, NatByInduction
<1>6. Holds(n)
  BY <1>1, <1>5
<1>7. First(n) = at
  BY <1>10
<1>8. SumAt(s, at) = Total(d, n)
  BY SumAtIsTotal
<1> HIDE DEF d, First
<1> QED BY <1>6, <1>7, <1>8

\* What a division leaves.
LEMMA Division ==
  ASSUME NEW x \in Int, NEW d \in Nat \ {0}
  PROVE  /\ x \div d \in Int /\ x % d \in Int
         /\ x = d * (x \div d) + (x % d) /\ 0 <= x % d /\ x % d < d
OBVIOUS

===========================================================================
