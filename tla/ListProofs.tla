----------------------------- MODULE ListProofs -----------------------------
(***************************************************************************)
(* Lemmas about lists from which entries are taken out (module Lists), for *)
(* the proofs about the queues of the daemons: QueueProofs and DbdProofs.  *)
(* They are proved by induction, in the form that a set of numbers has a   *)
(* least member.                                                           *)
(***************************************************************************)
EXTENDS Lists, FiniteSetTheorems, NaturalsInduction, WellFoundedInduction, TLAPS

LEMMA LeastNat ==
  ASSUME NEW S \in SUBSET Nat, S # {}
  PROVE  \E m \in S : \A k \in S : m <= k
  <1>1. IsWellFoundedOn(OpToRel(<, Nat), Nat)
    BY NatLessThanWellFounded
  <1>2. PICK m \in S : \A k \in S : ~ (<<k, m>> \in OpToRel(<, Nat))
    BY <1>1, WFMin
  <1>3. \A k \in S : ~ (k < m)
    BY <1>2 DEF OpToRel
  <1> QED
    BY <1>3

LEMMA CountTo ==
  ASSUME NEW n \in Nat
  PROVE  IsFiniteSet(1..n) /\ Cardinality(1..n) = n
  BY FS_Interval

\* The places of the indices that stay are 1, 2, ... without a gap.
LEMMA PlaceShape ==
  ASSUME NEW n \in Nat, NEW I \in SUBSET (1..n)
  PROVE  /\ IsFiniteSet(I) /\ Cardinality(I) \in Nat /\ Cardinality(I) <= n
         /\ \A i \in I : Place(I, i) \in 1..Cardinality(I) /\ Place(I, i) <= i
         /\ \A i, j \in I : i < j => Place(I, i) < Place(I, j)
         /\ \A m \in 1..Cardinality(I) : \E i \in I : Place(I, i) = m
  <1>1. IsFiniteSet(1..n) /\ Cardinality(1..n) = n
    BY CountTo
  <1>2. IsFiniteSet(I) /\ Cardinality(I) \in Nat /\ Cardinality(I) <= n
    BY <1>1, FS_Subset, FS_CardinalityType
  <1> DEFINE Below(i) == {k \in I : k <= i}
  <1>3. \A i \in I : /\ IsFiniteSet(Below(i)) /\ Cardinality(Below(i)) \in Nat
                     /\ Cardinality(Below(i)) <= Cardinality(I)
    BY <1>2, FS_Subset, FS_CardinalityType
  <1>4. \A i \in I : Place(I, i) \in 1..Cardinality(I) /\ Place(I, i) <= i
    <2> SUFFICES ASSUME NEW i \in I
                 PROVE  Place(I, i) \in 1..Cardinality(I) /\ Place(I, i) <= i
      OBVIOUS
    <2>1. i \in Below(i)
      OBVIOUS
    <2>2. Cardinality(Below(i)) # 0
      BY <1>3, <2>1, FS_EmptySet
    <2>3. IsFiniteSet(1..i) /\ Cardinality(1..i) = i /\ Below(i) \in SUBSET (1..i)
      <3>1. i \in Nat /\ \A k \in Below(i) : k \in 1..i
        OBVIOUS
      <3> QED
        BY <3>1, CountTo
    <2>4. Cardinality(Below(i)) <= i
      <3> HIDE DEF Below
      <3> QED
        BY <2>3, FS_Subset
    <2> QED
      BY <1>2, <1>3, <2>2, <2>4 DEF Place
  <1>5. \A i, j \in I : i < j => Place(I, i) < Place(I, j)
    <2> SUFFICES ASSUME NEW i \in I, NEW j \in I, i < j
                 PROVE  Place(I, i) < Place(I, j)
      OBVIOUS
    <2>0. \A k \in I : k \in Int
      OBVIOUS
    <2>1. Below(i) \in SUBSET Below(j) /\ j \in Below(j) /\ j \notin Below(i)
      <3>1. \A k \in Below(i) : k \in Below(j)
        BY <2>0
      <3>2. j \in Below(j)
        BY <2>0
      <3>3. j \notin Below(i)
        BY <2>0
      <3> QED
        BY <3>1, <3>2, <3>3
    <2>2. /\ Cardinality(Below(i)) <= Cardinality(Below(j))
          /\ Cardinality(Below(i)) # Cardinality(Below(j))
      <3> HIDE DEF Below
      <3>1. Cardinality(Below(j)) = Cardinality(Below(i)) => Below(j) = Below(i)
        BY <1>3, <2>1, FS_Subset
      <3>2. Cardinality(Below(i)) <= Cardinality(Below(j))
        BY <1>3, <2>1, FS_Subset
      <3> QED
        BY <2>1, <3>1, <3>2
    <2> QED
      BY <1>3, <2>2 DEF Place
  <1>6. \A m \in 1..Cardinality(I) : \E i \in I : Place(I, i) = m
    <2> DEFINE p == [i \in I |-> Place(I, i)]
               C == 1..Cardinality(I)
    <2>1. IsFiniteSet(C) /\ Cardinality(C) = Cardinality(I)
      BY <1>2, FS_Interval
    <2>2. p \in [I -> C]
      BY <1>4
    <2>3. \A i, j \in I : p[i] = p[j] => i = j
      BY <1>4, <1>5
    <2>4. p \in Injection(I, C)
      BY <2>2, <2>3 DEF Injection, IsInjective
    <2>5. p \in Surjection(I, C)
      BY <2>1, <2>4, FS_Injection
    <2> QED
      BY <2>5 DEF Surjection
  <1> QED
    BY <1>2, <1>4, <1>5, <1>6

\* f leads from the places in Kept(l, I) back to the ones in l.
KeepMap(f, l, I) ==
    /\ f \in [1..Cardinality(I) -> I]
    /\ \A a \in 1..Cardinality(I) : a <= f[a]
    /\ \A a, b \in 1..Cardinality(I) : a < b => f[a] < f[b]
    /\ \A i \in I : \E a \in 1..Cardinality(I) : f[a] = i
    /\ Kept(l, I) = [a \in 1..Cardinality(I) |-> l[f[a]]]

\* Kept(l, I) has the entries with indices in I, in their order, and no others.
LEMMA KeptShape ==
  ASSUME NEW T, NEW l \in Seq(T), NEW I \in SUBSET DOMAIN l
  PROVE  /\ Cardinality(I) \in Nat /\ Cardinality(I) <= Len(l)
         /\ \E f : KeepMap(f, l, I)
  <1> DEFINE C == 1..Cardinality(I)
             f == [a \in C |-> CHOOSE i \in I : Place(I, i) = a]
  <1>0. Len(l) \in Nat /\ DOMAIN l = 1..Len(l)
    OBVIOUS
  <1>1. /\ Cardinality(I) \in Nat /\ Cardinality(I) <= Len(l)
        /\ \A i \in I : Place(I, i) \in 1..Cardinality(I) /\ Place(I, i) <= i
        /\ \A i, j \in I : i < j => Place(I, i) < Place(I, j)
        /\ \A m \in 1..Cardinality(I) : \E i \in I : Place(I, i) = m
    BY <1>0, PlaceShape
  <1>2. \A a \in C : f[a] \in I /\ Place(I, f[a]) = a
    BY <1>1
  <1>3. f \in [C -> I]
    BY <1>2
  <1>4. \A i \in I : i \in Int
    BY <1>0
  <1>5. \A a, b \in C : a < b => f[a] < f[b]
    <2> SUFFICES ASSUME NEW a \in C, NEW b \in C, a < b, ~ (f[a] < f[b])
                 PROVE  FALSE
      OBVIOUS
    <2>1. f[b] < f[a] \/ f[b] = f[a]
      BY <1>2, <1>4
    <2>2. Place(I, f[b]) <= Place(I, f[a])
      BY <1>1, <1>2, <2>1
    <2> QED
      BY <1>1, <1>2, <2>2
  <1>6. \A i \in I : \E a \in C : f[a] = i
    <2> SUFFICES ASSUME NEW i \in I PROVE f[Place(I, i)] = i
      BY <1>1
    <2>1. Place(I, i) \in C
      BY <1>1
    <2>2. f[Place(I, i)] \in I /\ Place(I, f[Place(I, i)]) = Place(I, i)
      BY <1>2, <2>1
    <2> QED
      BY <1>1, <1>4, <2>1, <2>2
  <1>7. \A a \in C : a <= f[a]
    BY <1>1, <1>2
  <1>8. Kept(l, I) = [a \in C |-> l[f[a]]]
    BY DEF Kept
  <1> QED
    <2>1. KeepMap(f, l, I)
      BY <1>3, <1>5, <1>6, <1>7, <1>8 DEF KeepMap
    <2> HIDE DEF f
    <2> QED
      BY <1>1, <2>1

\* A part at the front that stays is where it was.
LEMMA KeptFront ==
  ASSUME NEW T, NEW l \in Seq(T), NEW I \in SUBSET DOMAIN l, NEW b \in Nat, 1..b \subseteq I
  PROVE  \A j \in 1..b : j \in DOMAIN Kept(l, I) /\ Kept(l, I)[j] = l[j]
  <1> SUFFICES ASSUME NEW j \in 1..b
               PROVE  j \in DOMAIN Kept(l, I) /\ Kept(l, I)[j] = l[j]
    OBVIOUS
  <1>1. Len(l) \in Nat /\ DOMAIN l = 1..Len(l)
    OBVIOUS
  <1>2. /\ \A i \in I : Place(I, i) \in 1..Cardinality(I)
        /\ \A i, k \in I : i < k => Place(I, i) < Place(I, k)
        /\ Cardinality(I) \in Nat
    BY <1>1, PlaceShape
  <1>3. Place(I, j) = j
    <2>1. {k \in I : k <= j} = 1..j
      BY <1>1
    <2>2. Cardinality(1..j) = j
      BY CountTo
    <2> QED
      BY <2>1, <2>2 DEF Place
  <1>4. j \in I /\ j \in 1..Cardinality(I)
    BY <1>2, <1>3
  <1>5. \A i \in I : Place(I, i) = j => i = j
    BY <1>1, <1>2, <1>3, <1>4
  <1>6. (CHOOSE i \in I : Place(I, i) = j) = j
    BY <1>3, <1>4, <1>5
  <1> QED
    BY <1>4, <1>6 DEF Kept
=============================================================================
