------------------------- MODULE SubsequenceProofs -------------------------
(***************************************************************************)
(* What the elements at some positions of a list are, for any list: the    *)
(* positions counted from the lowest are those of the selected sequence,   *)
(* in their order.                                                         *)
(***************************************************************************)
EXTENDS Subsequences, FiniteSetTheorems, SequenceTheorems, TLAPS

\* For every k up to their number there is one position with k positions up to it.
LEMMA PlacesKnown ==
  ASSUME NEW n \in Nat, NEW P \in SUBSET (1..n)
  PROVE  /\ IsFiniteSet(P) /\ Cardinality(P) \in Nat /\ Cardinality(P) <= n
         /\ \A k \in 1..Cardinality(P) : Place(P, k) \in P
         /\ \A i \in P : \E k \in 1..Cardinality(P) : Place(P, k) = i
         /\ \A k, l \in 1..Cardinality(P) : k < l <=> Place(P, k) < Place(P, l)
<1> DEFINE upto(i) == {j \in P : j <= i}
           N == Cardinality(P)
           rank == [i \in P |-> Cardinality(upto(i))]
<1>0. \A i \in P : i \in Int
  OBVIOUS
<1>1. IsFiniteSet(P) /\ N \in Nat /\ N <= n
  <2>1. IsFiniteSet(1..n) /\ Cardinality(1..n) = n
    BY FS_Interval
  <2>2. IsFiniteSet(P) /\ N <= n
    BY <2>1, FS_Subset
  <2> QED
    BY <2>2, FS_CardinalityType
<1>2. \A i \in P : IsFiniteSet(upto(i)) /\ rank[i] \in 1..N
  <2> SUFFICES ASSUME NEW i \in P PROVE IsFiniteSet(upto(i)) /\ Cardinality(upto(i)) \in 1..N
    OBVIOUS
  <2>1. IsFiniteSet(upto(i)) /\ Cardinality(upto(i)) <= N
    BY <1>1, FS_Subset
  <2>2. Cardinality(upto(i)) \in Nat
    BY <2>1, FS_CardinalityType
  <2>3. i \in upto(i)
    OBVIOUS
  <2>4. Cardinality(upto(i)) # 0
    BY <2>1, <2>3, FS_EmptySet
  <2> QED
    BY <1>1, <2>1, <2>2, <2>4
<1>3. ASSUME NEW i \in P, NEW j \in P, i < j
      PROVE  rank[i] < rank[j]
  <2>0. i \in Int /\ j \in Int /\ j <= j /\ ~(j <= i) /\ \A k \in P : k <= i => k <= j
    BY <1>0, <1>3
  <2>1. upto(i) \subseteq upto(j) /\ j \in upto(j) /\ j \notin upto(i)
    BY <2>0
  <2>2. Cardinality(upto(i)) <= Cardinality(upto(j)) /\ Cardinality(upto(i)) # Cardinality(upto(j))
    BY <1>2, <2>1, FS_Subset
  <2> QED
    BY <1>2, <2>2
<1>4. rank \in Injection(P, 1..N)
  <2>1. rank \in [P -> 1..N]
    BY <1>2
  <2>2. \A i, j \in P : rank[i] = rank[j] => i = j
    <3> SUFFICES ASSUME NEW i \in P, NEW j \in P, rank[i] = rank[j] PROVE i = j
      OBVIOUS
    <3>1. i \in Int /\ j \in Int /\ rank[i] \in Int
      BY <1>0, <1>2
    <3> HIDE DEF rank
    <3> QED
      BY <1>3, <3>1
  <2> HIDE DEF rank
  <2> QED
    BY <2>1, <2>2 DEF Injection, IsInjective
<1>5. rank \in Surjection(P, 1..N)
  <2>1. IsFiniteSet(1..N) /\ Cardinality(1..N) = N
    BY <1>1, FS_Interval
  <2> HIDE DEF rank
  <2> QED
    BY <1>1, <1>4, <2>1, FS_Injection
<1>6. \A k \in 1..N : Place(P, k) \in P /\ rank[Place(P, k)] = k
  <2> SUFFICES ASSUME NEW k \in 1..N PROVE Place(P, k) \in P /\ rank[Place(P, k)] = k
    OBVIOUS
  <2>1. \E i \in P : rank[i] = k
    <3> HIDE DEF rank, N
    <3> QED
      BY <1>5 DEF Surjection
  <2>2. \E i \in P : Cardinality({j \in P : j <= i}) = k
    BY <2>1
  <2> QED
    BY <2>2 DEF Place
<1>7. \A i \in P : \E k \in 1..N : Place(P, k) = i
  <2> SUFFICES ASSUME NEW i \in P PROVE Place(P, rank[i]) = i
    BY <1>2
  <2>1. Place(P, rank[i]) \in P /\ rank[Place(P, rank[i])] = rank[i]
    BY <1>2, <1>6
  <2> HIDE DEF rank
  <2> QED
    BY <1>4, <2>1 DEF Injection, IsInjective
<1>8. \A k, l \in 1..N : k < l <=> Place(P, k) < Place(P, l)
  <2> SUFFICES ASSUME NEW k \in 1..N, NEW l \in 1..N PROVE k < l <=> Place(P, k) < Place(P, l)
    OBVIOUS
  <2>1. Place(P, k) \in 1..n /\ Place(P, l) \in 1..n
    BY <1>6
  <2>2. /\ Place(P, k) < Place(P, l) => k < l
        /\ Place(P, l) < Place(P, k) => l < k
    <3> HIDE DEF rank
    <3> QED
      BY <1>3, <1>6
  <2>3. Place(P, k) = Place(P, l) => k = l
    BY <1>6
  <2> QED
    BY <1>1, <2>1, <2>2, <2>3
<1> QED
  BY <1>1, <1>6, <1>7, <1>8

\* What is selected is a sequence of the elements at the positions.
LEMMA SelectedKnown ==
  ASSUME NEW S, NEW s \in Seq(S), NEW P \in SUBSET (1..Len(s))
  PROVE  LET t == Selected(s, P) IN
           /\ t \in Seq(S)
           /\ Len(t) = Cardinality(P) /\ Len(t) \in Nat /\ Len(t) <= Len(s)
           /\ \A k \in 1..Len(t) : Place(P, k) \in P /\ t[k] = s[Place(P, k)]
           /\ \A i \in P : \E k \in 1..Len(t) : Place(P, k) = i
           /\ \A k, l \in 1..Len(t) : k < l <=> Place(P, k) < Place(P, l)
<1> DEFINE t == Selected(s, P)
           N == Cardinality(P)
<1>1. Len(s) \in Nat
  OBVIOUS
<1>2. /\ N \in Nat /\ N <= Len(s)
      /\ \A k \in 1..N : Place(P, k) \in P
      /\ \A i \in P : \E k \in 1..N : Place(P, k) = i
      /\ \A k, l \in 1..N : k < l <=> Place(P, k) < Place(P, l)
  BY <1>1, PlacesKnown
<1>3. \A k \in 1..N : s[Place(P, k)] \in S
  BY <1>2, ElementOfSeq
<1>4. t \in Seq(S) /\ Len(t) = N /\ \A k \in 1..N : t[k] = s[Place(P, k)]
  BY <1>2, <1>3 DEF Selected
<1> HIDE DEF t, N
<1>5. /\ \A k \in 1..Len(t) : Place(P, k) \in P /\ t[k] = s[Place(P, k)]
      /\ \A i \in P : \E k \in 1..Len(t) : Place(P, k) = i
      /\ \A k, l \in 1..Len(t) : k < l <=> Place(P, k) < Place(P, l)
  BY <1>2, <1>4
<1> QED
  BY <1>2, <1>4, <1>5 DEF t, N

\* What occurs has a first occurrence.
LEMMA FirstOccurs ==
  ASSUME NEW S, NEW s \in Seq(S), NEW i \in 1..Len(s)
  PROVE  \E j \in Firsts(s) : j <= i /\ s[j] = s[i]
<1> DEFINE P == {j \in 1..Len(s) : s[j] = s[i]}
           first == Place(P, 1)
<1>1. Len(s) \in Nat /\ DOMAIN s = 1..Len(s)
  OBVIOUS
<1>2. /\ IsFiniteSet(P) /\ Cardinality(P) \in Nat
      /\ \A k \in 1..Cardinality(P) : Place(P, k) \in P
      /\ \A j \in P : \E k \in 1..Cardinality(P) : Place(P, k) = j
      /\ \A k, l \in 1..Cardinality(P) : k < l <=> Place(P, k) < Place(P, l)
  BY <1>1, PlacesKnown
<1>3. 1 \in 1..Cardinality(P)
  <2>1. Cardinality(P) # 0
    BY <1>2, FS_EmptySet
  <2> QED
    BY <1>2, <2>1
<1>4. first \in P
  BY <1>2, <1>3
<1> HIDE DEF first
<1>5. ASSUME NEW j \in P PROVE first <= j
  <2>1. PICK k \in 1..Cardinality(P) : Place(P, k) = j
    BY <1>2
  <2>2. k = 1 \/ 1 < k
    BY <1>2
  <2>3. 1 < k => first < j
    BY <1>2, <1>3, <2>1 DEF first
  <2>4. first \in Int /\ j \in Int
    BY <1>4
  <2> QED
    BY <2>1, <2>2, <2>3, <2>4 DEF first
<1>6. i \in P /\ first <= i
  BY <1>5
<1>7. first \in Firsts(s)
  <2> SUFFICES ASSUME NEW j \in 1..(first - 1), s[j] = s[first] PROVE FALSE
    BY <1>1, <1>4 DEF Firsts
  <2>1. j \in P
    BY <1>1, <1>4
  <2> QED
    BY <1>4, <1>5, <2>1
<1> QED
  BY <1>4, <1>6, <1>7

\* A list without its repeats and without what is in D.
LEMMA DistinctKnown ==
  ASSUME NEW S, NEW s \in Seq(S), NEW D
  PROVE  LET P == NewFirsts(s, D)
             t == Selected(s, P) IN
           /\ t \in Seq(S) /\ Len(t) \in Nat /\ Len(t) <= Len(s)
           /\ \A k \in 1..Len(t) : Place(P, k) \in 1..Len(s) /\ t[k] = s[Place(P, k)] /\ t[k] \notin D
           /\ \A k, l \in 1..Len(t) : k < l <=> Place(P, k) < Place(P, l)
           /\ \A k, l \in 1..Len(t) : t[k] = t[l] => k = l
           /\ \A i \in 1..Len(s) :
                s[i] \notin D => \E k \in 1..Len(t) : t[k] = s[i] /\ Place(P, k) <= i
<1> DEFINE P == NewFirsts(s, D)
           t == Selected(s, P)
<1>1. Len(s) \in Nat /\ DOMAIN s = 1..Len(s) /\ P \in SUBSET (1..Len(s))
  BY DEF Firsts, NewFirsts
<1>0. \A p, q \in P : p < q => s[p] # s[q]
  <2> SUFFICES ASSUME NEW p \in P, NEW q \in P, p < q PROVE s[p] # s[q]
    OBVIOUS
  <2>1. p \in 1..(q - 1)
    BY <1>1
  <2> QED
    BY <2>1 DEF Firsts, NewFirsts
<1>2. /\ t \in Seq(S) /\ Len(t) \in Nat /\ Len(t) <= Len(s)
      /\ \A k \in 1..Len(t) : Place(P, k) \in P /\ t[k] = s[Place(P, k)]
      /\ \A i \in P : \E k \in 1..Len(t) : Place(P, k) = i
      /\ \A k, l \in 1..Len(t) : k < l <=> Place(P, k) < Place(P, l)
  <2> HIDE DEF P
  <2> QED
    BY <1>1, SelectedKnown
<1> HIDE DEF t
<1>3. \A k \in 1..Len(t) : Place(P, k) \in 1..Len(s) /\ t[k] = s[Place(P, k)] /\ t[k] \notin D
  BY <1>1, <1>2 DEF NewFirsts
<1>4. ASSUME NEW k \in 1..Len(t), NEW l \in 1..Len(t), t[k] = t[l]
      PROVE  k = l
  <2>1. ~(Place(P, k) < Place(P, l))
    BY <1>0, <1>2, <1>4
  <2>2. ~(Place(P, l) < Place(P, k))
    BY <1>0, <1>2, <1>4
  <2>3. ~(k < l) /\ ~(l < k)
    BY <1>2, <2>1, <2>2
  <2> QED
    BY <1>2, <2>3
<1>5. ASSUME NEW i \in 1..Len(s), s[i] \notin D
      PROVE  \E k \in 1..Len(t) : t[k] = s[i] /\ Place(P, k) <= i
  <2>1. PICK j \in Firsts(s) : j <= i /\ s[j] = s[i]
    BY FirstOccurs
  <2>2. j \in P
    BY <1>5, <2>1 DEF NewFirsts
  <2>3. PICK k \in 1..Len(t) : Place(P, k) = j
    BY <1>2, <2>2
  <2> QED
    BY <1>2, <2>1, <2>3
<1> HIDE DEF P
<1> QED
  BY <1>2, <1>3, <1>4, <1>5 DEF P, t

\* A slice.
LEMMA FirstKnown ==
  ASSUME NEW S, NEW s \in Seq(S), NEW count \in Nat
  PROVE  /\ First(s, count) \in Seq(S)
         /\ Len(First(s, count)) = IF Len(s) < count THEN Len(s) ELSE count
         /\ \A i \in 1..Len(First(s, count)) : i \in 1..Len(s) /\ First(s, count)[i] = s[i]
<1> DEFINE n == IF Len(s) < count THEN Len(s) ELSE count
<1>1. Len(s) \in Nat /\ n \in Nat /\ n <= Len(s)
  OBVIOUS
<1>2. SubSeq(s, 1, n) \in Seq(S) /\ Len(SubSeq(s, 1, n)) = n
  BY <1>1
<1>3. \A i \in 1..n : SubSeq(s, 1, n)[i] = s[i]
  BY <1>1
<1> QED
  BY <1>1, <1>2, <1>3 DEF First
=============================================================================
