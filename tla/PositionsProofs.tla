-------------------------- MODULE PositionsProofs --------------------------
(***************************************************************************)
(* Facts about positions in sequences, for every sequence.  Induction is   *)
(* by the least element of the set of counterexamples.                     *)
(***************************************************************************)
EXTENDS Positions, TLAPS, WellFoundedInduction, SequenceTheorems, FiniteSetTheorems

(* A non-empty set of natural numbers has a least element.                 *)
LEMMA LeastExists ==
  ASSUME NEW S, S \subseteq Nat, S # {}
  PROVE  \E m \in S : \A k \in S : m <= k
<1> DEFINE R == OpToRel(<, Nat)
<1>1. IsWellFoundedOn(R, Nat)
  BY NatLessThanWellFounded, Zenon
<1>2. \E x \in S : \A y \in S : ~(<<y, x>> \in R)
  <2> HIDE DEF R
  <2> QED BY <1>1, WFMin, Zenon
<1>3. PICK x \in S : \A y \in S : ~(y < x)
  BY <1>2, Zenon DEF OpToRel
<1> QED BY <1>3

(* A bounded non-empty set of natural numbers has a largest element.       *)
LEMMA LargestExists ==
  ASSUME NEW n \in Nat, NEW S, S \subseteq 0..n, S # {}
  PROVE  \E m \in S : \A k \in S : k <= m
<1> DEFINE T == {n - k : k \in S}
<1>1. T \subseteq Nat /\ T # {}
  <2>1. PICK k \in S : TRUE
    BY Zenon
  <2>2. n - k \in T
    OBVIOUS
  <2>3. \A j \in S : n - j \in Nat
    OBVIOUS
  <2> QED BY <2>2, <2>3
<1>2. \E x \in T : \A y \in T : x <= y
  <2> HIDE DEF T
  <2> QED BY <1>1, LeastExists, Zenon
<1>3. PICK m \in S : \A y \in T : n - m <= y
  BY <1>2
<1>4. ASSUME NEW k \in S PROVE k <= m
  <2>1. n - k \in T
    OBVIOUS
  <2>2. n - m <= n - k
    BY <1>3, <2>1
  <2> QED BY <2>2
<1> QED BY <1>4

(* Induction over the natural numbers, for a set.                          *)
LEMMA SetInduction ==
  ASSUME NEW S, 0 \in S, \A n \in Nat : n \in S => n + 1 \in S
  PROVE  \A n \in Nat : n \in S
<1> DEFINE T == {n \in Nat : n \notin S}
<1>1. SUFFICES ASSUME T # {} PROVE FALSE
  OBVIOUS
<1>2. \E m \in T : \A k \in T : m <= k
  <2>1. T \subseteq Nat
    OBVIOUS
  <2> HIDE DEF T
  <2> QED BY <1>1, <2>1, LeastExists, Zenon
<1>3. PICK m \in T : \A k \in T : m <= k
  BY <1>2
<1>4. m # 0 /\ m - 1 \in Nat /\ m - 1 \notin T
  BY <1>3
<1>5. m - 1 \in S
  BY <1>4
<1>6. (m - 1) + 1 \in S
  BY <1>4, <1>5
<1> QED BY <1>6

-----------------------------------------------------------------------------
(* The rank is the size of a finite set.                                   *)
LEMMA RankType ==
  ASSUME NEW S, S \subseteq Nat, IsFiniteSet(S), NEW n \in Nat
  PROVE  Rank(S, n) \in Nat /\ Rank(S, n) <= Cardinality(S)
<1> DEFINE U == {m \in S : m <= n}
<1>1. U \in SUBSET S /\ Rank(S, n) = Cardinality(U)
  BY DEF Rank
<1> HIDE DEF U
<1>2. IsFiniteSet(U) /\ Cardinality(U) <= Cardinality(S)
  BY <1>1, FS_Subset, Zenon
<1> QED BY <1>1, <1>2, FS_CardinalityType

(* A larger element has a larger rank.                                     *)
LEMMA RankIncreases ==
  ASSUME NEW S, S \subseteq Nat, IsFiniteSet(S), NEW x \in S, NEW y \in S, x < y
  PROVE  Rank(S, x) # Rank(S, y)
<1> DEFINE U == {m \in S : m <= x}
           V == {m \in S : m <= y}
<1>1. V \in SUBSET S
  OBVIOUS
<1>2. ASSUME NEW m \in U PROVE m \in V
  <2>1. m \in Nat /\ x \in Nat /\ y \in Nat /\ m <= x
    OBVIOUS
  <2>2. m <= y
    BY <2>1
  <2> QED BY <2>2
<1>3. y \in V /\ y \notin U
  <2>1. x \in Nat /\ y \in Nat
    OBVIOUS
  <2> QED BY <2>1
<1>4. Rank(S, x) = Cardinality(U) /\ Rank(S, y) = Cardinality(V)
  BY DEF Rank
<1>5. U \in SUBSET V
  BY <1>2, Zenon
<1> HIDE DEF U, V
<1>6. IsFiniteSet(V)
  BY <1>1, FS_Subset, Zenon
<1>7. Cardinality(V) = Cardinality(U) => V = U
  BY <1>5, <1>6, FS_Subset
<1> QED BY <1>3, <1>4, <1>7

(* An element is found again by its rank.                                  *)
LEMMA NthOfRank ==
  ASSUME NEW S, S \subseteq Nat, IsFiniteSet(S), NEW n \in S
  PROVE  Nth(S, Rank(S, n)) = n
<1>1. \A x \in S : Rank(S, x) = Rank(S, n) => x = n
  <2> SUFFICES ASSUME NEW x \in S, Rank(S, x) = Rank(S, n)
               PROVE  x = n
    OBVIOUS
  <2>1. x \in Nat /\ n \in Nat
    OBVIOUS
  <2>2. ~(x < n) /\ ~(n < x)
    BY RankIncreases, Zenon
  <2> QED BY <2>1, <2>2
<1> QED BY <1>1 DEF Nth

(* A number above a set goes last: the ranks below it stay.                *)
LEMMA AddLargest ==
  ASSUME NEW S, NEW n \in Nat, S \subseteq 1..n
  PROVE  /\ IsFiniteSet(S) /\ IsFiniteSet(S \cup {n + 1})
         /\ Cardinality(S) \in Nat
         /\ Cardinality(S \cup {n + 1}) = Cardinality(S) + 1
         /\ \A x \in S : Rank(S \cup {n + 1}, x) = Rank(S, x)
         /\ Rank(S \cup {n + 1}, n + 1) = Cardinality(S) + 1
<1>1. IsFiniteSet(1..n)
  BY FS_Interval
<1>2. IsFiniteSet(S)
  <2>1. S \in SUBSET (1..n)
    OBVIOUS
  <2> QED BY <1>1, <2>1, FS_Subset, Zenon
<1>3. n + 1 \notin S
  BY SMT
<1>4. IsFiniteSet(S \cup {n + 1}) /\ Cardinality(S \cup {n + 1}) = Cardinality(S) + 1
  BY <1>2, <1>3, FS_AddElement
<1>5. Cardinality(S) \in Nat
  BY <1>2, FS_CardinalityType
<1>6. ASSUME NEW x \in S PROVE Rank(S \cup {n + 1}, x) = Rank(S, x)
  <2>1. ~(n + 1 <= x)
    BY SMT
  <2>2. {m \in S \cup {n + 1} : m <= x} = {m \in S : m <= x}
    BY <2>1, Zenon
  <2> QED BY <2>2 DEF Rank
<1>7. Rank(S \cup {n + 1}, n + 1) = Cardinality(S) + 1
  <2>1. \A m \in S \cup {n + 1} : m <= n + 1
    BY SMT
  <2>2. {m \in S \cup {n + 1} : m <= n + 1} = S \cup {n + 1}
    BY <2>1, Zenon
  <2> QED BY <1>4, <2>2 DEF Rank
<1> QED BY <1>2, <1>4, <1>5, <1>6, <1>7

(* Every number up to the size of the set is the rank of some element.     *)
LEMMA RankExists ==
  \A n \in Nat : \A S \in SUBSET (1..n) :
    \A k \in 1..Cardinality(S) : \E x \in S : Rank(S, x) = k
<1> DEFINE Ranked == {n \in Nat : \A S \in SUBSET (1..n) :
                        \A k \in 1..Cardinality(S) : \E x \in S : Rank(S, x) = k}
<1>1. 0 \in Ranked
  <2>1. \A S \in SUBSET (1..0) : S = {}
    BY SMT
  <2>2. Cardinality({}) = 0
    BY FS_EmptySet
  <2>3. 1..0 = {}
    BY SMT
  <2>4. \A S \in SUBSET (1..0) : 1..Cardinality(S) = {}
    BY <2>1, <2>2, <2>3, Zenon
  <2> QED BY <2>4
<1>2. ASSUME NEW n \in Nat, n \in Ranked PROVE n + 1 \in Ranked
  <2> SUFFICES ASSUME NEW S \in SUBSET (1..(n + 1)), NEW k \in 1..Cardinality(S)
               PROVE  \E x \in S : Rank(S, x) = k
    OBVIOUS
  <2>1. CASE n + 1 \notin S
    <3>1. S \in SUBSET (1..n)
      BY <2>1, SMT
    <3> QED BY <1>2, <3>1
  <2>2. CASE n + 1 \in S
    <3> DEFINE T == S \ {n + 1}
    <3>1. T \in SUBSET (1..n) /\ T \subseteq 1..n
      BY SMT
    <3>2. S = T \cup {n + 1}
      BY <2>2
    <3>3. \A j \in 1..Cardinality(T) : \E x \in T : Rank(T, x) = j
      BY <1>2, <3>1
    <3> HIDE DEF T
    <3>4. /\ Cardinality(T) \in Nat /\ Cardinality(S) = Cardinality(T) + 1
          /\ \A x \in T : Rank(S, x) = Rank(T, x)
          /\ Rank(S, n + 1) = Cardinality(T) + 1
      BY <3>1, <3>2, AddLargest, Zenon
    <3>5. CASE k \in 1..Cardinality(T)
      <4>1. PICK x \in T : Rank(T, x) = k
        BY <3>3, <3>5
      <4> QED BY <3>2, <3>4, <4>1
    <3>6. CASE k = Cardinality(T) + 1
      BY <2>2, <3>4, <3>6
    <3> QED BY <3>4, <3>5, <3>6
  <2> QED BY <2>1, <2>2
<1>3. \A n \in Nat : n \in Ranked
  <2> HIDE DEF Ranked
  <2> QED BY <1>1, <1>2, SetInduction
<1> QED BY <1>3

(* The k-th element is an element, of rank k, also when a number above the *)
(* set is added.                                                           *)
LEMMA NthType ==
  ASSUME NEW n \in Nat, NEW S, S \subseteq 1..n, NEW k \in 1..Cardinality(S)
  PROVE  /\ Nth(S, k) \in S /\ Rank(S, Nth(S, k)) = k
         /\ Nth(S \cup {n + 1}, k) = Nth(S, k)
<1>1. \E x \in S : Rank(S, x) = k
  BY RankExists
<1>2. Nth(S, k) \in S /\ Rank(S, Nth(S, k)) = k
  BY <1>1 DEF Nth
<1>3. Rank(S \cup {n + 1}, Nth(S, k)) = k /\ IsFiniteSet(S \cup {n + 1})
  BY <1>2, AddLargest, Zenon
<1>4. S \cup {n + 1} \subseteq Nat /\ Nth(S, k) \in S \cup {n + 1}
  BY <1>2, SMT
<1>5. Nth(S \cup {n + 1}, Rank(S \cup {n + 1}, Nth(S, k))) = Nth(S, k)
  BY <1>3, <1>4, NthOfRank, Zenon
<1> QED BY <1>2, <1>3, <1>5

LEMMA NthLargest ==
  ASSUME NEW n \in Nat, NEW S, S \subseteq 1..n
  PROVE  Nth(S \cup {n + 1}, Cardinality(S) + 1) = n + 1
<1>1. Rank(S \cup {n + 1}, n + 1) = Cardinality(S) + 1 /\ IsFiniteSet(S \cup {n + 1})
  BY AddLargest, Zenon
<1>2. S \cup {n + 1} \subseteq Nat
  BY SMT
<1>3. n + 1 \in S \cup {n + 1}
  OBVIOUS
<1>4. Nth(S \cup {n + 1}, Rank(S \cup {n + 1}, n + 1)) = n + 1
  BY <1>1, <1>2, <1>3, NthOfRank, Zenon
<1> QED BY <1>1, <1>4

-----------------------------------------------------------------------------
(* Induction over sequences, for a set.                                    *)
LEMMA SeqInduction ==
  ASSUME NEW E, NEW P, <<>> \in P,
         \A s \in Seq(E) : \A e \in E : s \in P => Append(s, e) \in P
  PROVE  \A s \in Seq(E) : s \in P
<1> DEFINE Q == {n \in Nat : \A s \in Seq(E) : Len(s) = n => s \in P}
<1>1. 0 \in Q
  <2>1. \A s \in Seq(E) : Len(s) = 0 => s = <<>>
    BY EmptySeq
  <2> QED BY <2>1
<1>2. ASSUME NEW n \in Nat, n \in Q PROVE n + 1 \in Q
  <2> SUFFICES ASSUME NEW s \in Seq(E), Len(s) = n + 1 PROVE s \in P
    OBVIOUS
  <2>1. s # <<>>
    BY SMT
  <2>2. PICK t \in Seq(E), e \in E : s = Append(t, e)
    BY <2>1, SequenceEmptyOrAppend
  <2>3. Len(t) = n
    BY <2>2, AppendProperties
  <2>4. t \in P
    BY <1>2, <2>3
  <2> QED BY <2>2, <2>4
<1>3. \A n \in Nat : n \in Q
  <2> HIDE DEF Q
  <2> QED BY <1>1, <1>2, SetInduction
<1> QED BY <1>3

LEMMA KeptType ==
  ASSUME NEW E, NEW s \in Seq(E), NEW drop
  PROVE  /\ KeptPositions(s, drop) \subseteq 1..Len(s)
         /\ Cardinality(KeptPositions(s, drop)) \in Nat
<1>1. KeptPositions(s, drop) \subseteq 1..Len(s)
  BY DEF KeptPositions
<1>2. Len(s) \in Nat
  BY LenProperties
<1> QED BY <1>1, <1>2, AddLargest, Zenon

(* What is kept is a sequence of elements of s that are not in drop.       *)
LEMMA KeepType ==
  ASSUME NEW E, NEW s \in Seq(E), NEW drop
  PROVE  /\ Keep(s, drop) \in Seq(E)
         /\ Len(Keep(s, drop)) = Cardinality(KeptPositions(s, drop))
<1> DEFINE K == KeptPositions(s, drop)
<1>1. K \subseteq 1..Len(s) /\ Cardinality(K) \in Nat /\ Len(s) \in Nat
  BY KeptType, LenProperties
<1>2. ASSUME NEW k \in 1..Cardinality(K) PROVE s[Nth(K, k)] \in E
  <2> HIDE DEF K
  <2>1. Nth(K, k) \in K
    BY <1>1, NthType, Zenon
  <2> QED BY <1>1, <2>1, ElementOfSeq, Zenon
<1>3. Keep(s, drop) = [k \in 1..Cardinality(K) |-> s[Nth(K, k)]]
  BY DEF Keep
<1> HIDE DEF K
<1>4. Keep(s, drop) \in [1..Cardinality(K) -> E]
  BY <1>2, <1>3
<1> QED BY <1>1, <1>4 DEF K

LEMMA KeepNone ==
  ASSUME NEW E, NEW s \in Seq(E), NEW drop, \A n \in 1..Len(s) : s[n] \in drop
  PROVE  Keep(s, drop) = <<>>
<1>1. KeptPositions(s, drop) = {}
  BY DEF KeptPositions
<1>2. Len(Keep(s, drop)) = 0 /\ Keep(s, drop) \in Seq(E)
  BY <1>1, KeepType, FS_EmptySet, Zenon
<1> QED BY <1>2, EmptySeq

(* One more element is kept at the end, or dropped.                        *)
LEMMA KeepAppend ==
  ASSUME NEW E, NEW s \in Seq(E), NEW e \in E, NEW drop
  PROVE  /\ e \in drop => Keep(Append(s, e), drop) = Keep(s, drop)
         /\ e \notin drop => Keep(Append(s, e), drop) = Append(Keep(s, drop), e)
<1> DEFINE N == Len(s)
           t == Append(s, e)
           K == KeptPositions(s, drop)
           L == KeptPositions(t, drop)
<1>1. /\ t \in Seq(E) /\ Len(t) = N + 1 /\ N \in Nat
      /\ \A i \in 1..N : t[i] = s[i]
      /\ t[N + 1] = e
  BY AppendProperties, LenProperties
<1>2. 1..(N + 1) = (1..N) \cup {N + 1}
  BY <1>1, SMT
<1>3. K \subseteq 1..N /\ Cardinality(K) \in Nat
  BY KeptType
<1>4. Keep(t, drop) \in Seq(E) /\ Len(Keep(t, drop)) = Cardinality(L)
  <2> HIDE DEF t
  <2> QED BY <1>1, KeepType
<1>5. Keep(s, drop) \in Seq(E) /\ Len(Keep(s, drop)) = Cardinality(K)
  BY KeepType
<1>6. /\ Keep(s, drop) = [k \in 1..Cardinality(K) |-> s[Nth(K, k)]]
      /\ Keep(t, drop) = [k \in 1..Cardinality(L) |-> t[Nth(L, k)]]
  BY DEF Keep
<1>7. /\ e \in drop => L = K
      /\ e \notin drop => L = K \cup {N + 1}
  <2> HIDE DEF t, N
  <2> QED BY <1>1, <1>2, Zenon DEF KeptPositions, N
<1> HIDE DEF t, K, L, N
<1>8. ASSUME NEW k \in 1..Cardinality(K) PROVE Nth(K, k) \in 1..N /\ t[Nth(K, k)] = s[Nth(K, k)]
  BY <1>1, <1>3, NthType, Zenon
<1>9. CASE e \in drop
  <2>1. L = K
    BY <1>7, <1>9
  <2> QED BY <1>6, <1>8, <1>9, <2>1, Zenon DEF t
<1>10. CASE e \notin drop
  <2>1. L = K \cup {N + 1}
    BY <1>7, <1>10
  <2>2. Cardinality(L) = Cardinality(K) + 1
    BY <1>1, <1>3, <2>1, AddLargest, Zenon
  <2>3. Nth(L, Cardinality(K) + 1) = N + 1
    BY <1>1, <1>3, <2>1, NthLargest, Zenon
  <2>4. ASSUME NEW k \in 1..Cardinality(K) PROVE t[Nth(L, k)] = s[Nth(K, k)]
    <3>1. Nth(L, k) = Nth(K, k)
      BY <1>1, <1>3, <2>1, NthType, Zenon
    <3> QED BY <1>8, <3>1
  <2> DEFINE u == Keep(s, drop)
             v == Keep(t, drop)
             w == Append(u, e)
  <2>5. /\ w \in Seq(E) /\ Len(w) = Cardinality(K) + 1
        /\ \A i \in 1..Cardinality(K) : w[i] = u[i]
        /\ w[Cardinality(K) + 1] = e
    BY <1>5, AppendProperties
  <2>6. Len(v) = Len(w)
    BY <1>4, <2>2, <2>5
  <2>7. ASSUME NEW k \in 1..Len(v) PROVE v[k] = w[k]
    <3>1. v[k] = t[Nth(L, k)]
      BY <1>4, <1>6
    <3>2. CASE k = Cardinality(K) + 1
      BY <1>1, <2>3, <2>5, <3>1, <3>2
    <3>3. CASE k \in 1..Cardinality(K)
      <4>1. u[k] = s[Nth(K, k)]
        BY <1>6, <3>3
      <4> QED BY <2>4, <2>5, <3>1, <3>3, <4>1, Zenon
    <3>4. k = Cardinality(K) + 1 \/ k \in 1..Cardinality(K)
      BY <1>3, <1>4, <2>2
    <3> QED BY <3>2, <3>3, <3>4, Zenon
  <2>8. v = w
    <3> HIDE DEF v, w
    <3> QED BY <1>4, <2>5, <2>6, <2>7, SeqEqual DEF v
  <2> QED BY <1>10, <2>8 DEF t
<1> QED BY <1>9, <1>10

LEMMA ConcatAppend ==
  ASSUME NEW E, NEW s \in Seq(E), NEW t \in Seq(E), NEW e \in E
  PROVE  s \o t \in Seq(E) /\ s \o Append(t, e) = Append(s \o t, e)
<1>1. s \o t \in Seq(E) /\ <<e>> \in Seq(E)
  BY ConcatProperties
<1>2. Append(t, e) = t \o <<e>> /\ Append(s \o t, e) = (s \o t) \o <<e>>
  BY <1>1, AppendIsConcat
<1>3. (s \o t) \o <<e>> = s \o (t \o <<e>>)
  BY <1>1, ConcatAssociative
<1> QED BY <1>1, <1>2, <1>3

(* What is kept of a concatenation is the concatenation of what is kept.   *)
LEMMA KeepConcat ==
  ASSUME NEW E, NEW s \in Seq(E), NEW drop
  PROVE  \A t \in Seq(E) : Keep(s \o t, drop) = Keep(s, drop) \o Keep(t, drop)
<1> DEFINE P == {t \in Seq(E) : Keep(s \o t, drop) = Keep(s, drop) \o Keep(t, drop)}
<1>1. <<>> \in P
  <2>1. s \o <<>> = s /\ <<>> \in Seq(E)
    BY ConcatEmptySeq, EmptySeq
  <2>2. Keep(<<>>, drop) = <<>>
    <3>1. 1..Len(<<>>) = {}
      BY SMT
    <3> QED BY <2>1, <3>1, KeepNone, Zenon
  <2>3. Keep(s, drop) \o <<>> = Keep(s, drop)
    BY KeepType, ConcatEmptySeq
  <2> QED BY <2>1, <2>2, <2>3, Zenon
<1>2. ASSUME NEW t \in Seq(E), NEW e \in E, t \in P PROVE Append(t, e) \in P
  <2>1. s \o Append(t, e) = Append(s \o t, e) /\ s \o t \in Seq(E)
    BY ConcatAppend
  <2>2. Keep(s, drop) \in Seq(E) /\ Keep(t, drop) \in Seq(E)
    BY KeepType
  <2>3. Keep(s \o t, drop) = Keep(s, drop) \o Keep(t, drop)
    BY <1>2
  <2>4. Append(t, e) \in Seq(E)
    BY AppendProperties
  <2>5. CASE e \in drop
    <3>1. Keep(Append(s \o t, e), drop) = Keep(s \o t, drop)
      BY <2>1, <2>5, KeepAppend, Zenon
    <3>2. Keep(Append(t, e), drop) = Keep(t, drop)
      BY <2>5, KeepAppend
    <3> QED BY <2>1, <2>3, <2>4, <3>1, <3>2, Zenon
  <2>6. CASE e \notin drop
    <3>1. Keep(Append(s \o t, e), drop) = Append(Keep(s \o t, drop), e)
      <4> DEFINE u == s \o t
      <4>1. u \in Seq(E)
        BY <2>1
      <4> HIDE DEF u
      <4>2. Keep(Append(u, e), drop) = Append(Keep(u, drop), e)
        BY <2>6, <4>1, KeepAppend
      <4> QED BY <4>2 DEF u
    <3>2. Keep(Append(t, e), drop) = Append(Keep(t, drop), e)
      BY <2>6, KeepAppend
    <3>3. Append(Keep(s, drop) \o Keep(t, drop), e) = Keep(s, drop) \o Append(Keep(t, drop), e)
      <4>1. \A a, b \in Seq(E) : a \o Append(b, e) = Append(a \o b, e)
        BY ConcatAppend
      <4> QED BY <2>2, <4>1, Zenon
    <3> QED BY <2>1, <2>3, <2>4, <3>1, <3>2, <3>3, Zenon
  <2> QED BY <2>5, <2>6
<1>3. \A t \in Seq(E) : t \in P
  <2> HIDE DEF P
  <2> QED BY <1>1, <1>2, SeqInduction
<1> QED BY <1>3

(* Without its last kept element, and whatever follows it, a sequence      *)
(* keeps all but the last of what it kept.                                 *)
LEMMA KeepFront ==
  ASSUME NEW E, NEW s \in Seq(E), NEW drop, NEW n \in 1..Len(s),
         s[n] \notin drop, \A m \in (n + 1)..Len(s) : s[m] \in drop
  PROVE  Keep(SubSeq(s, 1, n - 1), drop) = SubSeq(Keep(s, drop), 1, Len(Keep(s, drop)) - 1)
<1> DEFINE a == SubSeq(s, 1, n - 1)
           b == SubSeq(s, 1, n)
           c == SubSeq(s, n + 1, Len(s))
           k == Keep(a, drop)
<1>1. Len(s) \in Nat /\ n \in Nat /\ \A i \in 1..Len(s) : s[i] \in E
  BY LenProperties, ElementOfSeq
<1>2. a \in Seq(E)
  <2>1. \A i \in 1..(n - 1) : s[i] \in E
    BY <1>1
  <2> QED BY <1>1, <2>1, SubSeqProperties
<1>3. b = Append(a, s[n])
  <2>1. 1 \in 1..Len(s) /\ n \in 1..Len(s)
    BY <1>1
  <2>2. SubSeq(s, 1, n) = SubSeq(s, 1, n - 1) \o <<s[n]>>
    BY <2>1, SubSeqRecursiveSecond
  <2>3. Append(a, s[n]) = a \o <<s[n]>>
    BY <1>1, <1>2, AppendIsConcat
  <2> QED BY <2>2, <2>3
<1>4. c \in Seq(E) /\ \A i \in 1..Len(c) : c[i] \in drop
  <2>1. \A i \in (n + 1)..Len(s) : s[i] \in E
    BY <1>1
  <2>2. /\ c \in Seq(E)
        /\ Len(c) = IF n + 1 <= Len(s) THEN Len(s) - (n + 1) + 1 ELSE 0
        /\ \A i \in 1..(Len(s) - (n + 1) + 1) : c[i] = s[(n + 1) + i - 1]
    BY <1>1, <2>1, SubSeqProperties
  <2> HIDE DEF c
  <2>3. ASSUME NEW i \in 1..Len(c) PROVE c[i] \in drop
    <3>1. i \in 1..(Len(s) - (n + 1) + 1) /\ (n + 1) + i - 1 \in (n + 1)..Len(s)
      BY <1>1, <2>2
    <3> QED BY <2>2, <3>1
  <2> QED BY <2>2, <2>3
<1>5. s = b \o c
  <2>1. 1 \in 1..(Len(s) + 1) /\ n \in (1 - 1)..Len(s) /\ Len(s) \in n..Len(s)
    BY <1>1
  <2>2. SubSeq(s, 1, n) \o SubSeq(s, n + 1, Len(s)) = SubSeq(s, 1, Len(s))
    BY <2>1, ConcatAdjacentSubSeq
  <2>3. SubSeq(s, 1, Len(s)) = s
    BY SubSeqFull
  <2> QED BY <2>2, <2>3, Zenon
<1> HIDE DEF a, b, c
<1>6. b \in Seq(E) /\ s[n] \in E
  BY <1>1, <1>2, <1>3, AppendProperties
<1>7. Keep(s, drop) = Keep(b, drop) \o Keep(c, drop)
  BY <1>4, <1>5, <1>6, KeepConcat
<1>8. Keep(c, drop) = <<>>
  BY <1>4, KeepNone
<1>9. k \in Seq(E) /\ Keep(b, drop) = Append(k, s[n])
  <2>1. k \in Seq(E)
    BY <1>2, KeepType
  <2> DEFINE e == s[n]
  <2>2. e \in E /\ e \notin drop
    BY <1>6
  <2> HIDE DEF e
  <2>3. Keep(Append(a, e), drop) = Append(Keep(a, drop), e)
    BY <1>2, <2>2, KeepAppend
  <2> QED BY <1>3, <2>1, <2>3 DEF e
<1>10. Keep(s, drop) = Append(k, s[n])
  <2>1. Append(k, s[n]) \in Seq(E)
    <3> HIDE DEF k
    <3> QED BY <1>6, <1>9, AppendProperties
  <2> QED BY <1>7, <1>8, <1>9, <2>1, ConcatEmptySeq
<1>11. SubSeq(Append(k, s[n]), 1, Len(Append(k, s[n])) - 1) = k
  <2> HIDE DEF k
  <2> QED BY <1>6, <1>9
<1> QED BY <1>10, <1>11 DEF a

(* A dropped element at the end can be cut off.                            *)
LEMMA KeepCut ==
  ASSUME NEW E, NEW s \in Seq(E), s # <<>>, NEW drop, s[Len(s)] \in drop
  PROVE  /\ SubSeq(s, 1, Len(s) - 1) \in Seq(E)
         /\ Keep(SubSeq(s, 1, Len(s) - 1), drop) = Keep(s, drop)
<1> DEFINE a == SubSeq(s, 1, Len(s) - 1)
           e == s[Len(s)]
<1>1. Len(s) \in Nat \ {0}
  BY EmptySeq
<1>2. e \in E /\ \A i \in 1..(Len(s) - 1) : s[i] \in E
  <2>1. Len(s) \in 1..Len(s) /\ \A i \in 1..(Len(s) - 1) : i \in 1..Len(s)
    BY <1>1
  <2> QED BY <2>1, ElementOfSeq
<1>3. a \in Seq(E)
  <2>1. 1 \in Int /\ Len(s) - 1 \in Int
    BY <1>1
  <2> QED BY <1>2, <2>1, SubSeqProperties
<1>4. s = Append(a, e)
  <2>1. 1 \in 1..Len(s) /\ Len(s) \in 1..Len(s)
    BY <1>1
  <2>2. SubSeq(s, 1, Len(s)) = SubSeq(s, 1, Len(s) - 1) \o <<s[Len(s)]>>
    BY <2>1, SubSeqRecursiveSecond
  <2>3. SubSeq(s, 1, Len(s)) = s
    BY SubSeqFull
  <2>4. Append(a, e) = a \o <<e>>
    BY <1>2, <1>3, AppendIsConcat
  <2> QED BY <2>2, <2>3, <2>4, Zenon
<1> HIDE DEF a, e
<1>5. Keep(Append(a, e), drop) = Keep(a, drop)
  <2>1. e \in drop
    BY DEF e
  <2> QED BY <1>2, <1>3, <2>1, KeepAppend
<1> QED BY <1>3, <1>4, <1>5, Zenon DEF a
=============================================================================
