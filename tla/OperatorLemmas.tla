--------------------------- MODULE OperatorLemmas ---------------------------
(***************************************************************************)
(* What the operators do that several components are built from: the list  *)
(* operators of QueueOps, for lists of every length, and SumFunctionOnSet  *)
(* of the community module Functions.  The library's induction theorems    *)
(* take a predicate as a parameter; here the induction is over a set of    *)
(* sets, so that it can be cited.                                          *)
(***************************************************************************)
EXTENDS QueueOps, FiniteSetTheorems, SequenceTheorems, TLAPS


(* A later place of K ranks higher, and ranks run from 1 to |K|. *)
LEMMA RankOrder ==
  ASSUME NEW K \in SUBSET Int, IsFiniteSet(K), NEW i \in K
  PROVE  /\ Rank(K, i) \in 1..Cardinality(K)
         /\ \A k \in K : i < k => Rank(K, i) < Rank(K, k)
<1> DEFINE Below(n) == {k \in K : k <= n}
<1>1. ASSUME NEW n \in K
      PROVE  IsFiniteSet(Below(n)) /\ Cardinality(Below(n)) <= Cardinality(K)
             /\ Cardinality(Below(n)) \in Nat /\ Cardinality(K) \in Nat
  BY Below(n) \in SUBSET K, FS_Subset, FS_CardinalityType
<1>2. Below(i) # {}
  OBVIOUS
<1>3. Rank(K, i) \in 1..Cardinality(K)
  <2>1. Cardinality(Below(i)) # 0
    BY <1>1, <1>2, FS_EmptySet
  <2> QED
    BY <1>1, <2>1 DEF Rank
<1>4. ASSUME NEW k \in K, i < k
      PROVE  Rank(K, i) < Rank(K, k)
  <2>1. Below(i) \in SUBSET Below(k)
    <3>1. \A m \in K : m <= i => m <= k
      BY <1>4
    <3> QED
      BY <3>1
  <2>2. Below(i) # Below(k)
    <3>1. k \in Below(k) /\ k \notin Below(i)
      BY <1>4
    <3> QED
      BY <3>1
  <2>3. Cardinality(Below(i)) <= Cardinality(Below(k))
        /\ Cardinality(Below(i)) # Cardinality(Below(k))
    BY <1>1, <2>1, <2>2, FS_Subset
  <2> QED
    BY <1>1, <2>3 DEF Rank
<1> QED
  BY <1>3, <1>4

(* Every rank is taken, by one place only. *)
LEMMA RankBijection ==
  ASSUME NEW K \in SUBSET Int, IsFiniteSet(K), NEW j \in 1..Cardinality(K)
  PROVE  \E i \in K : Rank(K, i) = j /\ \A k \in K : Rank(K, k) = j => k = i
<1> DEFINE n == Cardinality(K)
           R == [i \in K |-> Rank(K, i)]
<1>1. n \in Nat
  BY FS_CardinalityType
<1>2. R \in [K -> 1..n]
  BY RankOrder
<1>3. \A a, b \in K : R[a] = R[b] => a = b
  <2> SUFFICES ASSUME NEW a \in K, NEW b \in K, R[a] = R[b], a # b PROVE FALSE
    OBVIOUS
  <2>1. Rank(K, a) = Rank(K, b) /\ Rank(K, a) \in Int
    BY RankOrder
  <2>2. CASE a < b
    BY <2>1, <2>2, RankOrder
  <2>3. CASE b < a
    BY <2>1, <2>3, RankOrder
  <2> QED
    BY <2>2, <2>3
<1>4. R \in Injection(K, 1..n)
  BY <1>2, <1>3 DEF Injection, IsInjective
<1>5. IsFiniteSet(1..n) /\ Cardinality(1..n) = n
  BY <1>1, FS_Interval
<1>6. R \in Surjection(K, 1..n)
  BY <1>4, <1>5, FS_Injection
<1>7. PICK i \in K : R[i] = j
  BY <1>6 DEF Surjection
<1> QED
  BY <1>3, <1>7

(* The places of q that hold an element of S are finitely many. *)
LEMMA PlacesFinite ==
  ASSUME NEW T, NEW q \in Seq(T), NEW S
  PROVE  /\ Places(q, S) \in SUBSET (1..Len(q))
         /\ IsFiniteSet(Places(q, S)) /\ Cardinality(Places(q, S)) \in Nat
<1>1. Len(q) \in Nat /\ DOMAIN q = 1..Len(q)
  OBVIOUS
<1>2. Places(q, S) \in SUBSET (1..Len(q))
  BY <1>1 DEF Places
<1>3. IsFiniteSet(1..Len(q))
  BY <1>1, FS_Interval
<1> QED
  BY <1>2, <1>3, FS_Subset, FS_CardinalityType

(***************************************************************************)
(* Unlinking keeps the entries of S, all of them, once each, in order.     *)
(***************************************************************************)
LEMMA OnlyOrder ==
  ASSUME NEW T, NEW q \in Seq(T), NEW S
  PROVE  \E at \in [DOMAIN Only(q, S) -> DOMAIN q] :
           /\ \A j \in DOMAIN Only(q, S) : Only(q, S)[j] = q[at[j]] /\ q[at[j]] \in S
           /\ \A j, k \in DOMAIN Only(q, S) : j < k => at[j] < at[k]
           /\ \A i \in DOMAIN q : q[i] \in S => \E j \in DOMAIN Only(q, S) : at[j] = i
<1> DEFINE K == Places(q, S)
           n == Cardinality(K)
           at == [j \in 1..n |-> CHOOSE i \in K : Rank(K, i) = j]
<1>1. K \in SUBSET Int /\ K \in SUBSET DOMAIN q /\ IsFiniteSet(K) /\ n \in Nat
  BY PlacesFinite DEF Places
<1>2. DOMAIN Only(q, S) = 1..n
  BY DEF Only
<1>3. \A j \in 1..n : at[j] \in K /\ Rank(K, at[j]) = j
  BY <1>1, RankBijection
<1>4. at \in [DOMAIN Only(q, S) -> DOMAIN q]
  BY <1>1, <1>2, <1>3
<1>5. \A j \in 1..n : Only(q, S)[j] = q[at[j]] /\ q[at[j]] \in S
  BY <1>3 DEF Only, Places
<1>6. ASSUME NEW j \in 1..n, NEW k \in 1..n, j < k
      PROVE  at[j] < at[k]
  <2>1. at[j] \in K /\ at[k] \in K /\ Rank(K, at[j]) = j /\ Rank(K, at[k]) = k
    BY <1>3
  <2>2. CASE at[k] < at[j]
    <3>1. Rank(K, at[k]) < Rank(K, at[j])
      BY <1>1, <2>1, <2>2, RankOrder
    <3> QED
      BY <2>1, <3>1, <1>6
  <2>3. at[j] # at[k]
    BY <2>1, <1>6
  <2>4. at[j] \in Int /\ at[k] \in Int
    BY <2>1, <1>1
  <2> QED
    BY <2>2, <2>3, <2>4
<1>7. ASSUME NEW i \in DOMAIN q, q[i] \in S
      PROVE  \E j \in 1..n : at[j] = i
  <2>1. i \in K
    BY <1>7 DEF Places
  <2>2. Rank(K, i) \in 1..n
    BY <1>1, <2>1, RankOrder
  <2>3. PICK k \in K : Rank(K, k) = Rank(K, i) /\ \A m \in K : Rank(K, m) = Rank(K, i) => m = k
    BY <1>1, <2>2, RankBijection
  <2>4. at[Rank(K, i)] = i
    BY <1>3, <2>1, <2>2, <2>3
  <2> QED
    BY <2>2, <2>4
<1> HIDE DEF at, n
<1>8. /\ \A j \in DOMAIN Only(q, S) : Only(q, S)[j] = q[at[j]] /\ q[at[j]] \in S
      /\ \A j, k \in DOMAIN Only(q, S) : j < k => at[j] < at[k]
      /\ \A i \in DOMAIN q : q[i] \in S => \E j \in DOMAIN Only(q, S) : at[j] = i
  BY <1>2, <1>5, <1>6, <1>7
<1> QED
  BY <1>4, <1>8, Zenon

LEMMA OnlyProperties ==
  ASSUME NEW T, NEW q \in Seq(T), NEW S
  PROVE  /\ Only(q, S) \in Seq(T)
         /\ Range(Only(q, S)) = Range(q) \cap S
         /\ IsInjective(q) => IsInjective(Only(q, S))
<1> DEFINE r == Only(q, S)
<1>1. PICK at \in [DOMAIN r -> DOMAIN q] :
        /\ \A j \in DOMAIN r : r[j] = q[at[j]] /\ q[at[j]] \in S
        /\ \A j, k \in DOMAIN r : j < k => at[j] < at[k]
        /\ \A i \in DOMAIN q : q[i] \in S => \E j \in DOMAIN r : at[j] = i
  BY OnlyOrder
<1>2. PICK n \in Nat : r = [j \in 1..n |-> r[j]] /\ DOMAIN r = 1..n
  BY PlacesFinite DEF Only
<1>3. \A i \in DOMAIN q : q[i] \in T
  OBVIOUS
<1> HIDE DEF r
<1>4. r \in Seq(T)
  <2>1. \A j \in 1..n : r[j] \in T
    BY <1>1, <1>2, <1>3
  <2> QED
    BY <1>2, <2>1
<1>5. Range(r) = Range(q) \cap S
  BY <1>1 DEF Range
<1>6. ASSUME IsInjective(q)
      PROVE  IsInjective(r)
  <2> SUFFICES ASSUME NEW j \in DOMAIN r, NEW k \in DOMAIN r, r[j] = r[k], j < k
               PROVE  FALSE
    BY <1>2 DEF IsInjective
  <2>1. at[j] < at[k] /\ at[j] \in Int /\ at[k] \in Int
    BY <1>1
  <2>2. at[j] = at[k]
    BY <1>1, <1>6 DEF IsInjective
  <2> QED
    BY <2>1, <2>2
<1> QED
  BY <1>4, <1>5, <1>6 DEF r

LEMMA WithoutProperties ==
  ASSUME NEW T, NEW q \in Seq(T), NEW S
  PROVE  /\ Without(q, S) \in Seq(T)
         /\ Range(Without(q, S)) = Range(q) \ S
         /\ IsInjective(q) => IsInjective(Without(q, S))
BY OnlyProperties DEF Without

(* A sorted list stays sorted when entries are unlinked.                   *)
LEMMA OnlySorted ==
  ASSUME NEW T, NEW q \in Seq(T), NEW S, NEW due, Sorted(q, due)
  PROVE  Sorted(Only(q, S), due)
<1> DEFINE r == Only(q, S)
<1>1. PICK at \in [DOMAIN r -> DOMAIN q] :
        /\ \A j \in DOMAIN r : r[j] = q[at[j]] /\ q[at[j]] \in S
        /\ \A j, k \in DOMAIN r : j < k => at[j] < at[k]
  BY OnlyOrder
<1> HIDE DEF r
<1>2. Sorted(r, due)
  BY <1>1 DEF Sorted
<1> QED
  BY <1>2 DEF r

-----------------------------------------------------------------------------
(* Linking p in adds p and nothing else. *)
LEMMA LinkAtProperties ==
  ASSUME NEW T, NEW q \in Seq(T), NEW p \in T, NEW i \in 1..Len(q) + 1
  PROVE  /\ LinkAt(q, i, p) \in Seq(T)
         /\ Range(LinkAt(q, i, p)) = Range(q) \cup {p}
         /\ IsInjective(q) /\ p \notin Range(q) => IsInjective(LinkAt(q, i, p))
<1> DEFINE r == LinkAt(q, i, p)
           n == Len(q)
<1>1. n \in Nat /\ DOMAIN q = 1..n /\ \A j \in 1..n : q[j] \in T
  OBVIOUS
<1>2. DOMAIN r = 1..n + 1
      /\ \A j \in 1..n + 1 : r[j] = IF j < i THEN q[j] ELSE IF j = i THEN p ELSE q[j - 1]
  BY DEF LinkAt
<1>3. \A j \in 1..n + 1 : r[j] \in T
  BY <1>1, <1>2
<1>4. r \in Seq(T)
  <2>1. r = [j \in 1..n + 1 |-> r[j]]
    BY <1>2 DEF LinkAt
  <2> HIDE DEF r
  <2> QED
    BY <1>1, <1>3, <2>1
<1> HIDE DEF r, n
<1>5. Range(r) = Range(q) \cup {p}
  <2>1. ASSUME NEW j \in 1..n + 1 PROVE r[j] \in Range(q) \cup {p}
    <3>1. CASE j < i
      <4>1. j \in 1..n
        BY <1>1, <3>1 DEF n
      <4> QED BY <1>1, <1>2, <3>1, <4>1 DEF Range
    <3>2. CASE j = i
      BY <1>2, <3>2
    <3>3. CASE j > i
      <4>1. j - 1 \in 1..n
        BY <1>1, <3>3 DEF n
      <4> QED BY <1>1, <1>2, <3>3, <4>1 DEF Range
    <3> QED BY <3>1, <3>2, <3>3
  <2>2. ASSUME NEW k \in 1..n PROVE q[k] \in Range(r)
    <3>1. CASE k < i
      BY <1>1, <1>2, <3>1 DEF Range
    <3>2. CASE k >= i
      <4>1. k + 1 \in 1..n + 1 /\ r[k + 1] = q[k]
        BY <1>1, <1>2, <3>2
      <4> QED BY <1>2, <4>1 DEF Range
    <3> QED BY <3>1, <3>2
  <2>3. p \in Range(r)
    BY <1>1, <1>2 DEF Range, n
  <2> QED
    BY <1>1, <1>2, <2>1, <2>2, <2>3 DEF Range
<1>6. ASSUME IsInjective(q), p \notin Range(q)
      PROVE  IsInjective(r)
  <2> SUFFICES ASSUME NEW j \in 1..n + 1, NEW k \in 1..n + 1, r[j] = r[k], j < k
               PROVE  FALSE
    BY <1>1, <1>2 DEF IsInjective
  <2>1. \A a \in 1..n : q[a] # p
    BY <1>1, <1>6 DEF Range
  <2>2. \A a, b \in 1..n : q[a] = q[b] => a = b
    BY <1>1, <1>6 DEF IsInjective
  <2>3. CASE k < i
    BY <1>1, <1>2, <2>2, <2>3 DEF n
  <2>4. CASE k = i
    BY <1>1, <1>2, <2>1, <2>4 DEF n
  <2>5. CASE k > i /\ j < i
    BY <1>1, <1>2, <2>2, <2>5 DEF n
  <2>6. CASE k > i /\ j = i
    BY <1>1, <1>2, <2>1, <2>6 DEF n
  <2>7. CASE k > i /\ j > i
    BY <1>1, <1>2, <2>2, <2>7 DEF n
  <2> QED
    BY <1>1, <2>3, <2>4, <2>5, <2>6, <2>7 DEF n
<1> QED
  BY <1>4, <1>5, <1>6 DEF r

-----------------------------------------------------------------------------
(* Some place is the first at which a list is due later than t. *)
LEMMA FirstLater ==
  ASSUME NEW T, NEW q \in Seq(T), NEW due \in [T -> Int], NEW t \in Int
  PROVE  \E n \in 0..Len(q) :
           /\ \A j \in 1..n : due[q[j]] <= t
           /\ n < Len(q) => due[q[n + 1]] > t
<1> DEFINE K == {i \in 1..Len(q) : due[q[i]] > t}
<1>1. Len(q) \in Nat /\ \A i \in 1..Len(q) : due[q[i]] \in Int
  OBVIOUS
<1>2. K \in SUBSET Int /\ IsFiniteSet(K) /\ Cardinality(K) \in Nat
  <2>1. IsFiniteSet(1..Len(q))
    BY <1>1, FS_Interval
  <2>2. K \in SUBSET (1..Len(q))
    OBVIOUS
  <2> QED
    BY <2>1, <2>2, FS_Subset, FS_CardinalityType
<1>3. CASE K = {}
  <2>1. \A j \in 1..Len(q) : due[q[j]] <= t
    BY <1>1, <1>3
  <2> QED
    BY <1>1, <2>1
<1>4. CASE K # {}
  <2>1. Cardinality(K) # 0
    BY <1>2, <1>4, FS_EmptySet
  <2>2. 1 \in 1..Cardinality(K)
    BY <1>2, <2>1
  <2>3. PICK i \in K : Rank(K, i) = 1
    <3> HIDE DEF K
    <3> QED
      BY <1>2, <2>2, RankBijection
  <2>4. \A k \in K : ~(k < i)
    <3>1. SUFFICES ASSUME NEW k \in K, k < i PROVE FALSE
      OBVIOUS
    <3>2. Rank(K, k) < Rank(K, i) /\ Rank(K, k) \in 1..Cardinality(K)
      BY <1>2, <3>1, RankOrder
    <3> QED
      BY <1>2, <2>3, <3>2
  <2>5. \A j \in 1..i - 1 : due[q[j]] <= t
    BY <1>1, <2>4
  <2>6. i - 1 \in 0..Len(q) /\ (i - 1) + 1 = i /\ due[q[i]] > t
    BY <1>1
  <2> QED
    BY <2>5, <2>6
<1> QED
  BY <1>3, <1>4

(* What the promotion takes off the wait queue: everything due, if the     *)
(* entries after it are ordered.                                           *)
LEMMA RipeCountProperties ==
  ASSUME NEW T, NEW q \in Seq(T), NEW due \in [T -> Int], NEW t \in Int
  PROVE  /\ RipeCount(q, due, t) \in 0..Len(q)
         /\ \A j \in 1..RipeCount(q, due, t) : due[q[j]] <= t
         /\ RipeCount(q, due, t) < Len(q) => due[q[RipeCount(q, due, t) + 1]] > t
BY FirstLater DEF RipeCount

(* An entry has a place in the wait queue.                                 *)
LEMMA ThreadAtProperties ==
  ASSUME NEW T, NEW q \in Seq(T), NEW due \in [T -> Int], NEW t \in Int
  PROVE  /\ ThreadAt(q, due, t) \in 1..Len(q) + 1
         /\ \A j \in 1..ThreadAt(q, due, t) - 1 : due[q[j]] <= t
         /\ ThreadAt(q, due, t) <= Len(q) => due[q[ThreadAt(q, due, t)]] > t
<1>1. PICK n \in 0..Len(q) :
        (\A j \in 1..n : due[q[j]] <= t) /\ (n < Len(q) => due[q[n + 1]] > t)
  BY FirstLater
<1>2. n + 1 \in 1..Len(q) + 1 /\ (n + 1) - 1 = n /\ (n + 1 <= Len(q) => n < Len(q))
  OBVIOUS
<1>3. \E i \in 1..Len(q) + 1 :
        (\A j \in 1..i - 1 : due[q[j]] <= t) /\ (i <= Len(q) => due[q[i]] > t)
  BY <1>1, <1>2
<1> QED
  BY <1>3 DEF ThreadAt

LEMMA ThreadProperties ==
  ASSUME NEW T, NEW q \in Seq(T), NEW due \in [T -> Int], NEW p \in T
  PROVE  /\ Thread(q, due, p) \in Seq(T)
         /\ Range(Thread(q, due, p)) = Range(q) \cup {p}
         /\ IsInjective(q) /\ p \notin Range(q) => IsInjective(Thread(q, due, p))
<1>1. ThreadAt(q, due, due[p]) \in 1..Len(q) + 1
  BY ThreadAtProperties
<1> QED
  BY <1>1, LinkAtProperties DEF Thread

(***************************************************************************)
(* Threading keeps a list ordered.                                         *)
(***************************************************************************)
LEMMA ThreadSorted ==
  ASSUME NEW T, NEW q \in Seq(T), NEW due \in [T -> Int], NEW p \in T, Sorted(q, due)
  PROVE  Sorted(Thread(q, due, p), due)
<1> DEFINE i == ThreadAt(q, due, due[p])
           r == LinkAt(q, i, p)
           n == Len(q)
<1>1. /\ i \in 1..n + 1
      /\ \A j \in 1..i - 1 : due[q[j]] <= due[p]
      /\ i <= n => due[q[i]] > due[p]
  BY ThreadAtProperties
<1>2. n \in Nat /\ DOMAIN q = 1..n /\ \A j \in 1..n : q[j] \in T /\ due[q[j]] \in Int
  OBVIOUS
<1>3. DOMAIN r = 1..n + 1
      /\ \A j \in 1..n + 1 : r[j] = IF j < i THEN q[j] ELSE IF j = i THEN p ELSE q[j - 1]
  BY DEF LinkAt
<1>4. \A j, k \in 1..n : j < k => due[q[j]] <= due[q[k]]
  BY <1>2 DEF Sorted
<1>5. due[p] \in Int
  OBVIOUS
<1> HIDE DEF i, r, n
<1>6. \A k \in 1..n : k >= i => due[q[k]] > due[p]
  BY <1>1, <1>2, <1>4, <1>5
<1>7. ASSUME NEW j \in 1..n + 1, NEW k \in 1..n + 1, j < k
      PROVE  due[r[j]] <= due[r[k]]
  <2>1. CASE k < i
    BY <1>1, <1>2, <1>3, <1>4, <1>7, <2>1
  <2>2. CASE k = i
    BY <1>1, <1>2, <1>3, <1>7, <2>2
  <2>3. CASE k > i /\ j < i
    <3>1. j \in 1..n /\ k - 1 \in 1..n /\ (j < k - 1 \/ j = k - 1)
      BY <1>1, <1>2, <1>7, <2>3
    <3>2. r[j] = q[j] /\ r[k] = q[k - 1]
      BY <1>1, <1>2, <1>3, <2>3
    <3> QED
      BY <1>2, <1>4, <3>1, <3>2
  <2>4. CASE k > i /\ j = i
    <3>1. k - 1 \in 1..n /\ k - 1 >= i /\ r[k] = q[k - 1] /\ r[j] = p
      BY <1>1, <1>2, <1>3, <2>4
    <3> QED
      BY <1>2, <1>5, <1>6, <3>1
  <2>5. CASE k > i /\ j > i
    <3>1. j - 1 \in 1..n /\ k - 1 \in 1..n /\ j - 1 < k - 1
      BY <1>1, <1>2, <1>7, <2>5
    <3>2. r[k] = q[k - 1] /\ r[j] = q[j - 1]
      BY <1>1, <1>2, <1>3, <2>5
    <3> QED
      BY <1>4, <3>1, <3>2
  <2> QED
    BY <1>1, <1>2, <2>1, <2>2, <2>3, <2>4, <2>5
<1> QED
  BY <1>3, <1>7 DEF Sorted, Thread, r, i

-----------------------------------------------------------------------------
(* The head of a list, as a list. *)
LEMMA FirstOfProperties ==
  ASSUME NEW T, NEW q \in Seq(T), NEW n \in Nat
  PROVE  /\ FirstOf(q, n) \in Seq(T)
         /\ Range(FirstOf(q, n)) \subseteq Range(q)
         /\ IsInjective(q) => IsInjective(FirstOf(q, n))
<1> DEFINE m == IF n < Len(q) THEN n ELSE Len(q)
<1>1. m \in Nat /\ m <= Len(q) /\ \A i \in 1..m : i \in DOMAIN q /\ q[i] \in T
  OBVIOUS
<1> HIDE DEF m
<1>2. [i \in 1..m |-> q[i]] \in Seq(T)
  BY <1>1
<1> QED
  BY <1>1, <1>2 DEF FirstOf, Range, IsInjective, m

LEMMA AppendRange ==
  ASSUME NEW T, NEW q \in Seq(T), NEW p \in T
  PROVE  /\ Append(q, p) \in Seq(T)
         /\ Range(Append(q, p)) = Range(q) \cup {p}
         /\ IsInjective(q) /\ p \notin Range(q) => IsInjective(Append(q, p))
<1>0. SUFFICES ASSUME NEW r, r = Append(q, p)
             PROVE  /\ r \in Seq(T)
                    /\ Range(r) = Range(q) \cup {p}
                    /\ IsInjective(q) /\ p \notin Range(q) => IsInjective(r)
  OBVIOUS
<1> DEFINE n == Len(q)
<1>1. n \in Nat /\ DOMAIN q = 1..n /\ DOMAIN r = 1..n + 1 /\ r \in Seq(T)
  BY <1>0
<1>2. r[n + 1] = p /\ \A i \in 1..n : r[i] = q[i]
  BY <1>0
<1> HIDE DEF n
<1>3. Range(r) = Range(q) \cup {p}
  <2>1. ASSUME NEW i \in 1..n + 1 PROVE r[i] \in Range(q) \cup {p}
    <3>1. i \in 1..n \/ i = n + 1
      BY <1>1
    <3> QED
      BY <1>1, <1>2, <3>1 DEF Range
  <2>2. ASSUME NEW i \in 1..n PROVE q[i] \in Range(r)
    <3>1. i \in 1..n + 1
      BY <1>1
    <3> QED
      BY <1>1, <1>2, <3>1 DEF Range
  <2>3. p \in Range(r)
    BY <1>1, <1>2 DEF Range
  <2> QED
    BY <1>1, <2>1, <2>2, <2>3 DEF Range
<1>4. ASSUME IsInjective(q), p \notin Range(q)
      PROVE  IsInjective(r)
  <2> SUFFICES ASSUME NEW i \in 1..n + 1, NEW j \in 1..n + 1, r[i] = r[j], i < j
               PROVE  FALSE
    BY <1>1 DEF IsInjective
  <2>1. i \in 1..n /\ r[i] = q[i] /\ q[i] # p
    BY <1>1, <1>2, <1>4 DEF Range
  <2>2. CASE j \in 1..n
    <3>1. r[j] = q[j]
      BY <1>2, <2>2
    <3>2. i \in Int /\ j \in Int
      BY <2>1, <2>2
    <3>3. q[i] = q[j]
      BY <2>1, <3>1
    <3>4. i # j
      BY <3>2
    <3> QED
      BY <1>1, <1>4, <2>1, <2>2, <3>3, <3>4 DEF IsInjective
  <2>3. CASE j = n + 1
    BY <1>2, <2>1, <2>3
  <2> QED
    BY <1>1, <2>2, <2>3
<1> QED
  BY <1>1, <1>3, <1>4

LEMMA ConcatRange ==
  ASSUME NEW T, NEW q \in Seq(T), NEW r \in Seq(T)
  PROVE  /\ q \o r \in Seq(T)
         /\ Range(q \o r) = Range(q) \cup Range(r)
         /\ IsInjective(q) /\ IsInjective(r) /\ Range(q) \cap Range(r) = {}
              => IsInjective(q \o r)
<1> DEFINE s == q \o r
           n == Len(q)
           m == Len(r)
<1>1. /\ n \in Nat /\ m \in Nat /\ DOMAIN q = 1..n /\ DOMAIN r = 1..m
      /\ DOMAIN s = 1..n + m /\ s \in Seq(T)
  OBVIOUS
<1>2. \A i \in 1..n + m : s[i] = IF i <= n THEN q[i] ELSE r[i - n]
  OBVIOUS
<1> HIDE DEF s, n, m
<1>3. Range(s) = Range(q) \cup Range(r)
  <2>1. ASSUME NEW i \in 1..n + m PROVE s[i] \in Range(q) \cup Range(r)
    <3>1. CASE i <= n
      <4>1. i \in 1..n /\ s[i] = q[i]
        BY <1>1, <1>2, <3>1
      <4> QED
        BY <1>1, <4>1 DEF Range
    <3>2. CASE i > n
      <4>1. i - n \in 1..m /\ s[i] = r[i - n]
        BY <1>1, <1>2, <3>2
      <4> QED
        BY <1>1, <4>1 DEF Range
    <3> QED
      BY <1>1, <3>1, <3>2
  <2>2. ASSUME NEW i \in 1..n PROVE q[i] \in Range(s)
    <3>1. i \in 1..n + m /\ s[i] = q[i]
      BY <1>1, <1>2
    <3> QED
      BY <1>1, <3>1 DEF Range
  <2>3. ASSUME NEW i \in 1..m PROVE r[i] \in Range(s)
    <3>1. n + i \in 1..n + m /\ s[n + i] = r[i]
      BY <1>1, <1>2
    <3> QED
      BY <1>1, <3>1 DEF Range
  <2> QED
    BY <1>1, <2>1, <2>2, <2>3 DEF Range
<1>4. ASSUME IsInjective(q), IsInjective(r), Range(q) \cap Range(r) = {}
      PROVE  IsInjective(s)
  <2> SUFFICES ASSUME NEW i \in 1..n + m, NEW j \in 1..n + m, s[i] = s[j], i < j
               PROVE  FALSE
    BY <1>1 DEF IsInjective
  <2>1. \A a \in 1..n, b \in 1..m : q[a] # r[b]
    BY <1>1, <1>4 DEF Range
  <2>2. (\A a, b \in 1..n : q[a] = q[b] => a = b) /\ (\A a, b \in 1..m : r[a] = r[b] => a = b)
    BY <1>1, <1>4 DEF IsInjective
  <2>3. CASE j <= n
    BY <1>1, <1>2, <2>2, <2>3
  <2>4. CASE i <= n /\ j > n
    <3>1. j - n \in 1..m /\ i \in 1..n
      BY <1>1, <2>4
    <3> QED
      BY <1>1, <1>2, <2>1, <2>4, <3>1
  <2>5. CASE i > n
    <3>1. j - n \in 1..m /\ i - n \in 1..m /\ i - n # j - n
      BY <1>1, <2>5
    <3> QED
      BY <1>1, <1>2, <2>2, <2>5, <3>1
  <2> QED
    BY <1>1, <2>3, <2>4, <2>5
<1> QED
  BY <1>1, <1>3, <1>4 DEF s

LEMMA TailRange ==
  ASSUME NEW T, NEW q \in Seq(T), q # <<>>
  PROVE  /\ Tail(q) \in Seq(T) /\ Head(q) \in Range(q)
         /\ Range(q) = Range(Tail(q)) \cup {Head(q)}
         /\ IsInjective(q) => IsInjective(Tail(q)) /\ Head(q) \notin Range(Tail(q))
<1> DEFINE r == Tail(q)
           n == Len(q)
<1>1. n \in Nat \ {0} /\ DOMAIN q = 1..n /\ DOMAIN r = 1..n - 1 /\ r \in Seq(T)
  OBVIOUS
<1>2. \A i \in 1..n - 1 : r[i] = q[i + 1]
  OBVIOUS
<1>3. Head(q) = q[1] /\ 1 \in 1..n
  OBVIOUS
<1> HIDE DEF r, n
<1>4. Range(q) = Range(r) \cup {q[1]}
  <2>1. ASSUME NEW i \in 1..n PROVE q[i] \in Range(r) \cup {q[1]}
    <3>1. CASE i = 1
      BY <3>1
    <3>2. CASE i > 1
      <4>1. i - 1 \in 1..n - 1 /\ (i - 1) + 1 = i
        BY <1>1, <3>2
      <4>2. r[i - 1] = q[i]
        BY <1>2, <4>1
      <4> QED
        BY <1>1, <4>1, <4>2 DEF Range
    <3> QED
      BY <3>1, <3>2
  <2>2. ASSUME NEW i \in 1..n - 1 PROVE r[i] \in Range(q)
    <3>1. i + 1 \in 1..n
      BY <1>1
    <3> QED
      BY <1>1, <1>2, <3>1 DEF Range
  <2> QED
    BY <1>1, <1>3, <2>1, <2>2 DEF Range
<1>5. ASSUME IsInjective(q)
      PROVE  IsInjective(r) /\ q[1] \notin Range(r)
  <2>1. \A i \in 1..n - 1 : i + 1 \in 1..n /\ i + 1 # 1
    BY <1>1
  <2>2. \A i, j \in 1..n - 1 : r[i] = r[j] => i = j
    <3>1. SUFFICES ASSUME NEW i \in 1..n - 1, NEW j \in 1..n - 1, r[i] = r[j] PROVE i = j
      OBVIOUS
    <3>2. i + 1 = j + 1
      BY <1>1, <1>2, <1>5, <2>1, <3>1 DEF IsInjective
    <3> QED
      BY <3>2
  <2>3. \A i \in 1..n - 1 : r[i] # q[1]
    BY <1>1, <1>2, <1>3, <1>5, <2>1 DEF IsInjective
  <2> QED
    BY <1>1, <2>2, <2>3 DEF IsInjective, Range
<1> QED
  BY <1>1, <1>3, <1>4, <1>5 DEF r, Range

-----------------------------------------------------------------------------
(* A list without repetitions is as long as the set of its entries.        *)
LEMMA InjectiveLength ==
  ASSUME NEW T, NEW q \in Seq(T), IsInjective(q)
  PROVE  IsFiniteSet(Range(q)) /\ Cardinality(Range(q)) = Len(q)
<1>1. Len(q) \in Nat /\ DOMAIN q = 1..Len(q) /\ q \in [1..Len(q) -> Range(q)]
  BY DEF Range
<1>2. q \in Bijection(1..Len(q), Range(q))
  <2>1. \A a, b \in 1..Len(q) : q[a] = q[b] => a = b
    BY <1>1 DEF IsInjective
  <2>2. \A t \in Range(q) : \E a \in 1..Len(q) : q[a] = t
    BY <1>1 DEF Range
  <2> QED
    BY <1>1, <2>1, <2>2 DEF Bijection, Injection, Surjection, IsInjective
<1>3. ExistsBijection(1..Len(q), Range(q))
  BY <1>2 DEF ExistsBijection
<1>4. IsFiniteSet(1..Len(q)) /\ Cardinality(1..Len(q)) = Len(q)
  BY <1>1, FS_Interval
<1> QED
  BY <1>3, <1>4, FS_Bijection

(* How long the head of a list is, and when it is all of it.               *)
LEMMA FirstOfLength ==
  ASSUME NEW T, NEW q \in Seq(T), NEW n \in Nat
  PROVE  /\ Len(FirstOf(q, n)) = (IF n < Len(q) THEN n ELSE Len(q))
         /\ DOMAIN FirstOf(q, n) = 1..(IF n < Len(q) THEN n ELSE Len(q))
         /\ n >= Len(q) => FirstOf(q, n) = q
<1> DEFINE m == IF n < Len(q) THEN n ELSE Len(q)
<1>1. m \in Nat
  OBVIOUS
<1>2. FirstOf(q, n) = [i \in 1..m |-> q[i]]
  BY DEF FirstOf
<1>3. n >= Len(q) => m = Len(q)
  OBVIOUS
<1>4. q = [i \in 1..Len(q) |-> q[i]]
  OBVIOUS
<1> HIDE DEF m
<1>5. Len(FirstOf(q, n)) = m /\ DOMAIN FirstOf(q, n) = 1..m
  BY <1>1, <1>2
<1> QED
  BY <1>2, <1>3, <1>4, <1>5 DEF m

(* The first n of the entries of S: none is taken past an older one.       *)
LEMMA FirstOfOnly ==
  ASSUME NEW T, NEW q \in Seq(T), IsInjective(q), NEW S, NEW n \in Nat,
         NEW i \in DOMAIN q, NEW j \in DOMAIN q, i < j, q[i] \in S,
         q[j] \in Range(FirstOf(Only(q, S), n))
  PROVE  q[i] \in Range(FirstOf(Only(q, S), n))
<1> DEFINE r == Only(q, S)
           m == IF n < Len(r) THEN n ELSE Len(r)
<1>1. r \in Seq(T)
  BY OnlyProperties
<1>2. m \in Nat /\ m <= Len(r) /\ DOMAIN r = 1..Len(r)
  BY <1>1
<1>3. PICK at \in [DOMAIN r -> DOMAIN q] :
        /\ \A a \in DOMAIN r : r[a] = q[at[a]] /\ q[at[a]] \in S
        /\ \A a, b \in DOMAIN r : a < b => at[a] < at[b]
        /\ \A a \in DOMAIN q : q[a] \in S => \E b \in DOMAIN r : at[b] = a
  BY OnlyOrder
<1>4. Range(FirstOf(r, n)) = {r[a] : a \in 1..m}
  BY DEF FirstOf, Range
<1> HIDE DEF r, m
<1>5. PICK k \in 1..m : q[j] = r[k]
  BY <1>4 DEF r
<1>6. k \in DOMAIN r /\ at[k] = j
  <2>1. k \in DOMAIN r
    BY <1>2, <1>5
  <2>2. at[k] \in DOMAIN q /\ q[at[k]] = q[j]
    BY <2>1, <1>3, <1>5
  <2> QED
    BY <2>1, <2>2 DEF IsInjective
<1>7. PICK l \in DOMAIN r : at[l] = i
  BY <1>3
<1>8. l < k
  <2>1. ~(k < l)
    <3> SUFFICES ASSUME k < l PROVE FALSE
      OBVIOUS
    <3>1. at[k] < at[l]
      BY <1>3, <1>6, <1>7
    <3> QED
      BY <1>6, <1>7, <3>1
  <2>2. k # l
    BY <1>6, <1>7
  <2> QED
    BY <1>2, <1>6, <1>7, <2>1, <2>2
<1>9. l \in 1..m /\ r[l] = q[i]
  BY <1>2, <1>3, <1>5, <1>7, <1>8
<1> QED
  BY <1>4, <1>9 DEF r

(* A list is sorted by any times that agree on its entries.                *)
LEMMA SortedAgrees ==
  ASSUME NEW q, NEW d1, NEW d2, Sorted(q, d1), \A p \in Range(q) : d1[p] = d2[p]
  PROVE  Sorted(q, d2)
BY DEF Sorted, Range

(* What stays when the ripe head of a sorted list is unlinked is not ripe. *)
LEMMA RestNotRipe ==
  ASSUME NEW T, NEW q \in Seq(T), NEW due \in [T -> Int], NEW t \in Int, Sorted(q, due),
         NEW p \in Range(q) \ Range(FirstOf(q, RipeCount(q, due, t)))
  PROVE  due[p] > t
<1> DEFINE n == RipeCount(q, due, t)
<1>1. n \in 0..Len(q) /\ (n < Len(q) => due[q[n + 1]] > t)
  BY RipeCountProperties
<1>2. DOMAIN q = 1..Len(q) /\ Len(q) \in Nat
  OBVIOUS
<1>3. PICK i \in 1..Len(q) : p = q[i]
  BY DEF Range
<1>4. Range(FirstOf(q, n)) = {q[a] : a \in 1..n}
  BY <1>1, <1>2 DEF FirstOf, Range
<1> HIDE DEF n
<1>5. i > n
  BY <1>1, <1>3, <1>4 DEF n
<1>6. n + 1 \in 1..Len(q) /\ due[q[n + 1]] > t
  BY <1>1, <1>2, <1>3, <1>5
<1>7. due[q[n + 1]] <= due[q[i]]
  <2>1. CASE i = n + 1
    <3>1. due[q[i]] \in Int
      BY <1>2, <1>3
    <3> QED
      BY <2>1, <3>1
  <2>2. CASE i > n + 1
    BY <1>2, <1>3, <1>6, <2>2 DEF Sorted
  <2> QED
    BY <1>1, <1>2, <1>3, <1>5, <2>1, <2>2
<1>8. due[q[n + 1]] \in Int /\ due[q[i]] \in Int
  BY <1>2, <1>3, <1>6
<1> QED
  BY <1>3, <1>6, <1>7, <1>8

-----------------------------------------------------------------------------
(* Induction over the subsets of a finite set. *)
LEMMA SubsetInduction ==
  ASSUME NEW S, IsFiniteSet(S), NEW Q \in SUBSET SUBSET S,
         \A T \in SUBSET S : (\A R \in SUBSET T : R # T => R \in Q) => T \in Q
  PROVE  Q = SUBSET S
<1> SUFFICES ASSUME Q # SUBSET S PROVE FALSE
  OBVIOUS
<1> DEFINE B == (SUBSET S) \ Q
<1>1. B # {} /\ B \subseteq SUBSET S
  OBVIOUS
<1>2. IsWellFoundedOn(StrictSubsetOrdering(S), SUBSET S)
  <2>1. FiniteSubsetsOf(S) = SUBSET S
    BY FS_Subset DEF FiniteSubsetsOf
  <2>2. IsWellFoundedOn(StrictSubsetOrdering(S), FiniteSubsetsOf(S))
    BY FS_StrictSubsetOrderingWellFounded
  <2> QED
    BY <2>1, <2>2
<1>3. PICK T \in B : \A R \in B : ~(<<R, T>> \in StrictSubsetOrdering(S))
  <2> DEFINE O == StrictSubsetOrdering(S)
             P == SUBSET S
  <2>1. IsWellFoundedOn(O, P) /\ B \subseteq P /\ B # {}
    BY <1>1, <1>2
  <2> HIDE DEF B, O, P
  <2>2. \E T \in B : \A R \in B : ~(<<R, T>> \in O)
    BY <2>1, WFMin
  <2> QED
    BY <2>2 DEF O
<1>4. ASSUME NEW R \in SUBSET T, R # T PROVE R \in Q
  <2>1. R \in SUBSET S /\ <<R, T>> \in StrictSubsetOrdering(S)
    BY <1>4 DEF StrictSubsetOrdering
  <2> QED
    BY <1>3, <2>1
<1> QED
  BY <1>3, <1>4

(* The same, one element at a time. *)
LEMMA ElementInduction ==
  ASSUME NEW S, IsFiniteSet(S), NEW Q \in SUBSET SUBSET S, {} \in Q,
         \A T \in Q : \A x \in S \ T : T \cup {x} \in Q
  PROVE  Q = SUBSET S
<1>1. ASSUME NEW T \in SUBSET S, \A R \in SUBSET T : R # T => R \in Q
      PROVE  T \in Q
  <2>1. CASE T = {}
    BY <2>1
  <2>2. ASSUME NEW x \in T PROVE T \in Q
    <3>1. T \ {x} \in Q
      BY <1>1
    <3>2. T = (T \ {x}) \cup {x} /\ x \in S \ (T \ {x})
      OBVIOUS
    <3> QED
      BY <3>1, <3>2
  <2> QED
    BY <2>1, <2>2
<1> QED
  BY <1>1, SubsetInduction

(* Counting up to end. *)
LEMMA CountingInduction ==
  ASSUME NEW end \in Nat, NEW Q, 0 \in Q, \A n \in 0..end - 1 : n \in Q => n + 1 \in Q
  PROVE  \A n \in 0..end : n \in Q
<1> DEFINE B == {T \in SUBSET (0..end) : \A n \in 0..end : T = 0..n => n \in Q}
<1>1. ASSUME NEW T \in SUBSET (0..end), \A R \in SUBSET T : R # T => R \in B
      PROVE  T \in B
  <2>1. ASSUME NEW n \in 0..end, T = 0..n PROVE n \in Q
    <3>1. CASE n = 0
      BY <3>1
    <3>2. CASE n # 0
      <4>1. n - 1 \in 0..end - 1 /\ n - 1 \in 0..end /\ 0..n - 1 \in SUBSET T /\ 0..n - 1 # T
        BY <2>1, <3>2
      <4>2. 0..n - 1 \in B
        BY <1>1, <4>1
      <4>3. n - 1 \in Q
        BY <4>1, <4>2
      <4> QED
        BY <4>1, <4>3
    <3> QED
      BY <3>1, <3>2
  <2> QED
    BY <2>1
<1>2. B = SUBSET (0..end)
  <2>1. IsFiniteSet(0..end) /\ B \in SUBSET SUBSET (0..end)
    BY FS_Interval
  <2> HIDE DEF B
  <2> QED
    BY <1>1, <2>1, SubsetInduction
<1>3. ASSUME NEW n \in 0..end PROVE n \in Q
  <2>1. 0..n \in SUBSET (0..end)
    OBVIOUS
  <2>2. 0..n \in B
    <3> HIDE DEF B
    <3> QED
      BY <1>2, <2>1
  <2> QED
    BY <2>2
<1> QED
  BY <1>3

(* end steps from s, each a function on S, can be taken one after the other. *)
LEMMA StepsExist ==
  ASSUME NEW S, NEW s \in S, NEW end \in Nat, NEW F \in [1..end -> [S -> S]]
  PROVE  \E h \in [0..end -> S] : h[0] = s /\ \A n \in 1..end : h[n] = F[n][h[n - 1]]
<1> DEFINE Taken(h, n) == h[0] = s /\ \A k \in 1..n : h[k] = F[k][h[k - 1]]
           Q == {n \in 0..end : \E h \in [0..n -> S] : Taken(h, n)}
<1>1. 0 \in Q
  <2> DEFINE h == [k \in 0..0 |-> s]
  <2>1. h \in [0..0 -> S] /\ h[0] = s /\ 1..0 = {}
    OBVIOUS
  <2> HIDE DEF h
  <2> QED
    BY <2>1
<1>2. ASSUME NEW n \in 0..end - 1, n \in Q PROVE n + 1 \in Q
  <2>1. PICK g \in [0..n -> S] : Taken(g, n)
    BY <1>2
  <2>2. n \in Nat /\ n + 1 \in 1..end /\ n + 1 \in 0..end /\ n \in 0..n /\ n + 1 \notin 0..n
    OBVIOUS
  <2> DEFINE h == [k \in 0..n + 1 |-> IF k = n + 1 THEN F[n + 1][g[n]] ELSE g[k]]
  <2>3. F[n + 1] \in [S -> S] /\ g[n] \in S
    BY <2>2
  <2>4. h \in [0..n + 1 -> S]
    <3>1. \A k \in 0..n + 1 : k # n + 1 => k \in 0..n
      BY <2>2
    <3> QED
      BY <2>3, <3>1
  <2>5. h[n + 1] = F[n + 1][g[n]] /\ \A k \in 0..n : h[k] = g[k]
    BY <2>2
  <2> HIDE DEF h
  <2>6. ASSUME NEW k \in 1..n + 1 PROVE h[k] = F[k][h[k - 1]]
    <3>1. CASE k = n + 1
      <4>1. k - 1 = n
        BY <2>2, <3>1
      <4> QED
        BY <2>2, <2>5, <3>1, <4>1
    <3>2. CASE k # n + 1
      <4>1. k \in 1..n /\ k \in 0..n /\ k - 1 \in 0..n
        BY <2>2, <3>2
      <4> QED
        BY <2>1, <2>5, <4>1
    <3> QED
      BY <3>1, <3>2
  <2>7. h[0] = s
    BY <2>1, <2>2, <2>5
  <2> QED
    BY <2>2, <2>4, <2>6, <2>7
<1>3. \A n \in 0..end : n \in Q
  <2> HIDE DEF Q
  <2> QED
    BY <1>1, <1>2, CountingInduction
<1>4. end \in Q
  <2>1. end \in 0..end
    OBVIOUS
  <2> HIDE DEF Q
  <2> QED
    BY <1>3, <2>1
<1> QED
  BY <1>4

-----------------------------------------------------------------------------

(* A set of numbers has a least one.                                       *)
LEMMA LeastNumber ==
  ASSUME NEW E \in SUBSET Nat, NEW e \in E
  PROVE  \E n \in E : \A k \in E : n <= k
<1> SUFFICES ASSUME \A n \in E : \E k \in E : k < n
             PROVE  FALSE
  OBVIOUS
<1> DEFINE Q == {n \in 0..e : \A k \in 0..n : k \notin E}
<1>1. 0 \in Q
  <2>1. 0 \notin E
    <3> SUFFICES ASSUME 0 \in E PROVE FALSE
      OBVIOUS
    <3>1. PICK k \in E : k < 0
      OBVIOUS
    <3> QED
      BY <3>1
  <2> QED
    BY <2>1
<1>2. ASSUME NEW n \in 0..e - 1, n \in Q PROVE n + 1 \in Q
  <2>1. n \in Nat /\ n + 1 \in 0..e /\ \A k \in 0..n : k \notin E
    BY <1>2
  <2>2. n + 1 \notin E
    <3> SUFFICES ASSUME n + 1 \in E PROVE FALSE
      OBVIOUS
    <3>1. PICK k \in E : k < n + 1
      OBVIOUS
    <3>2. k \in 0..n
      BY <2>1, <3>1
    <3> QED
      BY <2>1, <3>2
  <2>3. \A k \in 0..n + 1 : k \in 0..n \/ k = n + 1
    BY <2>1
  <2> QED
    BY <2>1, <2>2, <2>3
<1>3. e \in 0..e /\ e \in Nat
  OBVIOUS
<1>4. \A n \in 0..e : n \in Q
  <2> HIDE DEF Q
  <2> QED
    BY <1>1, <1>2, <1>3, CountingInduction
<1>5. e \in Q
  BY <1>3, <1>4
<1> QED
  BY <1>3, <1>5

(* The function the recursion of MapThenFoldSet chooses: there is one, and *)
(* all agree.                                                              *)
Picked(T) == CHOOSE x \in T : TRUE
AllButPicked(T) == T \ {Picked(T)}
Added(f, g, T) == IF T = {} THEN 0 ELSE f[Picked(T)] + g[AllButPicked(T)]
Sums(f, g, S) == g = [T \in SUBSET S |-> Added(f, g, T)]
TheSums(f, S) == CHOOSE g : Sums(f, g, S)

LEMMA SumUnfolds == \A f, S : SumFunctionOnSet(f, S) = TheSums(f, S)[S]
BY DEF SumFunctionOnSet, FoldFunctionOnSet, MapThenFoldSet, TheSums, Sums, Added, AllButPicked, Picked

LEMMA RestIsLess ==
  ASSUME NEW T, T # {}
  PROVE  Picked(T) \in T /\ AllButPicked(T) \in SUBSET T /\ AllButPicked(T) # T
<1>1. Picked(T) \in T
  BY DEF Picked
<1> QED
  BY <1>1 DEF AllButPicked

LEMMA SumsAgree ==
  ASSUME NEW f, NEW S, NEW R, IsFiniteSet(R), R \subseteq S, NEW g, NEW h,
         Sums(f, g, S), Sums(f, h, R)
  PROVE  g[R] = h[R]
<1> DEFINE Q == {T \in SUBSET R : g[T] = h[T]}
<1>1. ASSUME NEW T \in SUBSET R, \A U \in SUBSET T : U # T => U \in Q
      PROVE  T \in Q
  <2>1. g[T] = Added(f, g, T) /\ h[T] = Added(f, h, T)
    BY DEF Sums
  <2>2. CASE T = {}
    BY <2>1, <2>2 DEF Added
  <2>3. CASE T # {}
    <3>1. AllButPicked(T) \in Q
      BY <1>1, <2>3, RestIsLess
    <3> QED
      BY <2>1, <2>3, <3>1 DEF Added
  <2> QED
    BY <2>2, <2>3
<1>2. Q \in SUBSET SUBSET R
  OBVIOUS
<1>3. Q = SUBSET R
  <2> HIDE DEF Q
  <2> QED
    BY <1>1, <1>2, SubsetInduction
<1> QED
  BY <1>3

LEMMA SumsExist ==
  ASSUME NEW f, NEW S, IsFiniteSet(S)
  PROVE  Sums(f, TheSums(f, S), S)
<1> DEFINE Q == {T \in SUBSET S : \E g : Sums(f, g, T)}
<1>1. ASSUME NEW T \in SUBSET S, \A U \in SUBSET T : U # T => U \in Q
      PROVE  T \in Q
  <2> DEFINE of(R) == TheSums(f, R)[R]
             g == [R \in SUBSET T |-> IF R = {} THEN 0 ELSE f[Picked(R)] + of(AllButPicked(R))]
  <2>1. ASSUME NEW R \in SUBSET T, R # T
        PROVE  Sums(f, TheSums(f, R), R)
    BY <1>1, <2>1 DEF TheSums
  <2>2. ASSUME NEW R \in SUBSET T, R # T
        PROVE  g[R] = of(R)
    <3>1. of(R) = Added(f, TheSums(f, R), R)
      BY <2>1, <2>2 DEF Sums
    <3>2. CASE R = {}
      BY <3>1, <3>2 DEF Added
    <3>3. CASE R # {}
      <4>1. AllButPicked(R) \in SUBSET R /\ AllButPicked(R) \in SUBSET T /\ AllButPicked(R) # T
        BY <2>2, <3>3, RestIsLess
      <4>2. Sums(f, TheSums(f, R), R) /\ Sums(f, TheSums(f, AllButPicked(R)), AllButPicked(R))
        BY <2>1, <2>2, <4>1
      <4>3. IsFiniteSet(AllButPicked(R))
        BY <4>1, FS_Subset
      <4>4. TheSums(f, R)[AllButPicked(R)] = of(AllButPicked(R))
        BY <4>1, <4>2, <4>3, SumsAgree
      <4> QED
        BY <3>1, <3>3, <4>4 DEF Added
    <3> QED
      BY <3>2, <3>3
  <2>3. ASSUME NEW R \in SUBSET T
        PROVE  g[R] = Added(f, g, R)
    <3>1. CASE R = {}
      BY <3>1 DEF Added
    <3>2. CASE R # {}
      <4>1. AllButPicked(R) \in SUBSET T /\ AllButPicked(R) # T
        BY <3>2, RestIsLess
      <4>2. g[AllButPicked(R)] = of(AllButPicked(R))
        BY <2>2, <4>1
      <4> QED
        BY <3>2, <4>2 DEF Added
    <3> QED
      BY <3>1, <3>2
  <2>4. DOMAIN g = SUBSET T /\ g = [R \in SUBSET T |-> g[R]]
    OBVIOUS
  <2> HIDE DEF g
  <2>5. Sums(f, g, T)
    BY <2>3, <2>4 DEF Sums
  <2> QED
    BY <2>5
<1>2. Q \in SUBSET SUBSET S
  OBVIOUS
<1>3. Q = SUBSET S
  <2> HIDE DEF Q
  <2> QED
    BY <1>1, <1>2, SubsetInduction
<1>4. \E g : Sums(f, g, S)
  BY <1>3
<1> QED
  BY <1>4 DEF TheSums
(* The recursion: the sum over a set takes one element away, whichever is  *)
(* picked; then whichever one likes.                                       *)
LEMMA SumRecurs ==
  ASSUME NEW f, NEW S, IsFiniteSet(S)
  PROVE  /\ SumFunctionOnSet(f, {}) = 0
         /\ S # {} => SumFunctionOnSet(f, S) = f[Picked(S)] + SumFunctionOnSet(f, AllButPicked(S))
<1>1. SumFunctionOnSet(f, {}) = 0
  <2>1. Sums(f, TheSums(f, {}), {}) /\ {} \in SUBSET {}
    BY FS_EmptySet, SumsExist
  <2>2. TheSums(f, {})[{}] = 0
    BY <2>1 DEF Sums, Added
  <2> QED
    BY <2>2, SumUnfolds
<1>2. ASSUME S # {}
      PROVE  SumFunctionOnSet(f, S) = f[Picked(S)] + SumFunctionOnSet(f, AllButPicked(S))
  <2>1. AllButPicked(S) \in SUBSET S /\ IsFiniteSet(AllButPicked(S))
    BY <1>2, RestIsLess, FS_Subset
  <2>2. Sums(f, TheSums(f, S), S) /\ Sums(f, TheSums(f, AllButPicked(S)), AllButPicked(S))
    BY <2>1, SumsExist
  <2>3. TheSums(f, S)[AllButPicked(S)] = TheSums(f, AllButPicked(S))[AllButPicked(S)]
    BY <2>1, <2>2, SumsAgree
  <2>4. TheSums(f, S)[S] = f[Picked(S)] + TheSums(f, S)[AllButPicked(S)]
    BY <1>2, <2>2 DEF Sums, Added
  <2> QED
    BY <2>3, <2>4, SumUnfolds
<1> QED
  BY <1>1, <1>2

LEMMA SumType ==
  ASSUME NEW S, IsFiniteSet(S), NEW f, \A x \in S : f[x] \in Int
  PROVE  SumFunctionOnSet(f, S) \in Int
<1> DEFINE Q == {T \in SUBSET S : SumFunctionOnSet(f, T) \in Int}
<1>1. ASSUME NEW T \in SUBSET S, \A U \in SUBSET T : U # T => U \in Q
      PROVE  T \in Q
  <2>1. IsFiniteSet(T)
    BY FS_Subset
  <2>2. CASE T = {}
    BY <2>1, <2>2, SumRecurs
  <2>3. CASE T # {}
    <3>1. AllButPicked(T) \in Q /\ Picked(T) \in S
      BY <1>1, <2>3, RestIsLess
    <3>2. SumFunctionOnSet(f, T) = f[Picked(T)] + SumFunctionOnSet(f, AllButPicked(T))
      BY <2>1, <2>3, SumRecurs
    <3> QED
      BY <3>1, <3>2
  <2> QED
    BY <2>2, <2>3
<1>2. Q = SUBSET S
  <2>1. Q \in SUBSET SUBSET S
    OBVIOUS
  <2> HIDE DEF Q
  <2> QED
    BY <1>1, <2>1, SubsetInduction
<1> QED
  BY <1>2

LEMMA SumTakesOut ==
  ASSUME NEW S, IsFiniteSet(S), NEW f, \A x \in S : f[x] \in Int, NEW z \in S
  PROVE  SumFunctionOnSet(f, S) = f[z] + SumFunctionOnSet(f, S \ {z})
<1> DEFINE sum(T) == SumFunctionOnSet(f, T)
           Q == {T \in SUBSET S : \A x \in T : sum(T) = f[x] + sum(T \ {x})}
<1>1. \A T \in SUBSET S : IsFiniteSet(T) /\ sum(T) \in Int
  <2>1. ASSUME NEW T \in SUBSET S PROVE IsFiniteSet(T) /\ sum(T) \in Int
    <3>1. IsFiniteSet(T)
      BY FS_Subset
    <3> QED
      BY <3>1, SumType
  <2> QED
    BY <2>1
<1>2. \A T \in SUBSET S : T # {} => sum(T) = f[Picked(T)] + sum(AllButPicked(T))
  BY <1>1, SumRecurs
<1> HIDE DEF sum
<1>3. ASSUME NEW T \in SUBSET S, \A U \in SUBSET T : U # T => U \in Q
      PROVE  T \in Q
  <2>1. ASSUME NEW x \in T PROVE sum(T) = f[x] + sum(T \ {x})
    <3> DEFINE p == Picked(T)
    <3>1. p \in T /\ AllButPicked(T) = T \ {p} /\ sum(T) = f[p] + sum(T \ {p})
      BY <1>2, <2>1, RestIsLess DEF AllButPicked
    <3> HIDE DEF p
    <3>2. CASE x = p
      BY <3>1, <3>2
    <3>3. CASE x # p
      <4> DEFINE U == (T \ {p}) \ {x}
      <4>1. /\ T \ {p} \in Q /\ x \in T \ {p}
            /\ T \ {x} \in Q /\ p \in T \ {x} /\ (T \ {x}) \ {p} = U
        BY <1>3, <3>1, <3>3
      <4>2. sum(T \ {p}) = f[x] + sum(U) /\ sum(T \ {x}) = f[p] + sum(U)
        BY <4>1
      <4>3. f[x] \in Int /\ f[p] \in Int /\ sum(U) \in Int
        BY <1>1, <3>1
      <4> HIDE DEF U
      <4> QED
        BY <3>1, <4>2, <4>3
    <3> QED
      BY <3>2, <3>3
  <2> QED
    BY <2>1
<1>4. Q = SUBSET S
  <2>1. Q \in SUBSET SUBSET S
    OBVIOUS
  <2> HIDE DEF Q
  <2> QED
    BY <1>3, <2>1, SubsetInduction
<1>5. sum(S) = f[z] + sum(S \ {z})
  BY <1>4
<1> QED
  BY <1>5 DEF sum

-----------------------------------------------------------------------------
(* Sums of functions that are related pointwise. *)
LEMMA SumPlus ==
  ASSUME NEW S, IsFiniteSet(S), NEW f, NEW g, NEW h,
         \A x \in S : f[x] \in Int /\ g[x] \in Int /\ h[x] = f[x] + g[x]
  PROVE  SumFunctionOnSet(h, S) = SumFunctionOnSet(f, S) + SumFunctionOnSet(g, S)
<1> DEFINE sum(e, T) == SumFunctionOnSet(e, T)
           Q == {T \in SUBSET S : sum(h, T) = sum(f, T) + sum(g, T)}
<1>1. ASSUME NEW T \in SUBSET S
      PROVE  IsFiniteSet(T) /\ sum(f, T) \in Int /\ sum(g, T) \in Int /\ sum(h, T) \in Int
  <2>1. IsFiniteSet(T)
    BY FS_Subset
  <2>2. \A x \in T : f[x] \in Int /\ g[x] \in Int /\ h[x] \in Int
    OBVIOUS
  <2> QED
    BY <2>1, <2>2, SumType
<1>2. ASSUME NEW T \in SUBSET S, NEW x \in S \ T
      PROVE  /\ sum(f, T \cup {x}) = f[x] + sum(f, T)
             /\ sum(g, T \cup {x}) = g[x] + sum(g, T)
             /\ sum(h, T \cup {x}) = h[x] + sum(h, T)
  <2>1. T \cup {x} \in SUBSET S /\ (T \cup {x}) \ {x} = T /\ x \in T \cup {x}
    OBVIOUS
  <2>2. \A y \in T \cup {x} : f[y] \in Int /\ g[y] \in Int /\ h[y] \in Int
    OBVIOUS
  <2>3. IsFiniteSet(T \cup {x})
    BY <1>1, <2>1
  <2> QED
    BY <2>1, <2>2, <2>3, SumTakesOut
<1>3. sum(f, {}) = 0 /\ sum(g, {}) = 0 /\ sum(h, {}) = 0
  BY SumRecurs
<1> HIDE DEF sum
<1>4. Q \in SUBSET SUBSET S /\ {} \in Q
  BY <1>3
<1>5. \A T \in Q : \A x \in S \ T : T \cup {x} \in Q
  <2>1. ASSUME NEW T \in Q, NEW x \in S \ T PROVE T \cup {x} \in Q
    <3>1. /\ sum(f, T) \in Int /\ sum(g, T) \in Int /\ f[x] \in Int /\ g[x] \in Int
          /\ sum(h, T) = sum(f, T) + sum(g, T) /\ h[x] = f[x] + g[x]
      BY <1>1
    <3>2. sum(h, T \cup {x}) = sum(f, T \cup {x}) + sum(g, T \cup {x})
      BY <1>2, <3>1
    <3> QED
      BY <3>2
  <2> QED
    BY <2>1
<1> HIDE DEF Q
<1>6. Q = SUBSET S
  BY <1>4, <1>5, ElementInduction
<1>7. sum(h, S) = sum(f, S) + sum(g, S)
  BY <1>6 DEF Q
<1> QED
  BY <1>7 DEF sum
LEMMA SumOfZeros ==
  ASSUME NEW S, IsFiniteSet(S), NEW z, \A x \in S : z[x] = 0
  PROVE  SumFunctionOnSet(z, S) = 0
<1>1. SumFunctionOnSet(z, S) = SumFunctionOnSet(z, S) + SumFunctionOnSet(z, S)
  BY SumPlus
<1>2. PICK n \in Int : n = SumFunctionOnSet(z, S)
  BY SumType
<1>3. n = n + n
  BY <1>1, <1>2
<1>4. n = 0
  BY <1>3
<1> QED
  BY <1>2, <1>4

LEMMA SumSame ==
  ASSUME NEW S, IsFiniteSet(S), NEW f, NEW h, \A x \in S : f[x] \in Int /\ h[x] = f[x]
  PROVE  SumFunctionOnSet(h, S) = SumFunctionOnSet(f, S)
<1> DEFINE z == [x \in S |-> 0]
<1>1. \A x \in S : f[x] \in Int /\ z[x] \in Int /\ h[x] = f[x] + z[x]
  OBVIOUS
<1>2. SumFunctionOnSet(z, S) = 0
  BY SumOfZeros
<1>3. SumFunctionOnSet(f, S) \in Int
  BY SumType
<1> HIDE DEF z
<1>4. SumFunctionOnSet(h, S) = SumFunctionOnSet(f, S) + SumFunctionOnSet(z, S)
  BY <1>1, SumPlus
<1> QED
  BY <1>2, <1>3, <1>4

(* One value changes: so does the sum, by as much. *)
LEMMA SumOne ==
  ASSUME NEW S, IsFiniteSet(S), NEW f, NEW h, NEW o \in S, NEW k \in Int,
         \A x \in S : f[x] \in Int /\ h[x] = IF x = o THEN f[x] + k ELSE f[x]
  PROVE  SumFunctionOnSet(h, S) = SumFunctionOnSet(f, S) + k
<1> DEFINE T == S \ {o}
<1>1. IsFiniteSet(T) /\ \A x \in T : f[x] \in Int /\ h[x] = f[x]
  BY FS_Subset
<1>2. \A x \in S : h[x] \in Int
  OBVIOUS
<1>3. SumFunctionOnSet(h, T) = SumFunctionOnSet(f, T)
  <2> HIDE DEF T
  <2> QED
    BY <1>1, SumSame
<1>4. SumFunctionOnSet(f, T) \in Int
  <2> HIDE DEF T
  <2> QED
    BY <1>1, SumType
<1>5. /\ SumFunctionOnSet(f, S) = f[o] + SumFunctionOnSet(f, T)
      /\ SumFunctionOnSet(h, S) = h[o] + SumFunctionOnSet(h, T)
  BY <1>2, SumTakesOut
<1> HIDE DEF T
<1>6. f[o] \in Int /\ h[o] = f[o] + k
  OBVIOUS
<1> QED
  BY <1>3, <1>4, <1>5, <1>6

(* Shares of a finite set: each element counts c, at the place it belongs  *)
(* to.                                                                     *)
Shares(D, own, c, S) == [o \in S |-> c * Cardinality({p \in D : own[p] = o})]

LEMMA SumOfShares ==
  ASSUME NEW S, IsFiniteSet(S), NEW D, IsFiniteSet(D), NEW own, NEW c \in Int,
         \A p \in D : own[p] \in S
  PROVE  SumFunctionOnSet(Shares(D, own, c, S), S) = c * Cardinality(D)
<1> DEFINE part(R, o) == {p \in R : own[p] = o}
           size(R, o) == Cardinality(part(R, o))
           share(R) == [o \in S |-> c * size(R, o)]
           Q == {R \in SUBSET D : SumFunctionOnSet(share(R), S) = c * Cardinality(R)}
<1>1. \A R \in SUBSET D : IsFiniteSet(R) /\ Cardinality(R) \in Nat
  BY FS_Subset, FS_CardinalityType
<1>2. \A R \in SUBSET D : \A o : size(R, o) \in Int
  <2>1. \A R \in SUBSET D : \A o : part(R, o) \in SUBSET D
    OBVIOUS
  <2> HIDE DEF part
  <2> QED
    BY <1>1, <2>1
<1>3. {} \in Q
  <2>1. \A o : part({}, o) = {}
    OBVIOUS
  <2>2. Cardinality({}) = 0 /\ c * 0 = 0
    BY FS_EmptySet
  <2>3. \A o \in S : share({})[o] = 0
    BY <2>1, <2>2
  <2>4. SumFunctionOnSet(share({}), S) = 0
    <3> HIDE DEF share
    <3> QED
      BY <2>3, SumOfZeros
  <2> QED
    BY <2>2, <2>4
<1>4. ASSUME NEW R \in Q, NEW x \in D \ R PROVE R \cup {x} \in Q
  <2> DEFINE U == R \cup {x}
             z == own[x]
  <2>1. R \in SUBSET D /\ U \in SUBSET D /\ z \in S
    OBVIOUS
  <2>2. Cardinality(U) = Cardinality(R) + 1
    BY <1>1, <1>4, FS_AddElement
  <2>3. ASSUME NEW o \in S, o # z PROVE part(U, o) = part(R, o)
    BY <2>3
  <2>4. size(U, z) = size(R, z) + 1
    <3>1. part(U, z) = part(R, z) \cup {x} /\ x \notin part(R, z) /\ part(R, z) \in SUBSET D
      OBVIOUS
    <3> HIDE DEF part, U, z
    <3> QED
      BY <1>1, <3>1, FS_AddElement
  <2> HIDE DEF part, U, z
  <2>5. \A n \in Int : c * n \in Int /\ c * (n + 1) = c * n + c
    OBVIOUS
  <2>6. ASSUME NEW o \in S
        PROVE  share(R)[o] \in Int /\ share(U)[o] = IF o = z THEN share(R)[o] + c ELSE share(R)[o]
    <3>1. size(R, o) \in Int
      BY <1>2, <2>1
    <3>2. size(U, o) = IF o = z THEN size(R, o) + 1 ELSE size(R, o)
      BY <2>3, <2>4
    <3> HIDE DEF size
    <3> QED
      BY <2>5, <3>1, <3>2
  <2> HIDE DEF share
  <2>7. SumFunctionOnSet(share(U), S) = SumFunctionOnSet(share(R), S) + c
    BY <2>1, <2>6, SumOne
  <2>8. SumFunctionOnSet(share(R), S) = c * Cardinality(R) /\ Cardinality(R) \in Int
    BY <1>1
  <2>9. SumFunctionOnSet(share(U), S) = c * Cardinality(U)
    BY <2>2, <2>5, <2>7, <2>8
  <2>10. U \in Q
    BY <2>1, <2>9
  <2> QED
    BY <2>10 DEF U
<1>5. Q \in SUBSET SUBSET D
  OBVIOUS
<1>6. Q = SUBSET D
  <2> HIDE DEF Q
  <2> QED
    BY <1>3, <1>4, <1>5, ElementInduction
<1>7. SumFunctionOnSet(share(D), S) = c * Cardinality(D)
  BY <1>6
<1>8. share(D) = Shares(D, own, c, S)
  BY DEF Shares
<1> HIDE DEF share
<1> QED
  BY <1>7, <1>8
=============================================================================
