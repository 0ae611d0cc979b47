--------------------------- MODULE MovementProofs ---------------------------
(***************************************************************************)
(* Theorems about moving: whatever attributes do in the middle of it, the  *)
(* lists of contents and of exits agree with where things say they are,    *)
(* for any objects, homes, droptos and depth of attributes.  Lists are     *)
(* described without walking them (Threaded), and walks are shown to meet  *)
(* what that says.                                                         *)
(***************************************************************************)
EXTENDS Movement, OperatorLemmas

(* From head, next leads through all of S, once, and to NOTHING.           *)
Climbs(next, S, rank) ==
  rank \in [S -> Nat] /\ \A x \in S : next[x] \in S => rank[x] < rank[next[x]]

Threaded(next, head, S) ==
  /\ S \subseteq Obj
  /\ head \in S \cup {NOTHING}
  /\ head = NOTHING => S = {}
  /\ \A x \in S : next[x] \in S \cup {NOTHING} /\ next[x] # head
  /\ \A x, y \in S : next[x] = next[y] /\ next[x] # NOTHING => x = y
  /\ \A y \in S : y # head => \E x \in S : next[x] = y
  /\ \E rank : Climbs(next, S, rank)

Inside(d, place) == {x \in Obj : Has_location(d, x) /\ d.location[x] = place}
Leading(d, place) == {x \in Obj : d.type[x] = "exit" /\ d.exits[x] = place}

(* Players and things are in places and at home in places, droptos and the *)
(* sources of exits are places.                                            *)
Somewhere(d, x) == x = NOTHING \/ IsPlace(d, x)

References(d) ==
  \A x \in Obj :
    /\ Has_location(d, x) => IsPlace(d, d.location[x]) /\ Somewhere(d, d.link[x])
    /\ d.type[x] = "room" => Somewhere(d, d.location[x])
    /\ d.type[x] = "exit" => IsPlace(d, d.exits[x])

ContentsInOrder(d) == \A place \in Obj : IsPlace(d, place) => ContentsAgree(d, place)
ExitsInOrder(d) == \A place \in Obj : IsPlace(d, place) => ExitsAgree(d, place)

Settled(d) == References(d) /\ ContentsInOrder(d)

(* What frames hold.  Member is what a loop over contents goes on with.    *)
Member(d, x) == x = NOTHING \/ (x \in Obj /\ Has_location(d, x))

Fits(d, f) ==
  \/ f.op \in {"leaving", "moving"} /\ f.x \in Obj /\ Has_location(d, f.x) /\ IsPlace(d, f.y)
  \/ f.op = "arrived"
  \/ f.op \in {"divest", "dropped"} /\ f.x \in Obj /\ Has_location(d, f.x)
  \/ f.op \in {"keys", "sweep"} /\ Member(d, f.y)
  \/ f.op = "sticky" /\ IsPlace(d, f.x)

-----------------------------------------------------------------------------
(***************************************************************************)
(* Walks: what the recursion of Walk computes.                             *)
(***************************************************************************)
LEMMA ObjFacts ==
  /\ IsFiniteSet(Obj) /\ Cardinality(Obj) \in Nat /\ Cardinality(Obj) # 0
  /\ Obj \subseteq Dbref /\ NOTHING \in Dbref /\ NOTHING \notin Obj
<1>1. IsFiniteSet(Obj) /\ Obj # {} /\ NOTHING \notin Obj
  BY ObjAssumption
<1> QED
  BY <1>1, FS_CardinalityType, FS_EmptySet DEF Dbref

WalkedFrom(next, before, left, x) ==
  IF x = NOTHING \/ left = 0 THEN <<>>
  ELSE <<x>> \o IF next[x] = x THEN <<>> ELSE before[next[x]]
WalkedBy(next, g, left) == [x \in Dbref |-> WalkedFrom(next, g[left - 1], left, x)]
WalksAll(next, g) == g = [left \in 0..Cardinality(Obj) |-> WalkedBy(next, g, left)]
Walking(next) == CHOOSE g : WalksAll(next, g)

LEMMA WalkUnfolds == \A next, head : Walk(next, head) = Walking(next)[Cardinality(Obj)][head]
BY DEF Walk, Walking, WalksAll, WalkedBy, WalkedFrom

(* A walk of at most n objects from x.                                     *)
WalkIs(next, n, x, s) ==
  /\ s \in Seq(Obj) /\ Len(s) <= n
  /\ x = NOTHING => s = <<>>
  /\ x # NOTHING /\ n > 0 => Len(s) > 0
  /\ Len(s) > 0 => s[1] = x
  /\ \A i \in 1..Len(s) - 1 : s[i + 1] = next[s[i]]
  /\ Len(s) > 0 => next[s[Len(s)]] \in {NOTHING, s[Len(s)]} \/ Len(s) = n

(* Walks from everywhere.                                                  *)
Walks == [Dbref -> Seq(Obj)]

LEMMA WalkingExists ==
  ASSUME NEW next \in [Obj -> Dbref]
  PROVE  \A n \in 0..Cardinality(Obj) : Walking(next)[n] = WalkedBy(next, Walking(next), n)
<1> DEFINE N == Cardinality(Obj)
           Stepped(t, n) == [x \in Dbref |-> WalkedFrom(next, t, n, x)]
           F == [n \in 1..N |-> [t \in Walks |-> Stepped(t, n)]]
           start == [x \in Dbref |-> <<>>]
<1>1. N \in Nat
  BY ObjFacts
<1>2. ASSUME NEW n \in 1..N, NEW t \in Walks PROVE Stepped(t, n) \in Walks
  <2>1. ASSUME NEW x \in Dbref PROVE WalkedFrom(next, t, n, x) \in Seq(Obj)
    <3>1. CASE x = NOTHING
      BY <3>1 DEF WalkedFrom
    <3>2. CASE x # NOTHING
      <4>1. x \in Obj /\ next[x] \in Dbref
        BY <3>2 DEF Dbref
      <4>2. t[next[x]] \in Seq(Obj) /\ <<x>> \in Seq(Obj)
        BY <4>1 DEF Walks
      <4>3. <<x>> \o t[next[x]] \in Seq(Obj) /\ <<x>> \o <<>> \in Seq(Obj)
        BY <4>2
      <4> QED
        BY <4>3 DEF WalkedFrom
    <3> QED
      BY <3>1, <3>2
  <2> QED
    BY <2>1 DEF Walks
<1>3. F \in [1..N -> [Walks -> Walks]]
  BY <1>2
<1>4. \A n \in 1..N : \A t \in Walks : F[n][t] = Stepped(t, n)
  OBVIOUS
<1> HIDE DEF F, N, start
<1>5. PICK h \in [0..N -> Walks] : h[0] = start /\ \A n \in 1..N : h[n] = F[n][h[n - 1]]
  <2>1. start \in Walks /\ N \in Nat
    <3>1. <<>> \in Seq(Obj)
      OBVIOUS
    <3> QED
      BY <1>1, <3>1 DEF start, Walks
  <2> QED
    BY <1>3, <2>1, StepsExist
<1>6. ASSUME NEW n \in 0..N PROVE h[n] = WalkedBy(next, h, n)
  <2>1. CASE n = 0
    <3>1. WalkedBy(next, h, 0) = start
      BY DEF WalkedBy, WalkedFrom, start
    <3> QED
      BY <1>5, <2>1, <3>1
  <2>2. CASE n # 0
    <3>1. n \in 1..N /\ n - 1 \in 0..N
      BY <1>1, <2>2
    <3>2. h[n] = Stepped(h[n - 1], n)
      BY <1>4, <1>5, <3>1
    <3> QED
      BY <3>2 DEF WalkedBy
  <2> QED
    BY <2>1, <2>2
<1>7. h = [n \in 0..N |-> WalkedBy(next, h, n)]
  BY <1>5, <1>6
<1>8. WalksAll(next, Walking(next))
  BY <1>7 DEF Walking, WalksAll, N
<1> DEFINE g == Walking(next)
<1>9. g = [n \in 0..N |-> WalkedBy(next, g, n)]
  BY <1>8 DEF WalksAll, N
<1> HIDE DEF g
<1>10. \A n \in 0..N : g[n] = WalkedBy(next, g, n)
  BY <1>9
<1> QED
  BY <1>10 DEF g, N

LEMMA WalkOn ==
  ASSUME NEW next \in [Obj -> Dbref], NEW n \in Nat, n > 0, NEW x \in Obj,
         NEW t, WalkIs(next, n - 1, next[x], t)
  PROVE  WalkIs(next, n, x, <<x>> \o IF next[x] = x THEN <<>> ELSE t)
<1>1. t \in Seq(Obj) /\ Len(t) \in Nat /\ x # NOTHING /\ next[x] \in Dbref
  BY ObjFacts DEF WalkIs
<1>2. CASE next[x] = x
  <2> DEFINE s == <<x>> \o <<>>
  <2>1. s \in Seq(Obj) /\ Len(s) = 1 /\ s[1] = x
    OBVIOUS
  <2> HIDE DEF s
  <2>2. WalkIs(next, n, x, s)
    BY <1>1, <1>2, <2>1 DEF WalkIs
  <2> QED
    BY <1>2, <2>2 DEF s
<1>3. CASE next[x] # x
  <2> DEFINE s == <<x>> \o t
             m == Len(t)
  <2>1. s \in Seq(Obj) /\ Len(s) = m + 1 /\ s[1] = x /\ m \in Nat
    BY <1>1
  <2>2. \A i \in 1..m : s[i + 1] = t[i]
    BY <1>1
  <2>3. m <= n - 1 /\ (next[x] = NOTHING => m = 0) /\ (m > 0 => t[1] = next[x])
        /\ (next[x] # NOTHING /\ n - 1 > 0 => m > 0)
    BY <1>1 DEF WalkIs
  <2>4. \A i \in 1..m - 1 : t[i + 1] = next[t[i]]
    BY DEF WalkIs
  <2>5. m > 0 => next[t[m]] \in {NOTHING, t[m]} \/ m = n - 1
    BY DEF WalkIs
  <2> HIDE DEF s, m
  <2>6. ASSUME NEW i \in 1..Len(s) - 1 PROVE s[i + 1] = next[s[i]]
    <3>1. CASE i = 1
      <4>1. 1 \in 1..m /\ m > 0
        BY <2>1, <2>6
      <4> QED
        BY <2>1, <2>2, <2>3, <3>1, <4>1
    <3>2. CASE i # 1
      <4>1. i - 1 \in 1..m /\ i - 1 \in 1..m - 1 /\ i \in 1..m /\ (i - 1) + 1 = i
        BY <2>1, <2>6, <3>2
      <4>2. s[i] = t[i - 1] /\ s[i + 1] = t[i] /\ t[i] = next[t[i - 1]]
        BY <2>2, <2>4, <4>1
      <4> QED
        BY <4>2
    <3> QED
      BY <3>1, <3>2
  <2>7. next[s[Len(s)]] \in {NOTHING, s[Len(s)]} \/ Len(s) = n
    <3>1. CASE m = 0
      BY <2>1, <2>3, <3>1
    <3>2. CASE m > 0
      <4>1. m \in 1..m
        BY <2>1, <3>2
      <4>2. s[Len(s)] = t[m]
        BY <2>1, <2>2, <4>1
      <4> QED
        BY <2>1, <2>5, <3>2, <4>2
    <3> QED
      BY <2>1, <3>1, <3>2
  <2>8. WalkIs(next, n, x, s)
    BY <1>1, <2>1, <2>3, <2>6, <2>7 DEF WalkIs
  <2> QED
    BY <1>3, <2>8 DEF s
<1> QED
  BY <1>2, <1>3

LEMMA WalkSteps ==
  ASSUME NEW next \in [Obj -> Dbref], NEW head \in Dbref
  PROVE  WalkIs(next, Cardinality(Obj), head, Walk(next, head))
<1> DEFINE N == Cardinality(Obj)
           g == Walking(next)
           Q == {n \in 0..N : \A x \in Dbref : WalkIs(next, n, x, g[n][x])}
<1>1. N \in Nat
  BY ObjFacts
<1>2. \A n \in 0..N : g[n] = WalkedBy(next, g, n)
  BY WalkingExists
<1>3. Walk(next, head) = g[N][head]
  BY WalkUnfolds
<1> HIDE DEF g, N
<1>4. \A n \in 0..N : \A x \in Dbref : g[n][x] = WalkedFrom(next, g[n - 1], n, x)
  BY <1>2 DEF WalkedBy
<1>5. 0 \in Q
  <2>1. ASSUME NEW x \in Dbref PROVE WalkIs(next, 0, x, g[0][x])
    <3>1. 0 \in 0..N /\ g[0][x] = <<>>
      <4>1. 0 \in 0..N
        BY <1>1
      <4> QED
        BY <1>4, <4>1 DEF WalkedFrom
    <3>2. Len(<<>>) = 0 /\ <<>> \in Seq(Obj)
      OBVIOUS
    <3> QED
      BY <3>1, <3>2 DEF WalkIs
  <2> QED
    BY <1>1, <2>1
<1>6. ASSUME NEW n \in 0..N - 1, n \in Q PROVE n + 1 \in Q
  <2>1. n \in Nat /\ n + 1 \in 0..N /\ n + 1 > 0 /\ (n + 1) - 1 = n
    BY <1>1
  <2>2. ASSUME NEW x \in Dbref PROVE WalkIs(next, n + 1, x, g[n + 1][x])
    <3>1. g[n + 1][x] = WalkedFrom(next, g[n], n + 1, x)
      BY <1>4, <2>1
    <3>2. CASE x = NOTHING
      <4>1. g[n + 1][x] = <<>>
        BY <3>1, <3>2 DEF WalkedFrom
      <4>2. Len(<<>>) = 0 /\ <<>> \in Seq(Obj)
        OBVIOUS
      <4> QED
        BY <2>1, <3>2, <4>1, <4>2 DEF WalkIs
    <3>3. CASE x # NOTHING
      <4>1. x \in Obj /\ next[x] \in Dbref
        BY <3>3 DEF Dbref
      <4>2. WalkIs(next, n, next[x], g[n][next[x]])
        BY <1>6, <4>1
      <4>3. g[n + 1][x] = <<x>> \o IF next[x] = x THEN <<>> ELSE g[n][next[x]]
        BY <2>1, <3>1, <3>3 DEF WalkedFrom
      <4>4. WalkIs(next, (n + 1) - 1, next[x], g[n][next[x]])
        BY <2>1, <4>2
      <4> QED
        BY <2>1, <4>1, <4>3, <4>4, WalkOn
    <3> QED
      BY <3>2, <3>3
  <2> QED
    BY <2>1, <2>2
<1>7. N \in Q
  <2>1. N \in 0..N
    BY <1>1
  <2>2. \A n \in 0..N : n \in Q
    <3> HIDE DEF Q
    <3> QED
      BY <1>1, <1>5, <1>6, CountingInduction
  <2> QED
    BY <2>1, <2>2
<1> QED
  BY <1>3, <1>7 DEF N

-----------------------------------------------------------------------------
(***************************************************************************)
(* Lists that are threaded, and their walks.                               *)
(***************************************************************************)
(* Ranks rise along a walk, so nothing is met twice.                       *)
LEMMA RisesOnce ==
  ASSUME NEW m \in Nat, NEW r \in [1..m -> Nat], \A i \in 1..m - 1 : r[i] < r[i + 1]
  PROVE  \A j \in 1..m : \A i \in 1..j - 1 : r[i] < r[j]
<1> DEFINE Q == {n \in 0..m : \A j \in 1..n : \A i \in 1..j - 1 : r[i] < r[j]}
<1>1. 0 \in Q
  OBVIOUS
<1>2. ASSUME NEW n \in 0..m - 1, n \in Q PROVE n + 1 \in Q
  <2>1. n \in Nat /\ n + 1 \in 0..m
    OBVIOUS
  <2>2. ASSUME NEW j \in 1..n + 1, NEW i \in 1..j - 1 PROVE r[i] < r[j]
    <3>1. CASE j # n + 1
      BY <1>2, <2>1, <3>1
    <3>2. CASE j = n + 1
      <4>1. i \in 1..n /\ n \in 1..n /\ n \in 1..m - 1 /\ i \in 1..m /\ n + 1 \in 1..m
        BY <2>1, <3>2
      <4>2. r[i] \in Nat /\ r[n] \in Nat /\ r[n + 1] \in Nat /\ r[n] < r[n + 1]
        BY <4>1
      <4>3. i = n \/ i \in 1..n - 1
        BY <4>1
      <4>4. r[i] <= r[n]
        BY <1>2, <4>1, <4>2, <4>3
      <4> QED
        BY <3>2, <4>2, <4>4
    <3> QED
      BY <3>1, <3>2
  <2> QED
    BY <2>1, <2>2
<1>3. m \in Q
  <2>1. m \in 0..m
    OBVIOUS
  <2> HIDE DEF Q
  <2> QED
    BY <1>1, <1>2, <2>1, CountingInduction
<1> QED
  BY <1>3

(* A walk along a threaded list meets all of it, each once, and ends.      *)
LEMMA ThreadedWalk ==
  ASSUME NEW next \in [Obj -> Dbref], NEW head, NEW S, Threaded(next, head, S)
  PROVE  /\ Walk(next, head) \in Seq(Obj)
         /\ Range(Walk(next, head)) = S
         /\ IsInjective(Walk(next, head))
         /\ \A i \in 1..Len(Walk(next, head)) - 1 :
              next[Walk(next, head)[i]] = Walk(next, head)[i + 1]
         /\ Walk(next, head) # <<>> =>
              /\ Walk(next, head)[1] = head
              /\ next[Walk(next, head)[Len(Walk(next, head))]] = NOTHING
         /\ Walk(next, head) = <<>> <=> head = NOTHING
<1> DEFINE N == Cardinality(Obj)
           s == Walk(next, head)
           m == Len(s)
<1>1. S \subseteq Obj /\ head \in S \cup {NOTHING} /\ head \in Dbref
  BY ObjFacts DEF Threaded
<1>2. PICK rank \in [S -> Nat] : \A x \in S : next[x] \in S => rank[x] < rank[next[x]]
  BY DEF Threaded, Climbs
<1>3. WalkIs(next, N, head, s)
  BY <1>1, WalkSteps
<1> HIDE DEF s
<1>4. /\ s \in Seq(Obj) /\ m \in Nat /\ m <= N /\ N \in Nat
      /\ head = NOTHING => m = 0
      /\ head # NOTHING => m > 0
      /\ m > 0 => s[1] = head
      /\ \A i \in 1..m - 1 : s[i + 1] = next[s[i]]
      /\ m > 0 => next[s[m]] \in {NOTHING, s[m]} \/ m = N
  <2>1. N \in Nat /\ N > 0
    BY ObjFacts
  <2>2. s \in Seq(Obj)
    BY <1>3 DEF WalkIs
  <2>3. head = NOTHING => m = 0
    BY <1>3 DEF WalkIs
  <2> QED
    BY <1>3, <2>1, <2>2, <2>3 DEF WalkIs
<1>5. \A i \in 1..m : s[i] \in Obj
  BY <1>4
<1>6. \A i \in 1..m : s[i] \in S
  <2> DEFINE Q == {n \in 0..m : n > 0 => s[n] \in S}
  <2>1. 0 \in Q
    BY <1>4
  <2>2. ASSUME NEW n \in 0..m - 1, n \in Q PROVE n + 1 \in Q
    <3>1. n \in Nat /\ n + 1 \in 0..m /\ n + 1 \in 1..m
      BY <1>4
    <3>2. CASE n = 0
      <4>1. s[n + 1] = head /\ head # NOTHING
        BY <1>4, <3>1, <3>2
      <4> QED
        BY <1>1, <3>1, <4>1
    <3>3. CASE n # 0
      <4>1. n \in 1..m - 1 /\ s[n] \in S
        BY <2>2, <3>1, <3>3
      <4>2. s[n + 1] = next[s[n]] /\ next[s[n]] \in S \cup {NOTHING}
        BY <1>4, <4>1 DEF Threaded
      <4>3. s[n + 1] \in Obj
        BY <1>5, <3>1
      <4> QED
        BY <3>1, <4>2, <4>3, ObjFacts
    <3> QED
      BY <3>2, <3>3
  <2>3. \A n \in 0..m : n \in Q
    <3> HIDE DEF Q
    <3> QED
      BY <1>4, <2>1, <2>2, CountingInduction
  <2> QED
    BY <1>4, <2>3
<1> DEFINE r == [i \in 1..m |-> rank[s[i]]]
<1>7. r \in [1..m -> Nat] /\ \A i \in 1..m - 1 : r[i] < r[i + 1]
  <2>1. r \in [1..m -> Nat]
    BY <1>2, <1>6
  <2>2. ASSUME NEW i \in 1..m - 1 PROVE r[i] < r[i + 1]
    <3>1. i \in 1..m /\ i + 1 \in 1..m
      BY <1>4
    <3>2. next[s[i]] = s[i + 1] /\ s[i] \in S /\ s[i + 1] \in S
      BY <1>4, <1>6, <3>1
    <3> QED
      BY <1>2, <3>1, <3>2
  <2> QED
    BY <2>1, <2>2
<1>8. \A j \in 1..m : \A i \in 1..j - 1 : rank[s[i]] < rank[s[j]]
  <2>1. \A j \in 1..m : \A i \in 1..j - 1 : r[i] < r[j]
    <3> HIDE DEF r
    <3> QED
      BY <1>4, <1>7, RisesOnce
  <2>2. \A j \in 1..m : \A i \in 1..j - 1 : i \in 1..m
    BY <1>4
  <2> QED
    BY <2>1, <2>2
<1>9. IsInjective(s)
  <2>1. ASSUME NEW i \in 1..m, NEW j \in 1..m, s[i] = s[j], i # j PROVE FALSE
    <3>1. rank[s[i]] \in Nat
      BY <1>2, <1>6
    <3>2. i \in 1..j - 1 \/ j \in 1..i - 1
      BY <2>1
    <3>3. rank[s[i]] < rank[s[j]] \/ rank[s[j]] < rank[s[i]]
      BY <1>8, <3>2
    <3> QED
      BY <2>1, <3>1, <3>3
  <2>2. DOMAIN s = 1..m
    BY <1>4
  <2> QED
    BY <2>1, <2>2 DEF IsInjective
<1>10. Range(s) \subseteq S
  BY <1>4, <1>6 DEF Range
<1>11. ASSUME m > 0 PROVE next[s[m]] = NOTHING
  <2>1. m \in 1..m /\ s[m] \in S
    BY <1>4, <1>6, <1>11
  <2>2. SUFFICES ASSUME next[s[m]] \in S PROVE FALSE
    BY <2>1 DEF Threaded
  <2>3. rank[s[m]] < rank[next[s[m]]] /\ rank[s[m]] \in Nat /\ rank[next[s[m]]] \in Nat
    BY <1>2, <2>1, <2>2
  <2>4. next[s[m]] # s[m] /\ next[s[m]] # NOTHING
    BY <1>1, <2>2, <2>3, ObjFacts
  <2>5. m = N
    BY <1>4, <1>11, <2>4
  <2>6. Range(s) = Obj
    <3>1. IsFiniteSet(Range(s)) /\ Cardinality(Range(s)) = m
      BY <1>4, <1>9, InjectiveLength
    <3>2. Range(s) \subseteq Obj
      BY <1>1, <1>10
    <3> QED
      BY <2>5, <3>1, <3>2, ObjFacts, FS_Subset
  <2>7. PICK j \in 1..m : s[j] = next[s[m]]
    <3>1. next[s[m]] \in Range(s)
      BY <1>1, <2>2, <2>6
    <3> QED
      BY <1>4, <3>1 DEF Range
  <2>8. j = m \/ j \in 1..m - 1
    BY <1>4
  <2>9. j = m \/ rank[s[j]] < rank[s[m]]
    BY <1>8, <2>1, <2>8
  <2> QED
    BY <2>3, <2>7, <2>9
<1>12. S \subseteq Range(s)
  <2> SUFFICES ASSUME NEW z \in S \ Range(s) PROVE FALSE
    OBVIOUS
  <2> DEFINE E == {rank[y] : y \in S \ Range(s)}
  <2>1. E \in SUBSET Nat /\ rank[z] \in E
    BY <1>2
  <2>2. PICK n \in E : \A k \in E : n <= k
    <3> HIDE DEF E
    <3> QED
      BY <2>1, LeastNumber
  <2>3. PICK y \in S \ Range(s) : \A k \in S \ Range(s) : rank[y] <= rank[k]
    BY <2>2
  <2>4. y # head
    <3>1. head = NOTHING => S = {}
      BY DEF Threaded
    <3>2. m > 0 => head \in Range(s)
      <4>1. m > 0 => 1 \in DOMAIN s
        BY <1>4
      <4> QED
        BY <1>4, <4>1 DEF Range
    <3> QED
      BY <1>4, <3>1, <3>2
  <2>5. PICK x \in S : next[x] = y
    BY <2>4 DEF Threaded
  <2>6. rank[x] < rank[y] /\ rank[x] \in Nat /\ rank[y] \in Nat
    BY <1>2, <2>5
  <2>7. x \in Range(s)
    BY <2>3, <2>6
  <2>8. PICK i \in 1..m : s[i] = x
    BY <1>4, <2>7 DEF Range
  <2>9. CASE i = m
    BY <1>1, <1>4, <1>11, <2>5, <2>8, <2>9, ObjFacts
  <2>10. CASE i # m
    <3>1. i \in 1..m - 1 /\ i + 1 \in DOMAIN s
      BY <1>4, <2>10
    <3>2. s[i + 1] = y
      BY <1>4, <2>5, <2>8, <3>1
    <3>3. y \in Range(s)
      BY <3>1, <3>2 DEF Range
    <3> QED
      BY <3>3
  <2> QED
    BY <2>9, <2>10
<1>13. s # <<>> <=> m > 0
  BY <1>4
<1>14. \A i \in 1..m - 1 : next[s[i]] = s[i + 1]
  BY <1>4
<1>15. s = <<>> <=> head = NOTHING
  BY <1>4, <1>13
<1> QED
  BY <1>4, <1>9, <1>10, <1>11, <1>12, <1>13, <1>14, <1>15 DEF s

(* What a sequence without repetitions spells out is threaded.             *)
LEMMA SequenceThreaded ==
  ASSUME NEW s \in Seq(Obj), \A i, j \in 1..Len(s) : s[i] = s[j] => i = j,
         NEW next, NEW head, head = NOTHING <=> Len(s) = 0,
         Len(s) > 0 => s[1] = head /\ next[s[Len(s)]] = NOTHING,
         \A i \in 1..Len(s) - 1 : s[i + 1] = next[s[i]]
  PROVE  Threaded(next, head, Range(s))
<1> DEFINE m == Len(s)
           S == Range(s)
<1>1. /\ m \in Nat
      /\ head = NOTHING <=> m = 0
      /\ m > 0 => s[1] = head
      /\ \A i \in 1..m - 1 : s[i + 1] = next[s[i]]
  OBVIOUS
<1>2. m > 0 => next[s[m]] = NOTHING
  OBVIOUS
<1>3. \A i \in 1..m : s[i] \in Obj
  OBVIOUS
<1>4. S = {s[i] : i \in 1..m}
  BY DEF Range
<1>5. \A i, j \in 1..m : s[i] = s[j] => i = j
  OBVIOUS
<1> HIDE DEF S, m
<1>6. \A i \in 1..m : next[s[i]] # NOTHING => i + 1 \in 1..m /\ next[s[i]] = s[i + 1]
  <2> SUFFICES ASSUME NEW i \in 1..m, next[s[i]] # NOTHING
               PROVE  i + 1 \in 1..m /\ next[s[i]] = s[i + 1]
    OBVIOUS
  <2>1. i # m
    BY <1>1, <1>2
  <2>2. i \in 1..m - 1 /\ i + 1 \in 1..m
    BY <1>1, <2>1
  <2> QED
    BY <1>1, <2>2
<1>7. S \subseteq Obj /\ (head = NOTHING => S = {}) /\ head \in S \cup {NOTHING}
  <2>1. S \subseteq Obj
    BY <1>3, <1>4
  <2>2. head = NOTHING => S = {}
    <3>1. m = 0 => 1..m = {}
      BY <1>1
    <3> QED
      BY <1>1, <1>4, <3>1
  <2>3. head # NOTHING => head \in S
    <3>1. head # NOTHING => 1 \in 1..m /\ m > 0
      BY <1>1
    <3> QED
      BY <1>1, <1>4, <3>1
  <2> QED
    BY <2>1, <2>2, <2>3
<1>8. ASSUME NEW x \in S PROVE next[x] \in S \cup {NOTHING} /\ next[x] # head
  <2>1. PICK i \in 1..m : x = s[i]
    BY <1>4
  <2>2. m > 0 /\ 1 \in 1..m /\ i + 1 # 1
    BY <1>1
  <2>3. head # NOTHING /\ head = s[1]
    BY <1>1, <2>2
  <2>4. CASE next[x] = NOTHING
    BY <2>3, <2>4
  <2>5. CASE next[x] # NOTHING
    <3>1. i + 1 \in 1..m /\ next[x] = s[i + 1]
      BY <1>6, <2>1, <2>5
    <3>2. s[i + 1] # s[1]
      BY <1>5, <2>2, <3>1
    <3> QED
      BY <1>4, <2>3, <3>1, <3>2
  <2> QED
    BY <2>4, <2>5
<1>9. ASSUME NEW x \in S, NEW y \in S, next[x] = next[y], next[x] # NOTHING
       PROVE  x = y
  <2>1. PICK i \in 1..m : x = s[i]
    BY <1>4
  <2>2. PICK j \in 1..m : y = s[j]
    BY <1>4
  <2>3. i + 1 \in 1..m /\ j + 1 \in 1..m /\ s[i + 1] = s[j + 1]
    BY <1>6, <1>9, <2>1, <2>2
  <2>4. i + 1 = j + 1
    BY <1>5, <2>3
  <2>5. i = j
    BY <1>1, <2>4
  <2> QED
    BY <2>1, <2>2, <2>5
<1>10. ASSUME NEW y \in S, y # head PROVE \E x \in S : next[x] = y
  <2>1. PICK j \in 1..m : y = s[j]
    BY <1>4
  <2>2. m > 0 /\ j # 1
    BY <1>1, <1>10, <2>1
  <2>3. j - 1 \in 1..m /\ j - 1 \in 1..m - 1 /\ (j - 1) + 1 = j
    BY <1>1, <2>2
  <2>4. next[s[j - 1]] = y /\ s[j - 1] \in S
    BY <1>1, <1>4, <2>1, <2>3
  <2> QED
    BY <2>4
<1>11. \E rank : Climbs(next, S, rank)
  <2> DEFINE rank == [x \in S |-> CHOOSE i \in 1..m : s[i] = x]
  <2>1. \A x \in S : rank[x] \in 1..m /\ s[rank[x]] = x
    BY <1>4
  <2>2. rank \in [S -> Nat]
    <3>1. \A x \in S : rank[x] \in Nat
      BY <1>1, <2>1
    <3> QED
      BY <3>1
  <2> HIDE DEF rank
  <2>3. ASSUME NEW x \in S, next[x] \in S PROVE rank[x] < rank[next[x]]
    <3>1. rank[x] \in 1..m /\ s[rank[x]] = x /\ rank[next[x]] \in 1..m /\ s[rank[next[x]]] = next[x]
      BY <2>1, <2>3
    <3>2. next[x] # NOTHING
      BY <1>7, <2>3, ObjFacts
    <3>3. rank[x] + 1 \in 1..m /\ next[x] = s[rank[x] + 1]
      BY <1>6, <3>1, <3>2
    <3>4. rank[next[x]] = rank[x] + 1
      BY <1>5, <3>1, <3>3
    <3> QED
      BY <1>1, <3>1, <3>4
  <2> QED
    BY <2>2, <2>3 DEF Climbs
<1>12. Threaded(next, head, S)
  BY <1>7, <1>8, <1>9, <1>10, <1>11 DEF Threaded
<1> QED
  BY <1>12 DEF S

(* A list that ends is threaded: nothing is met twice on the way.          *)
LEMMA WalkThreaded ==
  ASSUME NEW next \in [Obj -> Dbref], NEW head \in Dbref, Ends(next, head)
  PROVE  Threaded(next, head, Chain(next, head))
<1> DEFINE N == Cardinality(Obj)
           s == Walk(next, head)
           m == Len(s)
           S == Range(s)
<1>1. WalkIs(next, N, head, s)
  BY WalkSteps
<1>2. s # <<>> => next[s[m]] = NOTHING
  BY DEF Ends
<1> HIDE DEF s
<1>3. /\ s \in Seq(Obj) /\ m \in Nat
      /\ head = NOTHING <=> m = 0
      /\ m > 0 => s[1] = head
      /\ \A i \in 1..m - 1 : s[i + 1] = next[s[i]]
  <2>1. N \in Nat /\ N > 0
    BY ObjFacts
  <2>2. s \in Seq(Obj)
    BY <1>1 DEF WalkIs
  <2>3. head = NOTHING => m = 0
    BY <1>1 DEF WalkIs
  <2> QED
    BY <1>1, <2>1, <2>2, <2>3 DEF WalkIs
<1>4. m > 0 => next[s[m]] = NOTHING
  BY <1>2, <1>3
<1>5. \A i \in 1..m : s[i] \in Obj
  BY <1>3
<1>6. DOMAIN s = 1..m /\ S = {s[i] : i \in 1..m}
  BY <1>3 DEF Range
<1> HIDE DEF S, m
<1>7. ASSUME NEW i \in 1..m, NEW j \in 1..m, i < j, s[i] = s[j] PROVE FALSE
  <2> DEFINE n == m - j
             Q == {k \in 0..n : s[i + k] = s[j + k]}
  <2>1. n \in Nat /\ i \in Nat /\ j \in Nat
    BY <1>3, <1>7
  <2>2. 0 \in Q
    BY <1>7, <2>1
  <2>3. ASSUME NEW k \in 0..n - 1, k \in Q PROVE k + 1 \in Q
    <3>1. i + k \in 1..m - 1 /\ j + k \in 1..m - 1 /\ k + 1 \in 0..n
          /\ (i + k) + 1 = i + (k + 1) /\ (j + k) + 1 = j + (k + 1)
      BY <1>3, <1>7, <2>1
    <3>2. s[(i + k) + 1] = s[(j + k) + 1]
      BY <1>3, <2>3, <3>1
    <3>3. s[i + (k + 1)] = s[j + (k + 1)]
      BY <3>1, <3>2
    <3> QED
      BY <3>1, <3>3
  <2>4. n \in Q
    <3>1. n \in 0..n
      BY <2>1
    <3>2. \A k \in 0..n : k \in Q
      <4> HIDE DEF Q, n
      <4> QED
        BY <2>1, <2>2, <2>3, CountingInduction
    <3> QED
      BY <3>1, <3>2
  <2>5. s[i + n] = s[m]
    <3>1. j + n = m
      BY <1>3, <2>1
    <3> QED
      BY <2>4, <3>1
  <2>6. i + n \in 1..m - 1 /\ (i + n) + 1 \in 1..m /\ m > 0
    BY <1>3, <1>7, <2>1
  <2>7. s[(i + n) + 1] = NOTHING
    BY <1>3, <1>4, <2>5, <2>6
  <2> QED
    BY <1>5, <2>6, <2>7, ObjFacts
<1>8. \A i, j \in 1..m : s[i] = s[j] => i = j
  <2> SUFFICES ASSUME NEW i \in 1..m, NEW j \in 1..m, s[i] = s[j], i # j PROVE FALSE
    OBVIOUS
  <2>1. i < j \/ j < i
    BY <1>3
  <2> QED
    BY <1>7, <2>1
<1>9. Threaded(next, head, S)
  BY <1>3, <1>4, <1>8, SequenceThreaded DEF S, m
<1> QED
  BY <1>9 DEF S, s, Chain

(* What a database says of a place, in both forms.                         *)
LEMMA ContentsThreaded ==
  ASSUME NEW d \in Databases, NEW place \in Obj
  PROVE  ContentsAgree(d, place) <=> Threaded(d.next, d.contents[place], Inside(d, place))
<1> DEFINE head == d.contents[place]
<1>1. d.next \in [Obj -> Dbref] /\ head \in Dbref
  BY DEF Databases
<1> HIDE DEF head
<1>2. Inside(d, place) = {x \in Obj : Has_location(d, x) /\ d.location[x] = place}
  BY DEF Inside
<1>3. ASSUME ContentsAgree(d, place) PROVE Threaded(d.next, head, Inside(d, place))
  <2>1. Ends(d.next, head) /\ Chain(d.next, head) = Inside(d, place)
    BY <1>2, <1>3 DEF ContentsAgree, head
  <2> QED
    BY <1>1, <2>1, WalkThreaded
<1>4. ASSUME Threaded(d.next, head, Inside(d, place)) PROVE ContentsAgree(d, place)
  <2>1. Ends(d.next, head)
    BY <1>1, <1>4, ThreadedWalk DEF Ends
  <2>2. Chain(d.next, head) = Inside(d, place)
    BY <1>1, <1>4, ThreadedWalk DEF Chain
  <2> QED
    BY <1>2, <2>1, <2>2 DEF ContentsAgree, head
<1> QED
  BY <1>3, <1>4 DEF head

LEMMA ExitsThreaded ==
  ASSUME NEW d \in Databases, NEW place \in Obj
  PROVE  ExitsAgree(d, place) <=> Threaded(d.next, d.exits[place], Leading(d, place))
<1> DEFINE head == d.exits[place]
<1>1. d.next \in [Obj -> Dbref] /\ head \in Dbref
  BY DEF Databases
<1> HIDE DEF head
<1>2. Leading(d, place) = {x \in Obj : d.type[x] = "exit" /\ d.exits[x] = place}
  BY DEF Leading
<1>3. ASSUME ExitsAgree(d, place) PROVE Threaded(d.next, head, Leading(d, place))
  <2>1. Ends(d.next, head) /\ Chain(d.next, head) = Leading(d, place)
    BY <1>2, <1>3 DEF ExitsAgree, head
  <2> QED
    BY <1>1, <2>1, WalkThreaded
<1>4. ASSUME Threaded(d.next, head, Leading(d, place)) PROVE ExitsAgree(d, place)
  <2>1. Ends(d.next, head)
    BY <1>1, <1>4, ThreadedWalk DEF Ends
  <2>2. Chain(d.next, head) = Leading(d, place)
    BY <1>1, <1>4, ThreadedWalk DEF Chain
  <2> QED
    BY <1>2, <2>1, <2>2 DEF ExitsAgree, head
<1> QED
  BY <1>3, <1>4 DEF head

-----------------------------------------------------------------------------
(***************************************************************************)
(* What is done to lists.                                                  *)
(***************************************************************************)
LEMMA ThreadedSame ==
  ASSUME NEW next, NEW next2, NEW head, NEW S, Threaded(next, head, S),
         \A x \in S : next2[x] = next[x]
  PROVE  Threaded(next2, head, S)
<1>1. PICK rank : Climbs(next, S, rank)
  BY DEF Threaded
<1>2. Climbs(next2, S, rank)
  BY <1>1 DEF Climbs
<1> QED
  BY <1>2 DEF Threaded

(* One more, in front of the others.                                       *)
LEMMA ThreadedInsert ==
  ASSUME NEW next, NEW next2, NEW head, NEW S, Threaded(next, head, S),
         NEW x \in Obj \ S, next2[x] = head, \A y \in S : next2[y] = next[y]
  PROVE  Threaded(next2, x, S \cup {x})
<1>1. PICK rank : Climbs(next, S, rank)
  BY DEF Threaded
<1> DEFINE up == [y \in S \cup {x} |-> IF y = x THEN 0 ELSE rank[y] + 1]
<1>2. Climbs(next2, S \cup {x}, up)
  <2>1. \A y \in S : rank[y] \in Nat
    BY <1>1 DEF Climbs
  <2>2. up \in [S \cup {x} -> Nat]
    BY <2>1
  <2>3. ASSUME NEW y \in S \cup {x}, next2[y] \in S \cup {x} PROVE up[y] < up[next2[y]]
    <3>1. next2[y] \in S /\ next2[y] # x
      <4>1. y = x \/ next2[y] = next[y]
        OBVIOUS
      <4>2. head # x /\ \A z \in S : next[z] # x
        BY ObjFacts DEF Threaded
      <4> QED
        BY <2>3, <4>1, <4>2
    <3>2. up[next2[y]] = rank[next2[y]] + 1
      BY <3>1
    <3>3. CASE y = x
      BY <2>1, <3>1, <3>2, <3>3
    <3>4. CASE y # x
      <4>1. up[y] = rank[y] + 1 /\ next2[y] = next[y] /\ y \in S
        BY <3>4
      <4>2. rank[y] < rank[next[y]]
        BY <1>1, <3>1, <4>1 DEF Climbs
      <4> QED
        BY <2>1, <3>1, <3>2, <4>1, <4>2
    <3> QED
      BY <3>3, <3>4
  <2> QED
    BY <2>2, <2>3 DEF Climbs
<1>3. \A y \in S \cup {x} : next2[y] \in (S \cup {x}) \cup {NOTHING} /\ next2[y] # x
  BY ObjFacts DEF Threaded
<1>4. \A y, z \in S \cup {x} : next2[y] = next2[z] /\ next2[y] # NOTHING => y = z
  BY DEF Threaded
<1>5. \A z \in S \cup {x} : z # x => \E y \in S \cup {x} : next2[y] = z
  BY DEF Threaded
<1>6. S \cup {x} \subseteq Obj /\ x # NOTHING
  BY ObjFacts DEF Threaded
<1> QED
  BY <1>2, <1>3, <1>4, <1>5, <1>6 DEF Threaded

(* One less, the first or a later one.                                     *)
LEMMA ThreadedRemoveHead ==
  ASSUME NEW next, NEW next2, NEW x, NEW S, Threaded(next, x, S), x \in S,
         \A y \in S \ {x} : next2[y] = next[y]
  PROVE  Threaded(next2, next[x], S \ {x})
<1>1. PICK rank : Climbs(next, S, rank)
  BY DEF Threaded
<1> DEFINE T == S \ {x}
           left == [y \in T |-> rank[y]]
<1>2. Climbs(next2, T, left)
  BY <1>1 DEF Climbs
<1>3. S \subseteq Obj /\ x # NOTHING /\ NOTHING \notin S
  BY ObjFacts DEF Threaded
<1>4. next[x] \in T \cup {NOTHING}
  BY <1>3 DEF Threaded
<1>5. next[x] = NOTHING => T = {}
  <2> SUFFICES ASSUME NEW y \in T, next[x] = NOTHING PROVE FALSE
    OBVIOUS
  <2> DEFINE E == {rank[z] : z \in T}
  <2>1. \A z \in S : rank[z] \in Nat
    BY <1>1 DEF Climbs
  <2>2. E \in SUBSET Nat /\ rank[y] \in E
    BY <2>1
  <2>3. PICK n \in E : \A k \in E : n <= k
    <3> HIDE DEF E
    <3> QED
      BY <2>2, LeastNumber
  <2>4. PICK z \in T : \A k \in T : rank[z] <= rank[k]
    BY <2>3
  <2>5. PICK w \in S : next[w] = z
    BY <2>4 DEF Threaded
  <2>6. w # x
    BY <1>3, <2>4, <2>5
  <2>7. rank[w] < rank[z]
    BY <1>1, <2>4, <2>5 DEF Climbs
  <2> QED
    BY <2>1, <2>4, <2>6, <2>7
<1>6. \A y \in T : next2[y] \in T \cup {NOTHING} /\ (next2[y] # NOTHING => next2[y] # next[x])
  BY <1>3 DEF Threaded
<1>7. \A y \in T : next2[y] \in T \cup {NOTHING} /\ next2[y] # next[x]
  BY <1>5, <1>6
<1>8. \A y, z \in T : next2[y] = next2[z] /\ next2[y] # NOTHING => y = z
  BY DEF Threaded
<1>9. \A z \in T : z # next[x] => \E y \in T : next2[y] = z
  <2> SUFFICES ASSUME NEW z \in T, z # next[x] PROVE \E y \in T : next2[y] = z
    OBVIOUS
  <2>1. PICK y \in S : next[y] = z
    BY DEF Threaded
  <2> QED
    BY <2>1
<1>10. T \subseteq Obj
  BY <1>3
<1> QED
  BY <1>2, <1>4, <1>5, <1>7, <1>8, <1>9, <1>10 DEF Threaded

LEMMA ThreadedRemove ==
  ASSUME NEW next, NEW next2, NEW head, NEW S, Threaded(next, head, S),
         NEW x \in S, NEW p \in S, next[p] = x, next2[p] = next[x],
         \A y \in S \ {x, p} : next2[y] = next[y]
  PROVE  Threaded(next2, head, S \ {x})
<1>1. PICK rank : Climbs(next, S, rank)
  BY DEF Threaded
<1> DEFINE T == S \ {x}
           left == [y \in T |-> rank[y]]
<1>2. S \subseteq Obj /\ x # NOTHING /\ NOTHING \notin S /\ x # head
  BY ObjFacts DEF Threaded
<1>3. \A y \in S : rank[y] \in Nat
  BY <1>1 DEF Climbs
<1>4. p # x /\ next[x] # x /\ next[x] # p
  <2>1. rank[p] < rank[x]
    BY <1>1 DEF Climbs
  <2>2. next[x] \in S => rank[x] < rank[next[x]]
    BY <1>1 DEF Climbs
  <2> QED
    BY <1>3, <2>1, <2>2
<1>5. Climbs(next2, T, left)
  <2>1. left \in [T -> Nat]
    BY <1>3
  <2>2. ASSUME NEW y \in T, next2[y] \in T PROVE rank[y] < rank[next2[y]]
    <3>1. CASE y = p
      <4>1. rank[p] < rank[x] /\ rank[x] < rank[next[x]]
        BY <1>1, <2>2, <3>1 DEF Climbs
      <4> QED
        BY <1>3, <2>2, <3>1, <4>1
    <3>2. CASE y # p
      BY <1>1, <2>2, <3>2 DEF Climbs
    <3> QED
      BY <3>1, <3>2
  <2> QED
    BY <2>1, <2>2 DEF Climbs
<1>6. head \in T \cup {NOTHING} /\ head # NOTHING
  BY <1>2 DEF Threaded
<1>7. ASSUME NEW y \in T PROVE next2[y] \in T \cup {NOTHING} /\ next2[y] # head
  <2>1. CASE y = p
    BY <1>2, <1>4, <2>1 DEF Threaded
  <2>2. CASE y # p
    <3>1. next2[y] = next[y] /\ y \in S
      BY <2>2
    <3>2. next[y] # x
      BY <1>2, <2>2, <3>1 DEF Threaded
    <3> QED
      BY <3>1, <3>2 DEF Threaded
  <2> QED
    BY <2>1, <2>2
<1>8. ASSUME NEW y \in T, NEW z \in T, next2[y] = next2[z], next2[y] # NOTHING
      PROVE  y = z
  <2>1. \A a, b \in S : next[a] = next[b] /\ next[a] # NOTHING => a = b
    BY DEF Threaded
  <2>2. CASE y = p /\ z # p
    BY <1>8, <2>1, <2>2
  <2>3. CASE z = p /\ y # p
    BY <1>8, <2>1, <2>3
  <2>4. CASE z # p /\ y # p
    BY <1>8, <2>1, <2>4
  <2> QED
    BY <2>2, <2>3, <2>4
<1>9. ASSUME NEW z \in T, z # head PROVE \E y \in T : next2[y] = z
  <2>1. PICK y \in S : next[y] = z
    BY <1>9 DEF Threaded
  <2>2. CASE y = x
    BY <1>4, <2>1, <2>2
  <2>3. CASE y # x
    <3>1. y # p
      BY <1>9, <2>1
    <3> QED
      BY <2>1, <2>3, <3>1
  <2> QED
    BY <2>2, <2>3
<1> HIDE DEF T, left
<1>10. T \subseteq Obj
  BY <1>2 DEF T
<1>11. Threaded(next2, head, T)
  BY <1>5, <1>6, <1>7, <1>8, <1>9, <1>10 DEF Threaded
<1> QED
  BY <1>11 DEF T

(* The other way round. *)
LEMMA ThreadedReversed ==
  ASSUME NEW next \in [Obj -> Dbref], NEW head \in Obj, NEW S, Threaded(next, head, S),
         NEW next2,
         \A k \in 1..Len(Walk(next, head)) :
           next2[Walk(next, head)[k]] = IF k = 1 THEN NOTHING ELSE Walk(next, head)[k - 1]
  PROVE  /\ Len(Walk(next, head)) \in Nat /\ Len(Walk(next, head)) > 0
         /\ Threaded(next2, Walk(next, head)[Len(Walk(next, head))], S)
<1> DEFINE s == Walk(next, head)
           m == Len(s)
           r == [k \in 1..m |-> s[m + 1 - k]]
<1>1. s \in Seq(Obj) /\ Range(s) = S /\ IsInjective(s)
  BY ThreadedWalk
<1>2. s # <<>>
  BY ObjFacts, ThreadedWalk
<1>3. \A k \in 1..m : next2[s[k]] = IF k = 1 THEN NOTHING ELSE s[k - 1]
  OBVIOUS
<1> HIDE DEF s
<1>4. m \in Nat /\ m > 0 /\ \A k \in 1..m : s[k] \in Obj /\ m + 1 - k \in 1..m
  BY <1>1, <1>2
<1>5. \A i, j \in 1..m : s[i] = s[j] => i = j
  BY <1>1 DEF IsInjective
<1>6. r \in Seq(Obj) /\ Len(r) = m
  BY <1>4
<1>7. \A k \in 1..m : r[k] = s[m + 1 - k]
  OBVIOUS
<1>8. Range(r) = S
  <2>1. S = {s[k] : k \in 1..m} /\ Range(r) = {r[k] : k \in 1..m}
    <3>1. DOMAIN s = 1..m /\ DOMAIN r = 1..m
      BY <1>1
    <3> HIDE DEF r, m
    <3> QED
      BY <1>1, <3>1 DEF Range
  <2>2. \A k \in 1..m : s[k] = r[m + 1 - k] /\ m + 1 - k \in 1..m
    <3> SUFFICES ASSUME NEW k \in 1..m PROVE s[k] = r[m + 1 - k] /\ m + 1 - k \in 1..m
      OBVIOUS
    <3>1. m + 1 - (m + 1 - k) = k /\ m + 1 - k \in 1..m
      BY <1>4
    <3> QED
      BY <1>7, <3>1
  <2> HIDE DEF r, m
  <2> QED
    BY <1>4, <1>7, <2>1, <2>2
<1> HIDE DEF r
<1>9. \A i, j \in 1..m : r[i] = r[j] => i = j
  <2> SUFFICES ASSUME NEW i \in 1..m, NEW j \in 1..m, r[i] = r[j] PROVE i = j
    OBVIOUS
  <2>1. s[m + 1 - i] = s[m + 1 - j]
    BY <1>7
  <2>2. m + 1 - i \in 1..m /\ m + 1 - j \in 1..m
    BY <1>4
  <2>3. m + 1 - i = m + 1 - j
    BY <1>5, <2>1, <2>2
  <2> QED
    BY <1>4, <2>3
<1>10. r[1] = s[m] /\ next2[r[m]] = NOTHING
  <2>1. 1 \in 1..m /\ m \in 1..m /\ m + 1 - 1 = m /\ m + 1 - m = 1
    BY <1>4
  <2>2. r[1] = s[m] /\ r[m] = s[1]
    BY <1>7, <2>1
  <2> QED
    BY <1>3, <2>1, <2>2
<1>11. ASSUME NEW i \in 1..m - 1 PROVE r[i + 1] = next2[r[i]]
  <2>1. i \in 1..m /\ i + 1 \in 1..m /\ m + 1 - i \in 1..m /\ m + 1 - i # 1
        /\ (m + 1 - i) - 1 = m + 1 - (i + 1)
    BY <1>4
  <2>2. r[i] = s[m + 1 - i] /\ r[i + 1] = s[m + 1 - (i + 1)]
    BY <1>7, <2>1
  <2>3. next2[s[m + 1 - i]] = s[(m + 1 - i) - 1]
    BY <1>3, <2>1
  <2> QED
    BY <2>1, <2>2, <2>3
<1>12. s[m] # NOTHING
  <2>1. m \in 1..m
    BY <1>4
  <2> QED
    BY <1>4, <2>1, ObjFacts
<1>13. Threaded(next2, s[m], Range(r))
  <2> DEFINE h == s[m]
  <2>1. h = NOTHING <=> Len(r) = 0
    BY <1>4, <1>6, <1>12
  <2>2. Len(r) > 0 => r[1] = h /\ next2[r[Len(r)]] = NOTHING
    BY <1>6, <1>10
  <2>3. \A i \in 1..Len(r) - 1 : r[i + 1] = next2[r[i]]
    BY <1>6, <1>11
  <2>4. \A i, j \in 1..Len(r) : r[i] = r[j] => i = j
    BY <1>6, <1>9
  <2> HIDE DEF h
  <2>5. Threaded(next2, h, Range(r))
    BY <1>6, <2>1, <2>2, <2>3, <2>4, SequenceThreaded
  <2> QED
    BY <2>5 DEF h
<1> QED
  BY <1>4, <1>8, <1>13 DEF s

(* Only the lists of contents, or of exits, and next pointers change.      *)
SameThings(d, e) ==
  /\ e \in Databases
  /\ e.type = d.type /\ e.going = d.going /\ e.link = d.link

OnlyContents(d, e, place, S) ==
  /\ SameThings(d, e) /\ e.location = d.location /\ e.exits = d.exits
  /\ \A p \in Obj : p # place => e.contents[p] = d.contents[p]
  /\ \A y \in Obj \ S : e.next[y] = d.next[y]

OnlyExits(d, e, place, S) ==
  /\ SameThings(d, e) /\ e.location = d.location /\ e.contents = d.contents
  /\ \A p \in Obj : p # place => e.exits[p] = d.exits[p]
  /\ \A y \in Obj \ S : e.next[y] = d.next[y]

LEMMA RemoveFromContents ==
  ASSUME NEW d \in Databases, NEW place \in Obj, NEW S,
         Threaded(d.next, d.contents[place], S), NEW x \in S
  PROVE  /\ OnlyContents(d, RemoveFirst(d, "contents", place, x), place, S \ {x})
         /\ Threaded(RemoveFirst(d, "contents", place, x).next,
                     RemoveFirst(d, "contents", place, x).contents[place], S \ {x})
<1> DEFINE head == d.contents[place]
           s == Walk(d.next, head)
           before == {k \in DOMAIN s : s[k] # x /\ d.next[s[k]] = x}
           e == RemoveFirst(d, "contents", place, x)
<1>1. /\ d.next \in [Obj -> Dbref] /\ d.contents \in [Obj -> Dbref] /\ head \in Dbref
      /\ S \subseteq Obj /\ x \in Obj /\ d.next[x] \in Dbref
  BY DEF Databases, Threaded
<1>2. d["contents"] = d.contents
  BY DEF Databases
<1>3. CASE head = x
  <2>1. e = [d EXCEPT !.contents[place] = d.next[x]]
    BY <1>2, <1>3 DEF RemoveFirst
  <2>2. e \in Databases /\ e.next = d.next /\ e.contents = [d.contents EXCEPT ![place] = d.next[x]]
        /\ e.type = d.type /\ e.going = d.going /\ e.link = d.link
        /\ e.location = d.location /\ e.exits = d.exits
    BY <1>1, <2>1 DEF Databases
  <2> HIDE DEF e
  <2>3. e.contents[place] = d.next[x] /\ \A p \in Obj : p # place => e.contents[p] = d.contents[p]
    BY <1>1, <2>2
  <2>4. Threaded(e.next, d.next[x], S \ {x})
    BY <1>3, <2>2, ThreadedRemoveHead
  <2>5. OnlyContents(d, e, place, S \ {x}) /\ Threaded(e.next, e.contents[place], S \ {x})
    BY <2>2, <2>3, <2>4 DEF OnlyContents, SameThings
  <2> QED
    BY <2>5 DEF e
<1>4. CASE head # x
  <2>1. s \in Seq(Obj) /\ Range(s) = S
    BY <1>1, ThreadedWalk
  <2>2. PICK p \in S : d.next[p] = x
    BY <1>4 DEF Threaded
  <2>3. \A q \in S : d.next[q] = x => q = p
    BY <1>1, <2>2, ObjFacts DEF Threaded
  <2>4. p # x
    <3>1. PICK rank : Climbs(d.next, S, rank)
      BY DEF Threaded
    <3>2. rank[p] < rank[d.next[p]] /\ rank[p] \in Nat
      BY <2>2, <3>1 DEF Climbs
    <3> QED
      BY <2>2, <3>2
  <2>5. \A k \in before : s[k] = p
    BY <2>1, <2>3 DEF Range
  <2>6. before # {} /\ before \in SUBSET Nat
    <3>1. PICK k \in DOMAIN s : s[k] = p
      BY <2>1 DEF Range
    <3>2. k \in before
      BY <2>2, <2>4, <3>1
    <3>3. DOMAIN s \subseteq Nat
      BY <2>1
    <3> QED
      BY <3>2, <3>3
  <2>7. Min(before) \in before
    <3> HIDE DEF before
    <3>1. PICK k \in before : \A j \in before : k <= j
      BY <2>6, LeastNumber
    <3> QED
      BY <3>1 DEF Min
  <2>8. s[Min(before)] = p
    BY <2>5, <2>7
  <2>9. e = [d EXCEPT !.next[p] = d.next[x]]
    BY <1>2, <1>4, <2>6, <2>8 DEF RemoveFirst
  <2>10. p \in Obj
    BY <1>1, <2>2
  <2>11. e \in Databases /\ e.next = [d.next EXCEPT ![p] = d.next[x]] /\ e.contents = d.contents
        /\ e.type = d.type /\ e.going = d.going /\ e.link = d.link
        /\ e.location = d.location /\ e.exits = d.exits
    BY <1>1, <2>9, <2>10 DEF Databases
  <2> HIDE DEF e, s, before
  <2>12. e.next[p] = d.next[x] /\ \A y \in Obj : y # p => e.next[y] = d.next[y]
    BY <1>1, <2>10, <2>11
  <2>13. Threaded(e.next, d.contents[place], S \ {x})
    BY <1>1, <2>2, <2>12, ThreadedRemove
  <2>14. \A y \in Obj \ (S \ {x}) : e.next[y] = d.next[y]
    BY <2>2, <2>4, <2>12
  <2>15. OnlyContents(d, e, place, S \ {x}) /\ Threaded(e.next, e.contents[place], S \ {x})
    BY <2>11, <2>13, <2>14 DEF OnlyContents, SameThings
  <2> QED
    BY <2>15 DEF e
<1> QED
  BY <1>3, <1>4

LEMMA RemoveFromExits ==
  ASSUME NEW d \in Databases, NEW place \in Obj, NEW S,
         Threaded(d.next, d.exits[place], S), NEW x \in S
  PROVE  /\ OnlyExits(d, RemoveFirst(d, "exits", place, x), place, S \ {x})
         /\ Threaded(RemoveFirst(d, "exits", place, x).next,
                     RemoveFirst(d, "exits", place, x).exits[place], S \ {x})
<1> DEFINE head == d.exits[place]
           s == Walk(d.next, head)
           before == {k \in DOMAIN s : s[k] # x /\ d.next[s[k]] = x}
           e == RemoveFirst(d, "exits", place, x)
<1>1. /\ d.next \in [Obj -> Dbref] /\ d.exits \in [Obj -> Dbref] /\ head \in Dbref
      /\ S \subseteq Obj /\ x \in Obj /\ d.next[x] \in Dbref
  BY DEF Databases, Threaded
<1>2. d["exits"] = d.exits
  BY DEF Databases
<1>3. CASE head = x
  <2>1. e = [d EXCEPT !.exits[place] = d.next[x]]
    BY <1>2, <1>3 DEF RemoveFirst
  <2>2. e \in Databases /\ e.next = d.next /\ e.exits = [d.exits EXCEPT ![place] = d.next[x]]
        /\ e.type = d.type /\ e.going = d.going /\ e.link = d.link
        /\ e.location = d.location /\ e.contents = d.contents
    BY <1>1, <2>1 DEF Databases
  <2> HIDE DEF e
  <2>3. e.exits[place] = d.next[x] /\ \A p \in Obj : p # place => e.exits[p] = d.exits[p]
    BY <1>1, <2>2
  <2>4. Threaded(e.next, d.next[x], S \ {x})
    BY <1>3, <2>2, ThreadedRemoveHead
  <2>5. OnlyExits(d, e, place, S \ {x}) /\ Threaded(e.next, e.exits[place], S \ {x})
    BY <2>2, <2>3, <2>4 DEF OnlyExits, SameThings
  <2> QED
    BY <2>5 DEF e
<1>4. CASE head # x
  <2>1. s \in Seq(Obj) /\ Range(s) = S
    BY <1>1, ThreadedWalk
  <2>2. PICK p \in S : d.next[p] = x
    BY <1>4 DEF Threaded
  <2>3. \A q \in S : d.next[q] = x => q = p
    BY <1>1, <2>2, ObjFacts DEF Threaded
  <2>4. p # x
    <3>1. PICK rank : Climbs(d.next, S, rank)
      BY DEF Threaded
    <3>2. rank[p] < rank[d.next[p]] /\ rank[p] \in Nat
      BY <2>2, <3>1 DEF Climbs
    <3> QED
      BY <2>2, <3>2
  <2>5. \A k \in before : s[k] = p
    BY <2>1, <2>3 DEF Range
  <2>6. before # {} /\ before \in SUBSET Nat
    <3>1. PICK k \in DOMAIN s : s[k] = p
      BY <2>1 DEF Range
    <3>2. k \in before
      BY <2>2, <2>4, <3>1
    <3>3. DOMAIN s \subseteq Nat
      BY <2>1
    <3> QED
      BY <3>2, <3>3
  <2>7. Min(before) \in before
    <3> HIDE DEF before
    <3>1. PICK k \in before : \A j \in before : k <= j
      BY <2>6, LeastNumber
    <3> QED
      BY <3>1 DEF Min
  <2>8. s[Min(before)] = p
    BY <2>5, <2>7
  <2>9. e = [d EXCEPT !.next[p] = d.next[x]]
    BY <1>2, <1>4, <2>6, <2>8 DEF RemoveFirst
  <2>10. p \in Obj
    BY <1>1, <2>2
  <2>11. e \in Databases /\ e.next = [d.next EXCEPT ![p] = d.next[x]] /\ e.exits = d.exits
        /\ e.type = d.type /\ e.going = d.going /\ e.link = d.link
        /\ e.location = d.location /\ e.contents = d.contents
    BY <1>1, <2>9, <2>10 DEF Databases
  <2> HIDE DEF e, s, before
  <2>12. e.next[p] = d.next[x] /\ \A y \in Obj : y # p => e.next[y] = d.next[y]
    BY <1>1, <2>10, <2>11
  <2>13. Threaded(e.next, d.exits[place], S \ {x})
    BY <1>1, <2>2, <2>12, ThreadedRemove
  <2>14. \A y \in Obj \ (S \ {x}) : e.next[y] = d.next[y]
    BY <2>2, <2>4, <2>12
  <2>15. OnlyExits(d, e, place, S \ {x}) /\ Threaded(e.next, e.exits[place], S \ {x})
    BY <2>11, <2>13, <2>14 DEF OnlyExits, SameThings
  <2> QED
    BY <2>15 DEF e
<1> QED
  BY <1>3, <1>4

LEMMA InsertIntoContents ==
  ASSUME NEW d \in Databases, NEW place \in Obj, NEW S,
         Threaded(d.next, d.contents[place], S), NEW x \in Obj \ S
  PROVE  /\ OnlyContents(d, InsertFirst(d, "contents", place, x), place, {x})
         /\ Threaded(InsertFirst(d, "contents", place, x).next,
                     InsertFirst(d, "contents", place, x).contents[place], S \cup {x})
<1> DEFINE head == d.contents[place]
           e == InsertFirst(d, "contents", place, x)
<1>1. /\ d.next \in [Obj -> Dbref] /\ d.contents \in [Obj -> Dbref] /\ head \in Dbref
      /\ x \in Dbref /\ S \subseteq Obj
  BY ObjFacts DEF Databases, Threaded
<1>2. d["contents"] = d.contents
  BY DEF Databases
<1>3. /\ e \in Databases /\ e.type = d.type /\ e.going = d.going /\ e.link = d.link
      /\ e.location = d.location /\ e.exits = d.exits
      /\ e.next = [d.next EXCEPT ![x] = head] /\ e.contents = [d.contents EXCEPT ![place] = x]
  BY <1>1, <1>2 DEF Databases, InsertFirst
<1> HIDE DEF e
<1>4. e.next[x] = head /\ \A y \in Obj : y # x => e.next[y] = d.next[y]
  BY <1>1, <1>3
<1>5. e.contents[place] = x /\ \A p \in Obj : p # place => e.contents[p] = d.contents[p]
  BY <1>1, <1>3
<1>6. Threaded(e.next, x, S \cup {x})
  <2>1. \A y \in S : e.next[y] = d.next[y]
    BY <1>1, <1>4
  <2> QED
    BY <1>4, <2>1, ThreadedInsert
<1>7. OnlyContents(d, e, place, {x}) /\ Threaded(e.next, e.contents[place], S \cup {x})
  BY <1>3, <1>4, <1>5, <1>6 DEF OnlyContents, SameThings
<1> QED
  BY <1>7 DEF e


LEMMA InsertIntoExits ==
  ASSUME NEW d \in Databases, NEW place \in Obj, NEW S,
         Threaded(d.next, d.exits[place], S), NEW x \in Obj \ S
  PROVE  /\ OnlyExits(d, InsertFirst(d, "exits", place, x), place, {x})
         /\ Threaded(InsertFirst(d, "exits", place, x).next,
                     InsertFirst(d, "exits", place, x).exits[place], S \cup {x})
<1> DEFINE head == d.exits[place]
           e == InsertFirst(d, "exits", place, x)
<1>1. /\ d.next \in [Obj -> Dbref] /\ d.exits \in [Obj -> Dbref] /\ head \in Dbref
      /\ x \in Dbref /\ S \subseteq Obj
  BY ObjFacts DEF Databases, Threaded
<1>2. d["exits"] = d.exits
  BY DEF Databases
<1>3. /\ e \in Databases /\ e.type = d.type /\ e.going = d.going /\ e.link = d.link
      /\ e.location = d.location /\ e.contents = d.contents
      /\ e.next = [d.next EXCEPT ![x] = head] /\ e.exits = [d.exits EXCEPT ![place] = x]
  BY <1>1, <1>2 DEF Databases, InsertFirst
<1> HIDE DEF e
<1>4. e.next[x] = head /\ \A y \in Obj : y # x => e.next[y] = d.next[y]
  BY <1>1, <1>3
<1>5. e.exits[place] = x /\ \A p \in Obj : p # place => e.exits[p] = d.exits[p]
  BY <1>1, <1>3
<1>6. Threaded(e.next, x, S \cup {x})
  <2>1. \A y \in S : e.next[y] = d.next[y]
    BY <1>1, <1>4
  <2> QED
    BY <1>4, <2>1, ThreadedInsert
<1>7. OnlyExits(d, e, place, {x}) /\ Threaded(e.next, e.exits[place], S \cup {x})
  BY <1>3, <1>4, <1>5, <1>6 DEF OnlyExits, SameThings
<1> QED
  BY <1>7 DEF e

-----------------------------------------------------------------------------
(***************************************************************************)
(* What moves do to the database.                                          *)
(***************************************************************************)
(* What a loop over contents meets next is a player or a thing.            *)
LEMMA MembersNext ==
  ASSUME NEW d \in Databases, Settled(d), NEW x \in Obj
  PROVE  /\ Has_location(d, x) => Member(d, d.next[x])
         /\ IsPlace(d, x) => Member(d, d.contents[x])
<1>1. ASSUME NEW place \in Obj, IsPlace(d, place)
      PROVE  Threaded(d.next, d.contents[place], Inside(d, place))
  BY <1>1, ContentsThreaded DEF Settled, ContentsInOrder
<1>2. ASSUME Has_location(d, x) PROVE Member(d, d.next[x])
  <2>1. IsPlace(d, d.location[x])
    BY <1>2 DEF Settled, References
  <2>2. d.location[x] \in Obj /\ x \in Inside(d, d.location[x])
    BY <1>2, <2>1 DEF IsPlace, Good, Inside
  <2>3. d.next[x] \in Inside(d, d.location[x]) \cup {NOTHING}
    BY <1>1, <2>1, <2>2 DEF Threaded
  <2> QED
    BY <2>3 DEF Inside, Member
<1>3. ASSUME IsPlace(d, x) PROVE Member(d, d.contents[x])
  <2>1. d.contents[x] \in Inside(d, x) \cup {NOTHING}
    BY <1>1, <1>3 DEF Threaded
  <2> QED
    BY <2>1 DEF Inside, Member
<1> QED
  BY <1>2, <1>3

(* Nothing about players and things has changed but their homes.           *)
LEMMA SettledAgain ==
  ASSUME NEW d \in Databases, NEW e \in Databases, Settled(d),
         e.type = d.type, e.location = d.location, e.contents = d.contents,
         \A x \in Obj : Has_location(d, x) => e.next[x] = d.next[x] /\ Somewhere(d, e.link[x]),
         \A x \in Obj : d.type[x] = "exit" => IsPlace(d, e.exits[x])
  PROVE  Settled(e)
<1>1. \A x : IsPlace(e, x) <=> IsPlace(d, x)
  BY DEF IsPlace, Good
<1>2. \A x : Has_location(e, x) <=> Has_location(d, x)
  BY DEF Has_location
<1>3. References(e)
  BY <1>1, <1>2 DEF Settled, References, Somewhere
<1>4. ASSUME NEW place \in Obj, IsPlace(e, place) PROVE ContentsAgree(e, place)
  <2>1. Inside(e, place) = Inside(d, place)
    BY <1>2 DEF Inside
  <2>2. Threaded(d.next, d.contents[place], Inside(d, place))
    BY <1>1, <1>4, ContentsThreaded DEF Settled, ContentsInOrder
  <2>3. \A x \in Inside(d, place) : e.next[x] = d.next[x]
    BY DEF Inside
  <2>4. Threaded(e.next, d.contents[place], Inside(d, place))
    BY <2>2, <2>3, ThreadedSame
  <2> QED
    BY <2>1, <2>4, ContentsThreaded
<1> QED
  BY <1>3, <1>4 DEF Settled, ContentsInOrder

(* Nothing about exits has changed but their destinations.                 *)
LEMMA ExitsAgain ==
  ASSUME NEW d \in Databases, NEW e \in Databases, ExitsInOrder(d),
         e.type = d.type, e.exits = d.exits,
         \A x \in Obj : d.type[x] = "exit" => e.next[x] = d.next[x]
  PROVE  ExitsInOrder(e)
<1>1. \A x : IsPlace(e, x) <=> IsPlace(d, x)
  BY DEF IsPlace, Good
<1>2. ASSUME NEW place \in Obj, IsPlace(e, place) PROVE ExitsAgree(e, place)
  <2>1. Leading(e, place) = Leading(d, place)
    BY DEF Leading
  <2>2. Threaded(d.next, d.exits[place], Leading(d, place))
    BY <1>1, <1>2, ExitsThreaded DEF ExitsInOrder
  <2>3. \A x \in Leading(d, place) : e.next[x] = d.next[x]
    BY DEF Leading
  <2>4. Threaded(e.next, d.exits[place], Leading(d, place))
    BY <2>2, <2>3, ThreadedSame
  <2> QED
    BY <2>1, <2>4, ExitsThreaded
<1> QED
  BY <1>2 DEF ExitsInOrder

(* What all steps are to show of the database d they find and e they leave.*)
Passes(d, e) ==
  /\ e \in Databases /\ Settled(e) /\ e.type = d.type
  /\ ExitsInOrder(d) => ExitsInOrder(e)

(* An object is taken out of where it is and put where it goes.            *)
LEMMA ObjectMoves ==
  ASSUME NEW d \in Databases, Settled(d), NEW x \in Obj, Has_location(d, x),
         NEW dest, IsPlace(d, dest)
  PROVE  Passes(d, MoveObject(d, x, dest))
<1> DEFINE src == d.location[x]
           out == RemoveFirst(d, "contents", src, x)
           in == InsertFirst(out, "contents", dest, x)
           e == [in EXCEPT !.location[x] = dest]
           T == Inside(d, src)
           D == Inside(d, dest) \ {x}
<1>1. Good(d, x) /\ IsPlace(d, src) /\ src \in Obj /\ dest \in Obj /\ src # NOTHING /\ dest # NOTHING
  BY ObjFacts DEF Settled, References, IsPlace, Good, Has_location
<1>2. MoveObject(d, x, dest) = e
  BY <1>1 DEF MoveObject
<1>3. \A p \in Obj : IsPlace(d, p) => Threaded(d.next, d.contents[p], Inside(d, p))
  BY ContentsThreaded DEF Settled, ContentsInOrder
<1>4. x \in T /\ T \subseteq Obj /\ D \subseteq Obj
  BY <1>1 DEF Inside
<1> HIDE DEF out
<1>5. OnlyContents(d, out, src, T \ {x}) /\ Threaded(out.next, out.contents[src], T \ {x})
  BY <1>1, <1>3, <1>4, RemoveFromContents DEF out
<1>6. Threaded(out.next, out.contents[dest], D)
  <2>1. CASE dest = src
    BY <1>5, <2>1
  <2>2. CASE dest # src
    <3>1. D = Inside(d, dest) /\ D \cap T = {}
      BY <2>2 DEF Inside
    <3>2. Threaded(d.next, d.contents[dest], D)
      BY <1>1, <1>3, <3>1
    <3>3. \A y \in D : out.next[y] = d.next[y]
      BY <1>4, <1>5, <3>1 DEF OnlyContents
    <3>4. out.contents[dest] = d.contents[dest]
      BY <1>1, <1>5, <2>2 DEF OnlyContents
    <3> QED
      BY <3>2, <3>3, <3>4, ThreadedSame
  <2> QED
    BY <2>1, <2>2
<1>7. out \in Databases
  BY <1>5 DEF OnlyContents, SameThings
<1> HIDE DEF in, D
<1>8. OnlyContents(out, in, dest, {x}) /\ Threaded(in.next, in.contents[dest], D \cup {x})
  <2>1. x \in Obj \ D
    BY DEF D
  <2> QED
    BY <1>1, <1>6, <1>7, <2>1, InsertIntoContents DEF in
<1>9. in \in Databases
  BY <1>8 DEF OnlyContents, SameThings
<1>10. /\ e \in Databases /\ e.type = in.type /\ e.going = in.going /\ e.link = in.link
       /\ e.contents = in.contents /\ e.exits = in.exits /\ e.next = in.next
       /\ e.location = [in.location EXCEPT ![x] = dest]
  <2>1. dest \in Dbref
    BY <1>1, ObjFacts
  <2> QED
    BY <1>9, <2>1 DEF Databases
<1> HIDE DEF e
<1>11. /\ e.type = d.type /\ e.link = d.link /\ e.exits = d.exits
       /\ e.location = [d.location EXCEPT ![x] = dest]
  BY <1>5, <1>8, <1>10 DEF OnlyContents, SameThings
<1>12. d.location \in [Obj -> Dbref]
  BY DEF Databases
<1>13. e.location[x] = dest /\ \A y \in Obj : y # x => e.location[y] = d.location[y]
  BY <1>11, <1>12
<1>14. \A y \in Obj \ (T \cup {x}) : e.next[y] = d.next[y]
  BY <1>5, <1>8, <1>10 DEF OnlyContents
<1>15. \A p : (IsPlace(e, p) <=> IsPlace(d, p)) /\ (Has_location(e, p) <=> Has_location(d, p))
  BY <1>11 DEF IsPlace, Good, Has_location
<1>16. References(e)
  <2>1. ASSUME NEW y \in Obj, Has_location(e, y)
        PROVE  IsPlace(e, e.location[y]) /\ Somewhere(e, e.link[y])
    <3>1. IsPlace(d, d.location[y]) /\ Somewhere(d, d.link[y])
      BY <1>15, <2>1 DEF Settled, References
    <3>2. IsPlace(d, e.location[y])
      BY <1>13, <3>1
    <3> QED
      BY <1>11, <1>15, <3>1, <3>2 DEF Somewhere
  <2>2. ASSUME NEW y \in Obj, e.type[y] = "room" PROVE Somewhere(e, e.location[y])
    <3>1. y # x /\ d.type[y] = "room"
      BY <1>11, <2>2 DEF Has_location
    <3>2. Somewhere(d, d.location[y])
      BY <3>1 DEF Settled, References
    <3> QED
      BY <1>13, <1>15, <3>1, <3>2 DEF Somewhere
  <2>3. ASSUME NEW y \in Obj, e.type[y] = "exit" PROVE IsPlace(e, e.exits[y])
    BY <1>11, <1>15, <2>3 DEF Settled, References
  <2> QED
    BY <2>1, <2>2, <2>3 DEF References
<1>17. ASSUME NEW p \in Obj, IsPlace(e, p) PROVE ContentsAgree(e, p)
  <2>1. IsPlace(d, p)
    BY <1>15, <1>17
  <2>2. CASE p = dest
    <3>1. Inside(e, dest) = D \cup {x}
      BY <1>13, <1>15 DEF Inside, D
    <3>2. Threaded(e.next, e.contents[dest], D \cup {x})
      BY <1>8, <1>10
    <3> QED
      BY <1>10, <1>17, <2>2, <3>1, <3>2, ContentsThreaded
  <2>3. CASE p # dest
    <3>1. Inside(e, p) = Inside(d, p) \ {x}
      BY <1>13, <1>15, <2>3 DEF Inside
    <3>2. e.contents[p] = out.contents[p]
      BY <1>8, <1>10, <2>3 DEF OnlyContents
    <3>3. Threaded(out.next, out.contents[p], Inside(d, p) \ {x})
      <4>1. CASE p = src
        BY <1>5, <4>1
      <4>2. CASE p # src
        <5>1. Inside(d, p) \ {x} = Inside(d, p) /\ Inside(d, p) \cap T = {}
          BY <4>2 DEF Inside
        <5>2. \A y \in Inside(d, p) : out.next[y] = d.next[y]
          <6>1. Inside(d, p) \subseteq Obj
            BY DEF Inside
          <6> QED
            BY <1>5, <5>1, <6>1 DEF OnlyContents
        <5>3. out.contents[p] = d.contents[p]
          BY <1>5, <4>2 DEF OnlyContents
        <5>4. Threaded(out.next, d.contents[p], Inside(d, p))
          BY <1>3, <2>1, <5>2, ThreadedSame
        <5> QED
          BY <5>1, <5>3, <5>4
      <4> QED
        BY <4>1, <4>2
    <3>4. \A y \in Inside(d, p) \ {x} : e.next[y] = out.next[y]
      <4>1. Inside(d, p) \subseteq Obj
        BY DEF Inside
      <4> QED
        BY <1>8, <1>10, <4>1 DEF OnlyContents
    <3>5. Threaded(e.next, e.contents[p], Inside(e, p))
      BY <3>1, <3>2, <3>3, <3>4, ThreadedSame
    <3> QED
      BY <1>10, <3>5, ContentsThreaded
  <2> QED
    BY <2>2, <2>3
<1>18. ExitsInOrder(d) => ExitsInOrder(e)
  <2>1. \A y \in Obj : d.type[y] = "exit" => y \notin T \cup {x}
    BY DEF Inside, Has_location
  <2>2. \A y \in Obj : d.type[y] = "exit" => e.next[y] = d.next[y]
    BY <1>14, <2>1
  <2> QED
    BY <1>10, <1>11, <2>2, ExitsAgain
<1>19. Passes(d, e)
  BY <1>10, <1>11, <1>16, <1>17, <1>18 DEF Passes, Settled, ContentsInOrder
<1> QED
  BY <1>2, <1>19

(* New contents of a place, and new pointers.                              *)
Relisted(d, place, head, n) == [d EXCEPT !.contents[place] = head, !.next = n]

LEMMA NewContents ==
  ASSUME NEW d \in Databases, NEW place \in Obj, NEW head \in Dbref,
         NEW n \in [Obj -> Dbref]
  PROVE  LET e == Relisted(d, place, head, n) IN
         /\ e \in Databases /\ e.type = d.type /\ e.going = d.going /\ e.link = d.link
         /\ e.location = d.location /\ e.exits = d.exits /\ e.next = n
         /\ e.contents = [d.contents EXCEPT ![place] = head]
BY DEF Databases, Relisted

(* An exit is put elsewhere. *)
LEMMA ExitMoves ==
  ASSUME NEW d \in Databases, Settled(d), ExitsInOrder(d), NEW x \in Obj, d.type[x] = "exit",
         NEW place, IsPlace(d, place), place # d.exits[x]
  PROVE  Passes(d, MoveExit(d, x, place))
<1> DEFINE src == d.exits[x]
           out == RemoveFirst(d, "exits", src, x)
           in == InsertFirst(out, "exits", place, x)
           e == [in EXCEPT !.exits[x] = place]
           T == Leading(d, src)
           D == Leading(d, place)
<1>1. IsPlace(d, src) /\ src \in Obj /\ place \in Obj
  BY DEF Settled, References, IsPlace, Good
<1>2. MoveExit(d, x, place) = e
  BY DEF MoveExit
<1>3. \A p \in Obj : IsPlace(d, p) => Threaded(d.next, d.exits[p], Leading(d, p))
  BY ExitsThreaded DEF ExitsInOrder
<1>4. x \in T /\ T \subseteq Obj /\ D \subseteq Obj /\ x \notin D /\ D \cap T = {}
  BY <1>1 DEF Leading
<1> HIDE DEF out
<1>5. OnlyExits(d, out, src, T \ {x}) /\ Threaded(out.next, out.exits[src], T \ {x})
  BY <1>1, <1>3, <1>4, RemoveFromExits DEF out
<1>6. Threaded(out.next, out.exits[place], D)
  <2>1. Threaded(d.next, d.exits[place], D)
    BY <1>1, <1>3
  <2>2. \A y \in D : out.next[y] = d.next[y]
    BY <1>4, <1>5 DEF OnlyExits
  <2>3. out.exits[place] = d.exits[place]
    BY <1>1, <1>5 DEF OnlyExits
  <2> QED
    BY <2>1, <2>2, <2>3, ThreadedSame
<1>7. out \in Databases
  BY <1>5 DEF OnlyExits, SameThings
<1> HIDE DEF in
<1>8. OnlyExits(out, in, place, {x}) /\ Threaded(in.next, in.exits[place], D \cup {x})
  <2>1. x \in Obj \ D
    BY <1>4
  <2> HIDE DEF D
  <2> QED
    BY <1>1, <1>6, <1>7, <2>1, InsertIntoExits DEF in
<1>9. in \in Databases
  BY <1>8 DEF OnlyExits, SameThings
<1>10. /\ e \in Databases /\ e.type = in.type /\ e.going = in.going /\ e.link = in.link
       /\ e.contents = in.contents /\ e.location = in.location /\ e.next = in.next
       /\ e.exits = [in.exits EXCEPT ![x] = place]
  <2>1. place \in Dbref
    BY <1>1, ObjFacts
  <2> QED
    BY <1>9, <2>1 DEF Databases
<1> HIDE DEF e
<1>11. /\ e.type = d.type /\ e.link = d.link /\ e.contents = d.contents
       /\ e.location = d.location
  BY <1>5, <1>8, <1>10 DEF OnlyExits, SameThings
<1>12. in.exits \in [Obj -> Dbref]
  BY <1>9 DEF Databases
<1>13. e.exits[x] = place /\ \A y \in Obj : y # x => e.exits[y] = in.exits[y]
  BY <1>10, <1>12
<1>14. \A p : (IsPlace(e, p) <=> IsPlace(d, p)) /\ (Has_location(e, p) <=> Has_location(d, p))
  BY <1>11 DEF IsPlace, Good, Has_location
<1>15. \A y \in Obj \ {src, place, x} : e.exits[y] = d.exits[y]
  BY <1>5, <1>8, <1>13 DEF OnlyExits
<1>16. d.type[src] # "exit" /\ d.type[place] # "exit"
  BY <1>1 DEF IsPlace
<1>17. Settled(e)
  <2>1. \A y \in Obj : Has_location(d, y) => e.next[y] = d.next[y] /\ Somewhere(d, e.link[y])
    <3> SUFFICES ASSUME NEW y \in Obj, Has_location(d, y)
                 PROVE  e.next[y] = d.next[y] /\ Somewhere(d, e.link[y])
      OBVIOUS
    <3>1. y \notin T /\ y # x
      BY DEF Leading, Has_location
    <3>2. e.next[y] = d.next[y]
      BY <1>5, <1>8, <1>10, <3>1 DEF OnlyExits
    <3> QED
      BY <1>11, <3>2 DEF Settled, References
  <2>2. \A y \in Obj : d.type[y] = "exit" => IsPlace(d, e.exits[y])
    <3> SUFFICES ASSUME NEW y \in Obj, d.type[y] = "exit" PROVE IsPlace(d, e.exits[y])
      OBVIOUS
    <3>1. y = x \/ e.exits[y] = d.exits[y]
      BY <1>15, <1>16
    <3> QED
      BY <1>13, <3>1 DEF Settled, References
  <2> QED
    BY <1>10, <1>11, <2>1, <2>2, SettledAgain
<1>18. ASSUME NEW p \in Obj, IsPlace(e, p) PROVE ExitsAgree(e, p)
  <2>1. IsPlace(d, p)
    BY <1>14, <1>18
  <2>2. p # x
    BY <2>1 DEF IsPlace
  <2>3. \A y \in Obj : e.type[y] = "exit" => (e.exits[y] = p <=> IF y = x THEN p = place ELSE d.exits[y] = p)
    BY <1>11, <1>13, <1>15, <1>16
  <2>4. CASE p = place
    <3>1. Leading(e, place) = D \cup {x}
      <4>1. \A y \in Obj : y \in Leading(e, place) <=> y \in D \cup {x}
        BY <1>11, <2>3, <2>4 DEF Leading
      <4>2. Leading(e, place) \subseteq Obj /\ D \cup {x} \subseteq Obj
        BY <1>4 DEF Leading
      <4> QED
        BY <4>1, <4>2
    <3>2. e.exits[place] = in.exits[place]
      BY <1>1, <1>13, <2>2, <2>4
    <3>3. Threaded(e.next, e.exits[place], D \cup {x})
      BY <1>8, <1>10, <3>2
    <3> QED
      BY <1>10, <1>18, <2>4, <3>1, <3>3, ExitsThreaded
  <2>5. CASE p # place
    <3>1. Leading(e, p) = Leading(d, p) \ {x}
      <4>1. \A y \in Obj : y \in Leading(e, p) <=> y \in Leading(d, p) \ {x}
        BY <1>11, <2>3, <2>5 DEF Leading
      <4>2. Leading(e, p) \subseteq Obj /\ Leading(d, p) \subseteq Obj
        BY DEF Leading
      <4> QED
        BY <4>1, <4>2
    <3>2. e.exits[p] = out.exits[p]
      BY <1>8, <1>13, <2>2, <2>5 DEF OnlyExits
    <3>3. Threaded(out.next, out.exits[p], Leading(d, p) \ {x})
      <4>1. CASE p = src
        BY <1>5, <4>1
      <4>2. CASE p # src
        <5>1. Leading(d, p) \ {x} = Leading(d, p) /\ Leading(d, p) \cap T = {}
          BY <4>2 DEF Leading
        <5>2. \A y \in Leading(d, p) : out.next[y] = d.next[y]
          <6>1. Leading(d, p) \subseteq Obj
            BY DEF Leading
          <6> QED
            BY <1>5, <5>1, <6>1 DEF OnlyExits
        <5>3. out.exits[p] = d.exits[p]
          BY <1>5, <4>2 DEF OnlyExits
        <5>4. Threaded(out.next, d.exits[p], Leading(d, p))
          BY <1>3, <2>1, <5>2, ThreadedSame
        <5> QED
          BY <5>1, <5>3, <5>4
      <4> QED
        BY <4>1, <4>2
    <3>4. \A y \in Leading(d, p) \ {x} : e.next[y] = out.next[y]
      <4>1. Leading(d, p) \subseteq Obj
        BY DEF Leading
      <4> QED
        BY <1>8, <1>10, <4>1 DEF OnlyExits
    <3>5. Threaded(e.next, e.exits[p], Leading(e, p))
      BY <3>1, <3>2, <3>3, <3>4, ThreadedSame
    <3> QED
      BY <1>10, <3>5, ExitsThreaded
  <2> QED
    BY <2>4, <2>5
<1>19. Passes(d, e)
  BY <1>10, <1>11, <1>17, <1>18 DEF Passes, ExitsInOrder
<1> QED
  BY <1>2, <1>19

(* @teleport of an exit does the same, unless it puts it back where it is. *)
TeleportedExit(d, out, x, place) ==
  [[out EXCEPT !.next[x] = d.exits[place], !.exits[place] = x] EXCEPT !.exits[x] = place]

LEMMA ExitTeleports ==
  ASSUME NEW d \in Databases, Settled(d), ExitsInOrder(d), NEW x \in Obj, d.type[x] = "exit",
         NEW place, IsPlace(d, place), NEW e,
         e = TeleportedExit(d, RemoveFirst(d, "exits", d.exits[x], x), x, place)
  PROVE  /\ e \in Databases /\ Settled(e) /\ e.type = d.type
         /\ place # d.exits[x] => Passes(d, e)
<1> DEFINE src == d.exits[x]
           out == RemoveFirst(d, "exits", src, x)
           T == Leading(d, src)
<1>1. IsPlace(d, src) /\ src \in Obj /\ place \in Obj /\ place # x /\ x \in T /\ T \subseteq Obj
  BY DEF Settled, References, IsPlace, Good, Leading
<1>2. OnlyExits(d, out, src, T \ {x})
  <2>1. Threaded(d.next, d.exits[src], T)
    BY <1>1, ExitsThreaded DEF ExitsInOrder
  <2> QED
    BY <1>1, <2>1, RemoveFromExits
<1> HIDE DEF out
<1>3. out \in Databases
  BY <1>2 DEF OnlyExits, SameThings
<1>4. CASE place # src
  <2>1. out.exits[place] = d.exits[place]
    BY <1>1, <1>2, <1>4 DEF OnlyExits
  <2>2. out["exits"] = out.exits
    BY <1>3 DEF Databases
  <2>3. InsertFirst(out, "exits", place, x)
          = [out EXCEPT !.next[x] = d.exits[place], !.exits[place] = x]
    BY <2>1, <2>2 DEF InsertFirst
  <2>4. e = MoveExit(d, x, place)
    BY <2>3 DEF MoveExit, TeleportedExit, out
  <2>5. Passes(d, e)
    BY <1>4, <2>4, ExitMoves
  <2> QED
    BY <2>5 DEF Passes
<1>5. CASE place = src
  <2>1. e = [[out EXCEPT !.next[x] = d.exits[place], !.exits[place] = x] EXCEPT !.exits[x] = place]
    BY DEF TeleportedExit, out
  <2>2. d.exits[place] \in Dbref /\ place \in Dbref /\ x \in Dbref
    BY <1>1, ObjFacts DEF Databases
  <2>3. /\ e \in Databases /\ e.type = out.type /\ e.going = out.going /\ e.link = out.link
        /\ e.contents = out.contents /\ e.location = out.location
        /\ e.next = [out.next EXCEPT ![x] = d.exits[place]]
        /\ e.exits = [[out.exits EXCEPT ![place] = x] EXCEPT ![x] = place]
    <3> DEFINE in == [out EXCEPT !.next[x] = d.exits[place], !.exits[place] = x]
    <3>1. /\ in \in Databases /\ in.type = out.type /\ in.going = out.going /\ in.link = out.link
          /\ in.contents = out.contents /\ in.location = out.location
          /\ in.next = [out.next EXCEPT ![x] = d.exits[place]]
          /\ in.exits = [out.exits EXCEPT ![place] = x]
      BY <1>1, <1>3, <2>2 DEF Databases
    <3>2. e = [in EXCEPT !.exits[x] = place]
      BY <2>1
    <3> HIDE DEF in
    <3>3. /\ e \in Databases /\ e.type = in.type /\ e.going = in.going /\ e.link = in.link
          /\ e.contents = in.contents /\ e.location = in.location
          /\ e.next = in.next /\ e.exits = [in.exits EXCEPT ![x] = place]
      BY <2>2, <3>1, <3>2 DEF Databases
    <3> QED
      BY <3>1, <3>3
  <2>4. out.next \in [Obj -> Dbref] /\ out.exits \in [Obj -> Dbref]
    BY <1>3 DEF Databases
  <2>5. e.type = d.type /\ e.link = d.link /\ e.contents = d.contents /\ e.location = d.location
    BY <1>2, <2>3 DEF OnlyExits, SameThings
  <2>6. \A y \in Obj : Has_location(d, y) => e.next[y] = d.next[y] /\ Somewhere(d, e.link[y])
    <3> SUFFICES ASSUME NEW y \in Obj, Has_location(d, y)
                 PROVE  e.next[y] = d.next[y] /\ Somewhere(d, e.link[y])
      OBVIOUS
    <3>1. y \notin T /\ y # x
      BY DEF Leading, Has_location
    <3>2. e.next[y] = d.next[y]
      BY <1>2, <2>3, <2>4, <3>1 DEF OnlyExits
    <3> QED
      BY <2>5, <3>2 DEF Settled, References
  <2>7. \A y \in Obj : d.type[y] = "exit" => IsPlace(d, e.exits[y])
    <3> SUFFICES ASSUME NEW y \in Obj, d.type[y] = "exit" PROVE IsPlace(d, e.exits[y])
      OBVIOUS
    <3>1. e.exits[x] = place
      BY <2>3, <2>4
    <3>2. d.type[src] # "exit"
      BY <1>1 DEF IsPlace
    <3>3. y # x => y # place /\ y # src
      BY <1>5, <3>2
    <3>4. y # x => e.exits[y] = d.exits[y]
      BY <1>2, <2>3, <2>4, <3>3 DEF OnlyExits
    <3> QED
      BY <3>1, <3>4 DEF Settled, References
  <2> HIDE DEF T
  <2>8. Settled(e)
    BY <2>3, <2>5, <2>6, <2>7, SettledAgain
  <2> QED
    BY <1>5, <2>3, <2>5, <2>8
<1> QED
  BY <1>4, <1>5

(* reverse_list, of contents. *)
LEMMA ContentsReversed ==
  ASSUME NEW d \in Databases, Settled(d), NEW place \in Obj, IsPlace(d, place)
  PROVE  Passes(d, Backwards(d, place))
<1> DEFINE head == d.contents[place]
           s == Walk(d.next, head)
           m == Len(s)
           at(x) == CHOOSE k \in DOMAIN s : s[k] = x
           turned == [x \in Obj |-> IF x \notin Range(s) THEN d.next[x]
                                    ELSE IF at(x) = 1 THEN NOTHING ELSE s[at(x) - 1]]
           e == Backwards(d, place)
           S == Inside(d, place)
<1>1. d.next \in [Obj -> Dbref] /\ d.contents \in [Obj -> Dbref] /\ head \in Dbref /\ S \subseteq Obj
  BY DEF Databases, Inside
<1>2. Threaded(d.next, head, S)
  BY ContentsThreaded DEF Settled, ContentsInOrder
<1>3. s \in Seq(Obj) /\ Range(s) = S /\ IsInjective(s) /\ (s = <<>> <=> head = NOTHING)
  BY <1>1, <1>2, ThreadedWalk
<1>4. CASE head = NOTHING
  <2>1. e = d
    BY <1>3, <1>4 DEF Backwards
  <2> QED
    BY <2>1 DEF Passes
<1>5. CASE head # NOTHING
  <2>1. e = [d EXCEPT !.contents[place] = s[m], !.next = turned]
    BY <1>3, <1>5 DEF Backwards
  <2> HIDE DEF s
  <2>2. m \in Nat /\ m > 0 /\ DOMAIN s = 1..m /\ s[m] \in Obj
    BY <1>3, <1>5
  <2>3. \A k \in 1..m : s[k] \in Range(s) /\ at(s[k]) = k
    <3> SUFFICES ASSUME NEW k \in 1..m PROVE s[k] \in Range(s) /\ at(s[k]) = k
      OBVIOUS
    <3>1. s[k] \in Range(s)
      BY <2>2 DEF Range
    <3>2. at(s[k]) \in DOMAIN s /\ s[at(s[k])] = s[k]
      BY <2>2
    <3> HIDE DEF at
    <3> QED
      BY <1>3, <2>2, <3>1, <3>2 DEF IsInjective
  <2>4. \A x \in Range(s) : at(x) \in 1..m /\ s[at(x)] = x
    <3> SUFFICES ASSUME NEW x \in Range(s) PROVE at(x) \in 1..m /\ s[at(x)] = x
      OBVIOUS
    <3>1. \E k \in DOMAIN s : s[k] = x
      BY DEF Range
    <3> QED
      BY <2>2, <3>1
  <2> HIDE DEF at
  <2>5. turned \in [Obj -> Dbref]
    <3> SUFFICES ASSUME NEW x \in Obj PROVE turned[x] \in Dbref
      OBVIOUS
    <3>1. CASE x \notin Range(s)
      BY <1>1, <3>1
    <3>2. CASE x \in Range(s)
      <4>1. at(x) = 1 \/ s[at(x) - 1] \in Obj
        <5>1. at(x) = 1 \/ at(x) - 1 \in 1..m
          BY <2>2, <2>4, <3>2
        <5> QED
          BY <1>3, <5>1
      <4> QED
        BY <3>2, <4>1, ObjFacts
    <3> QED
      BY <3>1, <3>2
  <2>6. \A k \in 1..m : turned[s[k]] = IF k = 1 THEN NOTHING ELSE s[k - 1]
    <3> SUFFICES ASSUME NEW k \in 1..m PROVE turned[s[k]] = IF k = 1 THEN NOTHING ELSE s[k - 1]
      OBVIOUS
    <3>1. s[k] \in Obj /\ s[k] \in Range(s) /\ at(s[k]) = k
      BY <1>3, <2>3
    <3> QED
      BY <3>1
  <2>7. \A x \in Obj \ S : turned[x] = d.next[x]
    BY <1>3
  <2> HIDE DEF turned
  <2>8. head \in Obj
    BY <1>1, <1>5 DEF Dbref
  <2>9. Threaded(turned, s[m], S)
    BY <1>1, <1>2, <2>6, <2>8, ThreadedReversed DEF s
  <2>10. /\ e \in Databases /\ e.type = d.type /\ e.going = d.going /\ e.link = d.link
         /\ e.location = d.location /\ e.exits = d.exits
         /\ e.next = turned /\ e.contents = [d.contents EXCEPT ![place] = s[m]]
    <3> DEFINE last == s[m]
    <3>1. last \in Dbref
      BY <2>2, ObjFacts
    <3>2. e = Relisted(d, place, last, turned)
      BY <2>1 DEF Relisted
    <3> HIDE DEF last, e
    <3>3. /\ e \in Databases /\ e.type = d.type /\ e.going = d.going /\ e.link = d.link
          /\ e.location = d.location /\ e.exits = d.exits
          /\ e.next = turned /\ e.contents = [d.contents EXCEPT ![place] = last]
      BY <2>5, <3>1, <3>2, NewContents
    <3> QED
      BY <3>3 DEF last
  <2> HIDE DEF e, m
  <2>11. \A p : (IsPlace(e, p) <=> IsPlace(d, p)) /\ (Has_location(e, p) <=> Has_location(d, p))
    BY <2>10 DEF IsPlace, Good, Has_location
  <2>12. References(e)
    BY <2>10, <2>11 DEF Settled, References, Somewhere
  <2>13. ASSUME NEW p \in Obj, IsPlace(e, p) PROVE ContentsAgree(e, p)
    <3>1. Inside(e, p) = Inside(d, p)
      BY <2>10, <2>11 DEF Inside
    <3>2. CASE p = place
      <4>1. e.contents[p] = s[m]
        BY <1>1, <2>10, <3>2
      <4>2. Threaded(e.next, e.contents[p], Inside(e, p))
        BY <2>9, <2>10, <3>1, <3>2, <4>1
      <4> QED
        BY <2>10, <4>2, ContentsThreaded
    <3>3. CASE p # place
      <4>1. e.contents[p] = d.contents[p]
        BY <1>1, <2>10, <3>3
      <4>2. Threaded(d.next, d.contents[p], Inside(d, p))
        BY <2>11, <2>13, ContentsThreaded DEF Settled, ContentsInOrder
      <4>3. \A y \in Inside(d, p) : y \in Obj \ S
        BY <3>3 DEF Inside
      <4>4. Threaded(e.next, d.contents[p], Inside(d, p))
        <5>1. \A y \in Inside(d, p) : e.next[y] = d.next[y]
          BY <2>7, <2>10, <4>3
        <5> QED
          BY <4>2, <5>1, ThreadedSame
      <4> QED
        BY <2>10, <3>1, <4>1, <4>4, ContentsThreaded
    <3> QED
      BY <3>2, <3>3
  <2>14. ExitsInOrder(d) => ExitsInOrder(e)
    <3>1. \A y \in Obj : d.type[y] = "exit" => y \in Obj \ S
      BY DEF Inside, Has_location
    <3>2. \A y \in Obj : d.type[y] = "exit" => e.next[y] = d.next[y]
      BY <2>7, <2>10, <3>1
    <3> QED
      BY <2>10, <3>2, ExitsAgain
  <2> QED
    BY <2>10, <2>12, <2>13, <2>14 DEF Passes, Settled, ContentsInOrder, e
<1> QED
  BY <1>4, <1>5

-----------------------------------------------------------------------------
(***************************************************************************)
(* The inductive invariant: the database is settled, and every frame that  *)
(* is left to be gone on with holds a thing that can be moved, a place to  *)
(* go to or where a loop over contents is.                                 *)
(***************************************************************************)
Proper(d) == {f \in Frames : Fits(d, f)}

(* Nothing is destroyed on the spot in this game.                          *)
Spares == "@destroy/instant" \notin ops

MoveBooks ==
  /\ db \in Databases /\ Settled(db)
  /\ stack \in Seq(Proper(db))
  /\ hooked \in 0..MaxHooked
  /\ Spares

LEMMA ProperStill ==
  ASSUME NEW d, NEW e, d.type = e.type
  PROVE  Proper(d) = Proper(e)
BY DEF Proper, Fits, Has_location, IsPlace, Good, Member

LEMMA OneFrame ==
  ASSUME NEW d, NEW op, NEW x, NEW y, Frame(op, x, y) \in Frames, Fits(d, Frame(op, x, y))
  PROVE  <<Frame(op, x, y)>> \in Seq(Proper(d))
<1>1. Frame(op, x, y) \in Proper(d)
  BY DEF Proper
<1> QED
  BY <1>1

LEMMA MoveFrames ==
  ASSUME NEW d, NEW x \in Obj, Has_location(d, x), NEW to, IsPlace(d, to)
  PROVE  /\ <<Frame("leaving", x, to)>> \in Seq(Proper(d))
         /\ <<Frame("moving", x, to)>> \in Seq(Proper(d))
         /\ <<Frame("arrived", x, NOTHING)>> \in Seq(Proper(d))
<1>1. x \in Dbref /\ to \in Dbref /\ NOTHING \in Dbref
  BY ObjFacts DEF IsPlace, Good
<1>2. Frame("leaving", x, to) \in Frames /\ Fits(d, Frame("leaving", x, to))
  BY <1>1 DEF Frame, Frames, FrameOps, Fits
<1>3. Frame("moving", x, to) \in Frames /\ Fits(d, Frame("moving", x, to))
  BY <1>1 DEF Frame, Frames, FrameOps, Fits
<1>4. Frame("arrived", x, NOTHING) \in Frames /\ Fits(d, Frame("arrived", x, NOTHING))
  BY <1>1 DEF Frame, Frames, FrameOps, Fits
<1> QED
  BY <1>2, <1>3, <1>4, OneFrame

LEMMA GenericFrames ==
  ASSUME NEW d, Settled(d), NEW x \in Obj, Has_location(d, x),
         NEW dest, dest = HOME \/ IsPlace(d, dest)
  PROVE  move_via_generic(d, x, dest) \in Seq(Proper(d))
<1> DEFINE to == Destination(d, x, dest)
<1>1. CASE dest = HOME /\ ~Good(d, to)
  BY <1>1 DEF move_via_generic
<1>2. CASE ~(dest = HOME /\ ~Good(d, to))
  <2>1. IsPlace(d, to)
    <3>1. CASE dest = HOME
      <4>1. to = d.link[x] /\ Somewhere(d, d.link[x]) /\ Good(d, to)
        BY <1>2, <3>1 DEF Destination, Settled, References
      <4> QED
        BY <4>1, ObjFacts DEF Somewhere, Good
    <3>2. CASE dest # HOME
      BY <3>2 DEF Destination
    <3> QED
      BY <3>1, <3>2
  <2>2. move_via_generic(d, x, dest) \in
          {<<Frame("leaving", x, to)>>, <<Frame("moving", x, to)>>}
    BY <1>2 DEF move_via_generic
  <2> HIDE DEF to
  <2> QED
    BY <2>1, <2>2, MoveFrames
<1> QED
  BY <1>1, <1>2

LEMMA ObjectFrames ==
  ASSUME NEW d, NEW x \in Obj, Has_location(d, x)
  PROVE  /\ divest_object(x) \in Seq(Proper(d))
         /\ <<Frame("dropped", x, NOTHING)>> \in Seq(Proper(d))
<1>1. x \in Dbref /\ NOTHING \in Dbref
  BY ObjFacts
<1>2. Frame("divest", x, NOTHING) \in Frames /\ Fits(d, Frame("divest", x, NOTHING))
  BY <1>1 DEF Frame, Frames, FrameOps, Fits
<1>3. Frame("dropped", x, NOTHING) \in Frames /\ Fits(d, Frame("dropped", x, NOTHING))
  BY <1>1 DEF Frame, Frames, FrameOps, Fits
<1> QED
  BY <1>2, <1>3, OneFrame DEF divest_object

LEMMA StickyFrames ==
  ASSUME NEW d, NEW place, IsPlace(d, place)
  PROVE  process_sticky_dropto(place) \in Seq(Proper(d))
<1>1. place \in Dbref /\ NOTHING \in Dbref
  BY ObjFacts DEF IsPlace, Good
<1>2. Frame("sticky", place, NOTHING) \in Frames /\ Fits(d, Frame("sticky", place, NOTHING))
  BY <1>1 DEF Frame, Frames, FrameOps, Fits
<1> QED
  BY <1>2, OneFrame DEF process_sticky_dropto

LEMMA LoopFrames ==
  ASSUME NEW d, NEW x \in Dbref, NEW y, Member(d, y)
  PROVE  /\ <<Frame("keys", x, y)>> \in Seq(Proper(d))
         /\ <<Frame("sweep", x, y)>> \in Seq(Proper(d))
<1>1. y \in Dbref
  BY ObjFacts DEF Member
<1>2. Frame("keys", x, y) \in Frames /\ Fits(d, Frame("keys", x, y))
  BY <1>1 DEF Frame, Frames, FrameOps, Fits
<1>3. Frame("sweep", x, y) \in Frames /\ Fits(d, Frame("sweep", x, y))
  BY <1>1 DEF Frame, Frames, FrameOps, Fits
<1> QED
  BY <1>2, <1>3, OneFrame

LEMMA Joined ==
  ASSUME NEW T, NEW f \in Seq(T), NEW g \in Seq(T)
  PROVE  f \o g \in Seq(T)
OBVIOUS

LEMMA DroptoFrames ==
  ASSUME NEW d \in Databases, Settled(d), NEW x \in Obj, Has_location(d, x)
  PROVE  send_dropto(d, x) \in Seq(Proper(d))
<1> DEFINE dropto == IF d.location[x] = NOTHING THEN NOTHING ELSE d.location[d.location[x]]
           dest == IF x \notin Sticky /\ Good(d, dropto) THEN dropto ELSE HOME
<1>1. IsPlace(d, d.location[x]) /\ d.location[x] \in Obj /\ d.location[x] # NOTHING
  BY ObjFacts DEF Settled, References, IsPlace, Good
<1>2. Somewhere(d, dropto)
  <2>1. dropto = d.location[d.location[x]]
    BY <1>1
  <2>2. CASE Has_location(d, d.location[x])
    BY <1>1, <2>1, <2>2 DEF Settled, References, Somewhere
  <2>3. CASE d.type[d.location[x]] = "room"
    BY <1>1, <2>1, <2>3 DEF Settled, References
  <2>4. CASE ~Has_location(d, d.location[x]) /\ d.type[d.location[x]] # "room"
    <3>1. FALSE
      <4>1. d.type[d.location[x]] \in Types
        BY <1>1 DEF Databases
      <4> QED
        BY <1>1, <2>4, <4>1 DEF IsPlace, Good, Has_location, Types
    <3> QED
      BY <3>1
  <2> QED
    BY <2>2, <2>3, <2>4
<1>3. dest = HOME \/ IsPlace(d, dest)
  BY <1>2, ObjFacts DEF Somewhere, Good
<1>4. send_dropto(d, x) = move_via_generic(d, x, dest) \o divest_object(x)
  BY DEF send_dropto
<1> HIDE DEF dest
<1> QED
  BY <1>3, <1>4, GenericFrames, ObjectFrames, Joined

-----------------------------------------------------------------------------
(***************************************************************************)
(* Steps.                                                                  *)
(***************************************************************************)
(* The invariant is kept, and so are the lists of exits if they agree.     *)
Keeps == MoveBooks' /\ (ExitsInOrder(db) => ExitsInOrder(db'))

LEMMA GiveKeeps ==
  ASSUME MoveBooks, NEW command, NEW d, NEW frames, Give(command, d, frames),
         d \in Databases, Settled(d), d.type = db.type, frames \in Seq(Proper(db))
  PROVE  MoveBooks'
<1>1. db' = d /\ stack' = frames \o stack /\ ops' = ops
  BY DEF Give
<1>2. stack' \in Seq(Proper(db))
  BY <1>1, Joined DEF MoveBooks
<1>3. stack' \in Seq(Proper(db'))
  BY <1>1, <1>2, ProperStill
<1>4. hooked' \in 0..MaxHooked
  BY MovementAssumption DEF Give, MoveBooks
<1> QED
  BY <1>1, <1>3, <1>4 DEF MoveBooks, Spares

LEMMA GivePasses ==
  ASSUME MoveBooks, NEW command, NEW d, NEW frames, Give(command, d, frames),
         Passes(db, d), frames \in Seq(Proper(db))
  PROVE  Keeps
<1>1. db' = d /\ d \in Databases /\ Settled(d) /\ d.type = db.type
  BY DEF Give, Passes
<1>2. MoveBooks'
  BY <1>1, GiveKeeps
<1> QED
  BY <1>1, <1>2 DEF Passes, Keeps

LEMMA ThenPasses ==
  ASSUME MoveBooks, stack # <<>>, NEW d, NEW frames, Then(d, frames),
         Passes(db, d), frames \in Seq(Proper(db))
  PROVE  Keeps
<1>1. db' = d /\ stack' = frames \o Rest /\ hooked' = hooked /\ ops' = ops
  BY DEF Then
<1>2. Rest \in Seq(Proper(db))
  <2>1. stack \in Seq(Proper(db))
    BY DEF MoveBooks
  <2> HIDE DEF MoveBooks
  <2> QED
    BY <2>1 DEF Rest
<1>3. stack' \in Seq(Proper(db))
  BY <1>1, <1>2, Joined
<1>4. stack' \in Seq(Proper(db'))
  BY <1>1, <1>3, ProperStill DEF Passes
<1> QED
  BY <1>1, <1>4 DEF MoveBooks, Spares, Passes, Keeps

LEMMA PassesItself ==
  ASSUME MoveBooks
  PROVE  Passes(db, db)
BY DEF MoveBooks, Passes

(* The frame that is gone on with.                                         *)
LEMMA TopFits ==
  ASSUME MoveBooks, stack # <<>>
  PROVE  Top \in Frames /\ Fits(db, Top)
<1>1. stack \in Seq(Proper(db))
  BY DEF MoveBooks
<1>2. Head(stack) \in Proper(db)
  BY <1>1
<1> QED
  BY <1>2 DEF Proper, Top

LEMMA NoFrames == ASSUME NEW d PROVE <<>> \in Seq(Proper(d))
OBVIOUS

LEMMA LocIsPlace ==
  ASSUME MoveBooks, NEW x \in Obj, Movable(x)
  PROVE  Has_location(db, x) /\ IsPlace(db, x) /\ IsPlace(db, Loc(x)) /\ Loc(x) \in Obj
BY DEF MoveBooks, Settled, References, Movable, Loc, IsPlace, Good, Has_location

LEMMA GoHomeKeeps ==
  ASSUME MoveBooks, NEW p \in Obj, GoHome(p)
  PROVE  Keeps
<1> DEFINE frames == move_via_generic(db, p, HOME) \o divest_object(p) \o process_sticky_dropto(Loc(p))
<1>1. Has_location(db, p) /\ IsPlace(db, Loc(p)) /\ Settled(db)
  BY LocIsPlace DEF GoHome, Acts, MoveBooks
<1>2. move_via_generic(db, p, HOME) \in Seq(Proper(db))
  BY <1>1, GenericFrames
<1>3. frames \in Seq(Proper(db))
  BY <1>1, <1>2, ObjectFrames, StickyFrames, Joined
<1>4. Give("home", db, frames)
  BY DEF GoHome
<1> HIDE DEF frames
<1> QED
  BY <1>3, <1>4, PassesItself, GivePasses

LEMMA GetKeeps ==
  ASSUME MoveBooks, NEW p \in Obj, NEW x \in Obj, Get(p, x)
  PROVE  Keeps
<1>1. Has_location(db, x) /\ IsPlace(db, p) /\ Settled(db)
  BY LocIsPlace DEF Get, Acts, MoveBooks
<1>2. move_via_generic(db, x, p) \in Seq(Proper(db))
  BY <1>1, GenericFrames
<1>3. Give("get", db, move_via_generic(db, x, p))
  BY DEF Get
<1> QED
  BY <1>2, <1>3, PassesItself, GivePasses

LEMMA DropKeeps ==
  ASSUME MoveBooks, NEW p \in Obj, NEW x \in Obj, Drop(p, x)
  PROVE  Keeps
<1> DEFINE frames == move_via_generic(db, x, Loc(p)) \o <<Frame("dropped", x, NOTHING)>>
<1>1. Has_location(db, x) /\ IsPlace(db, Loc(p)) /\ Settled(db)
  BY LocIsPlace DEF Drop, Acts, MoveBooks
<1>2. move_via_generic(db, x, Loc(p)) \in Seq(Proper(db))
  BY <1>1, GenericFrames
<1>3. frames \in Seq(Proper(db))
  BY <1>1, <1>2, ObjectFrames, Joined
<1>4. Give("drop", db, frames)
  BY DEF Drop
<1> HIDE DEF frames
<1> QED
  BY <1>3, <1>4, PassesItself, GivePasses

LEMMA EnterKeeps ==
  ASSUME MoveBooks, NEW p \in Obj, NEW x \in Obj, Enter(p, x)
  PROVE  Keeps
<1> DEFINE frames == move_via_generic(db, p, x) \o divest_object(p) \o process_sticky_dropto(Loc(p))
<1>1. Has_location(db, p) /\ IsPlace(db, Loc(p)) /\ IsPlace(db, x) /\ Settled(db)
  BY LocIsPlace DEF Enter, Acts, MoveBooks
<1>2. move_via_generic(db, p, x) \in Seq(Proper(db))
  BY <1>1, GenericFrames
<1>3. frames \in Seq(Proper(db))
  BY <1>1, <1>2, ObjectFrames, StickyFrames, Joined
<1>4. Give("enter", db, frames)
  BY DEF Enter
<1> HIDE DEF frames
<1> QED
  BY <1>3, <1>4, PassesItself, GivePasses

LEMMA LeaveKeeps ==
  ASSUME MoveBooks, NEW p \in Obj, Leave(p)
  PROVE  Keeps
<1>1. Has_location(db, p) /\ IsPlace(db, Loc(p)) /\ Loc(p) \in Obj /\ Settled(db) /\ db \in Databases
  BY LocIsPlace DEF Leave, Acts, MoveBooks
<1>2. Has_location(db, Loc(p))
  <2>1. db.type[Loc(p)] \in Types /\ db.type[Loc(p)] # "room"
    BY <1>1 DEF Databases, Leave
  <2> QED
    BY <1>1, <2>1 DEF IsPlace, Good, Has_location, Types
<1>3. IsPlace(db, Loc(Loc(p)))
  BY <1>1, <1>2 DEF Settled, References, Loc
<1>4. move_via_generic(db, p, Loc(Loc(p))) \in Seq(Proper(db))
  BY <1>1, <1>3, GenericFrames
<1>5. Give("leave", db, move_via_generic(db, p, Loc(Loc(p))))
  BY DEF Leave
<1> QED
  BY <1>4, <1>5, PassesItself, GivePasses

LEMMA UseExitKeeps ==
  ASSUME MoveBooks, NEW p \in Obj, NEW e \in Obj, UseExit(p, e)
  PROVE  Keeps
<1> DEFINE dest == Loc(e)
           last == IF db.type[dest] = "room" THEN <<>> ELSE divest_object(p)
           frames == <<Frame("leaving", p, dest)>> \o process_sticky_dropto(Loc(p)) \o last
<1>1. Has_location(db, p) /\ IsPlace(db, Loc(p))
  BY LocIsPlace DEF UseExit, Acts
<1>2. IsPlace(db, dest)
  BY DEF UseExit, IsPlace
<1>3. Give("exit", db, frames)
  BY DEF UseExit
<1>4. last \in Seq(Proper(db))
  BY <1>1, ObjectFrames
<1> HIDE DEF dest, last
<1>5. frames \in Seq(Proper(db))
  BY <1>1, <1>2, <1>4, MoveFrames, StickyFrames, Joined
<1> HIDE DEF frames
<1> QED
  BY <1>3, <1>5, PassesItself, GivePasses

LEMMA TeleportKeeps ==
  ASSUME MoveBooks, NEW x \in Obj, NEW dest, Teleport(x, dest)
  PROVE  Keeps
<1> DEFINE to == Destination(db, x, dest)
           frames == <<Frame("leaving", x, to)>> \o divest_object(x) \o process_sticky_dropto(Loc(x))
<1>1. Has_location(db, x) /\ IsPlace(db, Loc(x)) /\ Settled(db)
  BY LocIsPlace DEF Teleport, MoveBooks
<1>2. Give("teleport", db, frames) /\ Good(db, to)
  BY DEF Teleport
<1>3. IsPlace(db, to)
  <2>1. CASE dest = HOME
    <3>1. to = db.link[x] /\ Somewhere(db, db.link[x])
      BY <1>1, <2>1 DEF Destination, Settled, References
    <3> QED
      BY <1>2, <3>1, ObjFacts DEF Somewhere, Good
  <2>2. CASE dest # HOME
    BY <2>2 DEF Destination, Teleport, IsPlace
  <2> QED
    BY <2>1, <2>2
<1> HIDE DEF to
<1>4. frames \in Seq(Proper(db))
  BY <1>1, <1>3, MoveFrames, ObjectFrames, StickyFrames, Joined
<1> HIDE DEF frames
<1> QED
  BY <1>2, <1>4, PassesItself, GivePasses

LEMMA NotDestroying ==
  ASSUME MoveBooks
  PROVE  ~Destroying /\ (ExitListsAgree <=> ExitsInOrder(db))
<1>1. stack \in Seq(Proper(db))
  BY DEF MoveBooks
<1>2. ASSUME NEW i \in DOMAIN stack
      PROVE  stack[i].op \notin {"empty", "flush", "settle", "unexit", "destroy"}
  <2>1. stack[i] \in Proper(db)
    BY <1>1, <1>2
  <2> QED
    BY <2>1 DEF Proper, Fits
<1>3. ~Destroying
  BY <1>2 DEF Destroying
<1> QED
  BY <1>3 DEF ExitListsAgree, ExitsInOrder

LEMMA CarryExitKeeps ==
  ASSUME MoveBooks, NEW e \in Obj, NEW place \in Obj, CarryExit(e, place)
  PROVE  Keeps
<1>1. /\ db.type[e] = "exit" /\ IsPlace(db, place) /\ db.exits[e] # place /\ ExitListsAgree
      /\ Give("carry", MoveExit(db, e, place), <<>>)
  BY DEF CarryExit
<1>2. ExitsInOrder(db) /\ db \in Databases /\ Settled(db)
  BY <1>1, NotDestroying DEF MoveBooks
<1>3. Passes(db, MoveExit(db, e, place))
  BY <1>1, <1>2, ExitMoves
<1> QED
  BY <1>1, <1>3, NoFrames, GivePasses

LEMMA TeleportExitKeeps ==
  ASSUME MoveBooks, NEW e \in Obj, NEW place \in Obj, TeleportExit(e, place)
  PROVE  MoveBooks' /\ (place # db.exits[e] => Keeps)
<1> DEFINE out == RemoveFirst(db, "exits", db.exits[e], e)
           d == TeleportedExit(db, out, e, place)
<1>1. /\ db.type[e] = "exit" /\ IsPlace(db, place) /\ ExitListsAgree
      /\ Give("@teleport exit", d, <<>>)
  BY DEF TeleportExit, TeleportedExit
<1>2. ExitsInOrder(db) /\ db \in Databases /\ Settled(db)
  BY <1>1, NotDestroying DEF MoveBooks
<1>3. /\ d \in Databases /\ Settled(d) /\ d.type = db.type
      /\ place # db.exits[e] => Passes(db, d)
  BY <1>1, <1>2, ExitTeleports
<1> HIDE DEF d
<1>4. MoveBooks'
  BY <1>1, <1>3, NoFrames, GiveKeeps
<1>5. place # db.exits[e] => Keeps
  BY <1>1, <1>3, NoFrames, GivePasses
<1> QED
  BY <1>4, <1>5

LEMMA LinkKeeps ==
  ASSUME MoveBooks, NEW p \in Obj, NEW x \in Obj, NEW home \in Obj, Link(p, x, home)
  PROVE  Keeps
<1> DEFINE d == [db EXCEPT !.link[x] = home]
<1>1. IsPlace(db, home) /\ Give("@link", d, <<>>)
  BY DEF Link, can_set_home, IsPlace
<1>2. db \in Databases /\ Settled(db) /\ home \in Dbref
  BY ObjFacts DEF MoveBooks
<1>3. /\ d \in Databases /\ d.type = db.type /\ d.location = db.location
      /\ d.contents = db.contents /\ d.exits = db.exits /\ d.next = db.next
      /\ d.link = [db.link EXCEPT ![x] = home]
  BY <1>2 DEF Databases
<1> HIDE DEF d
<1>4. \A y \in Obj : Has_location(db, y) => d.next[y] = db.next[y] /\ Somewhere(db, d.link[y])
  <2>1. db.link \in [Obj -> Dbref]
    BY <1>2 DEF Databases
  <2> QED
    BY <1>1, <1>2, <1>3, <2>1 DEF Settled, References, Somewhere
<1>5. \A y \in Obj : db.type[y] = "exit" => IsPlace(db, d.exits[y])
  BY <1>2, <1>3 DEF Settled, References
<1>6. Settled(d)
  BY <1>2, <1>3, <1>4, <1>5, SettledAgain
<1>7. ExitsInOrder(db) => ExitsInOrder(d)
  BY <1>2, <1>3, ExitsAgain
<1> QED
  BY <1>1, <1>3, <1>6, <1>7, NoFrames, GivePasses DEF Passes

LEMMA DestroyLaterKeeps ==
  ASSUME MoveBooks, NEW p \in Obj, NEW x \in Obj, DestroyLater(p, x)
  PROVE  Keeps
<1> DEFINE d == [db EXCEPT !.going = @ \cup {x}]
<1>1. Give("@destroy", d, <<>>)
  BY DEF DestroyLater
<1>2. db \in Databases /\ Settled(db)
  BY DEF MoveBooks
<1>3. /\ d \in Databases /\ d.type = db.type /\ d.location = db.location
      /\ d.contents = db.contents /\ d.exits = db.exits /\ d.next = db.next
      /\ d.link = db.link
  BY <1>2 DEF Databases
<1> HIDE DEF d
<1>4. \A y \in Obj : Has_location(db, y) => d.next[y] = db.next[y] /\ Somewhere(db, d.link[y])
  BY <1>2, <1>3 DEF Settled, References
<1>5. \A y \in Obj : db.type[y] = "exit" => IsPlace(db, d.exits[y])
  BY <1>2, <1>3 DEF Settled, References
<1>6. Settled(d)
  BY <1>2, <1>3, <1>4, <1>5, SettledAgain
<1>7. ExitsInOrder(db) => ExitsInOrder(d)
  BY <1>2, <1>3, ExitsAgain
<1> QED
  BY <1>1, <1>3, <1>6, <1>7, NoFrames, GivePasses DEF Passes

LEMMA DestroyNowNever ==
  ASSUME MoveBooks, NEW p \in Obj, NEW x \in Obj, DestroyNow(p, x)
  PROVE  FALSE
BY DEF MoveBooks, Spares, DestroyNow, Give

(* An object is moved where its frame says. *)
LEMMA MoveOnKeeps ==
  ASSUME MoveBooks, MoveOn
  PROVE  Keeps
<1> DEFINE d == MoveObject(db, Top.x, Top.y)
           frames == <<Frame("arrived", Top.x, NOTHING)>>
<1>1. stack # <<>> /\ Top.op \in {"leaving", "moving"} /\ Then(d, frames)
  BY DEF MoveOn, At
<1>2. Top.x \in Obj /\ Has_location(db, Top.x) /\ IsPlace(db, Top.y)
  BY <1>1, TopFits DEF Fits
<1>3. Passes(db, d)
  BY <1>2, ObjectMoves DEF MoveBooks
<1>4. frames \in Seq(Proper(db))
  BY <1>2, MoveFrames
<1> HIDE DEF d, frames
<1> QED
  BY <1>1, <1>3, <1>4, ThenPasses

LEMMA ArriveKeeps ==
  ASSUME MoveBooks, Arrive
  PROVE  Keeps
BY PassesItself, NoFrames, ThenPasses DEF Arrive, At

LEMMA DivestKeeps ==
  ASSUME MoveBooks, Divest
  PROVE  Keeps
<1>1. stack # <<>> /\ Top.op = "divest" /\ Then(db, <<Frame("keys", Top.x, db.contents[Top.x])>>)
  BY DEF Divest, At
<1>2. Top.x \in Obj /\ Has_location(db, Top.x) /\ Top.x \in Dbref
  BY <1>1, TopFits, ObjFacts DEF Fits
<1>3. Member(db, db.contents[Top.x])
  <2>1. IsPlace(db, Top.x)
    BY <1>2 DEF IsPlace, Good, Has_location
  <2> QED
    BY <1>2, <2>1, MembersNext DEF MoveBooks
<1>4. <<Frame("keys", Top.x, db.contents[Top.x])>> \in Seq(Proper(db))
  BY <1>2, <1>3, LoopFrames
<1> QED
  BY <1>1, <1>4, PassesItself, ThenPasses

LEMMA KeysHomeKeeps ==
  ASSUME MoveBooks, KeysHome
  PROVE  Keeps
<1> DEFINE x == Top.y
           sent == IF x \in Key /\ Has_location(db, x) THEN move_via_generic(db, x, HOME) ELSE <<>>
           on == <<Frame("keys", Top.x, db.next[x])>>
<1>1. stack # <<>> /\ Top.op = "keys"
  BY DEF KeysHome, At
<1>2. Top.x \in Dbref /\ Member(db, x) /\ Settled(db) /\ db \in Databases
  BY <1>1, TopFits DEF Fits, Frames, MoveBooks
<1>3. CASE x = NOTHING \/ (x # NOTHING /\ db.next[x] = x)
  <2>1. Then(db, <<>>)
    BY <1>3 DEF KeysHome
  <2> QED
    BY <1>1, <2>1, PassesItself, NoFrames, ThenPasses
<1>4. CASE x # NOTHING /\ db.next[x] # x
  <2>1. Then(db, sent \o on)
    BY <1>4 DEF KeysHome
  <2>2. x \in Obj /\ Has_location(db, x)
    BY <1>2, <1>4 DEF Member
  <2>3. Member(db, db.next[x])
    BY <1>2, <2>2, MembersNext
  <2>4. on \in Seq(Proper(db))
    BY <1>2, <2>3, LoopFrames
  <2>5. sent \in Seq(Proper(db))
    BY <1>2, <2>2, GenericFrames, NoFrames
  <2> HIDE DEF sent, on
  <2>6. sent \o on \in Seq(Proper(db))
    BY <2>4, <2>5, Joined
  <2> QED
    BY <1>1, <2>1, <2>6, PassesItself, ThenPasses
<1> QED
  BY <1>3, <1>4

LEMMA StickyDroptoKeeps ==
  ASSUME MoveBooks, StickyDropto
  PROVE  Keeps
<1> DEFINE d == Backwards(db, Top.x)
           frames == <<Frame("sweep", Top.x, d.contents[Top.x])>>
<1>1. stack # <<>> /\ Top.op = "sticky"
  BY DEF StickyDropto, At
<1>2. IsPlace(db, Top.x) /\ Top.x \in Obj /\ Top.x \in Dbref
  BY <1>1, TopFits, ObjFacts DEF Fits, IsPlace, Good
<1>3. CASE ~Empties(Top.x)
  <2>1. Then(db, <<>>)
    BY <1>3 DEF StickyDropto
  <2> QED
    BY <1>1, <2>1, PassesItself, NoFrames, ThenPasses
<1>4. CASE Empties(Top.x)
  <2>1. Then(d, frames)
    BY <1>4 DEF StickyDropto
  <2>2. Passes(db, d)
    BY <1>2, ContentsReversed DEF MoveBooks
  <2> HIDE DEF d
  <2>3. Member(d, d.contents[Top.x])
    <3>1. IsPlace(d, Top.x)
      BY <1>2, <2>2 DEF Passes, IsPlace, Good
    <3> QED
      BY <1>2, <2>2, <3>1, MembersNext DEF Passes
  <2>4. frames \in Seq(Proper(db))
    <3>1. frames \in Seq(Proper(d))
      BY <1>2, <2>3, LoopFrames
    <3> QED
      BY <2>2, <3>1, ProperStill DEF Passes
  <2> HIDE DEF frames
  <2> QED
    BY <1>1, <2>1, <2>2, <2>4, ThenPasses
<1> QED
  BY <1>3, <1>4

LEMMA SweepKeeps ==
  ASSUME MoveBooks, Sweep
  PROVE  Keeps
<1> DEFINE x == Top.y
           on == <<Frame("sweep", Top.x, db.next[x])>>
<1>1. stack # <<>> /\ Top.op = "sweep"
  BY DEF Sweep, At
<1>2. Top.x \in Dbref /\ Member(db, x) /\ Settled(db) /\ db \in Databases
  BY <1>1, TopFits DEF Fits, Frames, MoveBooks
<1>3. CASE x = NOTHING \/ (x # NOTHING /\ db.next[x] = x)
  <2>1. Then(db, <<>>)
    BY <1>3 DEF Sweep
  <2> QED
    BY <1>1, <2>1, PassesItself, NoFrames, ThenPasses
<1>4. CASE x # NOTHING /\ db.next[x] # x
  <2>1. Then(db, send_dropto(db, x) \o on)
    BY <1>4 DEF Sweep
  <2>2. x \in Obj /\ Has_location(db, x)
    BY <1>2, <1>4 DEF Member
  <2>3. Member(db, db.next[x])
    BY <1>2, <2>2, MembersNext
  <2>4. on \in Seq(Proper(db))
    BY <1>2, <2>3, LoopFrames
  <2>5. send_dropto(db, x) \in Seq(Proper(db))
    BY <1>2, <2>2, DroptoFrames
  <2> HIDE DEF on
  <2>6. send_dropto(db, x) \o on \in Seq(Proper(db))
    BY <2>4, <2>5, Joined
  <2> QED
    BY <1>1, <2>1, <2>6, PassesItself, ThenPasses
<1> QED
  BY <1>3, <1>4

LEMMA DroppedKeeps ==
  ASSUME MoveBooks, Dropped
  PROVE  Keeps
<1> DEFINE x == Top.x
           home == move_via_generic(db, x, HOME) \o divest_object(x)
           place == db.location[x]
           frames == IF /\ Good(db, place) /\ db.type[place] = "room"
                        /\ db.location[place] # NOTHING /\ place \notin Sticky
                     THEN send_dropto(db, x) ELSE <<>>
<1>1. stack # <<>> /\ Top.op = "dropped"
  BY DEF Dropped, At
<1>2. x \in Obj /\ Has_location(db, x) /\ Settled(db) /\ db \in Databases
  BY <1>1, TopFits DEF Fits, MoveBooks
<1>3. CASE x \in Sticky
  <2>1. Then(db, home)
    BY <1>3 DEF Dropped
  <2>2. home \in Seq(Proper(db))
    BY <1>2, GenericFrames, ObjectFrames, Joined
  <2> HIDE DEF home
  <2> QED
    BY <1>1, <2>1, <2>2, PassesItself, ThenPasses
<1>4. CASE x \notin Sticky
  <2>1. Then(db, frames)
    BY <1>4 DEF Dropped
  <2>2. frames \in Seq(Proper(db))
    BY <1>2, DroptoFrames, NoFrames
  <2> HIDE DEF frames
  <2> QED
    BY <1>1, <2>1, <2>2, PassesItself, ThenPasses
<1> QED
  BY <1>3, <1>4

(* The frames of destruction never come up. *)
LEMMA DestructionNever ==
  ASSUME MoveBooks, Empty \/ FlushContents \/ FlushExits \/ Unexit \/ Finish
  PROVE  FALSE
<1>1. stack # <<>> /\ Top.op \in {"empty", "flush", "settle", "unexit", "destroy"}
  BY DEF Empty, FlushContents, FlushExits, Unexit, Finish, At
<1> QED
  BY <1>1, TopFits DEF Fits

-----------------------------------------------------------------------------
LEMMA CommandKeeps ==
  ASSUME MoveBooks, Command
  PROVE  MoveBooks' /\ (~PutBack => Keeps)
<1>1. ASSUME NEW p \in Obj, GoHome(p) \/ Leave(p) \/ Teleport(p, HOME)
      PROVE  Keeps
  BY <1>1, GoHomeKeeps, LeaveKeeps, TeleportKeeps
<1>2. ASSUME NEW p \in Obj, NEW x \in Obj,
             \/ Get(p, x) \/ Drop(p, x) \/ Enter(p, x) \/ UseExit(p, x) \/ Teleport(p, x)
      PROVE  Keeps
  BY <1>2, GetKeeps, DropKeeps, EnterKeeps, UseExitKeeps, TeleportKeeps
<1>3. ASSUME NEW p \in Obj, NEW x \in Obj,
             CarryExit(p, x) \/ DestroyLater(p, x) \/ DestroyNow(p, x)
                \/ \E home \in Obj : Link(p, x, home)
      PROVE  Keeps
  BY <1>3, CarryExitKeeps, DestroyLaterKeeps, DestroyNowNever, LinkKeeps
<1>4. ASSUME NEW e \in Obj, NEW place \in Obj, TeleportExit(e, place)
      PROVE  MoveBooks' /\ (~PutBack => Keeps)
  <2>1. ~PutBack => place # db.exits[e]
    BY <1>4 DEF PutBack
  <2> QED
    BY <1>4, <2>1, TeleportExitKeeps
<1>5. Keeps => MoveBooks' /\ (~PutBack => Keeps)
  BY DEF Keeps
<1> QED
  BY <1>1, <1>2, <1>3, <1>4, <1>5 DEF Command

LEMMA ProceedKeeps ==
  ASSUME MoveBooks, Proceed
  PROVE  Keeps
BY MoveOnKeeps, ArriveKeeps, DivestKeeps, KeysHomeKeeps, StickyDroptoKeeps, SweepKeeps,
   DroppedKeeps, DestructionNever DEF Proceed

LEMMA StutterKeeps ==
  ASSUME MoveBooks, UNCHANGED vars
  PROVE  Keeps
BY DEF vars, Keeps, MoveBooks, Spares

LEMMA StepKeeps ==
  ASSUME MoveBooks, [Next]_vars
  PROVE  MoveBooks' /\ (~PutBack => Keeps)
<1>1. Keeps => MoveBooks' /\ (~PutBack => Keeps)
  BY DEF Keeps
<1> QED
  BY <1>1, CommandKeeps, ProceedKeeps, StutterKeeps DEF Next

(* The database check has put in order what the game starts with: things   *)
(* are in places and on their lists.                                       *)
StartsSettled == \A game \in Start : Settled(game[1])

LEMMA MoveBooksStart ==
  ASSUME StartsSettled, Init, Spares
  PROVE  MoveBooks
<1>1. PICK game \in Start : db = game[1] /\ ops = game[2]
  BY DEF Init
<1>2. db \in Databases /\ Settled(db)
  BY <1>1, MovementAssumption DEF StartsSettled
<1>3. stack \in Seq(Proper(db)) /\ hooked \in 0..MaxHooked
  BY MovementAssumption, NoFrames DEF Init
<1> QED
  BY <1>2, <1>3 DEF MoveBooks

LEMMA MoveBooksImply ==
  ASSUME MoveBooks
  PROVE  MovementInv
<1>1. stack \in Seq(Frames)
  <2>1. stack \in Seq(Proper(db)) /\ Proper(db) \subseteq Frames
    BY DEF MoveBooks, Proper
  <2> QED
    BY <2>1
<1>2. \A place \in Obj : IsPlace(db, place) => ContentsAgree(db, place)
  BY DEF MoveBooks, Settled, ContentsInOrder
<1> QED
  BY <1>1, <1>2 DEF MoveBooks, MovementInv, TypeOK, ListsAgree

(***************************************************************************)
(* The contents of every place are what names it as its location, each     *)
(* once, and end: in the middle of every move, divestiture and sweep, and  *)
(* whatever the attributes that run in it move elsewhere, to any depth     *)
(* (move_object and its callers), in games in which nothing is destroyed   *)
(* on the spot.                                                            *)
(***************************************************************************)
THEOREM MovesKeepLists ==
  ASSUME StartsSettled
  PROVE  Spec /\ Spares => []MovementInv
<1>1. Init /\ Spares => MoveBooks
  BY MoveBooksStart
<1>2. MoveBooks /\ [Next]_vars => MoveBooks'
  BY StepKeeps
<1>3. MoveBooks => MovementInv
  BY MoveBooksImply
<1> QED
  BY <1>1, <1>2, <1>3, PTL DEF Spec

(***************************************************************************)
(* And of all that is done to exits, only @teleport of one to where it is  *)
(* already makes the lists of exits disagree with where exits say they are *)
(* (wiz.c: do_teleport).                                                   *)
(***************************************************************************)
THEOREM OnlyPuttingBackBreaks ==
  ASSUME StartsSettled
  PROVE  Spec /\ Spares => OnlyPutBackBreaks
<1>1. Init /\ Spares => MoveBooks
  BY MoveBooksStart
<1>2. MoveBooks /\ [Next]_vars => MoveBooks'
  BY StepKeeps
<1>3. MoveBooks /\ MoveBooks' /\ [Next]_vars
        => [ExitListsAgree /\ ~PutBack => ExitListsAgree']_vars
  <2> SUFFICES ASSUME MoveBooks, MoveBooks', [Next]_vars, ExitListsAgree, ~PutBack
               PROVE  ExitListsAgree'
    OBVIOUS
  <2>1. ExitsInOrder(db)
    BY NotDestroying
  <2>2. Keeps
    BY StepKeeps
  <2>3. ExitsInOrder(db')
    BY <2>1, <2>2 DEF Keeps
  <2> QED
    BY <2>3 DEF ExitListsAgree, ExitsInOrder
<1> QED
  BY <1>1, <1>2, <1>3, PTL DEF Spec, OnlyPutBackBreaks
=============================================================================
