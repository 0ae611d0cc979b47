------------------------- MODULE CommandQueueProofs -------------------------
(***************************************************************************)
(* Theorems about CommandQueue, for any number of players, objects, PIDs   *)
(* and semaphores.  The first part shows that the entries stay well formed *)
(* and the lists intact; the second where the entries are, in which order  *)
(* they leave, and what no step ever does: there, what the actions do to   *)
(* the lists is summed up first, and each theorem is then proved once for  *)
(* every kind of step, not once for every operation.  The third shows that *)
(* the queue implements the ledger of CommandLedger as long as no object   *)
(* changes hands.                                                          *)
(***************************************************************************)
EXTENDS LedgerRefinement, OperatorLemmas

(***************************************************************************)
(* What an operation on the lists is to establish: they stay well formed,  *)
(* and if every entry was on a list before, every entry is after.          *)
(***************************************************************************)
Complete == DOMAIN table \subseteq Linked
Kept == EntriesOK' /\ Intact' /\ (Complete => Complete')

-----------------------------------------------------------------------------
LEMMA Narrow ==
  ASSUME NEW S, NEW q \in Seq(S), NEW T, Range(q) \subseteq T
  PROVE  q \in Seq(T)
<1>1. Len(q) \in Nat /\ q = [i \in 1..Len(q) |-> q[i]]
  OBVIOUS
<1>2. \A i \in 1..Len(q) : q[i] \in T
  BY DEF Range
<1> QED
  BY <1>1, <1>2

LEMMA Widen ==
  ASSUME NEW S, NEW q \in Seq(S), NEW T, S \subseteq T
  PROVE  q \in Seq(T)
OBVIOUS

(* While the lists are intact they are lists of entries of the table.      *)
LEMMA ListsOfEntries ==
  ASSUME EntriesOK, Intact
  PROVE  /\ qfirst \in Seq(DOMAIN table) /\ qlfirst \in Seq(DOMAIN table)
         /\ qwait \in Seq(DOMAIN table) /\ qsem \in Seq(DOMAIN table)
BY Narrow DEF EntriesOK, Intact, Linked

(* A set of PIDs is finite. *)
LEMMA PidsFinite ==
  ASSUME NEW D \in SUBSET Pids
  PROVE  IsFiniteSet(D) /\ Cardinality(D) \in Nat
<1>1. IsFiniteSet(Pids)
  BY ParameterAssumption, FS_Interval DEF Pids
<1> QED
  BY <1>1, FS_Subset, FS_CardinalityType

LEMMA EntryUpdates ==
  ASSUME NEW e \in Entry
  PROVE  /\ [e EXCEPT !.waittime = 0] \in Entry
         /\ [e EXCEPT !.player = Nothing] \in Entry
         /\ [e EXCEPT !.waittime = 0, !.sem = Nothing] \in Entry
<1>1. [e EXCEPT !.waittime = 0] \in Entry
  BY DEF Entry
<1>2. [e EXCEPT !.player = Nothing] \in Entry
  BY DEF Entry
<1>3. [e EXCEPT !.waittime = 0, !.sem = Nothing] \in Entry
  BY <1>1 DEF Entry
<1> QED
  BY <1>1, <1>2, <1>3

-----------------------------------------------------------------------------
(* The lists after halt_que. *)
LEMMA HaltEntriesKeeps ==
  ASSUME EntriesOK, Intact, NEW H, NEW cnt \in [Sems -> Int], HaltEntries(H, cnt)
  PROVE  Kept /\ count' \in [Sems -> Int]
<1>1. /\ qwait' \in Seq(Pids) /\ Range(qwait') = Range(qwait) \ H /\ IsInjective(qwait')
      /\ qsem' \in Seq(Pids) /\ Range(qsem') = Range(qsem) \ H /\ IsInjective(qsem')
      /\ UNCHANGED <<qfirst, qlfirst, qpid_top>>
  BY WithoutProperties DEF HaltEntries, EntriesOK, Intact
<1>2. /\ DOMAIN table' = DOMAIN table \ (H \cap (Range(qwait) \cup Range(qsem)))
      /\ table' \in [DOMAIN table' -> Entry]
  BY DEF HaltEntries, EntriesOK, Entry
<1>3. EntriesOK'
  BY <1>1, <1>2 DEF EntriesOK
<1>4. Intact'
  BY <1>1, <1>2 DEF Intact, Disjoint, Linked
<1>5. Complete => Complete'
  BY <1>1, <1>2 DEF Complete, Linked
<1>6. count' \in [Sems -> Int]
  <2>1. \A s \in Sems : Cardinality({p \in H \cap Range(qsem) : table[p].sem = s}) \in Nat
    <3>1. Range(qsem) \subseteq Pids
      BY DEF EntriesOK, Intact, Linked
    <3> QED
      BY <3>1, PidsFinite
  <2> QED
    BY <2>1 DEF HaltEntries
<1> QED
  BY <1>3, <1>4, <1>5, <1>6 DEF Kept

(* cque_qpid_next finds a free PID if there is one. *)
LEMMA NextPidFree ==
  ASSUME EntriesOK, FreePids # {}
  PROVE  NextPid \in FreePids /\ NextPid \in Pids /\ NextPid \notin DOMAIN table
<1> DEFINE K == {i \in 0..MaxPid - 1 : Probe(i) \in FreePids}
<1>1. MaxPid \in Nat \ {0} /\ qpid_top \in 1..MaxPid
  BY ParameterAssumption DEF EntriesOK, Pids
<1>2. PICK p : p \in FreePids /\ p \in 1..MaxPid
  BY DEF FreePids, Pids
<1>3. \E i \in 0..MaxPid - 1 : Probe(i) = p
  <2>1. CASE p >= qpid_top
    <3>1. p - qpid_top \in 0..MaxPid - 1 /\ Probe(p - qpid_top) = p
      BY <1>1, <1>2, <2>1 DEF Probe
    <3> QED
      BY <3>1
  <2>2. CASE p < qpid_top
    <3>1. (p - qpid_top) + MaxPid \in 0..MaxPid - 1
      BY <1>1, <1>2, <2>2
    <3>2. Probe((p - qpid_top) + MaxPid) = p
      BY <1>1, <1>2, <2>2 DEF Probe
    <3> QED
      BY <3>1, <3>2
  <2> QED
    BY <1>1, <1>2, <2>1, <2>2
<1>4. K # {} /\ K \in SUBSET Int /\ IsFiniteSet(K) /\ Cardinality(K) \in Nat
  <2>1. K # {} /\ K \in SUBSET (0..MaxPid - 1) /\ K \in SUBSET Int
    BY <1>2, <1>3
  <2>2. IsFiniteSet(0..MaxPid - 1)
    BY <1>1, FS_Interval
  <2> QED
    BY <2>1, <2>2, FS_Subset, FS_CardinalityType
<1>5. Cardinality(K) # 0
  BY <1>4, FS_EmptySet
<1>6. PICK i \in K : Rank(K, i) = 1
  <2> HIDE DEF K
  <2>1. 1 \in 1..Cardinality(K)
    BY <1>4, <1>5
  <2> QED
    BY <1>4, <2>1, RankBijection
<1>7. \A j \in K : ~(j < i)
  <2> SUFFICES ASSUME NEW j \in K, j < i PROVE FALSE
    OBVIOUS
  <2> HIDE DEF K
  <2>1. Rank(K, j) < Rank(K, i) /\ Rank(K, j) \in 1..Cardinality(K)
    BY <1>4, RankOrder
  <2> QED
    BY <1>4, <1>6, <2>1
<1>8. i \in 0..MaxPid - 1 /\ Probe(i) \in FreePids
  OBVIOUS
<1>9. \A j \in 0..i - 1 : Probe(j) \notin FreePids
  BY <1>1, <1>7, <1>8
<1>10. \E q \in FreePids : \E n \in 0..MaxPid - 1 :
         q = Probe(n) /\ \A j \in 0..n - 1 : Probe(j) \notin FreePids
  BY <1>8, <1>9
<1>11. NextPid \in FreePids
  BY <1>10, Zenon DEF NextPid
<1> QED
  BY <1>11 DEF FreePids

(***************************************************************************)
(* A new entry, filed on the one list it belongs to. *)
(***************************************************************************)
LEMMA FileKeeps ==
  ASSUME EntriesOK, Intact,
         NEW p \in Pids, p \notin DOMAIN table, NEW e \in Entry, NEW timed \in BOOLEAN,
         table' = WithEntry(p, e), qpid_top' \in Pids, File(WithEntry(p, e), p, timed)
  PROVE  Kept
<1> DEFINE tb == WithEntry(p, e)
           D == DOMAIN table \cup {p}
<1>1. DOMAIN tb = D /\ tb \in [D -> Entry]
  BY DEF WithEntry, EntriesOK
<1>2. DueIn(tb) \in [D -> Int]
  <2>1. DOMAIN DueIn(tb) = D /\ \A q \in D : DueIn(tb)[q] = tb[q].waittime
    BY <1>1 DEF DueIn
  <2>2. \A q \in D : tb[q].waittime \in Int
    BY <1>1 DEF Entry
  <2> HIDE DEF tb, D
  <2> QED
    BY <1>1, <2>1, <2>2 DEF DueIn
<1>3. /\ qfirst \in Seq(D) /\ qlfirst \in Seq(D) /\ qwait \in Seq(D) /\ qsem \in Seq(D)
      /\ p \in D /\ D \subseteq Pids /\ p \notin Linked
  <2>1. D \subseteq Pids /\ DOMAIN table \subseteq D /\ p \in D
    BY DEF EntriesOK
  <2>2. p \notin Linked
    BY DEF Intact
  <2> HIDE DEF D
  <2> QED
    BY ListsOfEntries, Widen, <2>1, <2>2
<1> HIDE DEF D
<1>4. tb[p] = e
  BY DEF WithEntry
<1> DEFINE Adds(q, qn) == qn \in Seq(D) /\ Range(qn) = Range(q) \cup {p} /\ IsInjective(qn)
<1>5. /\ Adds(qfirst, Append(qfirst, p)) /\ Adds(qlfirst, Append(qlfirst, p))
      /\ Adds(qsem, Append(qsem, p)) /\ Adds(qwait, Thread(qwait, DueIn(tb), p))
  <2>1. p \notin Range(qfirst) /\ p \notin Range(qlfirst) /\ p \notin Range(qwait) /\ p \notin Range(qsem)
    BY <1>3 DEF Linked
  <2>2. IsInjective(qfirst) /\ IsInjective(qlfirst) /\ IsInjective(qwait) /\ IsInjective(qsem)
    BY DEF Intact
  <2> HIDE DEF tb
  <2>3. Adds(qfirst, Append(qfirst, p)) /\ Adds(qlfirst, Append(qlfirst, p)) /\ Adds(qsem, Append(qsem, p))
    BY <1>3, <2>1, <2>2, AppendRange
  <2>4. Adds(qwait, Thread(qwait, DueIn(tb), p))
    <3> DEFINE due == DueIn(tb)
    <3>1. due \in [D -> Int] /\ qwait \in Seq(D) /\ p \in D
      BY <1>2, <1>3
    <3> HIDE DEF due
    <3>2. /\ Thread(qwait, due, p) \in Seq(D)
          /\ Range(Thread(qwait, due, p)) = Range(qwait) \cup {p}
          /\ IsInjective(qwait) /\ p \notin Range(qwait) => IsInjective(Thread(qwait, due, p))
      BY <3>1, ThreadProperties
    <3> QED
      BY <2>1, <2>2, <3>2 DEF due
  <2> QED
    BY <2>3, <2>4
<1>6. \/ Adds(qsem, qsem') /\ UNCHANGED <<qfirst, qlfirst, qwait>>
      \/ Adds(qwait, qwait') /\ UNCHANGED <<qfirst, qlfirst, qsem>>
      \/ Adds(qfirst, qfirst') /\ UNCHANGED <<qlfirst, qwait, qsem>>
      \/ Adds(qlfirst, qlfirst') /\ UNCHANGED <<qfirst, qwait, qsem>>
  <2>1. File(tb, p, timed)
    OBVIOUS
  <2> HIDE DEF tb, Adds
  <2>2. \/ qsem' = Append(qsem, p) /\ UNCHANGED <<qfirst, qlfirst, qwait>>
        \/ qwait' = Thread(qwait, DueIn(tb), p) /\ UNCHANGED <<qfirst, qlfirst, qsem>>
        \/ qfirst' = Append(qfirst, p) /\ UNCHANGED <<qlfirst, qwait, qsem>>
        \/ qlfirst' = Append(qlfirst, p) /\ UNCHANGED <<qfirst, qwait, qsem>>
    BY <2>1 DEF File
  <2> QED
    BY <1>5, <2>2
<1>7. DOMAIN table' = D /\ table' \in [D -> Entry]
  BY <1>1
<1> HIDE DEF tb
<1>8. EntriesOK'
  <2>1. qfirst' \in Seq(D) /\ qlfirst' \in Seq(D) /\ qwait' \in Seq(D) /\ qsem' \in Seq(D)
    BY <1>3, <1>6
  <2>2. qfirst' \in Seq(Pids) /\ qlfirst' \in Seq(Pids) /\ qwait' \in Seq(Pids) /\ qsem' \in Seq(Pids)
    BY <1>3, <2>1, Widen
  <2> QED
    BY <1>3, <1>7, <2>2 DEF EntriesOK
<1>9. Intact' /\ (Complete => Complete')
  <2>1. D = DOMAIN table \cup {p}
    BY DEF D
  <2> QED
    BY <1>3, <1>6, <1>7, <2>1 DEF Intact, Disjoint, Linked, Complete
<1> QED
  BY <1>8, <1>9 DEF Kept

(* The run queues take over a list that leaves the semaphore queue.        *)
LEMMA ReleaseKeeps ==
  ASSUME EntriesOK, Intact, NEW q \in Seq(Pids), Range(q) \subseteq Range(qsem), IsInjective(q),
         Release(q)
  PROVE  Kept
<1> DEFINE caused == {p \in Range(q) : ByPlayer(table[p].cause)}
<1>1. /\ Only(q, caused) \in Seq(Pids) /\ Range(Only(q, caused)) = Range(q) \cap caused
      /\ Without(q, caused) \in Seq(Pids) /\ Range(Without(q, caused)) = Range(q) \ caused
      /\ IsInjective(Only(q, caused)) /\ IsInjective(Without(q, caused))
  BY OnlyProperties, WithoutProperties
<1>2. /\ qfirst' = qfirst \o Only(q, caused) /\ qlfirst' = qlfirst \o Without(q, caused)
      /\ qsem' = Without(qsem, Range(q)) /\ UNCHANGED <<qwait, qpid_top>>
  BY DEF Release
<1> HIDE DEF caused
<1>3. /\ qfirst \in Seq(Pids) /\ IsInjective(qfirst) /\ Range(qfirst) \cap Range(Only(q, caused)) = {}
      /\ qlfirst \in Seq(Pids) /\ IsInjective(qlfirst) /\ Range(qlfirst) \cap Range(Without(q, caused)) = {}
  BY <1>1 DEF EntriesOK, Intact, Disjoint
<1>4. qfirst' \in Seq(Pids) /\ IsInjective(qfirst') /\ Range(qfirst') = Range(qfirst) \cup (Range(q) \cap caused)
  BY <1>1, <1>2, <1>3, ConcatRange
<1>5. qlfirst' \in Seq(Pids) /\ IsInjective(qlfirst') /\ Range(qlfirst') = Range(qlfirst) \cup (Range(q) \ caused)
  BY <1>1, <1>2, <1>3, ConcatRange
<1>6. qsem' \in Seq(Pids) /\ IsInjective(qsem') /\ Range(qsem') = Range(qsem) \ Range(q)
  BY <1>2, WithoutProperties DEF EntriesOK, Intact
<1>7. DOMAIN table' = DOMAIN table /\ table' \in [DOMAIN table -> Entry]
  <2>1. \A p \in DOMAIN table : table[p] \in Entry
    BY DEF EntriesOK
  <2>2. ASSUME NEW p \in DOMAIN table PROVE [table[p] EXCEPT !.waittime = 0] \in Entry
    BY <2>1, EntryUpdates, Zenon
  <2> QED
    BY <2>1, <2>2 DEF Release
<1>8. EntriesOK'
  BY <1>2, <1>4, <1>5, <1>6, <1>7 DEF EntriesOK
<1>9. Intact'
  BY <1>2, <1>4, <1>5, <1>6, <1>7 DEF Intact, Disjoint, Linked
<1>10. Complete => Complete'
  BY <1>2, <1>4, <1>5, <1>6, <1>7 DEF Linked, Complete
<1> QED
  BY <1>8, <1>9, <1>10 DEF Kept

LEMMA AwaitingProperties ==
  ASSUME EntriesOK, Intact, NEW s \in Sems
  PROVE  /\ Awaiting(s) \in Seq(Pids) /\ Range(Awaiting(s)) \subseteq Range(qsem)
         /\ IsInjective(Awaiting(s))
<1>1. CASE count[s] > 0
  <2>1. Awaiting(s) = Only(qsem, WaitersOf(s))
    BY <1>1 DEF Awaiting
  <2>2. qsem \in Seq(Pids) /\ IsInjective(qsem)
    BY DEF EntriesOK, Intact
  <2> QED
    BY <2>1, <2>2, OnlyProperties
<1>2. CASE ~(count[s] > 0)
  BY <1>2 DEF Awaiting, Range, IsInjective
<1> QED
  BY <1>1, <1>2

(***************************************************************************)
(* The lists after cque_do_second, on a table tb whose entries differ from *)
(* those of the queue only in their times.                                 *)
(***************************************************************************)
LEMMA DoSecondKeeps ==
  ASSUME EntriesOK, Intact, NEW tb, DOMAIN tb = DOMAIN table, tb \in [DOMAIN table -> Entry],
         NEW t \in Int, count \in [Sems -> Int], DoSecond(tb, t)
  PROVE  Kept /\ count' \in [Sems -> Int]
<1> DEFINE n == RipeCount(qwait, DueIn(tb), t)
           ripe == FirstOf(qwait, n)
           late == {p \in Range(qsem) : tb[p].waittime # 0 /\ tb[p].waittime <= t}
           timedout == Only(qsem, late)
           given == ripe \o timedout
           caused == {p \in Range(given) : ByPlayer(tb[p].cause)}
<1>1. /\ qfirst' = qfirst \o qlfirst \o Only(given, caused) /\ qlfirst' = Without(given, caused)
      /\ qwait' = Without(qwait, Range(ripe)) /\ qsem' = Without(qsem, late) /\ qpid_top' = qpid_top
  BY DEF DoSecond
<1>2. DOMAIN table' = DOMAIN table /\ table' \in [DOMAIN table -> Entry]
  <2>1. \A p \in DOMAIN tb : tb[p] \in Entry
    OBVIOUS
  <2>2. ASSUME NEW p \in DOMAIN tb
        PROVE  /\ [tb[p] EXCEPT !.waittime = 0, !.sem = Nothing] \in Entry
               /\ [tb[p] EXCEPT !.waittime = 0] \in Entry
    BY <2>1, EntryUpdates, Zenon
  <2> QED
    BY <2>1, <2>2 DEF DoSecond
<1>3. count' \in [Sems -> Int]
  <2>1. Range(qsem) \subseteq Pids
    BY DEF EntriesOK, Intact, Linked
  <2>2. \A s \in Sems : Cardinality({p \in late : tb[p].sem = s}) \in Nat
    BY <2>1, PidsFinite
  <2>3. count' = [s \in Sems |-> count[s] - Cardinality({p \in late : tb[p].sem = s})]
    BY DEF DoSecond
  <2> HIDE DEF late
  <2> QED
    BY <2>2, <2>3
<1>4. ripe \in Seq(Pids) /\ Range(ripe) \subseteq Range(qwait) /\ IsInjective(ripe)
  <2>1. n \in 0..Len(qwait)
    <3> DEFINE due == DueIn(tb)
    <3>1. qwait \in Seq(DOMAIN table) /\ due \in [DOMAIN table -> Int]
      BY ListsOfEntries DEF DueIn, Entry
    <3> HIDE DEF due
    <3>2. RipeCount(qwait, due, t) \in 0..Len(qwait)
      BY <3>1, RipeCountProperties
    <3> QED
      BY <3>2 DEF due
  <2>2. n \in Nat /\ qwait \in Seq(Pids) /\ IsInjective(qwait)
    BY <2>1 DEF EntriesOK, Intact
  <2> HIDE DEF n
  <2> QED
    BY <2>2, FirstOfProperties
<1> HIDE DEF ripe, late
<1>5. /\ timedout \in Seq(Pids) /\ Range(timedout) = Range(qsem) \cap late /\ IsInjective(timedout)
      /\ late \subseteq Range(qsem)
  BY OnlyProperties DEF EntriesOK, Intact, late
<1> HIDE DEF timedout
<1>6. given \in Seq(Pids) /\ Range(given) = Range(ripe) \cup late /\ IsInjective(given)
  <2>1. Range(ripe) \cap Range(timedout) = {}
    BY <1>4, <1>5 DEF Intact, Disjoint
  <2> QED
    BY <1>4, <1>5, <2>1, ConcatRange
<1> HIDE DEF given, caused
<1>7. /\ Only(given, caused) \in Seq(Pids) /\ Range(Only(given, caused)) = Range(given) \cap caused
      /\ Without(given, caused) \in Seq(Pids) /\ Range(Without(given, caused)) = Range(given) \ caused
      /\ IsInjective(Only(given, caused)) /\ IsInjective(Without(given, caused))
  BY <1>6, OnlyProperties, WithoutProperties
<1>8. /\ qfirst \o qlfirst \in Seq(Pids) /\ Range(qfirst \o qlfirst) = Range(qfirst) \cup Range(qlfirst)
      /\ IsInjective(qfirst \o qlfirst)
  BY ConcatRange DEF EntriesOK, Intact, Disjoint
<1>9. /\ qfirst' \in Seq(Pids) /\ IsInjective(qfirst')
      /\ Range(qfirst') = Range(qfirst) \cup Range(qlfirst) \cup (Range(given) \cap caused)
  <2> DEFINE q == qfirst \o qlfirst
             r == Only(given, caused)
  <2>1. q \in Seq(Pids) /\ IsInjective(q) /\ Range(q) = Range(qfirst) \cup Range(qlfirst)
    BY <1>8
  <2>2. r \in Seq(Pids) /\ IsInjective(r) /\ Range(r) = Range(given) \cap caused
    BY <1>7
  <2>3. qfirst' = q \o r
    BY <1>1
  <2> HIDE DEF q, r
  <2>4. Range(q) \cap Range(r) = {}
    BY <1>4, <1>5, <1>6, <2>1, <2>2 DEF Intact, Disjoint
  <2> QED
    BY <2>1, <2>2, <2>3, <2>4, ConcatRange
<1>10. /\ qwait' \in Seq(Pids) /\ IsInjective(qwait') /\ Range(qwait') = Range(qwait) \ Range(ripe)
       /\ qsem' \in Seq(Pids) /\ IsInjective(qsem') /\ Range(qsem') = Range(qsem) \ late
  BY <1>1, WithoutProperties DEF EntriesOK, Intact
<1>11. /\ qlfirst' \in Seq(Pids) /\ IsInjective(qlfirst') /\ Range(qlfirst') = Range(given) \ caused
  BY <1>1, <1>7
<1>12. EntriesOK'
  BY <1>1, <1>2, <1>9, <1>10, <1>11 DEF EntriesOK
<1>13. Intact'
  BY <1>2, <1>4, <1>5, <1>6, <1>9, <1>10, <1>11 DEF Intact, Disjoint, Linked
<1>14. Complete => Complete'
  BY <1>2, <1>6, <1>9, <1>10, <1>11 DEF Linked, Complete
<1> QED
  BY <1>3, <1>12, <1>13, <1>14 DEF Kept

-----------------------------------------------------------------------------
(* The calls of cque_do_top. *)
LEMMA FrameTypes ==
  ASSUME WorldOK, ~Idle
  PROVE  /\ Top \in Frame /\ Outer \in Seq(Frame) /\ NextRound \in Frame
         /\ Append(Outer, NextRound) \in Seq(Frame)
         /\ \A n \in Int, off \in BOOLEAN : Looping(n, off) \in Frame
<1>1. frames \in Seq(Frame) /\ frames # <<>> /\ Len(frames) \in Nat \ {0}
  BY DEF WorldOK, Idle
<1>2. Top \in Frame
  BY <1>1 DEF Top
<1>3. Outer \in Seq(Frame)
  <2>1. \A i \in 1..Len(frames) - 1 : frames[i] \in Frame
    BY <1>1
  <2>2. Len(frames) - 1 \in Nat
    BY <1>1
  <2> QED
    BY <2>1, <2>2 DEF Outer
<1>4. \A n \in Int, off \in BOOLEAN : Looping(n, off) \in Frame
  BY DEF Looping, Frame
<1>5. NextRound \in Frame
  <2>1. Top.left - 1 \in Int /\ Top.disabled \in BOOLEAN
    BY <1>2 DEF Frame
  <2> QED
    BY <1>4, <2>1 DEF NextRound
<1>6. Append(Outer, NextRound) \in Seq(Frame)
  BY <1>3, <1>5
<1> QED
  BY <1>2, <1>3, <1>4, <1>5, <1>6

(* The head of the run queue leaves it and the table. *)
LEMMA PopHeadKeeps ==
  ASSUME EntriesOK, Intact, WorldOK, ~Idle, qfirst # <<>>, PopHead
  PROVE  Kept /\ frames' \in Seq(Frame)
<1> DEFINE p == Head(qfirst)
<1>1. /\ qfirst' = Tail(qfirst) /\ DOMAIN table' = DOMAIN table \ {p}
      /\ UNCHANGED <<qlfirst, qwait, qsem, qpid_top>>
  BY DEF PopHead, Freed
<1>2. table' \in [DOMAIN table' -> Entry]
  BY DEF PopHead, Freed, EntriesOK
<1>3. /\ qfirst' \in Seq(Pids) /\ p \in Range(qfirst)
      /\ Range(qfirst) = Range(qfirst') \cup {p} /\ IsInjective(qfirst') /\ p \notin Range(qfirst')
  <2>1. qfirst \in Seq(Pids) /\ IsInjective(qfirst)
    BY DEF EntriesOK, Intact
  <2> QED
    BY <1>1, <2>1, TailRange
<1> HIDE DEF p
<1>4. EntriesOK'
  BY <1>1, <1>2, <1>3 DEF EntriesOK
<1>5. Intact'
  BY <1>1, <1>3 DEF Intact, Disjoint, Linked
<1>6. Complete => Complete'
  BY <1>1, <1>3 DEF Complete, Linked
<1>7. frames' \in Seq(Frame)
  <2>1. frames \in Seq(Frame) /\ NextRound \in Frame
    BY FrameTypes DEF WorldOK
  <2>2. \A i \in 1..Len(frames) : frames[i] \in Frame /\ [frames[i] EXCEPT !.pid = NoEntry] \in Frame
    <3>1. \A f \in Frame : [f EXCEPT !.pid = NoEntry] \in Frame
      BY DEF Frame
    <3>2. \A i \in 1..Len(frames) : frames[i] \in Frame
      BY <2>1
    <3> QED
      BY <3>1, <3>2, Zenon
  <2> DEFINE f(i) == IF i = Len(frames) THEN NextRound
                     ELSE IF frames[i].pid = p THEN [frames[i] EXCEPT !.pid = NoEntry]
                     ELSE frames[i]
  <2>3. frames' = [i \in 1..Len(frames) |-> f(i)]
    BY DEF PopHead, p
  <2>4. \A i \in 1..Len(frames) : f(i) \in Frame
    BY <2>1, <2>2
  <2>5. Len(frames) \in Nat
    BY <2>1
  <2> HIDE DEF f
  <2> QED
    BY <2>3, <2>4, <2>5
<1> QED
  BY <1>4, <1>5, <1>6, <1>7 DEF Kept

-----------------------------------------------------------------------------
(* The books. *)
LEMMA DebitTypes ==
  ASSUME NEW m \in [Players -> Int], NEW o \in Players, NEW c \in Int
  PROVE  Debit(m, o, c) \in [Players -> Int]
BY DEF Debit

LEMMA RefundTypes ==
  ASSUME NEW m \in [Players -> Int], NEW o \in Players, NEW n \in Int
  PROVE  Refund(m, o, n) \in [Players -> Int]
<1>1. -(n * WaitCost) \in Int
  BY ParameterAssumption
<1> QED
  BY <1>1, DebitTypes DEF Refund

LEMMA ShareTypes ==
  ASSUME EntriesOK, NEW D, D \subseteq DOMAIN table, NEW o
  PROVE  ShareOf(D, o) \in Nat
<1>1. {p \in D : owner[table[p].player] = o} \in SUBSET Pids
  BY DEF EntriesOK
<1> QED
  BY <1>1, PidsFinite DEF ShareOf

LEMMA SettleEachTypes ==
  ASSUME EntriesOK, BooksOK, NEW D, D \subseteq DOMAIN table, SettleEach(D)
  PROVE  queue' \in [Players -> Int] /\ money' \in [Players -> Int]
<1>1. \A o \in Players : ShareOf(D, o) \in Nat
  BY ShareTypes
<1>2. ASSUME NEW o \in Players PROVE Refund(money, o, ShareOf(D, o)) \in [Players -> Int]
  <2>1. ShareOf(D, o) \in Int /\ money \in [Players -> Int]
    BY <1>1 DEF BooksOK
  <2> QED
    BY <2>1, RefundTypes
<1>3. \A o \in Players : Refund(money, o, ShareOf(D, o))[o] \in Int
  BY <1>2
<1> QED
  BY <1>1, <1>3 DEF SettleEach, BooksOK

-----------------------------------------------------------------------------
(***************************************************************************)
(* What every operation but @halt/pid and @wait/pid does: the lists stay   *)
(* sound, and the books and everything else keep their types.              *)
(***************************************************************************)
Sound == Kept /\ BooksOK' /\ WorldOK'

LEMMA KeptUnchanged ==
  ASSUME EntriesOK, Intact, UNCHANGED entries
  PROVE  Kept
BY DEF EntriesOK, Intact, entries, Kept, Complete, Linked, Disjoint

(* Queueing a command of x, whatever becomes of it. *)
LEMMA WaitQueSound ==
  ASSUME TypeOK, Intact, NEW x \in Objects, NEW c \in Objects, NEW d \in Int,
         NEW s \in Sems \cup {Nothing}, NEW cnt \in [Sems -> Int], WaitQue(x, c, d, s, cnt)
  PROVE  Sound
<1>1. EntriesOK /\ BooksOK /\ WorldOK
  BY DEF TypeOK
<1>2. owner[x] \in Players /\ money \in [Players -> Int] /\ queue \in [Players -> Int] /\ halted \subseteq Objects
  BY <1>1 DEF WorldOK, BooksOK
<1>3. UNCHANGED <<owner, fate, dequeue, interp, clock, now, frames>>
  BY DEF WaitQue, flags, times
<1>4. SUFFICES Kept /\ queue' \in [Players -> Int] /\ money' \in [Players -> Int]
               /\ count' \in [Sems -> Int] /\ halted' \subseteq Objects
  BY <1>1, <1>3 DEF Sound, BooksOK, WorldOK
<1>5. ASSUME UNCHANGED <<entries, accounts, halted>>, count' = cnt
      PROVE  Kept /\ queue' \in [Players -> Int] /\ money' \in [Players -> Int]
             /\ count' \in [Sems -> Int] /\ halted' \subseteq Objects
  <2>1. Kept
    BY <1>1, <1>5, KeptUnchanged
  <2> QED
    BY <1>2, <1>5, <2>1 DEF accounts
<1>6. CASE ~interp
  BY <1>5, <1>6 DEF WaitQue
<1>7. CASE interp
  <2>1. PICK fee \in Fees : \/ Refused(x, fee, cnt) \/ Runaway(x, fee, cnt)
                            \/ TableFull(x, fee, cnt) \/ Enter(x, c, d, s, fee, cnt)
    BY <1>7 DEF WaitQue
  <2>2. fee \in Int
    BY ParameterAssumption DEF Fees
  <2>3. Debit(money, owner[x], fee) \in [Players -> Int] /\ Charged(x) \in [Players -> Int]
    <3>1. Debit(money, owner[x], fee) \in [Players -> Int]
      BY <1>2, <2>2, DebitTypes
    <3>2. Charged(x) \in [Players -> Int]
      BY <1>2 DEF Charged
    <3> QED
      BY <3>1, <3>2
  <2>4. CASE Refused(x, fee, cnt)
    BY <1>5, <2>4 DEF Refused
  <2>5. CASE Runaway(x, fee, cnt)
    <3> DEFINE H == LiveOf(owner[x])
    <3>1. HaltEntries(H, cnt)
      BY <2>5 DEF Runaway
    <3>2. Kept /\ count' \in [Sems -> Int]
      BY <1>1, <3>1, HaltEntriesKeeps
    <3>3. Cardinality(H) \in Int
      <4>1. H \in SUBSET Pids
        BY <1>1 DEF LiveOf, Live, EntriesOK
      <4> QED
        BY <4>1, PidsFinite
    <3>4. Refund(Debit(money, owner[x], fee), owner[x], Cardinality(H)) \in [Players -> Int]
      BY <1>2, <2>3, <3>3, RefundTypes
    <3>5. money' \in [Players -> Int] /\ queue' \in [Players -> Int] /\ halted' \subseteq Objects
      BY <1>2, <2>5, <3>4 DEF Runaway
    <3> QED
      BY <3>2, <3>5
  <2>6. CASE TableFull(x, fee, cnt)
    <3>1. Kept
      BY <1>1, <2>6, KeptUnchanged DEF TableFull
    <3> QED
      BY <1>2, <2>3, <2>6, <3>1 DEF TableFull
  <2>7. CASE Enter(x, c, d, s, fee, cnt)
    <3> DEFINE p == NextPid
               e == [player |-> x, cause |-> c, sem |-> s,
                     waittime |-> IF s = Nothing /\ ~(d > 0) THEN 0 ELSE WaitTime(d)]
    <3>1. p \in Pids /\ p \notin DOMAIN table
      BY <1>1, <2>7, NextPidFree DEF Enter
    <3>2. e \in Entry
      <4>1. WaitTime(d) \in Int
        BY <1>1, ParameterAssumption DEF WaitTime, WorldOK
      <4> QED
        BY <4>1 DEF Entry
    <3>3. qpid_top' \in Pids
      <4>1. PidAfter(p) \in Pids
        BY <3>1, ParameterAssumption DEF PidAfter, Pids
      <4> QED
        BY <2>7, <4>1 DEF Enter
    <3>4. table' = WithEntry(p, e) /\ File(WithEntry(p, e), p, d > 0)
      BY <2>7 DEF Enter
    <3>5. money' \in [Players -> Int] /\ queue' \in [Players -> Int] /\ count' \in [Sems -> Int]
          /\ halted' \subseteq Objects
      BY <1>2, <2>3, <2>7 DEF Enter
    <3>6. (d > 0) \in BOOLEAN
      OBVIOUS
    <3> HIDE DEF p, e
    <3>7. Kept
      BY <1>1, <3>1, <3>2, <3>3, <3>4, <3>6, FileKeeps
    <3> QED
      BY <3>5, <3>7
  <2> QED
    BY <2>1, <2>4, <2>5, <2>6, <2>7
<1> QED
  BY <1>6, <1>7 DEF WorldOK

(* The semaphore operations. *)
LEMMA WaitSemSound ==
  ASSUME TypeOK, Intact, NEW x \in Objects, NEW c \in Objects, NEW s \in Sems, NEW d \in Int,
         WaitSem(x, c, s, d)
  PROVE  Sound
<1> DEFINE cnt == [count EXCEPT ![s] = @ + 1]
<1>1. cnt \in [Sems -> Int]
  BY DEF TypeOK, BooksOK
<1>2. WaitQue(x, c, 0, Nothing, cnt) \/ WaitQue(x, c, d, s, cnt)
  BY DEF WaitSem
<1> HIDE DEF cnt
<1> QED
  BY <1>1, <1>2, WaitQueSound

LEMMA NotifySound ==
  ASSUME TypeOK, Intact, NEW s \in Sems,
         \/ \E n \in NotifyCounts : Notify(s, n)
         \/ NotifyAll(s)
  PROVE  Sound
<1>1. EntriesOK /\ BooksOK /\ WorldOK
  BY DEF TypeOK
<1>2. PICK q : /\ q \in Seq(Pids) /\ Range(q) \subseteq Range(qsem) /\ IsInjective(q)
               /\ Release(q)
  <2>1. Awaiting(s) \in Seq(Pids) /\ Range(Awaiting(s)) \subseteq Range(qsem) /\ IsInjective(Awaiting(s))
    BY <1>1, AwaitingProperties
  <2>2. CASE NotifyAll(s)
    BY <2>1, <2>2 DEF NotifyAll
  <2>3. ASSUME NEW n \in NotifyCounts, Notify(s, n)
        PROVE  \E q : q \in Seq(Pids) /\ Range(q) \subseteq Range(qsem) /\ IsInjective(q) /\ Release(q)
    <3> DEFINE q == FirstOf(Awaiting(s), n)
    <3>1. n \in Nat
      BY InputAssumption
    <3>2. q \in Seq(Pids) /\ Range(q) \subseteq Range(Awaiting(s)) /\ IsInjective(q)
      BY <2>1, <3>1, FirstOfProperties
    <3>3. Release(q)
      BY <2>3 DEF Notify
    <3> HIDE DEF q
    <3> QED
      BY <2>1, <3>2, <3>3
  <2> QED
    BY <2>2, <2>3
<1>3. Kept
  BY <1>1, <1>2, ReleaseKeeps
<1>4. count' \in [Sems -> Int] /\ UNCHANGED <<accounts, objects, flags, times, frames>>
  BY <1>1, InputAssumption DEF Notify, NotifyAll, BooksOK
<1> QED
  BY <1>1, <1>3, <1>4 DEF Sound, BooksOK, WorldOK, accounts, objects, flags, times

LEMMA DrainSound ==
  ASSUME TypeOK, Intact, NEW s \in Sems, Drain(s)
  PROVE  Sound
<1> DEFINE D == Range(Awaiting(s))
<1>1. EntriesOK /\ BooksOK /\ WorldOK
  BY DEF TypeOK
<1>2. D \subseteq Range(qsem) /\ D \subseteq DOMAIN table
  BY <1>1, AwaitingProperties DEF Intact, Linked
<1>3. /\ table' = Freed(table, D) /\ qsem' = Without(qsem, D) /\ SettleEach(D)
      /\ count' = [count EXCEPT ![s] = 0]
      /\ UNCHANGED <<qfirst, qlfirst, qwait, qpid_top, objects, flags, times, frames>>
  BY DEF Drain
<1> HIDE DEF D
<1>4. DOMAIN table' = DOMAIN table \ D /\ table' \in [DOMAIN table' -> Entry]
  BY <1>1, <1>3 DEF Freed, EntriesOK
<1>5. qsem' \in Seq(Pids) /\ Range(qsem') = Range(qsem) \ D /\ IsInjective(qsem')
  BY <1>1, <1>3, WithoutProperties DEF EntriesOK, Intact
<1>6. EntriesOK'
  BY <1>1, <1>3, <1>4, <1>5 DEF EntriesOK
<1>7. Intact' /\ (Complete => Complete')
  BY <1>2, <1>3, <1>4, <1>5 DEF Intact, Disjoint, Linked, Complete
<1>8. queue' \in [Players -> Int] /\ money' \in [Players -> Int]
  BY <1>1, <1>2, <1>3, SettleEachTypes
<1> QED
  BY <1>1, <1>3, <1>6, <1>7, <1>8 DEF Sound, Kept, BooksOK, WorldOK, objects, flags, times

(* @halt, @chown and the purge of a thing. *)
LEMMA WantedEntries ==
  ASSUME EntriesOK, NEW pl, NEW ob
  PROVE  /\ Wanted(pl, ob) \subseteq DOMAIN table
         /\ Cardinality(Wanted(pl, ob)) \in Nat
<1>1. Wanted(pl, ob) \subseteq DOMAIN table
  BY DEF Wanted, Live
<1>2. Wanted(pl, ob) \in SUBSET Pids
  BY <1>1 DEF EntriesOK
<1> QED
  BY <1>1, <1>2, PidsFinite

LEMMA SettleWithTypes ==
  ASSUME BooksOK, NEW o \in Players, NEW H, Cardinality(H) \in Nat, NEW clear \in BOOLEAN,
         SettleWith(o, H, clear)
  PROVE  queue' \in [Players -> Int] /\ money' \in [Players -> Int]
<1> DEFINE n == Cardinality(H)
<1>1. n \in Int /\ money \in [Players -> Int] /\ queue \in [Players -> Int]
  BY DEF BooksOK
<1>2. money' = Refund(money, o, n) /\ queue' = [queue EXCEPT ![o] = IF clear THEN 0 ELSE @ - n]
  BY DEF SettleWith
<1> HIDE DEF n
<1>3. Refund(money, o, n) \in [Players -> Int]
  BY <1>1, RefundTypes
<1> DEFINE v == IF clear THEN 0 ELSE queue[o] - n
<1>4. v \in Int
  <2>1. queue[o] - n \in Int
    BY <1>1
  <2> QED
    BY <2>1
<1>5. queue' = [queue EXCEPT ![o] = v]
  BY <1>2
<1> HIDE DEF v
<1> QED
  BY <1>1, <1>2, <1>3, <1>4, <1>5

LEMMA HaltSound ==
  ASSUME TypeOK, Intact, NEW pl \in Players \cup {Nothing}, NEW ob \in Objects \cup {Nothing},
         Halt(pl, ob)
  PROVE  Sound
<1> DEFINE H == Wanted(pl, ob)
<1>1. EntriesOK /\ BooksOK /\ WorldOK
  BY DEF TypeOK
<1>2. Kept /\ count' \in [Sems -> Int]
  BY <1>1, HaltEntriesKeeps DEF Halt, BooksOK
<1>3. UNCHANGED <<objects, flags, times, frames>>
  BY DEF Halt
<1>4. H \subseteq DOMAIN table /\ Cardinality(H) \in Nat
  BY <1>1, WantedEntries
<1>5. queue' \in [Players -> Int] /\ money' \in [Players -> Int]
  <2>1. CASE pl = Nothing /\ ob = Nothing
    <3>1. SettleAll(H)
      BY <2>1 DEF Halt
    <3> HIDE DEF H
    <3>2. ASSUME NEW o \in Players PROVE Refund(money, o, ShareOf(H, o))[o] \in Int
      <4>1. ShareOf(H, o) \in Int /\ money \in [Players -> Int]
        BY <1>1, <1>4, ShareTypes DEF BooksOK
      <4>2. Refund(money, o, ShareOf(H, o)) \in [Players -> Int]
        BY <4>1, RefundTypes
      <4> QED
        BY <4>2
    <3> QED
      BY <1>1, <3>1, <3>2 DEF SettleAll, BooksOK
  <2>2. CASE ~(pl = Nothing /\ ob = Nothing)
    <3> DEFINE o == IF pl = Nothing THEN owner[ob] ELSE pl
    <3>1. SettleWith(o, H, ob = Nothing)
      BY <2>2 DEF Halt
    <3>2. o \in Players
      BY <1>1, <2>2 DEF WorldOK
    <3>3. (ob = Nothing) \in BOOLEAN
      OBVIOUS
    <3> HIDE DEF o, H
    <3> QED
      BY <1>1, <1>4, <3>1, <3>2, <3>3, SettleWithTypes
  <2> QED
    BY <2>1, <2>2
<1> QED
  BY <1>1, <1>2, <1>3, <1>5 DEF Sound, BooksOK, WorldOK, objects, flags, times

LEMMA ChownSound ==
  ASSUME TypeOK, Intact, NEW t \in Things, NEW o \in Players, Chown(t, o)
  PROVE  Sound
<1> DEFINE H == Wanted(Nothing, t)
<1>1. EntriesOK /\ BooksOK /\ WorldOK
  BY DEF TypeOK
<1>2. Kept /\ count' \in [Sems -> Int]
  BY <1>1, HaltEntriesKeeps DEF Chown, BooksOK
<1>3. Cardinality(H) \in Nat
  BY <1>1, WantedEntries
<1>4. SettleWith(o, H, FALSE)
  BY DEF Chown
<1> HIDE DEF H
<1>5. queue' \in [Players -> Int] /\ money' \in [Players -> Int]
  BY <1>1, <1>3, <1>4, SettleWithTypes
<1>6. /\ owner' \in [Objects -> Players] /\ halted' \subseteq Objects
      /\ UNCHANGED <<fate, flags, times, frames>>
  BY <1>1 DEF Chown, WorldOK, Objects
<1> QED
  BY <1>1, <1>2, <1>5, <1>6 DEF Sound, BooksOK, WorldOK, flags, times

LEMMA PurgeSound ==
  ASSUME TypeOK, Intact, NEW t \in Things, Purge(t)
  PROVE  Sound
<1> DEFINE H == Wanted(Nothing, t)
           D == {p \in Range(qsem) \ H : table[p].sem[1] = t}
           gone == D \cup (H \cap (Range(qwait) \cup Range(qsem)))
<1>1. EntriesOK /\ BooksOK /\ WorldOK
  BY DEF TypeOK
<1>2. H \subseteq DOMAIN table
  BY <1>1, WantedEntries
<1>3. /\ table' = [p \in DOMAIN table \ gone |->
                     IF p \in H THEN [table[p] EXCEPT !.player = Nothing] ELSE table[p]]
      /\ qwait' = Without(qwait, H) /\ qsem' = Without(qsem, H \cup D)
      /\ SettleEach(H \cup D) /\ UNCHANGED <<qfirst, qlfirst, qpid_top>>
  BY DEF Purge
<1>4. count' \in [Sems -> Int]
  <2>1. \A s \in Sems : Cardinality({p \in H \cap Range(qsem) : table[p].sem = s}) \in Nat
    <3>1. Range(qsem) \subseteq Pids
      BY <1>1 DEF EntriesOK, Intact, Linked
    <3> HIDE DEF H
    <3> QED
      BY <3>1, PidsFinite
  <2>2. count' = [s \in Sems |->
                     IF s[1] = t THEN 0
                     ELSE count[s] - Cardinality({p \in H \cap Range(qsem) : table[p].sem = s})]
    BY DEF Purge
  <2> HIDE DEF H
  <2> QED
    BY <1>1, <2>1, <2>2 DEF BooksOK
<1>5. D \subseteq Range(qsem)
  OBVIOUS
<1> HIDE DEF H, D
<1>6. /\ qwait' \in Seq(Pids) /\ Range(qwait') = Range(qwait) \ H /\ IsInjective(qwait')
      /\ qsem' \in Seq(Pids) /\ Range(qsem') = Range(qsem) \ (H \cup D) /\ IsInjective(qsem')
  BY <1>1, <1>3, WithoutProperties DEF EntriesOK, Intact
<1>7. DOMAIN table' = DOMAIN table \ gone /\ table' \in [DOMAIN table' -> Entry]
  <2>1. ASSUME NEW p \in DOMAIN table
        PROVE  table[p] \in Entry /\ [table[p] EXCEPT !.player = Nothing] \in Entry
    <3>1. table[p] \in Entry
      BY <1>1 DEF EntriesOK
    <3> QED
      BY <3>1, EntryUpdates, Zenon
  <2> HIDE DEF gone
  <2> QED
    BY <1>3, <2>1
<1>8. EntriesOK'
  <2>1. DOMAIN table' \subseteq Pids
    BY <1>1, <1>7 DEF EntriesOK
  <2> HIDE DEF gone
  <2> QED
    BY <1>1, <1>3, <1>6, <1>7, <2>1 DEF EntriesOK
<1>9. Intact' /\ (Complete => Complete')
  <2>1. qfirst' = qfirst /\ qlfirst' = qlfirst
    BY <1>3
  <2>2. gone = (Range(qwait) \cap H) \cup (Range(qsem) \cap (H \cup D))
    BY <1>5
  <2> HIDE DEF gone
  <2>3. Linked' = Linked \ gone
    BY <1>5, <1>6, <2>1, <2>2 DEF Linked, Intact, Disjoint
  <2>4. Linked' \subseteq DOMAIN table'
    BY <1>7, <2>3 DEF Intact
  <2>5. Intact'
    BY <1>6, <2>1, <2>4 DEF Intact, Disjoint
  <2>6. Complete => Complete'
    BY <1>7, <2>3 DEF Complete
  <2> QED
    BY <2>5, <2>6
<1>10. queue' \in [Players -> Int] /\ money' \in [Players -> Int]
  <2>1. H \cup D \subseteq DOMAIN table
    BY <1>2, <1>5 DEF Intact, Linked
  <2> QED
    BY <1>1, <1>3, <2>1, SettleEachTypes
<1>11. /\ halted' \subseteq Objects /\ fate' \in [Objects -> {"live", "going", "garbage"}]
       /\ UNCHANGED <<owner, flags, times, frames>>
  BY <1>1 DEF Purge, WorldOK
<1> QED
  BY <1>1, <1>4, <1>8, <1>9, <1>10, <1>11 DEF Sound, Kept, BooksOK, WorldOK, flags, times

-----------------------------------------------------------------------------
(* The passing of time. *)
LEMMA DispatchSound ==
  ASSUME TypeOK, Intact, Dispatch
  PROVE  Sound
<1>1. EntriesOK /\ BooksOK /\ WorldOK
  BY DEF TypeOK
<1>2. Kept /\ count' \in [Sems -> Int]
  <2>1. CASE dequeue
    <3>1. DoSecond(table, clock) /\ clock \in Int
      BY <1>1, <2>1 DEF Dispatch, WorldOK
    <3>2. table \in [DOMAIN table -> Entry] /\ count \in [Sems -> Int]
      BY <1>1 DEF EntriesOK, BooksOK
    <3> QED
      BY <1>1, <3>1, <3>2, DoSecondKeeps
  <2>2. CASE ~dequeue
    <3>1. UNCHANGED entries /\ count' = count
      BY <2>2 DEF Dispatch
    <3> QED
      BY <1>1, <3>1, KeptUnchanged DEF BooksOK
  <2> QED
    BY <2>1, <2>2
<1>3. now' = clock /\ UNCHANGED <<accounts, objects, flags, clock, frames>>
  BY DEF Dispatch
<1> QED
  BY <1>1, <1>2, <1>3 DEF Sound, BooksOK, WorldOK, accounts, objects, flags

LEMMA WarpSound ==
  ASSUME TypeOK, Intact, NEW i \in Int, Warp(i)
  PROVE  Sound
<1>1. EntriesOK /\ BooksOK /\ WorldOK
  BY DEF TypeOK
<1> DEFINE tb == Warped(i)
<1>2. DOMAIN tb = DOMAIN table /\ tb \in [DOMAIN table -> Entry]
  <2>1. ASSUME NEW p \in DOMAIN table
        PROVE  /\ table[p] \in Entry /\ [table[p] EXCEPT !.waittime = -i] \in Entry
               /\ [table[p] EXCEPT !.waittime = IF @ - i > 0 THEN @ - i ELSE -1] \in Entry
    <3>1. table[p] \in Entry
      BY <1>1 DEF EntriesOK
    <3>2. PICK e \in Entry : e = table[p]
      BY <3>1
    <3>3. [e EXCEPT !.waittime = -i] \in Entry
      BY DEF Entry
    <3>4. [e EXCEPT !.waittime = IF @ - i > 0 THEN @ - i ELSE -1] \in Entry
      BY DEF Entry
    <3> QED
      BY <3>1, <3>2, <3>3, <3>4, Zenon
  <2> QED
    BY <2>1 DEF Warped
<1>3. DoSecond(tb, now) /\ now \in Int /\ count \in [Sems -> Int]
  BY <1>1 DEF Warp, WorldOK, BooksOK
<1> HIDE DEF tb
<1>4. Kept /\ count' \in [Sems -> Int]
  BY <1>1, <1>2, <1>3, DoSecondKeeps
<1>5. UNCHANGED <<accounts, objects, flags, times, frames>>
  BY DEF Warp
<1> QED
  BY <1>1, <1>4, <1>5 DEF Sound, BooksOK, WorldOK, accounts, objects, flags, times

-----------------------------------------------------------------------------
(* The executor. *)
LEMMA ExecutionSound ==
  ASSUME TypeOK, Intact, Execution
  PROVE  Sound
<1>1. EntriesOK /\ BooksOK /\ WorldOK
  BY DEF TypeOK
<1>2. ASSUME UNCHANGED <<entries, accounts, count>>
      PROVE  Kept /\ BooksOK'
  BY <1>1, <1>2, KeptUnchanged DEF BooksOK, accounts
<1>3. ASSUME NEW n \in Int, NEW off \in BOOLEAN, Enters(n, off)
      PROVE  frames' \in Seq(Frame)
  <2>1. Looping(n, off) \in Frame
    BY DEF Looping, Frame
  <2> QED
    BY <1>1, <1>3, <2>1 DEF Enters, WorldOK
<1>4. ASSUME NEW n \in Chunks, BeginTop(n)
      PROVE  Sound
  <2>1. n \in Int
    BY InputAssumption
  <2>2. frames' \in Seq(Frame)
    BY <1>3, <1>4, <2>1 DEF BeginTop
  <2> QED
    BY <1>1, <1>2, <1>4, <2>2 DEF BeginTop, Sound, WorldOK, objects, flags, times
<1>5. ASSUME NEW n \in Kicks, Kick(n)
      PROVE  Sound
  <2>1. n \in Int /\ (~dequeue) \in BOOLEAN
    <3>1. n \in Int
      BY InputAssumption
    <3>2. (~dequeue) \in BOOLEAN
      OBVIOUS
    <3> QED
      BY <3>1, <3>2
  <2>2. frames' \in Seq(Frame)
    BY <1>3, <1>5, <2>1 DEF Kick
  <2> QED
    BY <1>1, <1>2, <1>5, <2>2 DEF Kick, Sound, WorldOK, objects, times
<1>6. ASSUME AtLoop
      PROVE  /\ qfirst # <<>> /\ ~Idle /\ Head(qfirst) \in Pids /\ Head(qfirst) \in DOMAIN table
             /\ HeadEntry \in Entry
  <2>1. qfirst # <<>> /\ qfirst \in Seq(DOMAIN table) /\ ~Idle
    BY <1>1, <1>6, ListsOfEntries DEF AtLoop
  <2>2. Head(qfirst) \in DOMAIN table
    BY <2>1
  <2> QED
    BY <1>1, <2>1, <2>2 DEF EntriesOK, HeadEntry
<1>7. ASSUME AtLoop, Startable, PaidBack
      PROVE  queue' \in [Players -> Int] /\ money' \in [Players -> Int]
  <2>1. owner[HeadEntry.player] \in Players
    BY <1>1, <1>6, <1>7 DEF Startable, Entry, WorldOK
  <2>2. Refund(money, owner[HeadEntry.player], 1) \in [Players -> Int]
    BY <1>1, <2>1, RefundTypes DEF BooksOK
  <2> QED
    BY <1>1, <1>7, <2>1, <2>2 DEF PaidBack, BooksOK
<1>8. CASE StartEntry
  <2> DEFINE p == Head(qfirst)
             f == [at |-> "run", pid |-> Head(qfirst), who |-> HeadEntry.player,
                   left |-> Top.left, disabled |-> Top.disabled]
  <2>1. queue' \in [Players -> Int] /\ money' \in [Players -> Int]
    BY <1>7, <1>8 DEF StartEntry
  <2>2. p \in Pids /\ p \in DOMAIN table /\ ~Idle /\ HeadEntry \in Entry
    BY <1>6, <1>8 DEF StartEntry
  <2>3. frames' \in Seq(Frame)
    <3>1. Top \in Frame /\ Outer \in Seq(Frame)
      BY <1>1, <2>2, FrameTypes
    <3>2. f \in Frame
      BY <2>2, <3>1 DEF Frame, Entry
    <3>3. frames' = Append(Outer, f)
      BY <1>8 DEF StartEntry
    <3> HIDE DEF f
    <3> QED
      BY <3>1, <3>2, <3>3
  <2>4. DOMAIN table' = DOMAIN table /\ table' \in [DOMAIN table -> Entry]
    <3>1. table[p] \in Entry
      BY <1>1, <2>2 DEF EntriesOK
    <3>2. [table[p] EXCEPT !.player = Nothing] \in Entry
      BY <3>1, EntryUpdates, Zenon
    <3>3. table' = [table EXCEPT ![p] = [table[p] EXCEPT !.player = Nothing]]
      BY <1>8 DEF StartEntry
    <3>4. table \in [DOMAIN table -> Entry]
      BY <1>1 DEF EntriesOK
    <3> HIDE DEF p
    <3> QED
      BY <2>2, <3>2, <3>3, <3>4
  <2>5. UNCHANGED <<qfirst, qlfirst, qwait, qsem, qpid_top, count, objects, flags, times>>
    BY <1>8 DEF StartEntry
  <2>6. Kept
    BY <1>1, <2>4, <2>5 DEF EntriesOK, Intact, Disjoint, Linked, Complete, Kept
  <2> QED
    BY <1>1, <2>1, <2>3, <2>5, <2>6 DEF Sound, BooksOK, WorldOK, objects, flags, times
<1>9. ASSUME ~Idle, qfirst # <<>>, PopHead, UNCHANGED <<count, objects, flags, times>>,
             queue' \in [Players -> Int], money' \in [Players -> Int]
      PROVE  Sound
  <2>1. Kept /\ frames' \in Seq(Frame)
    BY <1>1, <1>9, PopHeadKeeps
  <2> QED
    BY <1>1, <1>9, <2>1 DEF Sound, BooksOK, WorldOK, objects, flags, times
<1>10. CASE PassOver
  BY <1>6, <1>7, <1>9, <1>10 DEF PassOver
<1>11. CASE Discard
  <2>1. queue' \in [Players -> Int] /\ money' \in [Players -> Int]
    BY <1>1, <1>11 DEF Discard, BooksOK, accounts
  <2> QED
    BY <1>6, <1>9, <1>11, <2>1 DEF Discard
<1>12. CASE EndEntry
  <2>1. ~Idle /\ queue' \in [Players -> Int] /\ money' \in [Players -> Int]
        /\ UNCHANGED <<count, objects, flags, times>>
    BY <1>1, <1>12 DEF EndEntry, BooksOK, accounts
  <2>2. CASE qfirst # <<>>
    BY <1>9, <1>12, <2>1, <2>2 DEF EndEntry
  <2>3. CASE qfirst = <<>>
    <3>1. frames' \in Seq(Frame)
      BY <1>1, <1>12, <2>1, <2>3, FrameTypes DEF EndEntry
    <3> QED
      BY <1>1, <1>2, <1>12, <2>1, <2>3, <3>1 DEF EndEntry, Sound, WorldOK, objects, flags, times
  <2> QED
    BY <2>2, <2>3
<1>13. CASE EndTop
  <2>1. frames' \in Seq(Frame)
    BY <1>1, <1>13, FrameTypes DEF EndTop
  <2>2. dequeue' \in BOOLEAN
    BY <1>13 DEF EndTop
  <2> QED
    BY <1>1, <1>2, <1>13, <2>1, <2>2 DEF EndTop, Sound, WorldOK, objects, times
<1> QED
  BY <1>4, <1>5, <1>8, <1>10, <1>11, <1>12, <1>13 DEF Execution

(* The operations of other files, and the clock. *)
LEMMA SurroundingsSound ==
  ASSUME TypeOK, Intact, Surroundings
  PROVE  Sound
<1>1. EntriesOK /\ BooksOK /\ WorldOK
  BY DEF TypeOK
<1>2. ASSUME UNCHANGED <<entries, accounts, count>>, WorldOK'
      PROVE  Sound
  BY <1>1, <1>2, KeptUnchanged DEF Sound, BooksOK, accounts
<1>3. CASE Tick
  <2>1. WorldOK'
    BY <1>1, <1>3 DEF Tick, WorldOK, objects, flags
  <2> QED
    BY <1>2, <1>3, <2>1 DEF Tick
<1>4. CASE Dispatch
  BY <1>4, DispatchSound
<1>5. ASSUME NEW i \in Issuers, SetHalt(i[1])
      PROVE  Sound
  <2>1. WorldOK'
    BY <1>1, <1>5, InputAssumption DEF SetHalt, WorldOK, flags, times
  <2> QED
    BY <1>2, <1>5, <2>1 DEF SetHalt
<1>6. ASSUME NEW c \in Chowns, Chown(c[1], c[2])
      PROVE  Sound
  <2>1. c[1] \in Things /\ c[2] \in Players
    BY InputAssumption
  <2> QED
    BY <1>6, <2>1, ChownSound
<1>7. ASSUME NEW c \in ChownAlls, ChownAll(c[1], c[2])
      PROVE  Sound
  <2>1. c[1] \in Players /\ c[2] \in Players
    BY InputAssumption
  <2>2. WorldOK'
    BY <1>1, <1>7, <2>1 DEF ChownAll, WorldOK, flags, times, Objects
  <2> QED
    BY <1>2, <1>7, <2>2 DEF ChownAll
<1>8. ASSUME NEW t \in Things, MarkGoing(t) \/ Spare(t) \/ Purge(t)
      PROVE  Sound
  <2>1. CASE MarkGoing(t) \/ Spare(t)
    <3>1. WorldOK'
      BY <1>1, <2>1 DEF MarkGoing, Spare, WorldOK, flags, times
    <3> QED
      BY <1>2, <2>1, <3>1 DEF MarkGoing, Spare
  <2> QED
    BY <1>8, <2>1, PurgeSound
<1>9. CASE SwitchDequeue
  <2>1. WorldOK'
    BY <1>1, <1>9 DEF SwitchDequeue, WorldOK, objects, times
  <2> QED
    BY <1>2, <1>9, <2>1 DEF SwitchDequeue
<1>10. CASE SwitchInterp
  <2>1. WorldOK'
    BY <1>1, <1>10 DEF SwitchInterp, WorldOK, objects, times
  <2> QED
    BY <1>2, <1>10, <2>1 DEF SwitchInterp
<1> QED
  BY <1>3, <1>4, <1>5, <1>6, <1>7, <1>8, <1>9, <1>10 DEF Surroundings

-----------------------------------------------------------------------------
(***************************************************************************)
(* @halt/pid and @wait/pid keep the types, and lose no entry as long as    *)
(* the lists come out intact.                                              *)
(***************************************************************************)
LEMMA HaltPidTypes ==
  ASSUME TypeOK, Intact, NEW p \in Pids, HaltPid(p)
  PROVE  TypeOK' /\ (Intact' /\ Complete => Complete')
<1>1. EntriesOK /\ BooksOK /\ WorldOK /\ p \in DOMAIN table
  BY DEF TypeOK, HaltPid, Live
<1>2. /\ table' = Freed(table, {p}) /\ SettleEach({p})
      /\ UNCHANGED <<qfirst, qlfirst, qpid_top, objects, flags, times, frames>>
  BY DEF HaltPid
<1>3. DOMAIN table' = DOMAIN table \ {p} /\ table' \in [DOMAIN table' -> Entry]
  BY <1>1, <1>2 DEF Freed, EntriesOK
<1>4. /\ qwait' \in Seq(Pids) /\ qsem' \in Seq(Pids)
      /\ Range(qwait) \ {p} \subseteq Range(qwait')
      /\ Range(qsem) \ {p} \subseteq Range(qsem')
  <2>1. /\ Without(qwait, {p}) \in Seq(Pids) /\ Range(Without(qwait, {p})) = Range(qwait) \ {p}
        /\ Without(qsem, {p}) \in Seq(Pids) /\ Range(Without(qsem, {p})) = Range(qsem) \ {p}
    BY <1>1, WithoutProperties DEF EntriesOK
  <2>2. \/ qwait' = Without(qwait, {p}) /\ qsem' = qsem
        \/ qsem' = Without(qsem, {p}) /\ qwait' = qwait
    BY DEF HaltPid
  <2> QED
    BY <1>1, <2>1, <2>2 DEF EntriesOK
<1>5. count' \in [Sems -> Int]
  <2>1. CASE table[p].sem = Nothing
    BY <1>1, <2>1 DEF HaltPid, BooksOK
  <2>2. CASE table[p].sem # Nothing
    BY <1>1, <2>2 DEF HaltPid, BooksOK
  <2> QED
    BY <2>1, <2>2
<1>6. queue' \in [Players -> Int] /\ money' \in [Players -> Int]
  BY <1>1, <1>2, SettleEachTypes
<1>7. TypeOK'
  BY <1>1, <1>2, <1>3, <1>4, <1>5, <1>6 DEF TypeOK, EntriesOK, BooksOK, WorldOK, objects, flags, times
<1>8. Complete => Complete'
  BY <1>2, <1>3, <1>4 DEF Complete, Linked
<1> QED
  BY <1>7, <1>8

LEMMA SpliceProperties ==
  ASSUME NEW T, NEW q \in Seq(T), NEW w \in Seq(T), NEW p \in Range(w)
  PROVE  /\ Splice(q, p, w) \in Seq(T)
         /\ p \in Range(q) => p \in Range(Splice(q, p, w))
         /\ p \notin Range(q) => Splice(q, p, w) = q
<1>1. CASE p \notin Range(q)
  BY <1>1 DEF Splice
<1>2. CASE p \in Range(q)
  <2> DEFINE i == CHOOSE k \in DOMAIN q : q[k] = p
             j == CHOOSE k \in DOMAIN w : w[k] = p
             a == FirstOf(q, i)
             b == [k \in 1..Len(w) - j |-> w[j + k]]
  <2>1. i \in DOMAIN q /\ q[i] = p
    BY <1>2 DEF Range
  <2>2. j \in DOMAIN w
    BY DEF Range
  <2>3. Splice(q, p, w) = a \o b
    BY <1>2 DEF Splice
  <2> HIDE DEF i, j
  <2>4. i \in 1..Len(q) /\ j \in 1..Len(w) /\ Len(q) \in Nat /\ Len(w) \in Nat
    BY <2>1, <2>2
  <2>5. a \in Seq(T) /\ p \in Range(a)
    <3>1. a = [k \in 1..i |-> q[k]]
      BY <2>4 DEF FirstOf
    <3>2. a \in Seq(T)
      BY <2>4, FirstOfProperties
    <3> HIDE DEF a
    <3> QED
      BY <2>1, <2>4, <3>1, <3>2 DEF Range
  <2>6. b \in Seq(T)
    <3>1. Len(w) - j \in Nat /\ \A k \in 1..Len(w) - j : w[j + k] \in T
      BY <2>4
    <3> QED
      BY <3>1
  <2> HIDE DEF a, b
  <2>7. a \o b \in Seq(T) /\ Range(a \o b) = Range(a) \cup Range(b)
    BY <2>5, <2>6, ConcatRange
  <2> QED
    BY <1>2, <2>3, <2>5, <2>7
<1> QED
  BY <1>1, <1>2

LEMMA WaitPidTypes ==
  ASSUME TypeOK, Intact, NEW p \in Pids, NEW a \in Adjustments, WaitPid(p, a)
  PROVE  TypeOK' /\ (Intact' /\ Complete => Complete')
<1> DEFINE tb == [table EXCEPT ![p].waittime = AdjustedTime(table[p].waittime, a)]
           w == Thread(Without(qwait, {p}), DueIn(tb), p)
<1>1. EntriesOK /\ BooksOK /\ WorldOK /\ p \in DOMAIN table
  BY DEF TypeOK, WaitPid, Live
<1>2. DOMAIN tb = DOMAIN table /\ tb \in [DOMAIN table -> Entry]
  <2> DEFINE t == AdjustedTime(table[p].waittime, a)
  <2>1. table[p] \in Entry /\ table \in [DOMAIN table -> Entry]
    BY <1>1 DEF EntriesOK
  <2>2. t \in Int
    <3>1. a.val \in Int /\ table[p].waittime \in Int /\ clock \in Int /\ IntMax \in Int
      BY <1>1, <2>1, InputAssumption, ParameterAssumption DEF Entry, WorldOK
    <3> QED
      BY <3>1 DEF AdjustedTime
  <2>3. PICK e \in Entry : e = table[p]
    BY <2>1
  <2> HIDE DEF t
  <2>4. [e EXCEPT !.waittime = t] \in Entry
    BY <2>2 DEF Entry
  <2>5. [table EXCEPT ![p] = [e EXCEPT !.waittime = t]] \in [DOMAIN table -> Entry]
    BY <1>1, <2>1, <2>4
  <2>6. tb = [table EXCEPT ![p] = [e EXCEPT !.waittime = t]]
    BY <2>3 DEF t
  <2> QED
    BY <2>5, <2>6
<1>3. /\ table' = tb
      /\ UNCHANGED <<qsem, qpid_top, accounts, count, objects, flags, times, frames>>
      /\ \/ qwait' = w /\ qfirst' = Splice(qfirst, p, w) /\ qlfirst' = Splice(qlfirst, p, w)
         \/ UNCHANGED <<qwait, qfirst, qlfirst>>
  BY DEF WaitPid
<1>4. w \in Seq(Pids) /\ Range(w) = Range(qwait) \cup {p}
  <2> DEFINE due == DueIn(tb)
             q == Without(qwait, {p})
             D == DOMAIN table
  <2>1. due \in [D -> Int]
    BY <1>2 DEF DueIn, Entry
  <2>2. q \in Seq(D) /\ Range(q) = Range(qwait) \ {p}
    <3>1. qwait \in Seq(D)
      BY <1>1, ListsOfEntries
    <3> QED
      BY <3>1, WithoutProperties
  <2>3. w = Thread(q, due, p) /\ D \subseteq Pids
    BY <1>1 DEF EntriesOK
  <2> HIDE DEF due, q, D, w
  <2>4. p \in D
    BY <1>1 DEF D
  <2>5. Thread(q, due, p) \in Seq(D) /\ Range(Thread(q, due, p)) = Range(q) \cup {p}
    BY <2>1, <2>2, <2>4, ThreadProperties
  <2>6. w \in Seq(Pids)
    BY <2>3, <2>5, Widen
  <2> QED
    BY <2>2, <2>3, <2>5, <2>6
<1> HIDE DEF tb, w
<1>5. p \in Range(w) /\ qfirst \in Seq(Pids) /\ qlfirst \in Seq(Pids)
  BY <1>1, <1>4 DEF EntriesOK
<1>6. /\ Splice(qfirst, p, w) \in Seq(Pids)
      /\ p \in Range(qfirst) => p \in Range(Splice(qfirst, p, w))
      /\ p \notin Range(qfirst) => Splice(qfirst, p, w) = qfirst
  BY <1>4, <1>5, SpliceProperties
<1>7. /\ Splice(qlfirst, p, w) \in Seq(Pids)
      /\ p \in Range(qlfirst) => p \in Range(Splice(qlfirst, p, w))
      /\ p \notin Range(qlfirst) => Splice(qlfirst, p, w) = qlfirst
  BY <1>4, <1>5, SpliceProperties
<1>8. EntriesOK'
  BY <1>1, <1>2, <1>3, <1>4, <1>6, <1>7 DEF EntriesOK
<1>9. TypeOK'
  BY <1>1, <1>3, <1>8 DEF TypeOK, BooksOK, WorldOK, accounts, objects, flags, times
<1>10. ASSUME Intact', Complete
       PROVE  Complete'
  <2>1. CASE UNCHANGED <<qwait, qfirst, qlfirst>>
    BY <1>2, <1>3, <1>10, <2>1 DEF Complete, Linked
  <2>2. CASE qwait' = w /\ qfirst' = Splice(qfirst, p, w) /\ qlfirst' = Splice(qlfirst, p, w)
    <3>1. p \notin Range(qfirst') /\ p \notin Range(qlfirst')
      BY <1>5, <1>10, <2>2 DEF Intact, Disjoint
    <3>2. qfirst' = qfirst /\ qlfirst' = qlfirst
      BY <1>6, <1>7, <2>2, <3>1
    <3> QED
      BY <1>2, <1>3, <1>4, <1>10, <2>2, <3>2 DEF Complete, Linked
  <2> QED
    BY <1>3, <2>1, <2>2
<1> QED
  BY <1>9, <1>10

-----------------------------------------------------------------------------
(***************************************************************************)
(* The initial states, and every step.                                     *)
(***************************************************************************)
LEMMA InitSound == Init => TypeOK /\ Complete
<1> SUFFICES ASSUME Init PROVE TypeOK /\ Complete
  OBVIOUS
<1>1. table = <<>> /\ DOMAIN table = {}
  BY DEF Init
<1>2. table \in [DOMAIN table -> Entry]
  BY <1>1
<1>3. qpid_top \in Pids
  BY ParameterAssumption DEF Init, Pids
<1>4. owner \in [Objects -> Players]
  BY DEF Init
<1>5. /\ qfirst \in Seq(Pids) /\ qlfirst \in Seq(Pids)
      /\ qwait \in Seq(Pids) /\ qsem \in Seq(Pids) /\ frames \in Seq(Frame)
  BY DEF Init
<1>6. EntriesOK
  BY <1>1, <1>2, <1>3, <1>5 DEF EntriesOK
<1>7. BooksOK
  BY ParameterAssumption DEF Init, BooksOK
<1>8. WorldOK
  BY <1>4, <1>5, ParameterAssumption DEF Init, WorldOK
<1> QED
  BY <1>1, <1>6, <1>7, <1>8 DEF TypeOK, Complete

LEMMA QueueOperationCases ==
  ASSUME TypeOK, Intact, QueueOperation
  PROVE  \/ Sound
         \/ "haltpid" \in Ops /\ \E p \in Pids : HaltPid(p)
         \/ \E p \in Pids, a \in Adjustments : WaitPid(p, a)
<1>1. ASSUME NEW i \in Issuers, NEW d \in Delays, Wait(i[1], i[2], d)
      PROVE  Sound
  <2>1. i[1] \in Objects /\ i[2] \in Objects /\ d \in Int
    BY InputAssumption
  <2>2. count \in [Sems -> Int] /\ WaitQue(i[1], i[2], d, Nothing, count)
    BY <1>1 DEF TypeOK, BooksOK, Wait
  <2> QED
    BY <2>1, <2>2, WaitQueSound
<1>2. ASSUME NEW i \in Issuers, NEW s \in Sems, NEW d \in Timeouts, WaitSem(i[1], i[2], s, d)
      PROVE  Sound
  <2>1. i[1] \in Objects /\ i[2] \in Objects /\ d \in Int
    BY InputAssumption
  <2> QED
    BY <1>2, <2>1, WaitSemSound
<1>3. ASSUME NEW s \in Sems, NEW n \in NotifyCounts, Notify(s, n)
      PROVE  Sound
  BY <1>3, NotifySound
<1>4. ASSUME NEW s \in Sems, NotifyAll(s)
      PROVE  Sound
  BY <1>4, NotifySound
<1>5. ASSUME NEW s \in Sems, Drain(s)
      PROVE  Sound
  BY <1>5, DrainSound
<1>6. ASSUME NEW t \in HaltTargets, Halt(t[1], t[2])
      PROVE  Sound
  <2>1. t[1] \in Players \cup {Nothing} /\ t[2] \in Objects \cup {Nothing}
    BY InputAssumption
  <2> QED
    BY <1>6, <2>1, HaltSound
<1>7. ASSUME NEW i \in Warps, Warp(i)
      PROVE  Sound
  <2>1. i \in Int
    BY InputAssumption
  <2> QED
    BY <1>7, <2>1, WarpSound
<1> QED
  BY <1>1, <1>2, <1>3, <1>4, <1>5, <1>6, <1>7 DEF QueueOperation

(***************************************************************************)
(* Every step of the queue keeps the types.  A step that leaves the lists  *)
(* intact loses no entry.                                                  *)
(***************************************************************************)
LEMMA StepTypes ==
  ASSUME TypeOK, [Next]_vars
  PROVE  TypeOK' /\ (Intact /\ Intact' /\ Complete => Complete')
<1>1. ASSUME Sound
      PROVE  TypeOK' /\ (Intact' /\ Complete => Complete')
  BY <1>1 DEF Sound, Kept, TypeOK
<1>2. CASE UNCHANGED vars
  <2>1. TypeOK'
    BY <1>2 DEF vars, TypeOK, EntriesOK, BooksOK, WorldOK
  <2>2. Complete => Complete'
    BY <1>2 DEF vars, Complete, Linked
  <2> QED
    BY <2>1, <2>2
<1>3. CASE Intact /\ QueueOperation
  BY <1>1, <1>3, QueueOperationCases, HaltPidTypes, WaitPidTypes
<1>4. CASE Intact /\ Execution
  BY <1>1, <1>4, ExecutionSound
<1>5. CASE Intact /\ Surroundings
  BY <1>1, <1>5, SurroundingsSound
<1> QED
  BY <1>2, <1>3, <1>4, <1>5 DEF Next

(* Lists that are not intact are the end of the model.                     *)
LEMMA BrokenStays ==
  ASSUME ~Intact, [Next]_vars
  PROVE  ~Intact'
BY DEF Next, vars, Intact, Linked, Disjoint

-----------------------------------------------------------------------------
(***************************************************************************)
(* Every list holds PIDs, every PID in use has a well-formed entry, and    *)
(* the books stay defined, whatever cque_*.c is made to do, the two        *)
(* operations that corrupt the lists (@halt/pid, @wait/pid) included.      *)
(***************************************************************************)
THEOREM Typing == Spec => []TypeOK
<1>1. Init => TypeOK
  BY InitSound
<1>2. TypeOK /\ [Next]_vars => TypeOK'
  BY StepTypes
<1> QED
  BY <1>1, <1>2, PTL DEF Spec

(***************************************************************************)
(* While the lists are intact, every entry that cque_add_to has put into   *)
(* the PID table is on one of the four queues: no operation forgets one.   *)
(***************************************************************************)
THEOREM NoneForgotten == Spec => []Registered
<1>1. Init => Registered
  BY InitSound DEF Registered, Complete
<1>2. TypeOK /\ Registered /\ [Next]_vars => Registered'
  <2> SUFFICES ASSUME TypeOK, Registered, [Next]_vars, Intact'
               PROVE  Complete'
    BY DEF Registered, Complete
  <2>1. Intact
    BY BrokenStays
  <2>2. Complete
    BY <2>1 DEF Registered, Complete
  <2> QED
    BY <2>1, <2>2, StepTypes
<1> QED
  BY <1>1, <1>2, Typing, PTL DEF Spec

(***************************************************************************)
(* Where the operations on a single PID are not used, nothing ever         *)
(* corrupts a list, whatever else happens in whatever order.               *)
(***************************************************************************)
SoundWithoutPidOps == "haltpid" \notin Ops /\ Adjustments = {} => Intact

THEOREM ListsStayIntact == Spec => []SoundWithoutPidOps
<1>1. Init => SoundWithoutPidOps
  BY DEF Init, Intact, Linked, Disjoint, Range, IsInjective, SoundWithoutPidOps
<1>2. TypeOK /\ SoundWithoutPidOps /\ [Next]_vars => SoundWithoutPidOps'
  <2> SUFFICES ASSUME "haltpid" \notin Ops, Adjustments = {}, TypeOK, Intact, [Next]_vars
               PROVE  Intact'
    BY DEF SoundWithoutPidOps
  <2>1. CASE UNCHANGED vars
    BY <2>1 DEF vars, Intact, Linked, Disjoint
  <2>2. CASE QueueOperation \/ Execution \/ Surroundings
    BY <2>2, QueueOperationCases, ExecutionSound, SurroundingsSound DEF Sound, Kept
  <2> QED
    BY <2>1, <2>2 DEF Next
<1> QED
  BY <1>1, <1>2, Typing, PTL DEF Spec

-----------------------------------------------------------------------------
(* The kinds of steps, by what they do to the entries, to the counts of    *)
(* the semaphores, to the calls of cque_do_top and to what exists.         *)

Stays(x) == Exists(x) => fate'[x] # "garbage"
StillThere == \A x \in Objects : Stays(x)
NoneLower == \A s \in Sems : count[s] <= count'[s]

CallsMove ==
  \/ (Idle \/ Kicks # {}) /\ \E n \in Int, off \in BOOLEAN : Enters(n, off)
  \/ ~Idle /\ frames' = Outer
  \/ ~Idle /\ frames' = Append(Outer, NextRound)

(* The entries stay where they are. *)
Rests ==
  /\ UNCHANGED entries
  /\ NoneLower /\ StillThere
  /\ (UNCHANGED frames) \/ CallsMove

(* A new entry e is filed under the PID p. *)
Files(p, e, d) ==
  /\ p \in Pids \ DOMAIN table /\ e \in Entry
  /\ table' = WithEntry(p, e)
  /\ File(WithEntry(p, e), p, d > 0)
  /\ e.player \in Objects /\ Exists(e.player)
  /\ e.sem = Nothing /\ ~(d > 0) => e.waittime = 0
  /\ e.sem = Nothing => NoneLower
  /\ e.sem # Nothing =>
       Exists(e.sem[1]) /\ count' = [count EXCEPT ![e.sem] = @ + 1] /\ count'[e.sem] > 0
  /\ UNCHANGED <<fate, frames>>

(* The entries H are halted: those on a run queue are marked, the others   *)
(* are taken off their list and freed, and so are the waiters D.           *)
WaitersIn(H, s) == {p \in H \cap Range(qsem) : table[p].sem = s}
Parked(H, D) == D \cup (H \cap (Range(qwait) \cup Range(qsem)))

Cuts(H, D) ==
  /\ H \subseteq Live /\ D \subseteq Range(qsem)
  /\ table' = [p \in DOMAIN table \ Parked(H, D) |->
                 IF p \in H THEN [table[p] EXCEPT !.player = Nothing] ELSE table[p]]
  /\ qwait' = Without(qwait, H) \/ (H = {} /\ qwait' = qwait)
  /\ qsem' = Without(qsem, H \cup D)
  /\ UNCHANGED <<qfirst, qlfirst, qpid_top, frames>>
  /\ \A s \in Sems : \/ WaitersOf(s) \subseteq H \cup D
                     \/ count'[s] >= count[s] - Cardinality(WaitersIn(H, s))
  /\ \A p \in Live \ H : Stays(table[p].player)
  /\ \A p \in Range(qsem) \ (H \cup D) : Stays(table[p].sem[1])

(* The oldest waiters q of the semaphore s are made runnable: as many as   *)
(* the count goes down by, or all of them.                                 *)
Releases(s, q) ==
  /\ q \in Seq(Pids) /\ IsInjective(q) /\ Range(q) \subseteq WaitersOf(s)
  /\ Release(q)
  /\ \A i, j \in DOMAIN qsem :
       i < j /\ qsem[i] \in WaitersOf(s) /\ qsem[j] \in Range(q) => qsem[i] \in Range(q)
  /\ \A r \in Sems \ {s} : count'[r] = count[r]
  /\ \/ count[s] <= 0
     \/ Range(q) = WaitersOf(s)
     \/ count'[s] = count[s] - Cardinality(Range(q))
  /\ UNCHANGED <<fate, frames>>

(* What is due at the time t is made runnable. *)
Promotes(tb, t) ==
  /\ t \in Int
  /\ DoSecond(tb, t)
  /\ tb = table \/ \E i \in Int : tb = Warped(i)
  /\ UNCHANGED <<fate, frames>>

(* The head of the run queue leaves it. *)
Pops ==
  /\ ~Idle /\ qfirst # <<>>
  /\ PopHead
  /\ UNCHANGED <<count, fate>>

-----------------------------------------------------------------------------
(* Every operation is a step of one of these kinds.                        *)

LEMMA HaltEntriesCuts ==
  ASSUME TypeOK, NEW H \in SUBSET Live, NEW cnt \in [Sems -> Int],
         \A s \in Sems : cnt[s] >= count[s], HaltEntries(H, cnt), UNCHANGED <<fate, frames>>
  PROVE  Cuts(H, {})
<1>1. H \cup {} = H /\ Parked(H, {}) = H \cap (Range(qwait) \cup Range(qsem))
  BY DEF Parked
<1>2. \A s \in Sems : count'[s] >= count[s] - Cardinality(WaitersIn(H, s))
  <2>1. ASSUME NEW s \in Sems PROVE count'[s] >= count[s] - Cardinality(WaitersIn(H, s))
    <3>1. WaitersIn(H, s) \in SUBSET Pids
      BY DEF WaitersIn, Live, TypeOK, EntriesOK
    <3>2. Cardinality(WaitersIn(H, s)) \in Nat
      BY <3>1, PidsFinite
    <3>3. count'[s] = cnt[s] - Cardinality(WaitersIn(H, s))
      BY DEF HaltEntries, WaitersIn
    <3>4. count[s] \in Int /\ cnt[s] \in Int /\ cnt[s] >= count[s]
      BY DEF TypeOK, BooksOK
    <3> QED
      BY <3>2, <3>3, <3>4
  <2> QED
    BY <2>1
<1>3. /\ table' = [p \in DOMAIN table \ Parked(H, {}) |->
                     IF p \in H THEN [table[p] EXCEPT !.player = Nothing] ELSE table[p]]
      /\ qwait' = Without(qwait, H) /\ qsem' = Without(qsem, H \cup {})
      /\ UNCHANGED <<qfirst, qlfirst, qpid_top, frames>>
  BY <1>1 DEF HaltEntries
<1>4. \A x : Stays(x)
  BY DEF Exists, Stays
<1> QED
  BY <1>2, <1>3, <1>4 DEF Cuts

LEMMA WaitQueCases ==
  ASSUME TypeOK, Intact, NEW x \in Objects, NEW c \in Objects, NEW d \in Int,
         NEW s \in Sems \cup {Nothing}, NEW cnt \in [Sems -> Int], WaitQue(x, c, d, s, cnt),
         \A r \in Sems : cnt[r] >= count[r], Exists(x),
         s # Nothing => Exists(s[1]) /\ cnt = [count EXCEPT ![s] = @ + 1] /\ cnt[s] > 0
  PROVE  \/ Rests
         \/ \E H, D \in SUBSET Pids : Cuts(H, D)
         \/ \E p \in Pids, e \in Entry, t \in Int : Files(p, e, t)
<1>1. UNCHANGED <<owner, fate, dequeue, interp, clock, now, frames>>
  BY DEF WaitQue, flags, times
<1>2. ASSUME UNCHANGED entries, count' = cnt PROVE Rests
  <2>1. StillThere
    BY <1>1 DEF StillThere, Stays, Exists
  <2>2. NoneLower
    BY <1>2 DEF NoneLower, TypeOK, BooksOK
  <2> QED
    BY <1>1, <1>2, <2>1, <2>2 DEF Rests
<1>3. CASE ~interp
  BY <1>2, <1>3 DEF WaitQue
<1>4. CASE interp
  <2>1. PICK fee \in Fees : \/ Refused(x, fee, cnt) \/ Runaway(x, fee, cnt)
                            \/ TableFull(x, fee, cnt) \/ Enter(x, c, d, s, fee, cnt)
    BY <1>4 DEF WaitQue
  <2>2. CASE Refused(x, fee, cnt) \/ TableFull(x, fee, cnt)
    BY <1>2, <2>2 DEF Refused, TableFull
  <2>3. CASE Runaway(x, fee, cnt)
    <3> DEFINE H == LiveOf(owner[x])
    <3>1. HaltEntries(H, cnt) /\ H \in SUBSET Live
      BY <2>3 DEF Runaway, LiveOf
    <3>2. Cuts(H, {})
      BY <1>1, <3>1, HaltEntriesCuts
    <3>3. H \in SUBSET Pids
      BY DEF LiveOf, Live, TypeOK, EntriesOK
    <3> QED
      BY <3>2, <3>3
  <2>4. CASE Enter(x, c, d, s, fee, cnt)
    <3> DEFINE p == NextPid
               e == [player |-> x, cause |-> c, sem |-> s,
                     waittime |-> IF s = Nothing /\ ~(d > 0) THEN 0 ELSE WaitTime(d)]
    <3>1. p \in Pids \ DOMAIN table
      BY <2>4, NextPidFree DEF Enter, TypeOK
    <3>2. e \in Entry
      <4>1. WaitTime(d) \in Int
        BY ParameterAssumption DEF WaitTime, TypeOK, WorldOK
      <4> QED
        BY <4>1 DEF Entry
    <3>3. /\ table' = WithEntry(p, e) /\ File(WithEntry(p, e), p, d > 0) /\ count' = cnt
          /\ e.player = x /\ e.sem = s /\ (s = Nothing /\ ~(d > 0) => e.waittime = 0)
      BY <2>4 DEF Enter
    <3> HIDE DEF p, e
    <3>5. s = Nothing => NoneLower
      BY <3>3 DEF NoneLower, TypeOK, BooksOK
    <3>6. Files(p, e, d)
      BY <1>1, <3>1, <3>2, <3>3, <3>5 DEF Files
    <3> QED
      BY <3>1, <3>2, <3>6
  <2> QED
    BY <2>1, <2>2, <2>3, <2>4
<1> QED
  BY <1>3, <1>4 DEF TypeOK, WorldOK

LEMMA AwaitingOrder ==
  ASSUME EntriesOK, Intact, count \in [Sems -> Int], NEW s \in Sems
  PROVE  /\ Awaiting(s) \in Seq(Pids) /\ IsInjective(Awaiting(s))
         /\ count[s] <= 0 => Awaiting(s) = <<>>
         /\ count[s] > 0 => Range(Awaiting(s)) = WaitersOf(s)
         /\ \A n \in Nat : \A i, j \in DOMAIN qsem :
              i < j /\ qsem[i] \in WaitersOf(s) /\ qsem[j] \in Range(FirstOf(Awaiting(s), n))
                => qsem[i] \in Range(FirstOf(Awaiting(s), n))
<1>1. qsem \in Seq(Pids) /\ IsInjective(qsem) /\ WaitersOf(s) \subseteq Range(qsem)
  BY DEF EntriesOK, Intact, WaitersOf
<1>2. CASE count[s] > 0
  <2>1. Awaiting(s) = Only(qsem, WaitersOf(s))
    BY <1>2 DEF Awaiting
  <2>2. /\ Awaiting(s) \in Seq(Pids) /\ IsInjective(Awaiting(s))
        /\ Range(Awaiting(s)) = WaitersOf(s)
    <3> DEFINE w == WaitersOf(s)
    <3>1. w \subseteq Range(qsem) /\ Awaiting(s) = Only(qsem, w)
      BY <1>1, <2>1
    <3> HIDE DEF w
    <3>2. /\ Only(qsem, w) \in Seq(Pids) /\ IsInjective(Only(qsem, w))
          /\ Range(Only(qsem, w)) = Range(qsem) \cap w
      BY <1>1, OnlyProperties
    <3> QED
      BY <3>1, <3>2 DEF w
  <2>3. ASSUME NEW n \in Nat, NEW i \in DOMAIN qsem, NEW j \in DOMAIN qsem, i < j,
               qsem[i] \in WaitersOf(s), qsem[j] \in Range(FirstOf(Awaiting(s), n))
        PROVE  qsem[i] \in Range(FirstOf(Awaiting(s), n))
    BY <1>1, <2>1, <2>3, FirstOfOnly
  <2> QED
    BY <1>2, <2>2, <2>3
<1>3. CASE ~(count[s] > 0)
  <2>1. Awaiting(s) = <<>>
    BY <1>3 DEF Awaiting
  <2>2. \A n \in Nat : Range(FirstOf(<<>>, n)) = {}
    <3>1. <<>> \in Seq(Pids) /\ Range(<<>>) = {}
      BY DEF Range
    <3> QED
      BY <3>1, FirstOfProperties
  <2>3. IsInjective(<<>>) /\ <<>> \in Seq(Pids)
    BY DEF IsInjective
  <2>4. \A n \in Nat : \A i, j \in DOMAIN qsem :
          i < j /\ qsem[i] \in WaitersOf(s) /\ qsem[j] \in Range(FirstOf(Awaiting(s), n))
            => qsem[i] \in Range(FirstOf(Awaiting(s), n))
    BY <2>1, <2>2
  <2> QED
    BY <1>3, <2>1, <2>3, <2>4
<1> QED
  BY <1>2, <1>3

LEMMA NotifyCases ==
  ASSUME TypeOK, Intact, NEW s \in Sems, NEW n \in NotifyCounts, Notify(s, n)
  PROVE  \E q : Releases(s, q)
<1> DEFINE a == Awaiting(s)
           q == FirstOf(a, n)
<1>1. n \in Nat
  BY InputAssumption
<1>2. EntriesOK /\ count \in [Sems -> Int]
  BY DEF TypeOK, BooksOK
<1>3. /\ a \in Seq(Pids) /\ IsInjective(a)
      /\ count[s] <= 0 => a = <<>>
      /\ count[s] > 0 => Range(a) = WaitersOf(s)
      /\ \A i, j \in DOMAIN qsem :
           i < j /\ qsem[i] \in WaitersOf(s) /\ qsem[j] \in Range(q) => qsem[i] \in Range(q)
  BY <1>1, <1>2, AwaitingOrder
<1>4. Release(q) /\ count' = [count EXCEPT ![s] = @ - n] /\ UNCHANGED <<fate, frames>>
  BY DEF Notify, objects
<1> HIDE DEF a
<1>5. /\ q \in Seq(Pids) /\ IsInjective(q) /\ Range(q) \subseteq Range(a)
      /\ Len(q) = (IF n < Len(a) THEN n ELSE Len(a)) /\ (n >= Len(a) => q = a)
  BY <1>1, <1>3, FirstOfProperties, FirstOfLength
<1> HIDE DEF q
<1>6. Cardinality(Range(q)) = Len(q) /\ Len(a) \in Nat
  BY <1>3, <1>5, InjectiveLength
<1>7. Range(q) \subseteq WaitersOf(s)
  <2>1. Range(<<>>) = {} /\ count[s] \in Int
    BY <1>2 DEF Range
  <2> QED
    BY <1>3, <1>5, <2>1
<1>8. \/ count[s] <= 0
      \/ Range(q) = WaitersOf(s)
      \/ count'[s] = count[s] - Cardinality(Range(q))
  <2>1. count[s] \in Int /\ count'[s] = count[s] - n
    BY <1>2, <1>4
  <2>2. CASE n >= Len(a)
    BY <1>3, <1>5, <2>1, <2>2
  <2>3. CASE n < Len(a)
    BY <1>5, <1>6, <2>1, <2>3
  <2> QED
    BY <1>1, <1>6, <2>2, <2>3
<1>9. \A r \in Sems \ {s} : count'[r] = count[r]
  BY <1>2, <1>4
<1>10. Releases(s, q)
  BY <1>3, <1>4, <1>5, <1>7, <1>8, <1>9 DEF Releases
<1> QED
  BY <1>10

LEMMA NotifyAllCases ==
  ASSUME TypeOK, Intact, NEW s \in Sems, NotifyAll(s)
  PROVE  \E q : Releases(s, q)
<1> DEFINE q == Awaiting(s)
<1>1. EntriesOK /\ count \in [Sems -> Int] /\ count[s] \in Int
  BY DEF TypeOK, BooksOK
<1>2. /\ q \in Seq(Pids) /\ IsInjective(q)
      /\ count[s] <= 0 => q = <<>>
      /\ count[s] > 0 => Range(q) = WaitersOf(s)
  BY <1>1, AwaitingOrder
<1>3. Release(q) /\ count' = [count EXCEPT ![s] = 0] /\ UNCHANGED <<fate, frames>>
  BY DEF NotifyAll, objects
<1> HIDE DEF q
<1>4. Range(<<>>) = {}
  BY DEF Range
<1>5. Range(q) \subseteq WaitersOf(s) /\ (count[s] <= 0 \/ Range(q) = WaitersOf(s))
  BY <1>1, <1>2, <1>4
<1>6. \A i \in DOMAIN qsem : qsem[i] \in WaitersOf(s) /\ Range(q) # {} => qsem[i] \in Range(q)
  BY <1>1, <1>2, <1>4
<1>7. \A r \in Sems \ {s} : count'[r] = count[r]
  BY <1>1, <1>3
<1>8. Releases(s, q)
  BY <1>2, <1>3, <1>5, <1>6, <1>7 DEF Releases
<1> QED
  BY <1>8

LEMMA DrainCases ==
  ASSUME TypeOK, Intact, NEW s \in Sems, Drain(s)
  PROVE  \E D \in SUBSET Pids : Cuts({}, D)
<1> DEFINE D == Range(Awaiting(s))
<1>1. EntriesOK /\ count \in [Sems -> Int] /\ count[s] \in Int
  BY DEF TypeOK, BooksOK
<1>2. /\ D \subseteq Range(qsem)
      /\ count[s] > 0 => D = WaitersOf(s)
  <2>1. Range(Awaiting(s)) \subseteq Range(qsem)
    BY <1>1, AwaitingProperties
  <2> QED
    BY <1>1, <2>1, AwaitingOrder
<1>3. /\ table' = Freed(table, D) /\ qsem' = Without(qsem, D) /\ count' = [count EXCEPT ![s] = 0]
      /\ UNCHANGED <<qfirst, qlfirst, qwait, qpid_top, fate, frames>>
  BY DEF Drain, objects
<1> HIDE DEF D
<1>4. {} \cup D = D /\ Parked({}, D) = D /\ \A r : WaitersIn({}, r) = {}
  BY DEF Parked, WaitersIn
<1>5. ASSUME NEW r \in Sems
      PROVE  \/ WaitersOf(r) \subseteq {} \cup D
             \/ count'[r] >= count[r] - Cardinality(WaitersIn({}, r))
  <2>1. Cardinality(WaitersIn({}, r)) = 0
    BY <1>4, FS_EmptySet
  <2>2. count[r] \in Int /\ count'[r] = IF r = s THEN 0 ELSE count[r]
    BY <1>1, <1>3
  <2> QED
    BY <1>1, <1>2, <2>1, <2>2
<1>6. table' = [p \in DOMAIN table \ Parked({}, D) |->
                  IF p \in {} THEN [table[p] EXCEPT !.player = Nothing] ELSE table[p]]
  BY <1>3, <1>4 DEF Freed
<1>7. \A x : Stays(x)
  BY <1>3 DEF Stays, Exists
<1>8. D \subseteq Pids /\ {} \subseteq Live
  BY <1>1, <1>2 DEF EntriesOK, Intact, Linked
<1>9. Cuts({}, D)
  BY <1>2, <1>3, <1>4, <1>5, <1>6, <1>7, <1>8 DEF Cuts
<1> QED
  BY <1>8, <1>9

LEMMA PurgeCases ==
  ASSUME TypeOK, Intact, NEW t \in Things, Purge(t)
  PROVE  \E H, D \in SUBSET Pids : Cuts(H, D)
<1> DEFINE H == Wanted(Nothing, t)
           D == {p \in Range(qsem) \ H : table[p].sem[1] = t}
<1>1. EntriesOK /\ count \in [Sems -> Int] /\ fate \in [Objects -> {"live", "going", "garbage"}]
  BY DEF TypeOK, BooksOK, WorldOK
<1>2. H \subseteq Live /\ D \subseteq Range(qsem)
  BY DEF Wanted
<1>3. /\ table' = [p \in DOMAIN table \ Parked(H, D) |->
                     IF p \in H THEN [table[p] EXCEPT !.player = Nothing] ELSE table[p]]
      /\ qwait' = Without(qwait, H) /\ qsem' = Without(qsem, H \cup D)
      /\ UNCHANGED <<qfirst, qlfirst, qpid_top, frames>>
  BY DEF Purge, Parked
<1>4. count' = [s \in Sems |-> IF s[1] = t THEN 0 ELSE count[s] - Cardinality(WaitersIn(H, s))]
  BY DEF Purge, WaitersIn
<1>5. fate' = [fate EXCEPT ![t] = "garbage"]
  BY DEF Purge
<1>6. /\ \A p \in Live \ H : table[p].player # t
      /\ \A p \in Range(qsem) \ (H \cup D) : table[p].sem[1] # t
      /\ \A s \in Sems : s[1] = t => WaitersOf(s) \subseteq H \cup D
  BY ObjectAssumption DEF Wanted, WaitersOf, Objects
<1>7. H \subseteq Pids /\ D \subseteq Pids
  BY <1>1, <1>2 DEF Live, EntriesOK, Intact, Linked
<1> HIDE DEF H, D
<1>8. ASSUME NEW s \in Sems
      PROVE  WaitersOf(s) \subseteq H \cup D \/ count'[s] >= count[s] - Cardinality(WaitersIn(H, s))
  <2>1. Cardinality(WaitersIn(H, s)) \in Nat /\ count[s] \in Int
    <3>1. WaitersIn(H, s) \in SUBSET Pids
      BY <1>7 DEF WaitersIn
    <3> QED
      BY <1>1, <3>1, PidsFinite
  <2> QED
    BY <1>4, <1>6, <2>1
<1>9. \A x : x # t => Stays(x)
  BY <1>1, <1>5 DEF Stays, Exists
<1>10. Cuts(H, D)
  BY <1>2, <1>3, <1>6, <1>8, <1>9 DEF Cuts
<1> QED
  BY <1>7, <1>10

LEMMA HaltCases ==
  ASSUME TypeOK, NEW H \in SUBSET Live, HaltEntries(H, count), UNCHANGED <<fate, frames>>
  PROVE  \E D, E \in SUBSET Pids : Cuts(D, E)
<1>1. count \in [Sems -> Int] /\ \A s \in Sems : count[s] >= count[s]
  BY DEF TypeOK, BooksOK
<1>2. Cuts(H, {})
  BY <1>1, HaltEntriesCuts
<1>3. H \in SUBSET Pids
  BY DEF Live, TypeOK, EntriesOK
<1> QED
  BY <1>2, <1>3

(* The kinds together: what commands and the alarm do, and what the        *)
(* executor does.                                                          *)
Shifts ==
  \/ Rests
  \/ \E H, D \in SUBSET Pids : Cuts(H, D)
  \/ \E p \in Pids, e \in Entry, d \in Int : Files(p, e, d)
  \/ \E s \in Sems, q \in Seq(Pids) : Releases(s, q)
  \/ \E tb, t : Promotes(tb, t)

Moves == Shifts \/ StartEntry \/ Pops

LEMMA QueueOperationMoves ==
  ASSUME TypeOK, Intact, QueueOperation
  PROVE  \/ Shifts
         \/ "haltpid" \in Ops /\ \E p \in Pids : HaltPid(p)
         \/ \E p \in Pids, a \in Adjustments : WaitPid(p, a)
<1>1. count \in [Sems -> Int] /\ now \in Int
  BY DEF TypeOK, BooksOK, WorldOK
<1>2. ASSUME NEW i \in Issuers, NEW d \in Delays, Wait(i[1], i[2], d)
      PROVE  Shifts
  <2>1. i[1] \in Objects /\ i[2] \in Objects /\ d \in Int
    BY InputAssumption
  <2>2. WaitQue(i[1], i[2], d, Nothing, count) /\ Exists(i[1]) /\ \A s \in Sems : count[s] >= count[s]
    BY <1>1, <1>2 DEF Wait
  <2> QED
    BY <1>1, <2>1, <2>2, WaitQueCases DEF Shifts
<1>3. ASSUME NEW i \in Issuers, NEW s \in Sems, NEW d \in Timeouts, WaitSem(i[1], i[2], s, d)
      PROVE  Shifts
  <2> DEFINE cnt == [count EXCEPT ![s] = @ + 1]
  <2>1. i[1] \in Objects /\ i[2] \in Objects /\ d \in Int /\ 0 \in Int
    BY InputAssumption
  <2>2. Exists(i[1]) /\ Exists(s[1])
    BY <1>3 DEF WaitSem
  <2>3. cnt \in [Sems -> Int] /\ \A r \in Sems : cnt[r] >= count[r]
    BY <1>1
  <2>4. \/ WaitQue(i[1], i[2], 0, Nothing, cnt)
        \/ cnt[s] > 0 /\ WaitQue(i[1], i[2], d, s, cnt)
    <3>1. IF cnt[s] <= 0 THEN WaitQue(i[1], i[2], 0, Nothing, cnt) ELSE WaitQue(i[1], i[2], d, s, cnt)
      BY <1>3 DEF WaitSem
    <3>2. cnt[s] \in Int
      BY <2>3
    <3> HIDE DEF cnt
    <3> QED
      BY <3>1, <3>2
  <2>5. cnt = [count EXCEPT ![s] = @ + 1]
    OBVIOUS
  <2> HIDE DEF cnt
  <2>6. CASE WaitQue(i[1], i[2], 0, Nothing, cnt)
    BY <2>1, <2>2, <2>3, <2>6, WaitQueCases DEF Shifts
  <2>7. CASE cnt[s] > 0 /\ WaitQue(i[1], i[2], d, s, cnt)
    BY <2>1, <2>2, <2>3, <2>5, <2>7, WaitQueCases DEF Shifts
  <2> QED
    BY <2>4, <2>6, <2>7
<1>4. ASSUME NEW s \in Sems, \E n \in NotifyCounts : Notify(s, n) \/ NotifyAll(s)
      PROVE  Shifts
  <2>1. PICK q : Releases(s, q)
    BY <1>4, NotifyCases, NotifyAllCases
  <2>2. q \in Seq(Pids)
    BY <2>1 DEF Releases
  <2> QED
    BY <2>1, <2>2 DEF Shifts
<1>5. ASSUME NEW s \in Sems, NotifyAll(s)
      PROVE  Shifts
  <2>1. PICK q : Releases(s, q)
    BY <1>5, NotifyAllCases
  <2>2. q \in Seq(Pids)
    BY <2>1 DEF Releases
  <2> QED
    BY <2>1, <2>2 DEF Shifts
<1>6. ASSUME NEW s \in Sems, Drain(s)
      PROVE  Shifts
  BY <1>6, DrainCases DEF Shifts
<1>7. ASSUME NEW pl, NEW ob, Halt(pl, ob)
      PROVE  Shifts
  <2>1. Wanted(pl, ob) \in SUBSET Live
    BY DEF Wanted
  <2>2. HaltEntries(Wanted(pl, ob), count) /\ UNCHANGED <<fate, frames>>
    BY <1>7 DEF Halt, objects
  <2> QED
    BY <2>1, <2>2, HaltCases DEF Shifts
<1>8. ASSUME NEW i \in Warps, Warp(i)
      PROVE  Shifts
  <2>1. i \in Int
    BY InputAssumption
  <2>2. Promotes(Warped(i), now)
    BY <1>1, <1>8, <2>1 DEF Warp, Promotes, objects
  <2> QED
    BY <2>2 DEF Shifts
<1> QED
  BY <1>2, <1>3, <1>4, <1>5, <1>6, <1>7, <1>8 DEF QueueOperation

LEMMA ExecutionMoves ==
  ASSUME TypeOK, Intact, Execution
  PROVE  Moves
<1>1. ASSUME UNCHANGED <<entries, count, fate>>, CallsMove
      PROVE  Rests
  BY <1>1 DEF Rests, NoneLower, StillThere, Stays, Exists, TypeOK, BooksOK
<1>2. ASSUME NEW n \in Chunks, BeginTop(n)
      PROVE  Moves
  <2>1. n \in Int
    BY InputAssumption
  <2> QED
    BY <1>1, <1>2, <2>1 DEF BeginTop, CallsMove, Moves, Shifts, objects
<1>3. ASSUME NEW n \in Kicks, Kick(n)
      PROVE  Moves
  <2>1. n \in Int /\ (~dequeue) \in BOOLEAN /\ Enters(n, ~dequeue) /\ UNCHANGED <<entries, count, fate>>
    <3>1. n \in Int
      BY InputAssumption
    <3> QED
      BY <1>3, <3>1 DEF Kick, objects
  <2>2. CallsMove
    BY <2>1 DEF CallsMove
  <2> QED
    BY <1>1, <2>1, <2>2 DEF Moves, Shifts
<1>4. CASE StartEntry
  BY <1>4 DEF Moves, Shifts
<1>5. CASE PassOver \/ Discard
  BY <1>5 DEF PassOver, Discard, AtLoop, Pops, Moves, Shifts, objects
<1>6. CASE EndEntry
  <2>1. CASE qfirst # <<>>
    BY <1>6, <2>1 DEF EndEntry, Pops, Moves, Shifts, objects
  <2>2. CASE qfirst = <<>>
    BY <1>1, <1>6, <2>2 DEF EndEntry, CallsMove, Moves, Shifts, objects
  <2> QED
    BY <2>1, <2>2
<1>7. CASE EndTop
  BY <1>1, <1>7 DEF EndTop, CallsMove, Moves, Shifts, objects
<1> QED
  BY <1>2, <1>3, <1>4, <1>5, <1>6, <1>7 DEF Execution

LEMMA SurroundingsMoves ==
  ASSUME TypeOK, Intact, Surroundings
  PROVE  Shifts
<1>1. ASSUME UNCHANGED <<entries, count, frames>>, StillThere
      PROVE  Shifts
  BY <1>1 DEF Rests, NoneLower, Shifts, TypeOK, BooksOK
<1>2. UNCHANGED fate => StillThere
  BY DEF StillThere, Stays, Exists
<1>3. CASE Tick
  BY <1>1, <1>2, <1>3 DEF Tick, objects
<1>4. CASE Dispatch
  <2>1. CASE dequeue
    <3>1. clock \in Int
      BY DEF TypeOK, WorldOK
    <3>2. Promotes(table, clock)
      BY <1>4, <2>1, <3>1 DEF Dispatch, Promotes, objects
    <3> QED
      BY <3>2 DEF Shifts
  <2>2. CASE ~dequeue
    BY <1>1, <1>2, <1>4, <2>2 DEF Dispatch, objects
  <2> QED
    BY <2>1, <2>2
<1>5. ASSUME NEW x, SetHalt(x)
      PROVE  Shifts
  BY <1>1, <1>2, <1>5 DEF SetHalt
<1>6. ASSUME NEW t, NEW o, Chown(t, o)
      PROVE  Shifts
  <2>1. Wanted(Nothing, t) \in SUBSET Live
    BY DEF Wanted
  <2> QED
    BY <1>6, <2>1, HaltCases DEF Chown, Shifts
<1>7. ASSUME NEW from, NEW to, ChownAll(from, to)
      PROVE  Shifts
  BY <1>1, <1>2, <1>7 DEF ChownAll
<1>8. ASSUME NEW t \in Things, MarkGoing(t) \/ Spare(t)
      PROVE  Shifts
  <2>1. StillThere
    BY <1>8 DEF MarkGoing, Spare, StillThere, Stays, Exists, TypeOK, WorldOK
  <2> QED
    BY <1>1, <1>8, <2>1 DEF MarkGoing, Spare
<1>9. ASSUME NEW t \in Things, Purge(t)
      PROVE  Shifts
  BY <1>9, PurgeCases DEF Shifts
<1>10. CASE SwitchDequeue \/ SwitchInterp
  BY <1>1, <1>2, <1>10 DEF SwitchDequeue, SwitchInterp, objects
<1> QED
  BY <1>3, <1>4, <1>5, <1>6, <1>7, <1>8, <1>9, <1>10 DEF Surroundings

(* A step of the queue, as long as the lists are intact.                   *)
LEMMA StepMoves ==
  ASSUME TypeOK, Intact, [Next]_vars
  PROVE  \/ Moves
         \/ "haltpid" \in Ops /\ \E p \in Pids : HaltPid(p)
         \/ \E p \in Pids, a \in Adjustments : WaitPid(p, a)
<1>1. CASE UNCHANGED vars
  BY <1>1 DEF vars, entries, Rests, NoneLower, StillThere, Stays, Exists, Moves, Shifts, TypeOK, BooksOK
<1>2. CASE QueueOperation \/ Execution \/ Surroundings
  BY <1>2, QueueOperationMoves, ExecutionMoves, SurroundingsMoves DEF Moves
<1> QED
  BY <1>1, <1>2 DEF Next

-----------------------------------------------------------------------------
(* Which entries the lists hold after a step of each kind.                 *)

LEMMA FilesWhere ==
  ASSUME EntriesOK, Intact, NEW p \in Pids, NEW e \in Entry, NEW d \in Int,
         Files(p, e, d)
  PROVE  /\ DOMAIN table' = DOMAIN table \cup {p} /\ table'[p] = e /\ p \notin Linked
         /\ \A r \in DOMAIN table : r # p /\ table'[r] = table[r]
         /\ \/ /\ e.sem # Nothing
               /\ qsem' = Append(qsem, p) /\ Range(qsem') = Range(qsem) \cup {p}
               /\ UNCHANGED <<qfirst, qlfirst, qwait>>
            \/ /\ e.sem = Nothing /\ d > 0
               /\ qwait' = Thread(qwait, DueIn(table'), p) /\ Range(qwait') = Range(qwait) \cup {p}
               /\ UNCHANGED <<qfirst, qlfirst, qsem>>
            \/ /\ e.sem = Nothing /\ ~(d > 0)
               /\ qfirst' = Append(qfirst, p) /\ Range(qfirst') = Range(qfirst) \cup {p}
               /\ UNCHANGED <<qlfirst, qwait, qsem>>
            \/ /\ e.sem = Nothing /\ ~(d > 0)
               /\ qlfirst' = Append(qlfirst, p) /\ Range(qlfirst') = Range(qlfirst) \cup {p}
               /\ UNCHANGED <<qfirst, qwait, qsem>>
<1> DEFINE tb == WithEntry(p, e)
<1>1. /\ DOMAIN tb = DOMAIN table \cup {p} /\ tb[p] = e
      /\ \A r \in DOMAIN table : r # p /\ tb[r] = table[r]
      /\ table' = tb /\ File(tb, p, d > 0) /\ p \notin Linked
  BY DEF Files, WithEntry, Intact
<1>2. tb \in [DOMAIN tb -> Entry]
  BY <1>1 DEF EntriesOK, WithEntry
<1> HIDE DEF tb
<1>3. /\ Range(Append(qsem, p)) = Range(qsem) \cup {p}
      /\ Range(Append(qfirst, p)) = Range(qfirst) \cup {p}
      /\ Range(Append(qlfirst, p)) = Range(qlfirst) \cup {p}
  BY AppendRange DEF EntriesOK
<1>4. Range(Thread(qwait, DueIn(tb), p)) = Range(qwait) \cup {p}
  <2>1. DueIn(tb) \in [DOMAIN tb -> Int] /\ p \in DOMAIN tb
    BY <1>1, <1>2 DEF DueIn, Entry
  <2>2. qwait \in Seq(DOMAIN tb)
    BY <1>1, ListsOfEntries, Widen
  <2> QED
    BY <2>1, <2>2, ThreadProperties
<1> QED
  BY <1>1, <1>3, <1>4 DEF File

LEMMA FilesPlaces ==
  ASSUME EntriesOK, Intact, NEW p \in Pids, NEW e \in Entry, NEW d \in Int,
         Files(p, e, d)
  PROVE  /\ table'[p] = e /\ \A r \in DOMAIN table : table'[r] = table[r]
         /\ Range(qwait') \subseteq Range(qwait) \cup {p}
         /\ Range(qsem') \subseteq Range(qsem) \cup {p}
         /\ Runnable' \subseteq Runnable \cup {p}
         /\ p \in Range(qwait') => e.sem = Nothing
         /\ p \in Range(qsem') => e.sem # Nothing
         /\ p \in Runnable' => e.sem = Nothing /\ ~(d > 0)
<1>1. table'[p] = e /\ p \notin Linked /\ \A r \in DOMAIN table : table'[r] = table[r]
  BY FilesWhere
<1>2. p \notin Range(qwait) /\ p \notin Range(qsem) /\ p \notin Runnable
  BY <1>1 DEF Linked, Runnable
<1>3. \/ /\ e.sem # Nothing /\ Range(qsem') = Range(qsem) \cup {p}
         /\ UNCHANGED <<qfirst, qlfirst, qwait>>
      \/ /\ e.sem = Nothing /\ d > 0 /\ Range(qwait') = Range(qwait) \cup {p}
         /\ UNCHANGED <<qfirst, qlfirst, qsem>>
      \/ /\ e.sem = Nothing /\ ~(d > 0) /\ Range(qfirst') = Range(qfirst) \cup {p}
         /\ UNCHANGED <<qlfirst, qwait, qsem>>
      \/ /\ e.sem = Nothing /\ ~(d > 0) /\ Range(qlfirst') = Range(qlfirst) \cup {p}
         /\ UNCHANGED <<qfirst, qwait, qsem>>
  BY FilesWhere
<1> QED
  BY <1>1, <1>2, <1>3 DEF Runnable

LEMMA CutsWhere ==
  ASSUME EntriesOK, Intact, NEW H, NEW D, Cuts(H, D)
  PROVE  /\ DOMAIN table' = DOMAIN table \ Parked(H, D)
         /\ \A r \in DOMAIN table' :
              table'[r] = IF r \in H THEN [table[r] EXCEPT !.player = Nothing] ELSE table[r]
         /\ Range(qwait') = Range(qwait) \ H /\ Range(qsem') = Range(qsem) \ (H \cup D)
         /\ UNCHANGED <<qfirst, qlfirst>>
         /\ Parked(H, D) \cap Runnable = {}
<1>1. /\ Range(Without(qwait, H)) = Range(qwait) \ H
      /\ Range(Without(qsem, H \cup D)) = Range(qsem) \ (H \cup D)
  BY WithoutProperties DEF EntriesOK
<1>2. Parked(H, D) \cap Runnable = {}
  BY DEF Cuts, Parked, Runnable, Intact, Disjoint
<1> QED
  BY <1>1, <1>2 DEF Cuts

LEMMA ReleasesWhere ==
  ASSUME EntriesOK, Intact, NEW s, NEW q, Releases(s, q)
  PROVE  /\ DOMAIN table' = DOMAIN table
         /\ \A r \in DOMAIN table :
              table'[r] = IF r \in Range(q) THEN [table[r] EXCEPT !.waittime = 0] ELSE table[r]
         /\ qwait' = qwait /\ Range(qsem') = Range(qsem) \ Range(q)
         /\ Runnable' = Runnable \cup Range(q)
         /\ \E r \in Seq(Pids) : qfirst' = qfirst \o r /\ Range(r) \subseteq Range(q)
<1> DEFINE caused == {p \in Range(q) : ByPlayer(table[p].cause)}
<1>1. /\ qfirst' = qfirst \o Only(q, caused) /\ qlfirst' = qlfirst \o Without(q, caused)
      /\ qsem' = Without(qsem, Range(q)) /\ qwait' = qwait /\ q \in Seq(Pids)
  BY DEF Releases, Release
<1> HIDE DEF caused
<1>2. /\ Only(q, caused) \in Seq(Pids) /\ Range(Only(q, caused)) = Range(q) \cap caused
      /\ Without(q, caused) \in Seq(Pids) /\ Range(Without(q, caused)) = Range(q) \ caused
  BY <1>1, OnlyProperties, WithoutProperties
<1>3. Range(qfirst') = Range(qfirst) \cup (Range(q) \cap caused)
  BY <1>1, <1>2, ConcatRange DEF EntriesOK
<1>4. Range(qlfirst') = Range(qlfirst) \cup (Range(q) \ caused)
  BY <1>1, <1>2, ConcatRange DEF EntriesOK
<1>5. Range(qsem') = Range(qsem) \ Range(q)
  BY <1>1, WithoutProperties DEF EntriesOK
<1>6. Runnable' = Runnable \cup Range(q)
  BY <1>3, <1>4 DEF Runnable
<1>7. /\ DOMAIN table' = DOMAIN table
      /\ \A r \in DOMAIN table :
           table'[r] = IF r \in Range(q) THEN [table[r] EXCEPT !.waittime = 0] ELSE table[r]
  BY DEF Releases, Release
<1>8. \E r \in Seq(Pids) : qfirst' = qfirst \o r /\ Range(r) \subseteq Range(q)
  <2> DEFINE r == Only(q, caused)
  <2>1. r \in Seq(Pids) /\ Range(r) \subseteq Range(q) /\ qfirst' = qfirst \o r
    BY <1>1, <1>2
  <2> HIDE DEF r
  <2> QED
    BY <2>1
<1> QED
  BY <1>1, <1>5, <1>6, <1>7, <1>8

Ripe(tb, t) == Range(FirstOf(qwait, RipeCount(qwait, DueIn(tb), t)))
Late(tb, t) == {p \in Range(qsem) : tb[p].waittime # 0 /\ tb[p].waittime <= t}
LateFor(tb, t, s) == {p \in Late(tb, t) : tb[p].sem = s}

LEMMA PromotesTable ==
  ASSUME EntriesOK, Intact, NEW tb, NEW t, Promotes(tb, t)
  PROVE  /\ DOMAIN tb = DOMAIN table /\ tb \in [DOMAIN table -> Entry]
         /\ \A p \in DOMAIN table :
              /\ tb[p].player = table[p].player /\ tb[p].sem = table[p].sem
              /\ tb[p].cause = table[p].cause
              /\ p \notin Range(qwait) \cup Range(qsem) => tb[p] = table[p]
              /\ p \notin Range(qwait) /\ table[p].waittime = 0 => tb[p] = table[p]
         /\ Sorted(qwait, DueIn(table)) => Sorted(qwait, DueIn(tb))
<1>1. CASE tb = table
  BY <1>1 DEF EntriesOK
<1>2. ASSUME NEW i \in Int, tb = Warped(i)
      PROVE  /\ DOMAIN tb = DOMAIN table /\ tb \in [DOMAIN table -> Entry]
             /\ \A p \in DOMAIN table :
                  /\ tb[p].player = table[p].player /\ tb[p].sem = table[p].sem
                  /\ tb[p].cause = table[p].cause
                  /\ p \notin Range(qwait) \cup Range(qsem) => tb[p] = table[p]
                  /\ p \notin Range(qwait) /\ table[p].waittime = 0 => tb[p] = table[p]
             /\ \A p \in Range(qwait) \cap DOMAIN table : tb[p].waittime = -i
  <2>1. DOMAIN tb = DOMAIN table
    BY <1>2 DEF Warped
  <2>2. ASSUME NEW p \in DOMAIN table
        PROVE  /\ tb[p] \in Entry
               /\ tb[p].player = table[p].player /\ tb[p].sem = table[p].sem
               /\ tb[p].cause = table[p].cause
               /\ p \notin Range(qwait) \cup Range(qsem) => tb[p] = table[p]
               /\ p \notin Range(qwait) /\ table[p].waittime = 0 => tb[p] = table[p]
               /\ p \in Range(qwait) => tb[p].waittime = -i
    <3>1. PICK e \in Entry : e = table[p]
      BY DEF EntriesOK
    <3>2. tb[p] = IF p \in Range(qwait) THEN [e EXCEPT !.waittime = -i]
                  ELSE IF p \in Range(qsem) /\ e.waittime > 0
                    THEN [e EXCEPT !.waittime = IF @ - i > 0 THEN @ - i ELSE -1]
                  ELSE e
      BY <1>2, <3>1 DEF Warped
    <3>3. /\ [e EXCEPT !.waittime = -i] \in Entry
          /\ [e EXCEPT !.waittime = IF @ - i > 0 THEN @ - i ELSE -1] \in Entry
      BY DEF Entry
    <3> QED
      BY <3>1, <3>2, <3>3 DEF Entry
  <2> QED
    BY <1>2, <2>1, <2>2 DEF Warped
<1>3. ASSUME NEW i \in Int, tb = Warped(i), Sorted(qwait, DueIn(table))
      PROVE  Sorted(qwait, DueIn(tb))
  <2>1. Range(qwait) \subseteq DOMAIN table /\ -i \in Int
    BY DEF Intact, Linked
  <2>2. \A a \in DOMAIN qwait : DueIn(tb)[qwait[a]] = -i
    BY <1>2, <1>3, <2>1 DEF DueIn, Range
  <2> QED
    BY <2>1, <2>2 DEF Sorted
<1> QED
  BY <1>1, <1>2, <1>3 DEF Promotes

LEMMA PromotesWhere ==
  ASSUME EntriesOK, Intact, NEW tb, NEW t, Promotes(tb, t)
  PROVE  /\ DOMAIN table' = DOMAIN table
         /\ \A r \in DOMAIN table :
              table'[r] = IF r \in Late(tb, t) THEN [tb[r] EXCEPT !.waittime = 0, !.sem = Nothing]
                          ELSE IF r \in Ripe(tb, t) THEN [tb[r] EXCEPT !.waittime = 0]
                          ELSE tb[r]
         /\ qwait' = Without(qwait, Ripe(tb, t))
         /\ Range(qwait') = Range(qwait) \ Ripe(tb, t) /\ Ripe(tb, t) \subseteq Range(qwait)
         /\ Range(qsem') = Range(qsem) \ Late(tb, t)
         /\ Runnable' = Runnable \cup Ripe(tb, t) \cup Late(tb, t)
         /\ \E r \in Seq(Pids) : qfirst' = qfirst \o r
         /\ \A s \in Sems : count'[s] = count[s] - Cardinality(LateFor(tb, t, s))
<1> DEFINE n == RipeCount(qwait, DueIn(tb), t)
           late == Late(tb, t)
           ripe == FirstOf(qwait, n)
           given == ripe \o Only(qsem, late)
           caused == {p \in Range(given) : ByPlayer(tb[p].cause)}
<1>1. DOMAIN tb = DOMAIN table /\ tb \in [DOMAIN table -> Entry] /\ t \in Int
  BY PromotesTable DEF Promotes
<1>2. /\ qfirst' = qfirst \o qlfirst \o Only(given, caused) /\ qlfirst' = Without(given, caused)
      /\ qwait' = Without(qwait, Range(ripe)) /\ qsem' = Without(qsem, late)
  BY DEF Promotes, DoSecond, Late
<1>3. /\ DOMAIN table' = DOMAIN table
      /\ \A r \in DOMAIN table :
           table'[r] = IF r \in late THEN [tb[r] EXCEPT !.waittime = 0, !.sem = Nothing]
                       ELSE IF r \in Range(ripe) THEN [tb[r] EXCEPT !.waittime = 0]
                       ELSE tb[r]
      /\ \A s \in Sems : count'[s] = count[s] - Cardinality(LateFor(tb, t, s))
  BY <1>1 DEF Promotes, DoSecond, Late, LateFor
<1>4. Ripe(tb, t) = Range(ripe)
  BY DEF Ripe
<1>5. n \in Nat
  <2>1. qwait \in Seq(DOMAIN table) /\ DueIn(tb) \in [DOMAIN table -> Int]
    BY <1>1, ListsOfEntries DEF DueIn, Entry
  <2> QED
    BY <1>1, <2>1, RipeCountProperties
<1> HIDE DEF n, late, caused
<1>6. ripe \in Seq(Pids) /\ Range(ripe) \subseteq Range(qwait)
  BY <1>5, FirstOfProperties DEF EntriesOK
<1> HIDE DEF ripe
<1>7. /\ Only(qsem, late) \in Seq(Pids) /\ Range(Only(qsem, late)) = late
      /\ Range(qsem') = Range(qsem) \ late
  <2>1. Range(qsem) \cap late = late
    BY DEF Late, late
  <2> QED
    BY <1>2, <2>1, OnlyProperties, WithoutProperties DEF EntriesOK
<1>8. given \in Seq(Pids) /\ Range(given) = Range(ripe) \cup late
  BY <1>6, <1>7, ConcatRange
<1> HIDE DEF given
<1>9. /\ Only(given, caused) \in Seq(Pids) /\ Range(Only(given, caused)) = Range(given) \cap caused
      /\ Range(qlfirst') = Range(given) \ caused
  BY <1>2, <1>8, OnlyProperties, WithoutProperties
<1>10. qfirst \o qlfirst \in Seq(Pids) /\ Range(qfirst \o qlfirst) = Range(qfirst) \cup Range(qlfirst)
  BY ConcatRange DEF EntriesOK
<1> DEFINE o == Only(given, caused)
<1>11. o \in Seq(Pids) /\ qfirst' = qfirst \o qlfirst \o o /\ Range(o) = Range(given) \cap caused
  BY <1>2, <1>9
<1> HIDE DEF o
<1>12. Range(qfirst') = Range(qfirst) \cup Range(qlfirst) \cup (Range(given) \cap caused)
  <2> DEFINE f == qfirst \o qlfirst
  <2>1. f \in Seq(Pids) /\ qfirst' = f \o o
    BY <1>10, <1>11
  <2> HIDE DEF f
  <2>2. Range(f \o o) = Range(f) \cup Range(o)
    BY <1>11, <2>1, ConcatRange
  <2> QED
    BY <1>10, <1>11, <2>1, <2>2 DEF f
<1>13. \E r \in Seq(Pids) : qfirst' = qfirst \o r
  <2>1. qlfirst \o o \in Seq(Pids)
    BY <1>11, ConcatRange DEF EntriesOK
  <2>2. qfirst' = qfirst \o (qlfirst \o o)
    BY <1>11 DEF EntriesOK
  <2> QED
    BY <2>1, <2>2
<1>14. Runnable' = Runnable \cup Range(ripe) \cup late
  BY <1>8, <1>9, <1>12 DEF Runnable
<1>15. Range(qwait') = Range(qwait) \ Range(ripe)
  BY <1>2, WithoutProperties DEF EntriesOK
<1> QED
  BY <1>2, <1>3, <1>4, <1>6, <1>7, <1>13, <1>14, <1>15 DEF late

LEMMA StartWhere ==
  ASSUME EntriesOK, Intact, StartEntry
  PROVE  /\ Head(qfirst) \in Range(qfirst) /\ Head(qfirst) \in DOMAIN table
         /\ table[Head(qfirst)].player # Nothing
         /\ DOMAIN table' = DOMAIN table
         /\ \A r \in DOMAIN table :
              table'[r] = IF r = Head(qfirst) THEN [table[r] EXCEPT !.player = Nothing] ELSE table[r]
         /\ UNCHANGED <<qfirst, qlfirst, qwait, qsem, count, fate>>
<1>1. qfirst # <<>> /\ qfirst \in Seq(Pids) /\ table[Head(qfirst)].player # Nothing
  BY DEF StartEntry, AtLoop, Startable, HeadEntry, EntriesOK
<1>2. Head(qfirst) \in Range(qfirst)
  BY <1>1, TailRange
<1>3. Head(qfirst) \in DOMAIN table
  BY <1>2 DEF Intact, Linked
<1> QED
  BY <1>1, <1>2, <1>3 DEF StartEntry, objects

LEMMA PopsWhere ==
  ASSUME EntriesOK, Intact, Pops
  PROVE  /\ Head(qfirst) \in Range(qfirst) /\ qfirst' = Tail(qfirst)
         /\ Range(qfirst) = Range(qfirst') \cup {Head(qfirst)}
         /\ Head(qfirst) \notin Range(qfirst')
         /\ DOMAIN table' = DOMAIN table \ {Head(qfirst)}
         /\ \A r \in DOMAIN table' : table'[r] = table[r]
         /\ UNCHANGED <<qlfirst, qwait, qsem, count, fate>>
<1>1. qfirst # <<>> /\ qfirst \in Seq(Pids) /\ IsInjective(qfirst)
  BY DEF Pops, EntriesOK, Intact
<1> QED
  BY <1>1, TailRange DEF Pops, PopHead, Freed

LEMMA HaltPidWhere ==
  ASSUME EntriesOK, Intact, NEW p \in Pids, HaltPid(p)
  PROVE  /\ p \in Live /\ DOMAIN table' = DOMAIN table \ {p}
         /\ \A r \in DOMAIN table' : table'[r] = table[r]
         /\ UNCHANGED <<qfirst, qlfirst, fate, frames, now>>
         /\ \/ /\ table[p].sem = Nothing /\ qwait' = Without(qwait, {p})
               /\ Range(qwait') = Range(qwait) \ {p} /\ IsInjective(qwait')
               /\ UNCHANGED <<qsem, count>>
            \/ /\ table[p].sem # Nothing /\ qsem' = Without(qsem, {p})
               /\ Range(qsem') = Range(qsem) \ {p} /\ IsInjective(qsem')
               /\ count' = [count EXCEPT ![table[p].sem] = @ - 1]
               /\ UNCHANGED qwait
<1>1. /\ Range(Without(qwait, {p})) = Range(qwait) \ {p} /\ IsInjective(Without(qwait, {p}))
      /\ Range(Without(qsem, {p})) = Range(qsem) \ {p} /\ IsInjective(Without(qsem, {p}))
  BY WithoutProperties DEF EntriesOK, Intact
<1>2. p \in Live /\ table' = Freed(table, {p}) /\ UNCHANGED <<qfirst, qlfirst, fate, frames, now>>
  BY DEF HaltPid, objects, times
<1>3. DOMAIN table' = DOMAIN table \ {p} /\ \A r \in DOMAIN table' : table'[r] = table[r]
  BY <1>2 DEF Freed
<1> QED
  BY <1>1, <1>2, <1>3 DEF HaltPid

LEMMA SpliceRange ==
  ASSUME NEW T, NEW q \in Seq(T), NEW w \in Seq(T), NEW p \in Range(w)
  PROVE  Range(Splice(q, p, w)) \subseteq Range(q) \cup Range(w)
<1>1. CASE p \notin Range(q)
  BY <1>1 DEF Splice
<1>2. CASE p \in Range(q)
  <2> DEFINE i == CHOOSE k \in DOMAIN q : q[k] = p
             j == CHOOSE k \in DOMAIN w : w[k] = p
             a == FirstOf(q, i)
             b == [k \in 1..Len(w) - j |-> w[j + k]]
  <2>1. Splice(q, p, w) = a \o b
    BY <1>2 DEF Splice
  <2>2. i \in DOMAIN q /\ j \in DOMAIN w
    BY <1>2 DEF Range
  <2> HIDE DEF i, j
  <2>3. i \in 1..Len(q) /\ j \in 1..Len(w) /\ Len(q) \in Nat /\ Len(w) \in Nat
    BY <2>2
  <2>4. a \in Seq(T) /\ Range(a) \subseteq Range(q)
    BY <2>3, FirstOfProperties
  <2>5. b \in Seq(T) /\ Range(b) \subseteq Range(w)
    <3>1. Len(w) - j \in Nat /\ \A k \in 1..Len(w) - j : j + k \in DOMAIN w /\ w[j + k] \in T
      BY <2>3
    <3> QED
      BY <3>1 DEF Range
  <2> HIDE DEF a, b
  <2> QED
    BY <2>1, <2>4, <2>5, ConcatRange
<1> QED
  BY <1>1, <1>2

LEMMA WaitPidWhere ==
  ASSUME TypeOK, Intact, NEW p \in Pids, NEW a \in Adjustments, WaitPid(p, a)
  PROVE  /\ p \in Live /\ DOMAIN table' = DOMAIN table /\ table' \in [DOMAIN table -> Entry]
         /\ \A r \in DOMAIN table :
              /\ table'[r].player = table[r].player /\ table'[r].sem = table[r].sem
              /\ r # p => table'[r] = table[r]
         /\ table[p].sem # Nothing => table[p].waittime # 0
         /\ UNCHANGED <<qsem, count, fate, frames, now>>
         /\ \/ /\ table[p].sem = Nothing
               /\ qwait' = Thread(Without(qwait, {p}), DueIn(table'), p)
               /\ Range(qwait') = Range(qwait) \cup {p} /\ IsInjective(qwait')
               /\ p \notin Range(qfirst) => qfirst' = qfirst
               /\ p \notin Range(qlfirst) => qlfirst' = qlfirst
               /\ Runnable' \subseteq Runnable \cup Range(qwait')
               /\ Intact' => p \notin Runnable
            \/ /\ table[p].sem # Nothing
               /\ UNCHANGED <<qwait, qfirst, qlfirst>>
<1> DEFINE tb == [table EXCEPT ![p].waittime = AdjustedTime(table[p].waittime, a)]
           q == Without(qwait, {p})
           w == Thread(q, DueIn(tb), p)
<1>1. EntriesOK /\ WorldOK /\ p \in Live /\ p \in DOMAIN table
  BY DEF TypeOK, WaitPid, Live
<1>2. /\ table' = tb /\ UNCHANGED <<qsem, count, fate, frames, now>>
      /\ table[p].sem # Nothing => table[p].waittime # 0
      /\ IF table[p].sem = Nothing
           THEN qwait' = w /\ qfirst' = Splice(qfirst, p, w) /\ qlfirst' = Splice(qlfirst, p, w)
           ELSE UNCHANGED <<qwait, qfirst, qlfirst>>
  BY DEF WaitPid, objects, times
<1>3. /\ DOMAIN tb = DOMAIN table
      /\ \A r \in DOMAIN table : /\ tb[r].player = table[r].player /\ tb[r].sem = table[r].sem
                                 /\ r # p => tb[r] = table[r]
  BY <1>1 DEF EntriesOK, Entry
<1>4. EntriesOK'
  BY WaitPidTypes DEF TypeOK
<1>5. tb \in [DOMAIN table -> Entry]
  BY <1>2, <1>3, <1>4 DEF EntriesOK
<1> HIDE DEF tb
<1>6. q \in Seq(DOMAIN table) /\ Range(q) = Range(qwait) \ {p} /\ IsInjective(q)
  <2>1. qwait \in Seq(DOMAIN table) /\ IsInjective(qwait)
    BY <1>1, ListsOfEntries DEF Intact
  <2> QED
    BY <2>1, WithoutProperties
<1> HIDE DEF q
<1>7. w \in Seq(DOMAIN table) /\ Range(w) = Range(q) \cup {p} /\ IsInjective(w)
  <2>1. DueIn(tb) \in [DOMAIN table -> Int]
    BY <1>3, <1>5 DEF DueIn, Entry
  <2> QED
    BY <1>1, <1>6, <2>1, ThreadProperties
<1> HIDE DEF w
<1>8. qfirst \in Seq(DOMAIN table) /\ qlfirst \in Seq(DOMAIN table)
  BY <1>1, ListsOfEntries
<1>9. /\ p \in Range(qfirst) => p \in Range(Splice(qfirst, p, w))
      /\ p \notin Range(qfirst) => Splice(qfirst, p, w) = qfirst
      /\ Range(Splice(qfirst, p, w)) \subseteq Range(qfirst) \cup Range(w)
  BY <1>7, <1>8, SpliceProperties, SpliceRange
<1>10. /\ p \in Range(qlfirst) => p \in Range(Splice(qlfirst, p, w))
       /\ p \notin Range(qlfirst) => Splice(qlfirst, p, w) = qlfirst
       /\ Range(Splice(qlfirst, p, w)) \subseteq Range(qlfirst) \cup Range(w)
  BY <1>7, <1>8, SpliceProperties, SpliceRange
<1>11. CASE table[p].sem = Nothing
  <2>1. qwait' = w /\ qfirst' = Splice(qfirst, p, w) /\ qlfirst' = Splice(qlfirst, p, w)
    BY <1>2, <1>11
  <2>2. Intact' => p \notin Runnable
    <3> SUFFICES ASSUME Intact', p \in Runnable PROVE FALSE
      OBVIOUS
    <3>1. p \in Range(qwait')
      BY <1>7, <2>1
    <3>2. p \in Range(qfirst') \/ p \in Range(qlfirst')
      BY <1>9, <1>10, <2>1 DEF Runnable
    <3> QED
      BY <3>1, <3>2 DEF Intact, Disjoint
  <2>3. Runnable' \subseteq Runnable \cup Range(qwait')
    BY <1>9, <1>10, <2>1 DEF Runnable
  <2>4. qwait' = Thread(Without(qwait, {p}), DueIn(table'), p)
    BY <1>2, <2>1 DEF w, q
  <2>5. Range(qwait') = Range(qwait) \cup {p} /\ IsInjective(qwait')
    BY <1>6, <1>7, <2>1
  <2> QED
    BY <1>1, <1>2, <1>3, <1>5, <1>9, <1>10, <1>11, <2>1, <2>2, <2>3, <2>4, <2>5
<1>12. CASE table[p].sem # Nothing
  BY <1>1, <1>2, <1>3, <1>5, <1>12
<1> QED
  BY <1>11, <1>12

-----------------------------------------------------------------------------
(* The fields of an entry agree with its list.                             *)

Placed ==
  /\ \A p \in Range(qwait) : table[p].sem = Nothing /\ table[p].player # Nothing
  /\ \A p \in Range(qsem) : table[p].sem # Nothing /\ table[p].player # Nothing
  /\ \A p \in Runnable : table[p].waittime = 0

LEMMA MovesPlaced ==
  ASSUME TypeOK, Intact, Placed, Moves
  PROVE  Placed'
<1>1. EntriesOK /\ table \in [DOMAIN table -> Entry] /\ Linked \subseteq DOMAIN table
  BY DEF TypeOK, EntriesOK, Intact
<1>2. /\ Range(qwait) \cap Range(qsem) = {} /\ Range(qwait) \cap Runnable = {}
      /\ Range(qsem) \cap Runnable = {} /\ Linked = Runnable \cup Range(qwait) \cup Range(qsem)
  BY DEF Intact, Disjoint, Linked, Runnable
<1>3. CASE Rests
  BY <1>3 DEF Rests, entries, Placed, Runnable
<1>4. ASSUME NEW H \in SUBSET Pids, NEW D \in SUBSET Pids, Cuts(H, D)
      PROVE  Placed'
  <2>1. H \subseteq DOMAIN table /\ \A r \in DOMAIN table : table[r] \in Entry
    BY <1>1, <1>4 DEF Cuts, Live
  <2>2. /\ Range(qwait') = Range(qwait) \ H /\ Range(qsem') = Range(qsem) \ (H \cup D)
        /\ Runnable' = Runnable
        /\ DOMAIN table' = DOMAIN table \ Parked(H, D) /\ Parked(H, D) \cap Runnable = {}
        /\ \A r \in DOMAIN table' :
             table'[r] = IF r \in H THEN [table[r] EXCEPT !.player = Nothing] ELSE table[r]
    BY <1>1, <1>4, CutsWhere DEF Runnable
  <2>3. D \cap Range(qwait) = {}
    BY <1>2, <1>4 DEF Cuts
  <2>4. \A p \in Range(qwait') \cup Range(qsem') : p \in DOMAIN table' /\ table'[p] = table[p]
    BY <1>1, <1>2, <2>2, <2>3 DEF Parked
  <2>5. \A p \in Runnable : p \in DOMAIN table' /\ table'[p].waittime = table[p].waittime
    BY <1>1, <1>2, <2>1, <2>2 DEF Entry
  <2> QED
    BY <2>2, <2>4, <2>5 DEF Placed
<1>5. ASSUME NEW p \in Pids, NEW e \in Entry, NEW d \in Int, Files(p, e, d)
      PROVE  Placed'
  <2>1. e.player # Nothing /\ (e.sem = Nothing /\ ~(d > 0) => e.waittime = 0)
    BY <1>5, ObjectAssumption DEF Files
  <2>2. /\ table'[p] = e /\ \A r \in DOMAIN table : table'[r] = table[r]
        /\ Range(qwait') \subseteq Range(qwait) \cup {p}
        /\ Range(qsem') \subseteq Range(qsem) \cup {p}
        /\ Runnable' \subseteq Runnable \cup {p}
    BY <1>1, <1>5, FilesPlaces
  <2>3. /\ p \in Range(qwait') => e.sem = Nothing
        /\ p \in Range(qsem') => e.sem # Nothing
        /\ p \in Runnable' => e.sem = Nothing /\ ~(d > 0)
    BY <1>1, <1>5, FilesPlaces
  <2>4. \A r \in Range(qwait) \cup Range(qsem) \cup Runnable : table'[r] = table[r]
    BY <1>1, <1>2, <2>2
  <2> QED
    BY <2>1, <2>2, <2>3, <2>4 DEF Placed
<1>6. ASSUME NEW s \in Sems, NEW q \in Seq(Pids), Releases(s, q)
      PROVE  Placed'
  <2>1. Range(q) \subseteq Range(qsem) /\ \A r \in DOMAIN table : table[r] \in Entry
    BY <1>1, <1>6 DEF Releases, WaitersOf
  <2>2. /\ qwait' = qwait /\ Range(qsem') = Range(qsem) \ Range(q)
        /\ Runnable' = Runnable \cup Range(q)
    BY <1>1, <1>6, ReleasesWhere
  <2>3. ASSUME NEW r \in DOMAIN table
        PROVE  IF r \in Range(q) THEN table'[r].waittime = 0 ELSE table'[r] = table[r]
    <3>1. PICK w \in Entry : w = table[r]
      BY <1>1
    <3>2. table'[r] = IF r \in Range(q) THEN [w EXCEPT !.waittime = 0] ELSE w
      BY <1>1, <1>6, <3>1, ReleasesWhere
    <3> QED
      BY <3>1, <3>2 DEF Entry
  <2>4. \A r \in Range(qwait') \cup Range(qsem') : table'[r] = table[r]
    BY <1>1, <1>2, <2>1, <2>2, <2>3
  <2>5. \A r \in Runnable' : table'[r].waittime = 0
    BY <1>1, <1>2, <2>1, <2>2, <2>3 DEF Placed
  <2> QED
    BY <2>2, <2>4, <2>5 DEF Placed
<1>7. ASSUME NEW tb, NEW t, Promotes(tb, t)
      PROVE  Placed'
  <2>1. Late(tb, t) \subseteq Range(qsem)
    BY DEF Late
  <2>2. \A r \in DOMAIN table : tb[r] \in Entry /\ tb[r].player = table[r].player /\ tb[r].sem = table[r].sem
    BY <1>1, <1>7, PromotesTable
  <2>3. \A r \in Runnable : tb[r] = table[r]
    BY <1>1, <1>2, <1>7, PromotesTable
  <2>4. /\ Range(qwait') = Range(qwait) \ Ripe(tb, t) /\ Ripe(tb, t) \subseteq Range(qwait)
        /\ Range(qsem') = Range(qsem) \ Late(tb, t)
        /\ Runnable' = Runnable \cup Ripe(tb, t) \cup Late(tb, t)
        /\ \A r \in DOMAIN table :
             table'[r] = IF r \in Late(tb, t) THEN [tb[r] EXCEPT !.waittime = 0, !.sem = Nothing]
                         ELSE IF r \in Ripe(tb, t) THEN [tb[r] EXCEPT !.waittime = 0]
                         ELSE tb[r]
    BY <1>1, <1>7, PromotesWhere
  <2>5. \A r \in Range(qwait') \cup Range(qsem') : table'[r] = tb[r]
    BY <1>1, <1>2, <2>1, <2>4
  <2>6. \A r \in Runnable : table'[r] = table[r]
    BY <1>1, <1>2, <2>1, <2>3, <2>4
  <2>7. \A r \in Ripe(tb, t) \cup Late(tb, t) : table'[r].waittime = 0
    BY <1>1, <1>2, <2>1, <2>2, <2>4 DEF Entry
  <2>8. \A r \in Range(qwait') \cup Range(qsem') :
          table'[r].sem = table[r].sem /\ table'[r].player = table[r].player
    <3>1. ASSUME NEW r \in Range(qwait') \cup Range(qsem')
          PROVE  table'[r].sem = table[r].sem /\ table'[r].player = table[r].player
      <4>1. r \in Range(qwait) \cup Range(qsem)
        BY <2>4, <3>1
      <4>2. r \in DOMAIN table
        BY <1>1, <1>2, <4>1
      <4>3. table'[r] = tb[r]
        BY <2>5, <3>1
      <4> QED
        BY <2>2, <4>2, <4>3
    <3> QED
      BY <3>1
  <2>9. \A r \in Range(qwait') : table'[r].sem = Nothing /\ table'[r].player # Nothing
    BY <1>2, <2>4, <2>8 DEF Placed
  <2>10. \A r \in Range(qsem') : table'[r].sem # Nothing /\ table'[r].player # Nothing
    BY <1>2, <2>4, <2>8 DEF Placed
  <2>11. \A r \in Runnable' : table'[r].waittime = 0
    BY <1>2, <2>4, <2>6, <2>7 DEF Placed
  <2> QED
    BY <2>9, <2>10, <2>11 DEF Placed
<1>8. CASE StartEntry
  <2>1. /\ qwait' = qwait /\ qsem' = qsem /\ Runnable' = Runnable
        /\ Head(qfirst) \in Runnable
    BY <1>1, <1>8, StartWhere DEF Runnable
  <2>2. ASSUME NEW r \in DOMAIN table
        PROVE  /\ table'[r].waittime = table[r].waittime
               /\ r # Head(qfirst) => table'[r] = table[r]
    <3>1. PICK e \in Entry : e = table[r]
      BY <1>1
    <3>2. table'[r] = IF r = Head(qfirst) THEN [e EXCEPT !.player = Nothing] ELSE e
      BY <1>1, <1>8, <3>1, StartWhere
    <3> QED
      BY <3>1, <3>2 DEF Entry
  <2>3. \A r \in Range(qwait') \cup Range(qsem') : table'[r] = table[r]
    BY <1>1, <1>2, <2>1, <2>2
  <2>4. \A r \in Runnable : table'[r].waittime = table[r].waittime
    BY <1>1, <1>2, <2>2
  <2> QED
    BY <2>1, <2>3, <2>4 DEF Placed
<1>9. CASE Pops
  <2>1. /\ qwait' = qwait /\ qsem' = qsem /\ Runnable' \subseteq Runnable
        /\ Head(qfirst) \notin Runnable' \cup Range(qwait) \cup Range(qsem)
    BY <1>1, <1>9, PopsWhere DEF Runnable, Intact, Disjoint
  <2>2. \A r \in Range(qwait) \cup Range(qsem) \cup Runnable' : table'[r] = table[r]
    <3>1. Range(qwait) \cup Range(qsem) \cup Runnable' \subseteq DOMAIN table \ {Head(qfirst)}
      BY <1>1, <1>2, <2>1
    <3> QED
      BY <1>1, <1>9, <3>1, PopsWhere
  <2> QED
    BY <2>1, <2>2 DEF Placed
<1> QED
  BY <1>3, <1>4, <1>5, <1>6, <1>7, <1>8, <1>9 DEF Moves, Shifts

(* The two operations that can break the lists, where they do not.         *)
LEMMA PidOpsPlaced ==
  ASSUME TypeOK, Intact, Intact', Placed, NEW p \in Pids,
         HaltPid(p) \/ \E a \in Adjustments : WaitPid(p, a)
  PROVE  Placed'
<1>1. EntriesOK /\ table \in [DOMAIN table -> Entry] /\ Linked \subseteq DOMAIN table
  BY DEF TypeOK, EntriesOK, Intact
<1>2. Linked' \subseteq DOMAIN table' /\ Linked' = (Runnable \cup Range(qwait) \cup Range(qsem))'
  BY DEF Intact, Linked, Runnable
<1>3. CASE HaltPid(p)
  <2>1. /\ Range(qwait') \subseteq Range(qwait) /\ Range(qsem') \subseteq Range(qsem)
        /\ Runnable' = Runnable
        /\ \A r \in DOMAIN table' : table'[r] = table[r]
    BY <1>1, <1>3, HaltPidWhere DEF Runnable
  <2> QED
    BY <1>2, <2>1 DEF Placed
<1>4. ASSUME NEW a \in Adjustments, WaitPid(p, a)
      PROVE  Placed'
  <2>1. /\ qsem' = qsem /\ p \in Live /\ p \in DOMAIN table
        /\ \A r \in DOMAIN table : /\ table'[r].player = table[r].player
                                   /\ table'[r].sem = table[r].sem
                                   /\ r # p => table'[r] = table[r]
    BY <1>4, WaitPidWhere DEF Live
  <2>2. CASE table[p].sem = Nothing
    <3>1. Range(qwait') = Range(qwait) \cup {p} /\ p \notin Runnable
      BY <1>4, <2>2, WaitPidWhere
    <3>2. Runnable' = Runnable
      BY <1>4, <2>2, <3>1, WaitPidWhere DEF Runnable
    <3>3. \A r \in Range(qwait') \cup Range(qsem) \cup Runnable : r \in DOMAIN table
      BY <1>1, <2>1, <3>1 DEF Linked, Runnable
    <3> QED
      BY <2>1, <2>2, <3>1, <3>2, <3>3 DEF Placed, Live
  <2>3. CASE table[p].sem # Nothing
    <3>1. qwait' = qwait /\ Runnable' = Runnable /\ table[p].waittime # 0
      BY <1>4, <2>3, WaitPidWhere DEF Runnable
    <3>2. p \notin Runnable
      BY <3>1 DEF Placed
    <3>3. \A r \in Range(qwait) \cup Range(qsem) \cup Runnable : r \in DOMAIN table
      BY <1>1 DEF Linked, Runnable
    <3> QED
      BY <2>1, <3>1, <3>2, <3>3 DEF Placed
  <2> QED
    BY <2>2, <2>3
<1> QED
  BY <1>3, <1>4

LEMMA StepPlaced ==
  ASSUME TypeOK, Intact, Intact', Placed, [Next]_vars
  PROVE  Placed'
BY StepMoves, MovesPlaced, PidOpsPlaced

LEMMA InitPlaced == Init => Placed
BY DEF Init, Placed, Runnable, Range

(***************************************************************************)
(* While the lists are intact, what waits for a time or a semaphore has    *)
(* the fields that say so and has not been halted, and what may run has no *)
(* time left over, through every operation and every nested run.           *)
(***************************************************************************)
THEOREM FieldsAgree == Spec => []PlacesAgree
<1>1. Init => PlacesAgree
  BY InitPlaced DEF PlacesAgree, Placed
<1>2. TypeOK /\ PlacesAgree /\ [Next]_vars => PlacesAgree'
  <2> SUFFICES ASSUME TypeOK, PlacesAgree, [Next]_vars, Intact'
               PROVE  Placed'
    BY DEF PlacesAgree, Placed
  <2>1. Intact
    BY BrokenStays
  <2>2. Placed
    BY <2>1 DEF PlacesAgree, Placed
  <2> QED
    BY <2>1, <2>2, StepPlaced
<1> QED
  BY <1>1, <1>2, Typing, PTL DEF Spec
-----------------------------------------------------------------------------
(* The wait queue is in the order of the times.                            *)

WaitInOrder == Sorted(qwait, DueIn(table))

LEMMA DueAgrees ==
  ASSUME NEW q, NEW tb, NEW tc, Range(q) \subseteq DOMAIN tb, Range(q) \subseteq DOMAIN tc,
         \A r \in Range(q) : tb[r].waittime = tc[r].waittime, Sorted(q, DueIn(tb))
  PROVE  Sorted(q, DueIn(tc))
<1>1. \A r \in Range(q) : DueIn(tb)[r] = DueIn(tc)[r]
  BY DEF DueIn
<1> QED
  BY <1>1, SortedAgrees

(* Entries that are unlinked from a sorted list leave it sorted.           *)
LEMMA WithoutSorted ==
  ASSUME EntriesOK, NEW due, Sorted(qwait, due), NEW S
  PROVE  Sorted(Without(qwait, S), due)
BY OnlySorted DEF EntriesOK, Without

(* A step that unlinks the entries S and leaves the times of the others.   *)
LEMMA UnlinkingSorted ==
  ASSUME EntriesOK, Intact, WaitInOrder, NEW S, qwait' = Without(qwait, S),
         Range(qwait') \subseteq DOMAIN table',
         \A r \in Range(qwait') : table'[r].waittime = table[r].waittime
  PROVE  WaitInOrder'
<1>1. Range(qwait') = Range(qwait) \ S
  BY WithoutProperties DEF EntriesOK
<1>2. Range(qwait') \subseteq DOMAIN table
  BY <1>1 DEF Intact, Linked
<1>3. Sorted(qwait', DueIn(table))
  BY WithoutSorted DEF WaitInOrder
<1> QED
  BY <1>2, <1>3, DueAgrees DEF WaitInOrder

LEMMA UntouchedSorted ==
  ASSUME EntriesOK, Intact, WaitInOrder, qwait' = qwait, Range(qwait) \subseteq DOMAIN table',
         \A r \in Range(qwait) : table'[r].waittime = table[r].waittime
  PROVE  WaitInOrder'
<1>1. Range(qwait) \subseteq DOMAIN table
  BY DEF Intact, Linked
<1> QED
  BY <1>1, DueAgrees DEF WaitInOrder

(* A step that threads the entry p into the list q of entries in order.    *)
LEMMA ThreadingSorted ==
  ASSUME EntriesOK', NEW q, q \in Seq(DOMAIN table), DOMAIN table \subseteq DOMAIN table',
         Sorted(q, DueIn(table)), NEW p \in DOMAIN table',
         \A r \in Range(q) : table'[r].waittime = table[r].waittime,
         qwait' = Thread(q, DueIn(table'), p)
  PROVE  WaitInOrder'
<1>1. q \in Seq(DOMAIN table') /\ Range(q) \subseteq DOMAIN table
  BY Widen DEF Range
<1>2. DueIn(table') \in [DOMAIN table' -> Int]
  BY DEF EntriesOK, DueIn, Entry
<1>3. Sorted(q, DueIn(table'))
  BY <1>1, DueAgrees
<1> QED
  BY <1>1, <1>2, <1>3, ThreadSorted DEF WaitInOrder

LEMMA MovesSorted ==
  ASSUME TypeOK, TypeOK', Intact, WaitInOrder, Moves
  PROVE  WaitInOrder'
<1>1. EntriesOK /\ EntriesOK' /\ table \in [DOMAIN table -> Entry] /\ Linked \subseteq DOMAIN table
  BY DEF TypeOK, EntriesOK, Intact
<1>2. /\ Range(qwait) \cap Range(qsem) = {} /\ Range(qwait) \cap Range(qfirst) = {}
      /\ Range(qwait) \subseteq DOMAIN table
  BY DEF Intact, Disjoint, Linked
<1>3. CASE Rests
  BY <1>3 DEF Rests, entries, WaitInOrder
<1>4. ASSUME NEW H \in SUBSET Pids, NEW D \in SUBSET Pids, Cuts(H, D)
      PROVE  WaitInOrder'
  <2>1. /\ Range(qwait') = Range(qwait) \ H
        /\ DOMAIN table' = DOMAIN table \ Parked(H, D) /\ D \subseteq Range(qsem)
        /\ \A r \in DOMAIN table' :
             table'[r] = IF r \in H THEN [table[r] EXCEPT !.player = Nothing] ELSE table[r]
    BY <1>1, <1>4, CutsWhere DEF Cuts
  <2>2. \A r \in Range(qwait') : r \in DOMAIN table' /\ table'[r] = table[r]
    BY <1>2, <2>1 DEF Parked
  <2>3. CASE qwait' = Without(qwait, H)
    BY <1>1, <2>2, <2>3, UnlinkingSorted
  <2>4. CASE qwait' = qwait
    BY <1>1, <2>2, <2>4, UntouchedSorted
  <2> QED
    BY <1>4, <2>3, <2>4 DEF Cuts
<1>5. ASSUME NEW p \in Pids, NEW e \in Entry, NEW d \in Int, Files(p, e, d)
      PROVE  WaitInOrder'
  <2>1. /\ DOMAIN table' = DOMAIN table \cup {p}
        /\ \A r \in DOMAIN table : table'[r] = table[r]
        /\ qwait' = qwait \/ qwait' = Thread(qwait, DueIn(table'), p)
    BY <1>1, <1>5, FilesWhere
  <2>2. qwait \in Seq(DOMAIN table) /\ \A r \in Range(qwait) : table'[r] = table[r]
    BY <1>1, <1>2, <2>1, ListsOfEntries
  <2>3. CASE qwait' = qwait
    BY <1>1, <1>2, <2>1, <2>2, <2>3, UntouchedSorted
  <2>4. CASE qwait' = Thread(qwait, DueIn(table'), p)
    BY <1>1, <2>1, <2>2, <2>4, ThreadingSorted DEF WaitInOrder
  <2> QED
    BY <2>1, <2>3, <2>4
<1>6. ASSUME NEW s \in Sems, NEW q \in Seq(Pids), Releases(s, q)
      PROVE  WaitInOrder'
  <2>1. qwait' = qwait /\ Range(q) \subseteq Range(qsem) /\ DOMAIN table' = DOMAIN table
    BY <1>1, <1>6, ReleasesWhere DEF Releases, WaitersOf
  <2>2. \A r \in Range(qwait) : table'[r] = table[r]
    BY <1>1, <1>2, <1>6, <2>1, ReleasesWhere
  <2> QED
    BY <1>1, <1>2, <2>1, <2>2, UntouchedSorted
<1>7. ASSUME NEW tb, NEW t, Promotes(tb, t)
      PROVE  WaitInOrder'
  <2>1. /\ DOMAIN tb = DOMAIN table /\ Sorted(qwait, DueIn(tb))
    BY <1>1, <1>7, PromotesTable DEF WaitInOrder
  <2>2. /\ DOMAIN table' = DOMAIN table /\ qwait' = Without(qwait, Ripe(tb, t))
        /\ Range(qwait') = Range(qwait) \ Ripe(tb, t)
    BY <1>1, <1>7, PromotesWhere
  <2>3. \A r \in Range(qwait') : table'[r] = tb[r]
    <3>1. Range(qwait') \cap Late(tb, t) = {}
      BY <1>2, <2>2 DEF Late
    <3> QED
      BY <1>1, <1>2, <1>7, <2>2, <3>1, PromotesWhere
  <2>4. Sorted(qwait', DueIn(tb))
    BY <1>1, <2>1, <2>2, WithoutSorted
  <2> QED
    BY <1>2, <2>1, <2>2, <2>3, <2>4, DueAgrees DEF WaitInOrder
<1>8. CASE StartEntry
  <2>1. qwait' = qwait /\ DOMAIN table' = DOMAIN table /\ Head(qfirst) \notin Range(qwait)
    BY <1>1, <1>2, <1>8, StartWhere
  <2>2. \A r \in Range(qwait) : table'[r] = table[r]
    BY <1>1, <1>2, <1>8, <2>1, StartWhere
  <2> QED
    BY <1>1, <1>2, <2>1, <2>2, UntouchedSorted
<1>9. CASE Pops
  <2>1. qwait' = qwait /\ DOMAIN table' = DOMAIN table \ {Head(qfirst)} /\ Head(qfirst) \notin Range(qwait)
    BY <1>1, <1>2, <1>9, PopsWhere
  <2>2. \A r \in Range(qwait) : r \in DOMAIN table' /\ table'[r] = table[r]
    BY <1>1, <1>2, <1>9, <2>1, PopsWhere
  <2> QED
    BY <1>1, <2>1, <2>2, UntouchedSorted
<1> QED
  BY <1>3, <1>4, <1>5, <1>6, <1>7, <1>8, <1>9 DEF Moves, Shifts

LEMMA PidOpsSorted ==
  ASSUME TypeOK, TypeOK', Intact, Intact', Placed, WaitInOrder, NEW p \in Pids,
         HaltPid(p) \/ \E a \in Adjustments : WaitPid(p, a)
  PROVE  WaitInOrder'
<1>1. /\ EntriesOK /\ EntriesOK' /\ Range(qwait) \subseteq DOMAIN table
      /\ Range(qwait') \subseteq DOMAIN table'
  BY DEF TypeOK, Intact, Linked
<1>2. CASE HaltPid(p)
  <2>1. /\ qwait' = qwait \/ qwait' = Without(qwait, {p})
        /\ \A r \in DOMAIN table' : table'[r] = table[r]
    BY <1>1, <1>2, HaltPidWhere
  <2> QED
    BY <1>1, <2>1, UnlinkingSorted, UntouchedSorted
<1>3. ASSUME NEW a \in Adjustments, WaitPid(p, a)
      PROVE  WaitInOrder'
  <2>1. /\ DOMAIN table' = DOMAIN table /\ p \in DOMAIN table
        /\ \A r \in DOMAIN table : r # p => table'[r] = table[r]
    BY <1>3, WaitPidWhere DEF Live
  <2>2. CASE table[p].sem = Nothing
    <3> DEFINE q == Without(qwait, {p})
    <3>1. qwait \in Seq(DOMAIN table)
      BY <1>1, ListsOfEntries
    <3>2. q \in Seq(DOMAIN table) /\ Range(q) = Range(qwait) \ {p}
      BY <3>1, WithoutProperties
    <3>3. Sorted(q, DueIn(table))
      BY <1>1, WithoutSorted DEF WaitInOrder
    <3>4. qwait' = Thread(q, DueIn(table'), p)
      BY <1>3, <2>2, WaitPidWhere
    <3> HIDE DEF q
    <3>5. \A r \in Range(q) : table'[r] = table[r]
      BY <1>1, <2>1, <3>2
    <3> QED
      BY <1>1, <2>1, <3>2, <3>3, <3>4, <3>5, ThreadingSorted
  <2>3. CASE table[p].sem # Nothing
    <3>1. qwait' = qwait /\ p \notin Range(qwait)
      BY <1>3, <2>3, WaitPidWhere DEF Placed
    <3> QED
      BY <1>1, <2>1, <3>1, UntouchedSorted
  <2> QED
    BY <2>2, <2>3
<1> QED
  BY <1>2, <1>3

LEMMA StepSorted ==
  ASSUME TypeOK, TypeOK', Intact, Intact', Placed, WaitInOrder, [Next]_vars
  PROVE  WaitInOrder'
BY StepMoves, MovesSorted, PidOpsSorted

(***************************************************************************)
(* While the lists are intact, the timed waits are linked in the order of  *)
(* their times, for any delays, warps and new times of @wait/pid.          *)
(***************************************************************************)
THEOREM WaitsInOrder == Spec => []WaitSorted
<1>1. Init => WaitSorted
  BY DEF Init, WaitSorted, Sorted
<1>2. TypeOK /\ TypeOK' /\ PlacesAgree /\ WaitSorted /\ [Next]_vars => WaitSorted'
  <2> SUFFICES ASSUME TypeOK, TypeOK', PlacesAgree, WaitSorted, [Next]_vars, Intact'
               PROVE  WaitInOrder'
    BY DEF WaitSorted, WaitInOrder
  <2>1. Intact
    BY BrokenStays
  <2>2. Placed /\ WaitInOrder
    BY <2>1 DEF PlacesAgree, Placed, WaitSorted, WaitInOrder
  <2> QED
    BY <2>1, <2>2, StepSorted
<1> QED
  BY <1>1, <1>2, Typing, FieldsAgree, PTL DEF Spec
-----------------------------------------------------------------------------
(* The entry that is being run stays the head of the run queue.            *)

HeadRuns ==
  \A i \in DOMAIN frames :
    frames[i].pid # NoEntry =>
      /\ qfirst # <<>> /\ Head(qfirst) = frames[i].pid
      /\ table[frames[i].pid].player = Nothing

(* The head of the run queue keeps its place, and is not made to belong to *)
(* anybody.                                                                *)
HeadKept ==
  qfirst # <<>> =>
    /\ qfirst' # <<>> /\ Head(qfirst') = Head(qfirst)
    /\ table[Head(qfirst)].player = Nothing => table'[Head(qfirst)].player = Nothing

(* The calls go on, none with an entry it did not have.                    *)
NoNewRun ==
  \A i \in DOMAIN frames' :
    frames'[i].pid # NoEntry => i \in DOMAIN frames /\ frames'[i].pid = frames[i].pid

LEMMA HeadStays ==
  ASSUME HeadRuns, HeadKept, NoNewRun
  PROVE  HeadRuns'
BY DEF HeadRuns, HeadKept, NoNewRun

LEMMA HeadOfAppended ==
  ASSUME EntriesOK, Intact, qfirst # <<>>
  PROVE  /\ Head(qfirst) \in Range(qfirst) /\ Head(qfirst) \in DOMAIN table
         /\ \A p \in Pids : Append(qfirst, p) # <<>> /\ Head(Append(qfirst, p)) = Head(qfirst)
         /\ \A r \in Seq(Pids) : qfirst \o r # <<>> /\ Head(qfirst \o r) = Head(qfirst)
<1>1. qfirst \in Seq(Pids)
  BY DEF EntriesOK
<1>2. Head(qfirst) \in Range(qfirst)
  BY <1>1, TailRange
<1>3. Head(qfirst) \in DOMAIN table
  BY <1>2 DEF Intact, Linked
<1> QED
  BY <1>1, <1>2, <1>3

LEMMA CallsNoNewRun ==
  ASSUME WorldOK, (UNCHANGED frames) \/ CallsMove
  PROVE  NoNewRun
<1>1. frames \in Seq(Frame)
  BY DEF WorldOK
<1>2. CASE UNCHANGED frames
  BY <1>2 DEF NoNewRun
<1>3. ASSUME NEW n \in Int, NEW off \in BOOLEAN, Enters(n, off)
      PROVE  NoNewRun
  <2> DEFINE g == Looping(n, off)
  <2>1. frames' = Append(frames, g) /\ g.pid = NoEntry
    BY <1>3 DEF Enters, Looping
  <2> HIDE DEF g
  <2> QED
    BY <1>1, <2>1 DEF NoNewRun
<1>4. ASSUME ~Idle
      PROVE  /\ DOMAIN Outer = 1..Len(frames) - 1 /\ Len(frames) \in Nat \ {0}
             /\ \A i \in DOMAIN Outer : i \in DOMAIN frames /\ Outer[i] = frames[i]
  BY <1>1, <1>4 DEF Idle, Outer
<1>5. CASE ~Idle /\ frames' = Outer
  BY <1>4, <1>5 DEF NoNewRun
<1>6. CASE ~Idle /\ frames' = Append(Outer, NextRound)
  <2>1. NextRound.pid = NoEntry
    BY DEF NextRound, Looping
  <2>2. Outer \in Seq(Frame)
    BY <1>6, FrameTypes
  <2> QED
    BY <1>4, <1>6, <2>1, <2>2 DEF NoNewRun
<1> QED
  BY <1>2, <1>3, <1>5, <1>6 DEF CallsMove

LEMMA MovesHead ==
  ASSUME TypeOK, Intact, HeadRuns, Moves
  PROVE  HeadRuns'
<1>1. EntriesOK /\ WorldOK /\ table \in [DOMAIN table -> Entry] /\ Linked \subseteq DOMAIN table
  BY DEF TypeOK, EntriesOK, Intact
<1>2. UNCHANGED frames => NoNewRun
  BY DEF NoNewRun
<1>3. CASE Rests
  <2>1. NoNewRun /\ HeadKept
    BY <1>1, <1>3, CallsNoNewRun DEF Rests, entries, HeadKept
  <2> QED
    BY <2>1, HeadStays
<1>4. ASSUME NEW H \in SUBSET Pids, NEW D \in SUBSET Pids, Cuts(H, D)
      PROVE  HeadRuns'
  <2>1. /\ DOMAIN table' = DOMAIN table \ Parked(H, D) /\ Parked(H, D) \cap Runnable = {}
        /\ \A r \in DOMAIN table' :
             table'[r] = IF r \in H THEN [table[r] EXCEPT !.player = Nothing] ELSE table[r]
        /\ qfirst' = qfirst /\ frames' = frames /\ H \subseteq Live
    BY <1>1, <1>4, CutsWhere DEF Cuts
  <2>2. HeadKept
    <3> SUFFICES ASSUME qfirst # <<>>, table[Head(qfirst)].player = Nothing
                 PROVE  table'[Head(qfirst)].player = Nothing
      BY <2>1 DEF HeadKept
    <3>1. Head(qfirst) \in DOMAIN table' /\ Head(qfirst) \notin H
      BY <1>1, <2>1, HeadOfAppended DEF Runnable, Live
    <3> QED
      BY <2>1, <3>1
  <2> QED
    BY <1>2, <2>1, <2>2, HeadStays
<1>5. ASSUME NEW p \in Pids, NEW e \in Entry, NEW d \in Int, Files(p, e, d)
      PROVE  HeadRuns'
  <2>1. /\ \A r \in DOMAIN table : table'[r] = table[r]
        /\ qfirst' = qfirst \/ qfirst' = Append(qfirst, p)
    BY <1>1, <1>5, FilesWhere
  <2>2. HeadKept
    BY <1>1, <2>1, HeadOfAppended DEF HeadKept
  <2> QED
    BY <1>2, <1>5, <2>2, HeadStays DEF Files
<1>6. ASSUME NEW s \in Sems, NEW q \in Seq(Pids), Releases(s, q)
      PROVE  HeadRuns'
  <2>1. \E r \in Seq(Pids) : qfirst' = qfirst \o r
    BY <1>1, <1>6, ReleasesWhere
  <2>2. \A r \in DOMAIN table : table'[r].player = table[r].player
    <3>1. ASSUME NEW r \in DOMAIN table PROVE table'[r].player = table[r].player
      <4>1. table'[r] = IF r \in Range(q) THEN [table[r] EXCEPT !.waittime = 0] ELSE table[r]
        BY <1>1, <1>6, ReleasesWhere
      <4>2. table[r] \in Entry
        BY <1>1
      <4> QED
        BY <4>1, <4>2 DEF Entry
    <3> QED
      BY <3>1
  <2>3. HeadKept
    BY <1>1, <2>1, <2>2, HeadOfAppended DEF HeadKept
  <2> QED
    BY <1>2, <1>6, <2>3, HeadStays DEF Releases
<1>7. ASSUME NEW tb, NEW t, Promotes(tb, t)
      PROVE  HeadRuns'
  <2>1. \E r \in Seq(Pids) : qfirst' = qfirst \o r
    BY <1>1, <1>7, PromotesWhere
  <2>2. \A r \in DOMAIN table : table'[r].player = table[r].player
    <3>1. ASSUME NEW r \in DOMAIN table PROVE table'[r].player = table[r].player
      <4>1. table'[r] = IF r \in Late(tb, t) THEN [tb[r] EXCEPT !.waittime = 0, !.sem = Nothing]
                        ELSE IF r \in Ripe(tb, t) THEN [tb[r] EXCEPT !.waittime = 0]
                        ELSE tb[r]
        BY <1>1, <1>7, PromotesWhere
      <4>2. tb[r] \in Entry /\ tb[r].player = table[r].player
        BY <1>1, <1>7, PromotesTable
      <4> QED
        BY <4>1, <4>2 DEF Entry
    <3> QED
      BY <3>1
  <2>3. HeadKept
    BY <1>1, <2>1, <2>2, HeadOfAppended DEF HeadKept
  <2> QED
    BY <1>2, <1>7, <2>3, HeadStays DEF Promotes
<1>8. CASE StartEntry
  <2> DEFINE h == Head(qfirst)
             g == [at |-> "run", pid |-> h, who |-> HeadEntry.player,
                   left |-> Top.left, disabled |-> Top.disabled]
  <2>1. qfirst # <<>> /\ qfirst' = qfirst /\ table'[h].player = Nothing
    <3>1. qfirst # <<>> /\ table' = [table EXCEPT ![h].player = Nothing]
      BY <1>8 DEF StartEntry, AtLoop
    <3>2. h \in DOMAIN table /\ table[h] \in Entry /\ qfirst' = qfirst
      BY <1>1, <1>8, StartWhere
    <3> QED
      BY <3>1, <3>2 DEF Entry
  <2>2. frames' = Append(Outer, g) /\ ~Idle /\ g.pid = h
    BY <1>8 DEF StartEntry, AtLoop
  <2> HIDE DEF g, h
  <2>3. /\ Outer \in Seq(Frame) /\ frames \in Seq(Frame)
        /\ \A i \in DOMAIN Outer : i \in DOMAIN frames /\ Outer[i] = frames[i]
    BY <1>1, <2>2, FrameTypes DEF WorldOK, Outer, Idle
  <2>4. \A i \in DOMAIN frames' : frames'[i].pid # NoEntry => frames'[i].pid = h
    BY <2>1, <2>2, <2>3 DEF HeadRuns, h
  <2> QED
    BY <2>1, <2>4 DEF HeadRuns, h
<1>9. CASE Pops
  <2>1. \A i \in DOMAIN frames' : frames'[i].pid = NoEntry
    <3> DEFINE h == Head(qfirst)
    <3>1. frames' = [i \in 1..Len(frames) |->
                      IF i = Len(frames) THEN NextRound
                        ELSE IF frames[i].pid = h THEN [frames[i] EXCEPT !.pid = NoEntry]
                        ELSE frames[i]]
      BY <1>9 DEF Pops, PopHead
    <3>2. NextRound.pid = NoEntry
      BY DEF NextRound, Looping
    <3> HIDE DEF h
    <3>3. \A i \in DOMAIN frames : frames[i] \in Frame /\ (frames[i].pid = NoEntry \/ frames[i].pid = h)
      BY <1>1 DEF HeadRuns, WorldOK, h
    <3>4. \A i \in 1..Len(frames) : i \in DOMAIN frames
      BY <1>1 DEF WorldOK
    <3> QED
      BY <3>1, <3>2, <3>3, <3>4 DEF Frame
  <2> QED
    BY <2>1 DEF HeadRuns
<1> QED
  BY <1>3, <1>4, <1>5, <1>6, <1>7, <1>8, <1>9 DEF Moves, Shifts

LEMMA PidOpsHead ==
  ASSUME TypeOK, Intact, Intact', HeadRuns, NEW p \in Pids,
         HaltPid(p) \/ \E a \in Adjustments : WaitPid(p, a)
  PROVE  HeadRuns'
<1>1. EntriesOK /\ WorldOK /\ Linked \subseteq DOMAIN table
  BY DEF TypeOK, Intact
<1>2. UNCHANGED frames => NoNewRun
  BY DEF NoNewRun
<1>3. CASE HaltPid(p)
  <2>1. /\ p \in Live /\ DOMAIN table' = DOMAIN table \ {p}
        /\ \A r \in DOMAIN table' : table'[r] = table[r]
        /\ UNCHANGED <<qfirst, frames>>
    BY <1>1, <1>3, HaltPidWhere
  <2>2. HeadKept
    BY <1>1, <2>1, HeadOfAppended DEF HeadKept, Live
  <2> QED
    BY <1>2, <2>1, <2>2, HeadStays
<1>4. ASSUME NEW a \in Adjustments, WaitPid(p, a)
      PROVE  HeadRuns'
  <2>1. qfirst' = qfirst
    BY <1>4, WaitPidWhere DEF Runnable
  <2>2. HeadKept
    BY <1>1, <1>4, <2>1, HeadOfAppended, WaitPidWhere DEF HeadKept
  <2>3. UNCHANGED frames
    BY <1>4, WaitPidWhere
  <2> QED
    BY <1>2, <2>2, <2>3, HeadStays
<1> QED
  BY <1>3, <1>4

(***************************************************************************)
(* While the lists are intact, the entry a call of cque_do_top is running  *)
(* is the head of the run queue and counts as halted, however deep @kick   *)
(* has nested the calls: process_cmdline may rely on it.                   *)
(***************************************************************************)
THEOREM RunningStaysHead == Spec => []RunningIsHead
<1>1. Init => RunningIsHead
  BY DEF Init, RunningIsHead
<1>2. TypeOK /\ RunningIsHead /\ [Next]_vars => RunningIsHead'
  <2> SUFFICES ASSUME TypeOK, RunningIsHead, [Next]_vars, Intact'
               PROVE  HeadRuns'
    BY DEF RunningIsHead, HeadRuns
  <2>1. Intact
    BY BrokenStays
  <2>2. HeadRuns
    BY <2>1 DEF RunningIsHead, HeadRuns
  <2> QED
    BY <2>1, <2>2, StepMoves, MovesHead, PidOpsHead
<1> QED
  BY <1>1, <1>2, Typing, PTL DEF Spec
-----------------------------------------------------------------------------
(* Nothing is queued for what is gone, nor waits on a semaphore of it.     *)

Clean ==
  /\ \A p \in Live : Exists(table[p].player)
  /\ \A p \in Range(qsem) : Exists(table[p].sem[1])

(* Entries that stay belong to whom they did, and that object stays.       *)
Keeps(p) == p \in Live /\ table'[p].player = table[p].player /\ Stays(table[p].player)
KeepsWaiting(p) ==
  p \in Range(qsem) /\ table'[p].sem = table[p].sem /\ Stays(table[p].sem[1])

LEMMA CleanStays ==
  ASSUME Clean, \A p \in Live' : Keeps(p), \A p \in Range(qsem') : KeepsWaiting(p)
  PROVE  Clean'
BY DEF Clean, Keeps, KeepsWaiting, Stays, Exists

LEMMA AllStay ==
  ASSUME UNCHANGED fate
  PROVE  \A x : Stays(x)
BY DEF Stays, Exists

LEMMA MovesClean ==
  ASSUME TypeOK, Intact, Placed, Clean, Moves
  PROVE  Clean'
<1>1. /\ EntriesOK /\ table \in [DOMAIN table -> Entry] /\ Linked \subseteq DOMAIN table
      /\ Range(qsem) \subseteq DOMAIN table
  BY DEF TypeOK, EntriesOK, Intact, Linked
<1>2. /\ \A p \in DOMAIN table : table[p] \in Entry
      /\ \A p \in Live : table[p].player \in Objects
      /\ \A p \in Range(qsem) : table[p].sem[1] \in Objects
  <2>1. \A p \in DOMAIN table : table[p] \in Entry
    BY <1>1
  <2>2. \A p \in Live : table[p].player \in Objects
    BY <2>1 DEF Live, Entry
  <2>3. \A p \in Range(qsem) : table[p].sem \in Sems
    BY <1>1, <2>1 DEF Placed, Entry
  <2> QED
    BY <2>1, <2>2, <2>3, ObjectAssumption
<1>3. CASE Rests
  <2>1. table' = table /\ qsem' = qsem /\ \A x \in Objects : Stays(x)
    BY <1>3 DEF Rests, entries, StillThere
  <2> QED
    BY <1>2, <2>1, CleanStays DEF Keeps, KeepsWaiting, Live
<1>4. ASSUME NEW H \in SUBSET Pids, NEW D \in SUBSET Pids, Cuts(H, D)
      PROVE  Clean'
  <2>1. /\ DOMAIN table' = DOMAIN table \ Parked(H, D)
        /\ \A r \in DOMAIN table' :
             table'[r] = IF r \in H THEN [table[r] EXCEPT !.player = Nothing] ELSE table[r]
        /\ Range(qsem') = Range(qsem) \ (H \cup D)
        /\ \A p \in Live \ H : Stays(table[p].player)
        /\ \A p \in Range(qsem) \ (H \cup D) : Stays(table[p].sem[1])
    BY <1>1, <1>4, CutsWhere DEF Cuts
  <2>2. \A r \in DOMAIN table' : r \in H => table'[r].player = Nothing
    <3>1. ASSUME NEW r \in DOMAIN table', r \in H PROVE table'[r].player = Nothing
      <4>1. table[r] \in Entry /\ table'[r] = [table[r] EXCEPT !.player = Nothing]
        BY <1>2, <2>1, <3>1
      <4> QED
        BY <4>1 DEF Entry
    <3> QED
      BY <3>1
  <2>3. \A p \in Live' : Keeps(p)
    BY <2>1, <2>2 DEF Live, Keeps
  <2>4. \A p \in Range(qsem') : p \in DOMAIN table' /\ p \notin H
    BY <1>1, <2>1, <1>4 DEF Parked, Cuts, Intact, Disjoint
  <2>5. \A p \in Range(qsem') : KeepsWaiting(p)
    BY <2>1, <2>4 DEF KeepsWaiting
  <2> QED
    BY <2>3, <2>5, CleanStays
<1>5. ASSUME NEW p \in Pids, NEW e \in Entry, NEW d \in Int, Files(p, e, d)
      PROVE  Clean'
  <2>1. /\ table'[p] = e /\ \A r \in DOMAIN table : table'[r] = table[r]
        /\ Range(qsem') \subseteq Range(qsem) \cup {p}
        /\ p \in Range(qsem') => e.sem # Nothing
    BY <1>1, <1>5, FilesPlaces
  <2>2. Exists(e.player) /\ (e.sem # Nothing => Exists(e.sem[1])) /\ fate' = fate
    BY <1>5 DEF Files
  <2>3. DOMAIN table' = DOMAIN table \cup {p}
    BY <1>1, <1>5, FilesWhere
  <2>4. \A r \in Live' : r = p \/ r \in Live
    BY <2>1, <2>3 DEF Live
  <2>5. \A r \in Live : table'[r] = table[r]
    BY <2>1 DEF Live
  <2>6. \A r \in Live' : fate'[table'[r].player] # "garbage"
    BY <2>1, <2>2, <2>4, <2>5 DEF Clean, Exists
  <2>7. \A r \in Range(qsem') : fate'[table'[r].sem[1]] # "garbage"
    BY <1>1, <2>1, <2>2 DEF Clean, Exists
  <2> QED
    BY <2>6, <2>7 DEF Clean, Exists
<1>6. ASSUME NEW s \in Sems, NEW q \in Seq(Pids), Releases(s, q)
      PROVE  Clean'
  <2>1. /\ DOMAIN table' = DOMAIN table /\ Range(qsem') = Range(qsem) \ Range(q)
        /\ fate' = fate
    BY <1>1, <1>6, ReleasesWhere DEF Releases
  <2>2. \A r \in DOMAIN table : table'[r].player = table[r].player /\ table'[r].sem = table[r].sem
    <3>1. ASSUME NEW r \in DOMAIN table
          PROVE  table'[r].player = table[r].player /\ table'[r].sem = table[r].sem
      <4>1. table'[r] = IF r \in Range(q) THEN [table[r] EXCEPT !.waittime = 0] ELSE table[r]
        BY <1>1, <1>6, ReleasesWhere
      <4> QED
        BY <1>2, <4>1 DEF Entry
    <3> QED
      BY <3>1
  <2> QED
    BY <1>1, <2>1, <2>2, AllStay, CleanStays DEF Live, Keeps, KeepsWaiting
<1>7. ASSUME NEW tb, NEW t, Promotes(tb, t)
      PROVE  Clean'
  <2>1. /\ DOMAIN table' = DOMAIN table /\ Range(qsem') = Range(qsem) \ Late(tb, t)
        /\ fate' = fate
    BY <1>1, <1>7, PromotesWhere DEF Promotes
  <2>2. \A r \in DOMAIN table :
          table'[r].player = table[r].player /\ (r \notin Late(tb, t) => table'[r].sem = table[r].sem)
    <3>1. ASSUME NEW r \in DOMAIN table
          PROVE  table'[r].player = table[r].player /\ (r \notin Late(tb, t) => table'[r].sem = table[r].sem)
      <4>1. table'[r] = IF r \in Late(tb, t) THEN [tb[r] EXCEPT !.waittime = 0, !.sem = Nothing]
                        ELSE IF r \in Ripe(tb, t) THEN [tb[r] EXCEPT !.waittime = 0]
                        ELSE tb[r]
        BY <1>1, <1>7, PromotesWhere
      <4>2. tb[r] \in Entry /\ tb[r].player = table[r].player /\ tb[r].sem = table[r].sem
        BY <1>1, <1>7, PromotesTable
      <4> QED
        BY <4>1, <4>2 DEF Entry
    <3> QED
      BY <3>1
  <2> QED
    BY <1>1, <2>1, <2>2, AllStay, CleanStays DEF Live, Keeps, KeepsWaiting
<1>8. CASE StartEntry
  <2>1. /\ DOMAIN table' = DOMAIN table /\ qsem' = qsem /\ fate' = fate
    BY <1>1, <1>8, StartWhere
  <2>2. \A r \in DOMAIN table :
          /\ table'[r].player = table[r].player \/ table'[r].player = Nothing
          /\ table'[r].sem = table[r].sem
    <3>1. ASSUME NEW r \in DOMAIN table
          PROVE  /\ table'[r].player = table[r].player \/ table'[r].player = Nothing
                 /\ table'[r].sem = table[r].sem
      <4>1. table'[r] = IF r = Head(qfirst) THEN [table[r] EXCEPT !.player = Nothing] ELSE table[r]
        BY <1>1, <1>8, StartWhere
      <4> QED
        BY <1>2, <4>1 DEF Entry
    <3> QED
      BY <3>1
  <2> QED
    BY <1>1, <2>1, <2>2, AllStay, CleanStays DEF Live, Keeps, KeepsWaiting
<1>9. CASE Pops
  <2>1. /\ DOMAIN table' = DOMAIN table \ {Head(qfirst)} /\ qsem' = qsem /\ fate' = fate
        /\ \A r \in DOMAIN table' : table'[r] = table[r]
        /\ Head(qfirst) \in Range(qfirst)
    BY <1>1, <1>9, PopsWhere
  <2>2. Head(qfirst) \notin Range(qsem)
    BY <2>1 DEF Intact, Disjoint
  <2> QED
    BY <1>1, <2>1, <2>2, AllStay, CleanStays DEF Live, Keeps, KeepsWaiting
<1> QED
  BY <1>3, <1>4, <1>5, <1>6, <1>7, <1>8, <1>9 DEF Moves, Shifts

LEMMA PidOpsClean ==
  ASSUME TypeOK, Intact, Intact', Clean, NEW p \in Pids,
         HaltPid(p) \/ \E a \in Adjustments : WaitPid(p, a)
  PROVE  Clean'
<1>1. EntriesOK /\ Linked \subseteq DOMAIN table /\ Range(qsem') \subseteq DOMAIN table'
  BY DEF TypeOK, Intact, Linked
<1>2. CASE HaltPid(p)
  <2>1. /\ DOMAIN table' \subseteq DOMAIN table /\ Range(qsem') \subseteq Range(qsem)
        /\ \A r \in DOMAIN table' : table'[r] = table[r]
        /\ UNCHANGED fate
    BY <1>1, <1>2, HaltPidWhere
  <2> QED
    BY <1>1, <2>1, AllStay, CleanStays DEF Live, Keeps, KeepsWaiting
<1>3. ASSUME NEW a \in Adjustments, WaitPid(p, a)
      PROVE  Clean'
  <2>1. /\ DOMAIN table' = DOMAIN table /\ qsem' = qsem /\ UNCHANGED fate
        /\ \A r \in DOMAIN table : table'[r].player = table[r].player /\ table'[r].sem = table[r].sem
    BY <1>3, WaitPidWhere
  <2> QED
    BY <1>1, <2>1, AllStay, CleanStays DEF Live, Keeps, KeepsWaiting, Linked
<1> QED
  BY <1>2, <1>3

(***************************************************************************)
(* While the lists are intact, no command is queued for an object that has *)
(* been destroyed, and none waits on a semaphore of one.                   *)
(***************************************************************************)
THEOREM GarbageHasNoCommands == Spec => []NoneForGarbage
<1>1. Init => NoneForGarbage
  BY DEF Init, NoneForGarbage, Live, Range
<1>2. TypeOK /\ PlacesAgree /\ NoneForGarbage /\ [Next]_vars => NoneForGarbage'
  <2> SUFFICES ASSUME TypeOK, PlacesAgree, NoneForGarbage, [Next]_vars, Intact'
               PROVE  Clean'
    BY DEF NoneForGarbage, Clean
  <2>1. Intact
    BY BrokenStays
  <2>2. Placed /\ Clean
    BY <2>1 DEF PlacesAgree, Placed, NoneForGarbage, Clean
  <2> QED
    BY <2>1, <2>2, StepMoves, MovesClean, PidOpsClean
<1> QED
  BY <1>1, <1>2, Typing, FieldsAgree, PTL DEF Spec
-----------------------------------------------------------------------------
(* A semaphore's count covers its waiters.                                 *)

Covers(s) == Cardinality(WaitersOf(s)) <= IF count[s] > 0 THEN count[s] ELSE 0
Covered == \A s \in Sems : Covers(s)

LEMMA PidSets ==
  ASSUME NEW A \in SUBSET Pids, NEW B
  PROVE  /\ Cardinality(A) \in Nat /\ Cardinality(A \cap B) \in Nat /\ Cardinality(A \ B) \in Nat
         /\ Cardinality(A \ B) = Cardinality(A) - Cardinality(A \cap B)
         /\ Cardinality(A) = 0 <=> A = {}
         /\ \A p : Cardinality(A \cup {p}) <= Cardinality(A) + 1
<1>1. IsFiniteSet(A)
  BY PidsFinite
<1>2. A \cap B \in SUBSET Pids /\ A \ B \in SUBSET Pids
  OBVIOUS
<1>3. Cardinality(A) \in Nat /\ Cardinality(A \cap B) \in Nat /\ Cardinality(A \ B) \in Nat
  BY <1>2, PidsFinite
<1>4. Cardinality(A \ B) = Cardinality(A) - Cardinality(A \cap B)
  BY <1>1, FS_Difference
<1>5. Cardinality(A) = 0 <=> A = {}
  BY <1>1, FS_EmptySet
<1>6. ASSUME NEW p PROVE Cardinality(A \cup {p}) <= Cardinality(A) + 1
  <2>1. Cardinality(A \cup {p}) = IF p \in A THEN Cardinality(A) ELSE Cardinality(A) + 1
    BY <1>1, FS_AddElement
  <2> QED
    BY <1>3, <2>1
<1> QED
  BY <1>3, <1>4, <1>5, <1>6

LEMMA WaiterSets ==
  ASSUME EntriesOK, NEW s
  PROVE  WaitersOf(s) \in SUBSET Pids
BY DEF EntriesOK, WaitersOf, Range

(* Where the waiters stay and the count does not go down.                  *)
LEMMA CoversStays ==
  ASSUME EntriesOK, BooksOK, BooksOK', NEW s \in Sems, Covers(s),
         WaitersOf(s)' = WaitersOf(s), count'[s] >= count[s]
  PROVE  Covers(s)'
<1>1. count[s] \in Int /\ count'[s] \in Int /\ Cardinality(WaitersOf(s)) \in Nat
  BY WaiterSets, PidSets DEF BooksOK
<1> QED
  BY <1>1 DEF Covers

(* Where waiters leave and the count goes down by at most as many.         *)
LEMMA CoversFewer ==
  ASSUME EntriesOK, BooksOK, BooksOK', NEW s \in Sems, Covers(s), NEW G,
         WaitersOf(s)' \subseteq WaitersOf(s) \ G,
         count'[s] >= count[s] - Cardinality(WaitersOf(s) \cap G)
  PROVE  Covers(s)'
<1> DEFINE w == WaitersOf(s)
           v == w \ G
<1>1. w \in SUBSET Pids
  BY WaiterSets
<1>2. v \in SUBSET Pids /\ WaitersOf(s)' \in SUBSET v
  BY <1>1
<1>3. /\ count[s] \in Int /\ count'[s] \in Int /\ Cardinality(w) \in Nat
      /\ Cardinality(w \cap G) \in Nat /\ Cardinality(v) = Cardinality(w) - Cardinality(w \cap G)
      /\ Cardinality(v) \in Nat
  BY <1>1, PidSets DEF BooksOK
<1>4. Cardinality(WaitersOf(s)') <= Cardinality(v) /\ Cardinality(WaitersOf(s)') \in Nat
  BY <1>2, PidsFinite, FS_Subset
<1>5. Cardinality(w) <= IF count[s] > 0 THEN count[s] ELSE 0
  BY DEF Covers
<1>6. Cardinality(WaitersOf(s)') <= IF count'[s] > 0 THEN count'[s] ELSE 0
  <2>1. CASE count[s] > 0
    BY <1>3, <1>4, <1>5, <2>1
  <2>2. CASE ~(count[s] > 0)
    BY <1>3, <1>4, <1>5, <2>2
  <2> QED
    BY <2>1, <2>2
<1> QED
  BY <1>6 DEF Covers

(* Where no waiter stays.                                                  *)
LEMMA CoversNone ==
  ASSUME BooksOK', NEW s \in Sems, WaitersOf(s)' = {}
  PROVE  Covers(s)'
<1>1. count'[s] \in Int /\ Cardinality(WaitersOf(s)') = 0
  BY FS_EmptySet DEF BooksOK
<1> QED
  BY <1>1 DEF Covers

LEMMA MovesCovered ==
  ASSUME TypeOK, TypeOK', Intact, Covered, Moves
  PROVE  Covered'
<1>1. /\ EntriesOK /\ BooksOK /\ BooksOK' /\ table \in [DOMAIN table -> Entry]
      /\ Linked \subseteq DOMAIN table /\ Range(qsem) \subseteq DOMAIN table
      /\ count \in [Sems -> Int] /\ count' \in [Sems -> Int]
  BY DEF TypeOK, EntriesOK, BooksOK, Intact, Linked
<1>2. \A p \in DOMAIN table : table[p] \in Entry
  BY <1>1
<1>3. CASE Rests
  <2>1. ASSUME NEW s \in Sems PROVE Covers(s)'
    <3>1. WaitersOf(s)' = WaitersOf(s) /\ count'[s] >= count[s]
      BY <1>1, <1>3 DEF Rests, entries, NoneLower, WaitersOf
    <3> QED
      BY <1>1, <3>1, CoversStays DEF Covered
  <2> QED
    BY <2>1 DEF Covered
<1>4. ASSUME NEW H \in SUBSET Pids, NEW D \in SUBSET Pids, Cuts(H, D)
      PROVE  Covered'
  <2>1. /\ DOMAIN table' = DOMAIN table \ Parked(H, D)
        /\ \A r \in DOMAIN table' :
             table'[r] = IF r \in H THEN [table[r] EXCEPT !.player = Nothing] ELSE table[r]
        /\ Range(qsem') = Range(qsem) \ (H \cup D)
    BY <1>1, <1>4, CutsWhere
  <2>2. \A p \in Range(qsem') : p \in DOMAIN table' /\ p \notin H
    BY <1>1, <2>1, <1>4 DEF Parked, Cuts, Intact, Disjoint
  <2>3. \A p \in Range(qsem') : table'[p] = table[p]
    BY <2>1, <2>2
  <2>4. ASSUME NEW s \in Sems PROVE Covers(s)'
    <3>1. WaitersOf(s)' = WaitersOf(s) \ (H \cup D)
      BY <2>1, <2>3 DEF WaitersOf
    <3>2. CASE WaitersOf(s) \subseteq H \cup D
      BY <1>1, <3>1, <3>2, CoversNone
    <3>3. CASE count'[s] >= count[s] - Cardinality(WaitersIn(H, s))
      <4>1. WaitersIn(H, s) = WaitersOf(s) \cap H
        BY DEF WaitersIn, WaitersOf
      <4> QED
        BY <1>1, <3>1, <3>3, <4>1, CoversFewer DEF Covered
    <3> QED
      BY <1>4, <3>2, <3>3 DEF Cuts
  <2> QED
    BY <2>4 DEF Covered
<1>5. ASSUME NEW p \in Pids, NEW e \in Entry, NEW d \in Int, Files(p, e, d)
      PROVE  Covered'
  <2>1. /\ table'[p] = e /\ \A r \in DOMAIN table : table'[r] = table[r]
        /\ Range(qsem') \subseteq Range(qsem) \cup {p}
        /\ p \in Range(qsem') => e.sem # Nothing
    BY <1>1, <1>5, FilesPlaces
  <2>2. /\ Range(qsem) \subseteq Range(qsem')
        /\ p \notin DOMAIN table
    BY <1>1, <1>5, FilesWhere DEF Files
  <2>3. ASSUME NEW s \in Sems, s # e.sem PROVE WaitersOf(s)' = WaitersOf(s)
    BY <1>1, <2>1, <2>2, <2>3 DEF WaitersOf
  <2>4. CASE e.sem = Nothing
    <3>1. ASSUME NEW s \in Sems PROVE Covers(s)'
      <4>1. s # e.sem /\ count'[s] >= count[s]
        BY <1>1, <1>5, <2>4, ObjectAssumption DEF Files, NoneLower
      <4> QED
        BY <1>1, <2>3, <4>1, CoversStays DEF Covered
    <3> QED
      BY <3>1 DEF Covered
  <2>5. CASE e.sem # Nothing
    <3>1. count' = [count EXCEPT ![e.sem] = @ + 1] /\ count'[e.sem] > 0 /\ e.sem \in Sems
      BY <1>5, <2>5 DEF Files, Entry
    <3>2. ASSUME NEW s \in Sems, s # e.sem PROVE Covers(s)'
      <4>1. count'[s] >= count[s]
        BY <1>1, <3>1, <3>2
      <4> QED
        BY <1>1, <2>3, <3>2, <4>1, CoversStays DEF Covered
    <3>3. Covers(e.sem)'
      <4> DEFINE w == WaitersOf(e.sem)
      <4>1. w \in SUBSET Pids /\ w \cup {p} \in SUBSET Pids /\ w' \in SUBSET (w \cup {p})
        <5>1. w \in SUBSET Pids
          BY <1>1, WaiterSets
        <5> QED
          BY <1>1, <2>1, <5>1 DEF WaitersOf
      <4>2. Cardinality(w) \in Nat /\ Cardinality(w \cup {p}) <= Cardinality(w) + 1
        BY <4>1, PidSets
      <4>3. /\ Cardinality(w') <= Cardinality(w \cup {p})
            /\ Cardinality(w') \in Nat /\ Cardinality(w \cup {p}) \in Nat
        BY <4>1, PidsFinite, FS_Subset
      <4>4. count[e.sem] \in Int /\ count'[e.sem] = count[e.sem] + 1
        BY <1>1, <3>1
      <4>5. Cardinality(w) <= IF count[e.sem] > 0 THEN count[e.sem] ELSE 0
        BY <3>1 DEF Covered, Covers
      <4> HIDE DEF w
      <4>6. Cardinality(w') <= count'[e.sem]
        BY <3>1, <4>2, <4>3, <4>4, <4>5
      <4> QED
        BY <3>1, <4>6 DEF Covers, w
    <3> QED
      BY <3>2, <3>3 DEF Covered
  <2> QED
    BY <2>4, <2>5
<1>6. ASSUME NEW s \in Sems, NEW q \in Seq(Pids), Releases(s, q)
      PROVE  Covered'
  <2>1. /\ DOMAIN table' = DOMAIN table /\ Range(qsem') = Range(qsem) \ Range(q)
        /\ Range(q) \subseteq WaitersOf(s)
    BY <1>1, <1>6, ReleasesWhere DEF Releases
  <2>2. \A r \in Range(qsem') : table'[r] = table[r]
    BY <1>1, <1>6, <2>1, ReleasesWhere
  <2>3. ASSUME NEW r \in Sems PROVE WaitersOf(r)' = WaitersOf(r) \ Range(q)
    BY <2>1, <2>2 DEF WaitersOf
  <2>4. ASSUME NEW r \in Sems, r # s PROVE Covers(r)'
    <3>1. WaitersOf(r)' = WaitersOf(r)
      BY <2>1, <2>3, <2>4 DEF WaitersOf
    <3>2. count'[r] >= count[r]
      BY <1>1, <1>6, <2>4 DEF Releases
    <3> QED
      BY <1>1, <3>1, <3>2, CoversStays DEF Covered
  <2>5. Covers(s)'
    <3>1. CASE count[s] <= 0
      <4>1. WaitersOf(s) \in SUBSET Pids /\ count[s] \in Int
        BY <1>1, WaiterSets
      <4>2. Cardinality(WaitersOf(s)) <= 0
        BY <3>1, <4>1 DEF Covered, Covers
      <4>3. WaitersOf(s) = {}
        <5>1. IsFiniteSet(WaitersOf(s)) /\ Cardinality(WaitersOf(s)) \in Nat
          BY <4>1, PidsFinite
        <5>2. Cardinality(WaitersOf(s)) = 0
          BY <4>2, <5>1
        <5> QED
          BY <5>1, <5>2, FS_EmptySet
      <4> QED
        BY <1>1, <2>3, <4>3, CoversNone
    <3>2. CASE Range(q) = WaitersOf(s)
      BY <1>1, <2>3, <3>2, CoversNone
    <3>3. CASE count'[s] = count[s] - Cardinality(Range(q))
      <4>1. WaitersOf(s) \cap Range(q) = Range(q)
        BY <2>1
      <4>2. Cardinality(Range(q)) \in Nat
        <5>1. Range(q) \in SUBSET Pids
          BY DEF Range
        <5> QED
          BY <5>1, PidsFinite
      <4>3. count'[s] >= count[s] - Cardinality(Range(q))
        BY <1>1, <3>3, <4>2
      <4> QED
        BY <1>1, <2>3, <4>1, <4>3, CoversFewer DEF Covered
    <3> QED
      BY <1>6, <3>1, <3>2, <3>3 DEF Releases
  <2> QED
    BY <2>4, <2>5 DEF Covered
<1>7. ASSUME NEW tb, NEW t, Promotes(tb, t)
      PROVE  Covered'
  <2>1. /\ Range(qsem') = Range(qsem) \ Late(tb, t) /\ Ripe(tb, t) \subseteq Range(qwait)
        /\ \A s \in Sems : count'[s] = count[s] - Cardinality(LateFor(tb, t, s))
    BY <1>1, <1>7, PromotesWhere
  <2>2. \A p \in DOMAIN table : tb[p].sem = table[p].sem
    BY <1>1, <1>7, PromotesTable
  <2>3. \A p \in Range(qsem') : table'[p].sem = table[p].sem
    <3>1. Range(qsem') \cap Ripe(tb, t) = {} /\ Range(qsem') \subseteq Range(qsem)
      BY <2>1 DEF Intact, Disjoint
    <3>2. \A p \in Range(qsem') : table'[p] = tb[p]
      BY <1>1, <1>7, <2>1, <3>1, PromotesWhere
    <3> QED
      BY <1>1, <2>2, <3>1, <3>2
  <2>4. ASSUME NEW s \in Sems PROVE Covers(s)'
    <3>1. WaitersOf(s)' = WaitersOf(s) \ Late(tb, t)
      BY <2>1, <2>3 DEF WaitersOf
    <3>2. LateFor(tb, t, s) = WaitersOf(s) \cap Late(tb, t)
      BY <1>1, <2>2 DEF Late, LateFor, WaitersOf
    <3>3. Cardinality(WaitersOf(s) \cap Late(tb, t)) \in Nat
      BY <1>1, WaiterSets, PidSets
    <3>4. count'[s] >= count[s] - Cardinality(WaitersOf(s) \cap Late(tb, t))
      BY <1>1, <2>1, <3>2, <3>3
    <3> QED
      BY <1>1, <3>1, <3>4, CoversFewer DEF Covered
  <2> QED
    BY <2>4 DEF Covered
<1>8. CASE StartEntry \/ Pops
  <2>1. /\ qsem' = qsem /\ count' = count /\ Head(qfirst) \in Range(qfirst)
        /\ \A r \in DOMAIN table \ {Head(qfirst)} : table'[r] = table[r]
    <3>1. CASE StartEntry
      BY <1>1, <3>1, StartWhere
    <3>2. CASE Pops
      BY <1>1, <3>2, PopsWhere
    <3> QED
      BY <1>8, <3>1, <3>2
  <2>2. \A r \in Range(qsem) : table'[r] = table[r]
    BY <1>1, <2>1 DEF Intact, Disjoint
  <2>3. ASSUME NEW s \in Sems PROVE Covers(s)'
    <3>1. WaitersOf(s)' = WaitersOf(s) /\ count'[s] >= count[s]
      BY <1>1, <2>1, <2>2 DEF WaitersOf
    <3> QED
      BY <1>1, <3>1, CoversStays DEF Covered
  <2> QED
    BY <2>3 DEF Covered
<1> QED
  BY <1>3, <1>4, <1>5, <1>6, <1>7, <1>8 DEF Moves, Shifts

(* @halt/pid takes the count down for an entry whose sem field is set: it  *)
(* is on the semaphore queue, or the lists do not stay intact.             *)
LEMMA PidOpsCovered ==
  ASSUME TypeOK, TypeOK', Intact, Intact', Complete, Placed, Covered, NEW p \in Pids,
         HaltPid(p) \/ \E a \in Adjustments : WaitPid(p, a)
  PROVE  Covered'
<1>1. /\ EntriesOK /\ BooksOK /\ BooksOK' /\ Range(qsem) \subseteq DOMAIN table
      /\ count \in [Sems -> Int] /\ Range(qsem') \subseteq DOMAIN table'
  BY DEF TypeOK, BooksOK, Intact, Linked
<1>2. CASE HaltPid(p)
  <2>1. /\ p \in DOMAIN table /\ DOMAIN table' = DOMAIN table \ {p}
        /\ \A r \in DOMAIN table' : table'[r] = table[r]
        /\ UNCHANGED <<qfirst, qlfirst>>
    BY <1>1, <1>2, HaltPidWhere DEF Live
  <2>2. CASE table[p].sem = Nothing
    <3>1. qsem' = qsem /\ count' = count
      <4>1. CASE UNCHANGED <<qsem, count>>
        BY <4>1
      <4> QED
        BY <1>1, <1>2, <2>2, <4>1, HaltPidWhere
    <3>2. ASSUME NEW s \in Sems PROVE Covers(s)'
      <4>1. WaitersOf(s)' = WaitersOf(s) /\ count'[s] >= count[s]
        BY <1>1, <2>1, <3>1 DEF WaitersOf
      <4> QED
        BY <1>1, <4>1, CoversStays DEF Covered
    <3> QED
      BY <3>2 DEF Covered
  <2>3. CASE table[p].sem # Nothing
    <3>1. /\ Range(qsem') = Range(qsem) \ {p} /\ qwait' = qwait
          /\ count' = [count EXCEPT ![table[p].sem] = @ - 1]
      BY <1>1, <1>2, <2>3, HaltPidWhere
    <3>2. p \in Range(qsem)
      <4>1. p \in Linked /\ p \notin Range(qwait)
        BY <2>1, <2>3 DEF Complete, Placed
      <4>2. p \notin Linked'
        BY <2>1 DEF Intact
      <4> QED
        BY <2>1, <4>1, <4>2 DEF Linked
    <3>3. ASSUME NEW s \in Sems PROVE Covers(s)'
      <4>1. WaitersOf(s)' = WaitersOf(s) \ {p}
        BY <1>1, <2>1, <3>1 DEF WaitersOf
      <4>2. CASE s = table[p].sem
        <5>1. WaitersOf(s) \cap {p} = {p} /\ Cardinality({p}) = 1
          BY <3>2, <4>2, FS_Singleton DEF WaitersOf
        <5>2. count'[s] = count[s] - 1 /\ count[s] \in Int
          BY <1>1, <3>1, <4>2
        <5>3. count'[s] >= count[s] - Cardinality(WaitersOf(s) \cap {p})
          BY <5>1, <5>2
        <5> QED
          BY <1>1, <4>1, <5>3, CoversFewer DEF Covered
      <4>3. CASE s # table[p].sem
        <5>1. WaitersOf(s)' = WaitersOf(s) /\ count'[s] >= count[s]
          BY <1>1, <3>1, <4>1, <4>3 DEF WaitersOf
        <5> QED
          BY <1>1, <5>1, CoversStays DEF Covered
      <4> QED
        BY <4>2, <4>3
    <3> QED
      BY <3>3 DEF Covered
  <2> QED
    BY <2>2, <2>3
<1>3. ASSUME NEW a \in Adjustments, WaitPid(p, a)
      PROVE  Covered'
  <2>1. /\ qsem' = qsem /\ count' = count /\ \A r \in DOMAIN table : table'[r].sem = table[r].sem
    BY <1>3, WaitPidWhere
  <2>2. ASSUME NEW s \in Sems PROVE Covers(s)'
    <3>1. WaitersOf(s)' = WaitersOf(s) /\ count'[s] >= count[s]
      BY <1>1, <2>1 DEF WaitersOf
    <3> QED
      BY <1>1, <3>1, CoversStays DEF Covered
  <2> QED
    BY <2>2 DEF Covered
<1> QED
  BY <1>2, <1>3

(***************************************************************************)
(* While the lists are intact, the count of a semaphore is positive and no *)
(* smaller than the number of its waiters whenever there are any: through  *)
(* timeouts, halts, drains, destruction and @notify in every order.        *)
(***************************************************************************)
THEOREM CountsCoverWaiters == Spec => []SemCoversWaiters
<1>1. Init => SemCoversWaiters
  <2> SUFFICES ASSUME Init, NEW s \in Sems
               PROVE  Cardinality(WaitersOf(s)) <= IF count[s] > 0 THEN count[s] ELSE 0
    BY DEF SemCoversWaiters
  <2>1. count[s] = 0 /\ WaitersOf(s) = {}
    BY DEF Init, WaitersOf, Range
  <2> QED
    BY <2>1, FS_EmptySet
<1>2. TypeOK /\ TypeOK' /\ Registered /\ PlacesAgree /\ SemCoversWaiters /\ [Next]_vars
        => SemCoversWaiters'
  <2> SUFFICES ASSUME TypeOK, TypeOK', Registered, PlacesAgree, SemCoversWaiters, [Next]_vars,
                      Intact'
               PROVE  Covered'
    BY DEF SemCoversWaiters, Covered, Covers
  <2>1. Intact
    BY BrokenStays
  <2>2. Placed /\ Covered /\ Complete
    BY <2>1 DEF PlacesAgree, Placed, SemCoversWaiters, Covered, Covers, Registered, Complete
  <2> QED
    BY <2>1, <2>2, StepMoves, MovesCovered, PidOpsCovered
<1> QED
  BY <1>1, <1>2, Typing, NoneForgotten, FieldsAgree, PTL DEF Spec
-----------------------------------------------------------------------------
(***************************************************************************)
(* What a step may never do: break the lists, pass over what is due, let a *)
(* command jump the queue or a younger waiter go first.                    *)
(***************************************************************************)
(* Only @halt/pid and @wait/pid break the lists.                           *)

LEMMA StepSound ==
  ASSUME TypeOK, Intact, [Next]_vars
  PROVE  \/ Intact'
         \/ "haltpid" \in Ops /\ \E p \in Pids : HaltPid(p)
         \/ \E p \in Pids, a \in Adjustments : WaitPid(p, a)
<1>1. CASE UNCHANGED vars
  BY <1>1 DEF vars, Intact, Linked, Disjoint
<1>2. CASE QueueOperation \/ Execution \/ Surroundings
  BY <1>2, QueueOperationCases, ExecutionSound, SurroundingsSound DEF Sound, Kept
<1> QED
  BY <1>1, <1>2 DEF Next

Broken == \E p \in Runnable : p \notin DOMAIN table' \/ p \in Range(qwait')

LEMMA HaltPidBreaks ==
  ASSUME TypeOK, Intact, Complete, Placed, NEW p \in Pids, HaltPid(p)
  PROVE  Intact' \/ Broken
<1>1. EntriesOK /\ p \in DOMAIN table /\ p \in Linked
  BY DEF TypeOK, HaltPid, Live, Complete
<1>2. /\ DOMAIN table' = DOMAIN table \ {p} /\ qfirst' = qfirst /\ qlfirst' = qlfirst
  BY <1>1, HaltPidWhere
<1>3. CASE p \in Runnable
  BY <1>2, <1>3 DEF Broken
<1>4. CASE p \in Range(qwait)
  <2>1. table[p].sem = Nothing
    BY <1>4 DEF Placed
  <2>2. Range(qwait') = Range(qwait) \ {p} /\ IsInjective(qwait') /\ qsem' = qsem
    BY <1>1, <2>1, HaltPidWhere
  <2> QED
    BY <1>2, <1>4, <2>2 DEF Intact, Linked, Disjoint
<1>5. CASE p \in Range(qsem)
  <2>1. table[p].sem # Nothing
    BY <1>5 DEF Placed
  <2>2. Range(qsem') = Range(qsem) \ {p} /\ IsInjective(qsem') /\ qwait' = qwait
    BY <1>1, <2>1, HaltPidWhere
  <2> QED
    BY <1>2, <1>5, <2>2 DEF Intact, Linked, Disjoint
<1> QED
  BY <1>1, <1>3, <1>4, <1>5 DEF Linked, Runnable

LEMMA WaitPidBreaks ==
  ASSUME TypeOK, Intact, Placed, NEW p \in Pids, NEW a \in Adjustments, WaitPid(p, a)
  PROVE  Intact' \/ Broken
<1>1. DOMAIN table' = DOMAIN table /\ qsem' = qsem /\ p \in DOMAIN table
  BY WaitPidWhere DEF Live
<1>2. CASE table[p].sem # Nothing
  <2>1. UNCHANGED <<qwait, qfirst, qlfirst>>
    BY <1>2, WaitPidWhere
  <2> QED
    BY <1>1, <2>1 DEF Intact, Linked, Disjoint
<1>3. CASE table[p].sem = Nothing
  <2>1. /\ Range(qwait') = Range(qwait) \cup {p} /\ IsInjective(qwait')
        /\ p \notin Runnable => qfirst' = qfirst /\ qlfirst' = qlfirst
    BY <1>3, WaitPidWhere DEF Runnable
  <2>2. CASE p \in Runnable
    BY <2>1, <2>2 DEF Broken
  <2>3. CASE p \notin Runnable
    <3>1. p \notin Range(qsem) /\ p \notin Range(qfirst) /\ p \notin Range(qlfirst)
      BY <1>3, <2>3 DEF Placed, Runnable
    <3> QED
      BY <1>1, <2>1, <2>3, <3>1 DEF Intact, Linked, Disjoint
  <2> QED
    BY <2>2, <2>3
<1> QED
  BY <1>2, <1>3

(***************************************************************************)
(* A step that breaks the lists has freed an entry that is linked on a run *)
(* queue, or threaded one into the wait queue that is: what @halt/pid and  *)
(* @wait/pid do to a command that is waiting no more, and nothing else.    *)
(***************************************************************************)
THEOREM ListsBreakOnlySo == Spec => OnlyPidOpsBreak
<1>1. TypeOK /\ Registered /\ PlacesAgree /\ [Next]_vars => (Intact /\ ~Intact' => Broken)
  <2> SUFFICES ASSUME TypeOK, Registered, PlacesAgree, [Next]_vars, Intact, ~Intact'
               PROVE  Broken
    OBVIOUS
  <2>1. Complete /\ Placed
    BY DEF Registered, Complete, PlacesAgree, Placed
  <2> QED
    BY <2>1, StepSound, HaltPidBreaks, WaitPidBreaks
<1>2. TypeOK /\ Registered /\ PlacesAgree /\ [Next]_vars
        => [Intact /\ ~Intact' =>
              \E p \in Runnable : p \notin DOMAIN table' \/ p \in Range(qwait')]_vars
  BY <1>1 DEF Broken
<1> QED
  BY <1>2, Typing, NoneForgotten, FieldsAgree, PTL DEF Spec, OnlyPidOpsBreak
-----------------------------------------------------------------------------
(* The alarm.                                                              *)

LEMMA OnlyDispatchMovesTime ==
  ASSUME [Next]_vars, now' # now
  PROVE  Dispatch
<1>1. CASE UNCHANGED vars
  BY <1>1 DEF vars
<1>2. ASSUME NEW x, NEW c, NEW d, NEW s, NEW cnt, WaitQue(x, c, d, s, cnt)
      PROVE  FALSE
  BY <1>2 DEF WaitQue, times
<1>3. CASE QueueOperation
  <2>1. ASSUME NEW x, NEW c, NEW d, Wait(x, c, d)
        PROVE  FALSE
    BY <1>2, <2>1 DEF Wait
  <2>2. ASSUME NEW x, NEW c, NEW s, NEW d, WaitSem(x, c, s, d)
        PROVE  FALSE
    BY <1>2, <2>2 DEF WaitSem
  <2> QED
    BY <1>3, <2>1, <2>2
       DEF QueueOperation, Notify, NotifyAll, Drain, Halt, HaltPid, WaitPid, Warp, times
<1>4. CASE Execution
  BY <1>4 DEF Execution, BeginTop, Kick, StartEntry, PassOver, Discard, EndEntry, EndTop, times
<1>5. CASE Surroundings
  BY <1>5 DEF Surroundings, Tick, SetHalt, Chown, ChownAll, MarkGoing, Spare, Purge,
              SwitchDequeue, SwitchInterp, times
<1> QED
  BY <1>1, <1>3, <1>4, <1>5 DEF Next

LEMMA DispatchWakes ==
  ASSUME TypeOK, Intact, WaitInOrder, Dispatch, dequeue
  PROVE  /\ \A p \in Range(qwait') : table'[p].waittime > now'
         /\ \A p \in Range(qsem') : table'[p].waittime > now' \/ table'[p].waittime = 0
<1>1. /\ EntriesOK /\ clock \in Int /\ now' = clock /\ Range(qwait) \subseteq DOMAIN table
      /\ Range(qsem) \subseteq DOMAIN table /\ Range(qwait) \cap Range(qsem) = {}
      /\ \A p \in DOMAIN table : table[p] \in Entry
  BY DEF TypeOK, EntriesOK, WorldOK, Dispatch, Intact, Linked, Disjoint
<1>2. Promotes(table, clock)
  BY <1>1 DEF Dispatch, Promotes, objects
<1>3. /\ Range(qwait') = Range(qwait) \ Ripe(table, clock)
      /\ Ripe(table, clock) \subseteq Range(qwait)
      /\ Range(qsem') = Range(qsem) \ Late(table, clock)
      /\ \A r \in DOMAIN table :
           r \notin Late(table, clock) /\ r \notin Ripe(table, clock) => table'[r] = table[r]
  BY <1>1, <1>2, PromotesWhere
<1>4. ASSUME NEW p \in Range(qwait')
      PROVE  table'[p].waittime > now'
  <2>1. qwait \in Seq(DOMAIN table) /\ DueIn(table) \in [DOMAIN table -> Int]
    BY <1>1, ListsOfEntries DEF DueIn, Entry
  <2>2. p \in Range(qwait) \ Range(FirstOf(qwait, RipeCount(qwait, DueIn(table), clock)))
    BY <1>3 DEF Ripe
  <2>3. DueIn(table)[p] > clock
    BY <1>1, <2>1, <2>2, RestNotRipe DEF WaitInOrder
  <2>4. table'[p] = table[p] /\ p \in DOMAIN table
    BY <1>1, <1>3 DEF Late
  <2> QED
    BY <1>1, <2>3, <2>4 DEF DueIn
<1>5. ASSUME NEW p \in Range(qsem')
      PROVE  table'[p].waittime > now' \/ table'[p].waittime = 0
  <2>1. p \in DOMAIN table /\ p \in Range(qsem) /\ p \notin Late(table, clock)
    BY <1>1, <1>3
  <2>2. table'[p] = table[p]
    BY <1>1, <1>3, <2>1
  <2>3. table[p].waittime \in Int /\ ~(table[p].waittime # 0 /\ table[p].waittime <= clock)
    BY <1>1, <2>1 DEF Late, Entry
  <2> QED
    BY <1>1, <2>2, <2>3
<1> QED
  BY <1>4, <1>5

(***************************************************************************)
(* When the alarm is dispatched while CF_DEQUEUE is on, no timed wait and  *)
(* no semaphore wait whose time has come stays parked: that the promotion  *)
(* stops at the first timed wait that is not over loses none.              *)
(***************************************************************************)
THEOREM AlarmWakesAllDue == Spec => DispatchWakesAllDue
<1>1. TypeOK /\ WaitSorted /\ [Next]_vars =>
        [now' # now /\ dequeue =>
           /\ \A p \in Range(qwait') : table'[p].waittime > now'
           /\ \A p \in Range(qsem') : table'[p].waittime > now' \/ table'[p].waittime = 0]_vars
  <2> SUFFICES ASSUME TypeOK, WaitSorted, [Next]_vars, now' # now, dequeue
               PROVE  /\ \A p \in Range(qwait') : table'[p].waittime > now'
                      /\ \A p \in Range(qsem') : table'[p].waittime > now' \/ table'[p].waittime = 0
    OBVIOUS
  <2>1. Dispatch /\ Intact
    BY OnlyDispatchMovesTime DEF Next, vars
  <2> QED
    BY <2>1, DispatchWakes DEF WaitSorted, WaitInOrder
<1> QED
  BY <1>1, Typing, WaitsInOrder, PTL DEF Spec, DispatchWakesAllDue

-----------------------------------------------------------------------------
(* Nobody jumps the run queue.                                             *)

Advances(k) ==
  /\ k <= Len(qfirst)
  /\ Len(qfirst) - k <= Len(qfirst')
  /\ \A i \in 1..Len(qfirst) - k : qfirst'[i] = qfirst[i + k]

LEMMA AddedAtEnd ==
  ASSUME EntriesOK,
         \/ qfirst' = qfirst
         \/ \E p \in Pids : qfirst' = Append(qfirst, p)
         \/ \E r \in Seq(Pids) : qfirst' = qfirst \o r
  PROVE  Advances(0)
<1>1. qfirst \in Seq(Pids) /\ Len(qfirst) \in Nat
  BY DEF EntriesOK
<1>2. CASE qfirst' = qfirst
  BY <1>1, <1>2 DEF Advances
<1>3. ASSUME NEW p \in Pids, qfirst' = Append(qfirst, p)
      PROVE  Advances(0)
  <2>1. Len(qfirst') = Len(qfirst) + 1 /\ \A i \in 1..Len(qfirst) : qfirst'[i] = qfirst[i]
    BY <1>1, <1>3
  <2> QED
    BY <1>1, <2>1 DEF Advances
<1>4. ASSUME NEW r \in Seq(Pids), qfirst' = qfirst \o r
      PROVE  Advances(0)
  <2>1. /\ Len(qfirst') = Len(qfirst) + Len(r) /\ Len(r) \in Nat
        /\ \A i \in 1..Len(qfirst) : qfirst'[i] = qfirst[i]
    BY <1>1, <1>4
  <2> QED
    BY <1>1, <2>1 DEF Advances
<1> QED
  BY <1>2, <1>3, <1>4

LEMMA ShiftsAdvance ==
  ASSUME TypeOK, Intact, Shifts
  PROVE  Advances(0)
<1>1. EntriesOK
  BY DEF TypeOK
<1>2. CASE Rests
  BY <1>1, <1>2, AddedAtEnd DEF Rests, entries
<1>3. ASSUME NEW H, NEW D, Cuts(H, D)
      PROVE  Advances(0)
  BY <1>1, <1>3, AddedAtEnd DEF Cuts
<1>4. ASSUME NEW p \in Pids, NEW e \in Entry, NEW d \in Int, Files(p, e, d)
      PROVE  Advances(0)
  <2>1. qfirst' = qfirst \/ qfirst' = Append(qfirst, p)
    BY <1>1, <1>4, FilesWhere
  <2> QED
    BY <1>1, <2>1, AddedAtEnd
<1>5. ASSUME NEW s, NEW q, Releases(s, q)
      PROVE  Advances(0)
  <2>1. \E r \in Seq(Pids) : qfirst' = qfirst \o r
    BY <1>1, <1>5, ReleasesWhere
  <2> QED
    BY <1>1, <2>1, AddedAtEnd
<1>6. ASSUME NEW tb, NEW t, Promotes(tb, t)
      PROVE  Advances(0)
  <2>1. \E r \in Seq(Pids) : qfirst' = qfirst \o r
    BY <1>1, <1>6, PromotesWhere
  <2> QED
    BY <1>1, <2>1, AddedAtEnd
<1> QED
  BY <1>2, <1>3, <1>4, <1>5, <1>6 DEF Shifts

LEMMA PopsAdvance ==
  ASSUME TypeOK, Intact, Pops
  PROVE  Advances(1)
<1>1. qfirst \in Seq(Pids) /\ qfirst # <<>> /\ qfirst' = Tail(qfirst)
  BY PopsWhere DEF TypeOK, EntriesOK, Pops
<1>2. /\ Len(qfirst) \in Nat \ {0} /\ Len(qfirst') = Len(qfirst) - 1
      /\ \A i \in 1..Len(qfirst) - 1 : qfirst'[i] = qfirst[i + 1]
  BY <1>1
<1> QED
  BY <1>2 DEF Advances

LEMMA StepAdvances ==
  ASSUME TypeOK, Intact, Intact', [Next]_vars
  PROVE  Advances(0) \/ (now' = now /\ Advances(1))
<1>1. EntriesOK
  BY DEF TypeOK
<1>2. CASE Shifts
  BY <1>2, ShiftsAdvance
<1>3. CASE StartEntry
  BY <1>1, <1>3, StartWhere, AddedAtEnd
<1>4. CASE Pops
  <2>1. now' = now
    <3>1. ~Dispatch
      BY <1>4 DEF Pops, Dispatch
    <3> QED
      BY <3>1, OnlyDispatchMovesTime
  <2> QED
    BY <1>4, <2>1, PopsAdvance
<1>5. ASSUME NEW p \in Pids, HaltPid(p)
      PROVE  Advances(0)
  BY <1>1, <1>5, HaltPidWhere, AddedAtEnd
<1>6. ASSUME NEW p \in Pids, NEW a \in Adjustments, WaitPid(p, a)
      PROVE  Advances(0)
  <2>1. qfirst' = qfirst
    BY <1>6, WaitPidWhere DEF Runnable
  <2> QED
    BY <1>1, <2>1, AddedAtEnd
<1> QED
  BY <1>2, <1>3, <1>4, <1>5, <1>6, StepMoves DEF Moves

(***************************************************************************)
(* As long as the lists stay intact, a step takes at most the head off the *)
(* run queue and adds only behind its last entry: no command is passed by  *)
(* a later one, and the alarm takes none away.                             *)
(***************************************************************************)
THEOREM NobodyJumpsTheQueue == Spec => RunQueueIsFifo
<1>1. TypeOK /\ [Next]_vars =>
        [Intact' =>
           \E k \in 0..1 :
             /\ k <= Len(qfirst) /\ (now' # now => k = 0)
             /\ Len(qfirst) - k <= Len(qfirst')
             /\ \A i \in 1..Len(qfirst) - k : qfirst'[i] = qfirst[i + k]]_vars
  <2> SUFFICES ASSUME TypeOK, [Next]_vars, Intact'
               PROVE  \E k \in 0..1 :
                        /\ k <= Len(qfirst) /\ (now' # now => k = 0)
                        /\ Len(qfirst) - k <= Len(qfirst')
                        /\ \A i \in 1..Len(qfirst) - k : qfirst'[i] = qfirst[i + k]
    OBVIOUS
  <2>1. Intact
    BY BrokenStays
  <2>2. Advances(0) \/ (now' = now /\ Advances(1))
    BY <2>1, StepAdvances
  <2>3. CASE Advances(0)
    BY <2>3 DEF Advances
  <2>4. CASE now' = now /\ Advances(1)
    BY <2>4 DEF Advances
  <2> QED
    BY <2>2, <2>3, <2>4
<1> QED
  BY <1>1, Typing, PTL DEF Spec, RunQueueIsFifo

-----------------------------------------------------------------------------
(* Waiters without a timeout are released oldest first.                    *)

InTurn ==
  \A i, j \in DOMAIN qsem :
    /\ i < j /\ table[qsem[i]].sem = table[qsem[j]].sem /\ Untimed(qsem[j])
    /\ qsem[j] \in Range(qfirst') \cup Range(qlfirst')
    => qsem[i] \notin Range(qsem')

(* A step that makes nothing runnable that waits on a semaphore.           *)
LEMMA NoneReleased ==
  ASSUME Range(qsem) \cap Runnable' = {}
  PROVE  InTurn
BY DEF InTurn, Runnable, Range

LEMMA StepInTurn ==
  ASSUME TypeOK, Intact, Placed, [Next]_vars
  PROVE  InTurn
<1>1. /\ EntriesOK /\ Range(qsem) \cap Runnable = {} /\ Range(qsem) \cap Range(qwait) = {}
      /\ Linked \subseteq DOMAIN table /\ Range(qsem) \subseteq Linked
  BY DEF TypeOK, Intact, Disjoint, Linked, Runnable
<1>2. CASE Rests
  BY <1>1, <1>2, NoneReleased DEF Rests, entries, Runnable
<1>3. ASSUME NEW H, NEW D, Cuts(H, D)
      PROVE  InTurn
  BY <1>1, <1>3, NoneReleased DEF Cuts, Runnable
<1>4. ASSUME NEW p \in Pids, NEW e \in Entry, NEW d \in Int, Files(p, e, d)
      PROVE  InTurn
  <2>1. Runnable' \subseteq Runnable \cup {p}
    BY <1>1, <1>4, FilesPlaces
  <2>2. p \notin Range(qsem)
    BY <1>1, <1>4 DEF Files
  <2> QED
    BY <1>1, <2>1, <2>2, NoneReleased
<1>5. ASSUME NEW s, NEW q, Releases(s, q)
      PROVE  InTurn
  <2>1. Range(qsem') = Range(qsem) \ Range(q) /\ Runnable' = Runnable \cup Range(q)
    BY <1>1, <1>5, ReleasesWhere
  <2> SUFFICES ASSUME NEW i \in DOMAIN qsem, NEW j \in DOMAIN qsem, i < j,
                      table[qsem[i]].sem = table[qsem[j]].sem,
                      qsem[j] \in Range(qfirst') \cup Range(qlfirst')
               PROVE  qsem[i] \notin Range(qsem')
    BY DEF InTurn
  <2>2. qsem[i] \in Range(qsem) /\ qsem[j] \in Range(qsem)
    BY DEF Range
  <2>3. qsem[j] \in Range(q)
    BY <1>1, <2>1, <2>2 DEF Runnable
  <2>4. qsem[j] \in WaitersOf(s)
    BY <1>5, <2>3 DEF Releases
  <2>5. qsem[i] \in WaitersOf(s)
    BY <2>2, <2>4 DEF WaitersOf
  <2>6. qsem[i] \in Range(q)
    BY <1>5, <2>3, <2>5 DEF Releases
  <2> QED
    BY <2>1, <2>6
<1>6. ASSUME NEW tb, NEW t, Promotes(tb, t)
      PROVE  InTurn
  <2>1. /\ Runnable' = Runnable \cup Ripe(tb, t) \cup Late(tb, t)
        /\ Ripe(tb, t) \subseteq Range(qwait)
    BY <1>1, <1>6, PromotesWhere
  <2>2. \A p \in DOMAIN table : p \notin Range(qwait) /\ table[p].waittime = 0 => tb[p] = table[p]
    BY <1>1, <1>6, PromotesTable
  <2> SUFFICES ASSUME NEW j \in DOMAIN qsem, Untimed(qsem[j]),
                      qsem[j] \in Range(qfirst') \cup Range(qlfirst')
               PROVE  FALSE
    BY DEF InTurn
  <2>3. qsem[j] \in Range(qsem) /\ qsem[j] \in DOMAIN table /\ qsem[j] \notin Range(qwait)
    BY <1>1 DEF Range
  <2>4. tb[qsem[j]].waittime = 0
    BY <2>2, <2>3 DEF Untimed
  <2> QED
    BY <1>1, <2>1, <2>3, <2>4 DEF Runnable, Late
<1>7. CASE StartEntry
  BY <1>1, <1>7, StartWhere, NoneReleased DEF Runnable
<1>8. CASE Pops
  <2>1. Runnable' \subseteq Runnable
    BY <1>1, <1>8, PopsWhere DEF Runnable
  <2> QED
    BY <1>1, <2>1, NoneReleased
<1>9. ASSUME NEW p \in Pids, HaltPid(p)
      PROVE  InTurn
  BY <1>1, <1>9, HaltPidWhere, NoneReleased DEF Runnable
<1>10. ASSUME NEW p \in Pids, NEW a \in Adjustments, WaitPid(p, a)
       PROVE  InTurn
  <2>1. CASE table[p].sem = Nothing
    <3>1. /\ Runnable' \subseteq Runnable \cup Range(qwait')
          /\ Range(qwait') = Range(qwait) \cup {p}
      BY <1>10, <2>1, WaitPidWhere
    <3>2. p \notin Range(qsem)
      BY <2>1 DEF Placed
    <3> QED
      BY <1>1, <3>1, <3>2, NoneReleased
  <2>2. CASE table[p].sem # Nothing
    <3>1. Runnable' = Runnable
      BY <1>10, <2>2, WaitPidWhere DEF Runnable
    <3> QED
      BY <1>1, <3>1, NoneReleased
  <2> QED
    BY <2>1, <2>2
<1> QED
  BY <1>2, <1>3, <1>4, <1>5, <1>6, <1>7, <1>8, <1>9, <1>10, StepMoves DEF Moves, Shifts

(***************************************************************************)
(* No waiter without a timeout is made runnable past an older one of the   *)
(* same semaphore, whoever else times out, is halted or is drained.        *)
(***************************************************************************)
THEOREM OldestWaiterFirst == Spec => SemIsFifo
<1>1. TypeOK /\ PlacesAgree /\ [Next]_vars =>
        [\A i, j \in DOMAIN qsem :
           /\ i < j /\ table[qsem[i]].sem = table[qsem[j]].sem /\ Untimed(qsem[j])
           /\ qsem[j] \in Range(qfirst') \cup Range(qlfirst')
           => qsem[i] \notin Range(qsem')]_vars
  <2> SUFFICES ASSUME TypeOK, PlacesAgree, Next
               PROVE  InTurn
    BY DEF InTurn
  <2>1. Intact /\ Placed
    BY DEF Next, PlacesAgree, Placed
  <2> QED
    BY <2>1, StepInTurn
<1> QED
  BY <1>1, Typing, FieldsAgree, PTL DEF Spec, SemIsFifo
-----------------------------------------------------------------------------
(* What leaves the run queue has been dealt with, unless @kick nests the   *)
(* calls of cque_do_top.                                                   *)

(* One call at most, and what it runs is still there.                      *)
OneCall ==
  /\ Len(frames) <= 1
  /\ \A i \in DOMAIN frames : frames[i].at = "run" => frames[i].pid # NoEntry

LEMMA StepOneCall ==
  ASSUME Kicks = {}, TypeOK, OneCall, [Next]_vars
  PROVE  OneCall'
<1>1. WorldOK /\ EntriesOK /\ frames \in Seq(Frame) /\ Len(frames) \in Nat
  BY DEF TypeOK, WorldOK
<1>2. CASE UNCHANGED frames
  BY <1>2 DEF OneCall
<1>3. CASE CallsMove
  <2>1. ASSUME NEW n \in Int, NEW off \in BOOLEAN, Idle, Enters(n, off)
        PROVE  OneCall'
    <3> DEFINE g == Looping(n, off)
    <3>1. frames' = <<g>> /\ g.at = "loop"
      BY <2>1 DEF Enters, Idle, Looping
    <3> HIDE DEF g
    <3> QED
      BY <3>1 DEF OneCall
  <2>2. CASE ~Idle /\ frames' = Outer
    <3>1. frames' = <<>>
      BY <1>1, <2>2 DEF OneCall, Idle, Outer
    <3> QED
      BY <3>1 DEF OneCall
  <2>3. CASE ~Idle /\ frames' = Append(Outer, NextRound)
    <3> DEFINE g == NextRound
    <3>1. Outer = <<>>
      BY <1>1, <2>3 DEF OneCall, Idle, Outer
    <3>2. frames' = <<g>> /\ g.at = "loop"
      BY <2>3, <3>1 DEF NextRound, Looping
    <3> HIDE DEF g
    <3> QED
      BY <3>2 DEF OneCall
  <2> QED
    BY <1>3, <2>1, <2>2, <2>3 DEF CallsMove
<1>4. CASE Pops
  <2>1. Len(frames) = 1
    <3>1. frames # <<>>
      BY <1>4 DEF Pops, Idle
    <3>2. Len(frames) # 0
      BY <1>1, <3>1
    <3>3. Len(frames) <= 1
      BY DEF OneCall
    <3>4. \A n \in Nat : n # 0 /\ n <= 1 => n = 1
      OBVIOUS
    <3> QED
      BY <1>1, <3>2, <3>3, <3>4, Zenon
  <2>2. frames' = [i \in 1..1 |-> NextRound] /\ NextRound.at = "loop"
    BY <1>4, <2>1 DEF Pops, PopHead, NextRound, Looping
  <2> QED
    BY <2>2 DEF OneCall
<1>5. CASE StartEntry /\ Intact
  <2> DEFINE g == [at |-> "run", pid |-> Head(qfirst), who |-> HeadEntry.player,
                   left |-> Top.left, disabled |-> Top.disabled]
  <2>1. frames' = Append(Outer, g) /\ ~Idle
    BY <1>5 DEF StartEntry, AtLoop
  <2>2. Head(qfirst) \in Pids
    BY <1>1, <1>5, StartWhere DEF EntriesOK
  <2>3. g.pid # NoEntry
    BY <2>2, ParameterAssumption DEF Pids, NoEntry
  <2> HIDE DEF g
  <2>4. Outer = <<>>
    BY <1>1, <2>1 DEF OneCall, Idle, Outer
  <2> QED
    BY <2>1, <2>3, <2>4 DEF OneCall
<1>6. CASE ~Intact
  <2>1. UNCHANGED frames
    BY <1>6 DEF Next, vars
  <2> QED
    BY <1>2, <2>1
<1>7. CASE Intact
  <2>1. CASE Shifts
    BY <1>2, <1>3, <2>1 DEF Shifts, Rests, Cuts, Files, Releases, Promotes
  <2>2. ASSUME NEW p \in Pids, HaltPid(p) \/ \E a \in Adjustments : WaitPid(p, a)
        PROVE  OneCall'
    BY <1>2, <2>2 DEF HaltPid, WaitPid
  <2> QED
    BY <1>4, <1>5, <1>7, <2>1, <2>2, StepMoves DEF Moves
<1> QED
  BY <1>6, <1>7

(* A command that is gone from the run queue and from the table, though it *)
(* could have been run.                                                    *)
Vanishes(p) ==
  /\ p \in Runnable \ Range(qfirst')
  /\ p \in DOMAIN table /\ p \notin DOMAIN table'
  /\ table[p].player # Nothing /\ fate[table[p].player] = "live"
Lowered(p) == queue'[owner[table[p].player]] = queue[owner[table[p].player]] - 1

LEMMA ShiftsLoseNone ==
  ASSUME TypeOK, Intact, Shifts, NEW p
  PROVE  ~Vanishes(p)
<1>1. EntriesOK
  BY DEF TypeOK
<1>2. CASE Rests
  BY <1>2 DEF Rests, entries, Vanishes
<1>3. ASSUME NEW H, NEW D, Cuts(H, D)
      PROVE  ~Vanishes(p)
  <2>1. DOMAIN table' = DOMAIN table \ Parked(H, D) /\ Parked(H, D) \cap Runnable = {}
    BY <1>1, <1>3, CutsWhere
  <2> QED
    BY <2>1 DEF Vanishes
<1>4. ASSUME NEW q \in Pids, NEW e \in Entry, NEW d \in Int, Files(q, e, d)
      PROVE  ~Vanishes(p)
  <2>1. DOMAIN table' = DOMAIN table \cup {q}
    BY <1>1, <1>4, FilesWhere
  <2> QED
    BY <2>1 DEF Vanishes
<1>5. ASSUME NEW s, NEW q, Releases(s, q)
      PROVE  ~Vanishes(p)
  BY <1>1, <1>5, ReleasesWhere DEF Vanishes
<1>6. ASSUME NEW tb, NEW t, Promotes(tb, t)
      PROVE  ~Vanishes(p)
  BY <1>1, <1>6, PromotesWhere DEF Vanishes
<1> QED
  BY <1>2, <1>3, <1>4, <1>5, <1>6 DEF Shifts

LEMMA ExecutionLowers ==
  ASSUME TypeOK, Intact, HeadRuns, OneCall, Execution, NEW p, Vanishes(p)
  PROVE  Lowered(p)
<1>1. EntriesOK /\ WorldOK /\ BooksOK /\ \A r \in DOMAIN table : table[r] \in Entry
  BY DEF TypeOK, EntriesOK
<1>2. ~UNCHANGED table
  BY DEF Vanishes
<1>3. ~StartEntry
  BY <1>1, StartWhere DEF Vanishes
<1>4. PassOver \/ Discard \/ EndEntry
  BY <1>2, <1>3 DEF Execution, BeginTop, Kick, EndTop, entries
<1>5. Pops
  BY <1>2, <1>4 DEF PassOver, Discard, EndEntry, AtLoop, Pops, objects, entries
<1>6. p = Head(qfirst) /\ p \in DOMAIN table
  BY <1>1, <1>5, PopsWhere DEF Vanishes
<1>7. table[p].player # Nothing /\ fate[table[p].player] = "live"
  BY DEF Vanishes
<1>8. CASE PassOver
  <2>1. owner[table[p].player] \in Players
    BY <1>1, <1>6, <1>7 DEF Entry, WorldOK
  <2> QED
    BY <1>1, <1>6, <1>8, <2>1 DEF PassOver, PaidBack, HeadEntry, Lowered, BooksOK
<1>9. CASE Discard
  BY <1>6, <1>7, <1>9 DEF Discard, Startable, HeadEntry
<1>10. CASE EndEntry
  <2>1. Len(frames) \in DOMAIN frames /\ Top.at = "run"
    BY <1>1, <1>10 DEF EndEntry, Idle, WorldOK
  <2>2. Top.pid # NoEntry
    BY <2>1 DEF OneCall, Top
  <2> QED
    BY <1>6, <1>7, <2>1, <2>2 DEF HeadRuns, Top
<1> QED
  BY <1>4, <1>8, <1>9, <1>10

LEMMA PidOpsLower ==
  ASSUME TypeOK, Intact, NEW q \in Pids, HaltPid(q) \/ \E a \in Adjustments : WaitPid(q, a),
         NEW p, Vanishes(p)
  PROVE  Lowered(p)
<1>1. EntriesOK /\ WorldOK /\ BooksOK
  BY DEF TypeOK
<1>2. HaltPid(q)
  BY WaitPidWhere DEF Vanishes
<1>3. p = q
  BY <1>1, <1>2, HaltPidWhere DEF Vanishes
<1>4. owner[table[p].player] \in Players
  BY <1>1 DEF EntriesOK, Entry, WorldOK, Vanishes
<1>5. ShareOf({p}, owner[table[p].player]) = 1
  <2>1. {r \in {p} : owner[table[r].player] = owner[table[p].player]} = {p}
    OBVIOUS
  <2> QED
    BY <2>1, FS_Singleton DEF ShareOf
<1> QED
  BY <1>1, <1>2, <1>3, <1>4, <1>5 DEF HaltPid, SettleEach, Lowered

(***************************************************************************)
(* Without @kick, a command that is removed from a run queue and could     *)
(* have been run is off its owner's books: cque_do_top never takes an      *)
(* entry it has not dealt with for the one it has.                         *)
(***************************************************************************)
THEOREM RemovedMeansProcessed == Kicks = {} => (Spec => OnlyProcessedRemoved)
<1> SUFFICES ASSUME Kicks = {} PROVE Spec => OnlyProcessedRemoved
  OBVIOUS
<1>1. Init => OneCall
  BY DEF Init, OneCall
<1>2. TypeOK /\ OneCall /\ [Next]_vars => OneCall'
  BY StepOneCall
<1>3. TypeOK /\ RunningIsHead /\ OneCall /\ [Next]_vars =>
        [\A p \in Runnable \ Range(qfirst') :
           /\ p \in DOMAIN table /\ p \notin DOMAIN table'
           /\ table[p].player # Nothing /\ fate[table[p].player] = "live"
           => queue'[owner[table[p].player]] = queue[owner[table[p].player]] - 1]_vars
  <2> SUFFICES ASSUME TypeOK, RunningIsHead, OneCall, Next, NEW p, Vanishes(p)
               PROVE  Lowered(p)
    BY DEF Vanishes, Lowered
  <2>1. Intact /\ HeadRuns
    BY DEF Next, RunningIsHead, HeadRuns
  <2>2. CASE Execution
    BY <2>1, <2>2, ExecutionLowers
  <2>3. CASE QueueOperation \/ Surroundings
    BY <2>1, <2>3, QueueOperationMoves, SurroundingsMoves, ShiftsLoseNone, PidOpsLower
  <2> QED
    BY <2>2, <2>3 DEF Next
<1> QED
  BY <1>1, <1>2, <1>3, Typing, RunningStaysHead, PTL DEF Spec, OnlyProcessedRemoved

-----------------------------------------------------------------------------
(***************************************************************************)
(* The command queue implements the ledger: every step files, settles,     *)
(* loses or forfeits commands the way the ledger does, or leaves the books *)
(* alone.                                                                  *)
(***************************************************************************)
USE DEF Pids, Objects

-----------------------------------------------------------------------------
(* The instance brings its own copy of what CommandLedger extends.         *)
LEMMA SameSize == \A S : Ledger!Cardinality(S) = Cardinality(S)
BY Zenon DEF Ledger!Cardinality, Cardinality

(* What a step does to the commands that are queued and not started: those *)
(* of D are taken out, and nobody else's payer changes.                    *)
TakenOut(D) ==
  /\ Live' = Live \ D
  /\ \A p \in Live \ D : table'[p].player = table[p].player

Dropped(D) == TakenOut(D) /\ UNCHANGED owner

LEMMA DroppedPayer ==
  ASSUME NEW D, Dropped(D)
  PROVE  Ledger!Drop(D)
<1>1. DOMAIN Payer = Live
  BY DEF Payer
<1>2. Payer' = [p \in Live' |-> owner'[table'[p].player]]
  BY DEF Payer
<1>3. Payer' = [p \in Live \ D |-> owner[table[p].player]]
  BY <1>2 DEF Dropped, TakenOut
<1>4. Payer' = [p \in DOMAIN Payer \ D |-> Payer[p]]
  BY <1>1, <1>3 DEF Payer
<1> QED
  BY <1>4 DEF Ledger!Drop

LEMMA NoneDropped ==
  ASSUME Dropped({})
  PROVE  UNCHANGED Payer
BY DEF Payer, Dropped, TakenOut

(* The commands of one player, and how much of a set of commands it paid. *)
LEMMA HeldIsLive ==
  ASSUME NEW o
  PROVE  Ledger!Held(o) = LiveOf(o)
BY DEF Ledger!Held, Payer, LiveOf

LEMMA SharesHeld ==
  ASSUME NEW D \in SUBSET Live, NEW o
  PROVE  ShareOf(D, o) = Cardinality(Ledger!Held(o) \cap D)
<1>1. Ledger!Held(o) \cap D = {p \in D : owner[table[p].player] = o}
  BY HeldIsLive DEF LiveOf
<1> QED
  BY <1>1 DEF ShareOf

LEMMA Sizes ==
  ASSUME EntriesOK, NEW D \in SUBSET Live
  PROVE  /\ D \in SUBSET Pids /\ Cardinality(D) \in Nat
         /\ \A o : ShareOf(D, o) \in Nat
<1>1. D \in SUBSET Pids /\ D \subseteq DOMAIN table
  BY DEF EntriesOK, Live
<1>2. \A o : ShareOf(D, o) \in Nat
  BY <1>1, ShareTypes
<1> QED
  BY <1>1, <1>2, PidsFinite

(* With nobody let off, a refund is added to the purse. *)
LEMMA Refunds ==
  ASSUME FreeOwners = {}, NEW m \in [Players -> Int], NEW o \in Players, NEW n \in Int
  PROVE  /\ Refund(m, o, n) = [m EXCEPT ![o] = @ + WaitCost * n]
         /\ WaitCost * n \in Int
<1>1. WaitCost \in Int
  BY ParameterAssumption
<1>2. \A k \in Int : k - (-(n * WaitCost)) = k + WaitCost * n
  BY <1>1
<1>3. Refund(m, o, n) = [m EXCEPT ![o] = m[o] - (-(n * WaitCost))]
  BY DEF Refund, Debit
<1>4. m[o] - (-(n * WaitCost)) = m[o] + WaitCost * n
  BY <1>2
<1>5. WaitCost * n \in Int
  BY <1>1
<1> QED
  BY <1>3, <1>4, <1>5, Zenon

(***************************************************************************)
(* The books: each owner is paid back for its own.                         *)
(***************************************************************************)
LEMMA SettleEachSettles ==
  ASSUME TypeOK, FreeOwners = {}, NEW D \in SUBSET Live, Dropped(D), SettleEach(D)
  PROVE  Ledger!Settle(D)
<1>1. /\ money \in [Players -> Int] /\ queue \in [Players -> Int]
      /\ \A o \in Players : ShareOf(D, o) \in Int
  BY Sizes DEF TypeOK, BooksOK
<1>2. queue' = [o \in Players |-> queue[o] - Cardinality(Ledger!Held(o) \cap D)]
  BY SharesHeld DEF SettleEach
<1>3. \A o \in Players : Refund(money, o, ShareOf(D, o))[o] = money[o] + WaitCost * ShareOf(D, o)
  BY <1>1, Refunds
<1>4. ASSUME NEW o \in Players PROVE Ledger!Deposits(o, D) = WaitCost * ShareOf(D, o)
  <2>1. ShareOf(D, o) = Cardinality(Ledger!Held(o) \cap D)
    BY SharesHeld
  <2> QED
    BY <2>1, SameSize DEF Ledger!Deposits
<1>5. money' = [o \in Players |-> money[o] + Ledger!Deposits(o, D)]
  BY <1>3, <1>4 DEF SettleEach
<1>6. Ledger!Drop(D)
  BY DroppedPayer
<1> QED
  BY <1>2, <1>5, <1>6, SameSize DEF Ledger!Settle
(* All the deposits go to one player, whose commands they were for. *)
LEMMA SharesOfOne ==
  ASSUME NEW H, NEW o, \A p \in H : owner[table[p].player] = o
  PROVE  \A q : ShareOf(H, q) = IF q = o THEN Cardinality(H) ELSE 0
<1>1. ASSUME NEW q PROVE ShareOf(H, q) = IF q = o THEN Cardinality(H) ELSE 0
  <2>1. CASE q = o
    <3>1. {p \in H : owner[table[p].player] = q} = H
      BY <2>1
    <3> QED
      BY <2>1, <3>1 DEF ShareOf
  <2>2. CASE q # o
    <3>1. {p \in H : owner[table[p].player] = q} = {}
      BY <2>2
    <3>2. Cardinality({}) = 0
      BY FS_EmptySet
    <3> QED
      BY <2>2, <3>1, <3>2 DEF ShareOf
  <2> QED
    BY <2>1, <2>2
<1> QED
  BY <1>1

LEMMA PaidToOne ==
  ASSUME TypeOK, FreeOwners = {}, NEW H \in SUBSET Live, NEW o \in Players,
         \A p \in H : owner[table[p].player] = o, money' = Refund(money, o, Cardinality(H))
  PROVE  money' = [q \in Players |-> money[q] + Ledger!Deposits(q, H)]
<1>1. /\ money \in [Players -> Int] /\ WaitCost * Cardinality(H) \in Int
      /\ money' = [money EXCEPT ![o] = @ + WaitCost * Cardinality(H)]
  <2>1. money \in [Players -> Int] /\ Cardinality(H) \in Int
    BY Sizes DEF TypeOK, BooksOK
  <2> QED
    BY <2>1, Refunds
<1>2. ASSUME NEW q \in Players PROVE Ledger!Deposits(q, H) = WaitCost * ShareOf(H, q)
  <2>1. ShareOf(H, q) = Cardinality(Ledger!Held(q) \cap H)
    BY SharesHeld
  <2> QED
    BY <2>1, SameSize DEF Ledger!Deposits
<1>3. \A q \in Players : Ledger!Deposits(q, H) = WaitCost * (IF q = o THEN Cardinality(H) ELSE 0)
  BY <1>2, SharesOfOne
<1>4. WaitCost * 0 = 0
  BY ParameterAssumption
<1>5. ASSUME NEW q \in Players PROVE money'[q] = money[q] + Ledger!Deposits(q, H)
  <2>1. CASE q = o
    BY <1>1, <1>3, <2>1
  <2>2. CASE q # o
    <3>1. Ledger!Deposits(q, H) = 0 /\ money'[q] = money[q] /\ money[q] \in Int
      BY <1>1, <1>3, <1>4, <2>2
    <3> QED
      BY <3>1
  <2> QED
    BY <2>1, <2>2
<1> QED
  BY <1>1, <1>5

LEMMA SettleWithSettles ==
  ASSUME TypeOK, FreeOwners = {}, NEW H \in SUBSET Live, Dropped(H), NEW o \in Players,
         \A p \in H : owner[table[p].player] = o, SettleWith(o, H, FALSE)
  PROVE  Ledger!Settle(H)
<1>1. money' = [q \in Players |-> money[q] + Ledger!Deposits(q, H)]
  BY PaidToOne DEF SettleWith
<1>2. ASSUME NEW q \in Players
      PROVE  queue'[q] = queue[q] - Cardinality(Ledger!Held(q) \cap H)
  <2>1. queue \in [Players -> Int] /\ Cardinality(H) \in Int
    BY Sizes DEF TypeOK, BooksOK
  <2>2. Cardinality(Ledger!Held(q) \cap H) = IF q = o THEN Cardinality(H) ELSE 0
    BY SharesOfOne, SharesHeld
  <2> QED
    BY <2>1, <2>2 DEF SettleWith
<1>3. queue' = [q \in Players |-> queue[q] - Cardinality(Ledger!Held(q) \cap H)]
  <2>1. queue \in [Players -> Int] /\ queue' = [queue EXCEPT ![o] = @ - Cardinality(H)]
    BY DEF TypeOK, BooksOK, SettleWith
  <2> QED
    BY <1>2, <2>1
<1>4. Ledger!Drop(H)
  BY DroppedPayer
<1> QED
  BY <1>1, <1>3, <1>4, SameSize DEF Ledger!Settle

LEMMA SettleWithClears ==
  ASSUME TypeOK, FreeOwners = {}, NEW o \in Players, Dropped(LiveOf(o)),
         SettleWith(o, LiveOf(o), TRUE)
  PROVE  Ledger!Clear({o})
<1> DEFINE H == LiveOf(o)
<1>1. H \in SUBSET Live /\ \A p \in H : owner[table[p].player] = o
  BY DEF LiveOf
<1>2. {p \in DOMAIN Payer : Payer[p] \in {o}} = H
  BY DEF LiveOf, Payer
<1>3. money' = [q \in Players |-> money[q] + Ledger!Deposits(q, H)]
  BY <1>1, PaidToOne DEF SettleWith
<1>4. queue' = [q \in Players |-> IF q \in {o} THEN 0 ELSE queue[q]]
  BY DEF SettleWith, TypeOK, BooksOK
<1>5. Ledger!Drop(H)
  BY DroppedPayer
<1> HIDE DEF H
<1> QED
  BY <1>2, <1>3, <1>4, <1>5 DEF Ledger!Clear

(* @halt of everything. *)
LEMMA SettleAllClears ==
  ASSUME TypeOK, FreeOwners = {}, Dropped(Live), SettleAll(Live)
  PROVE  \E O \in SUBSET Players : Ledger!Clear(O)
<1> DEFINE O == {o \in Players : ShareOf(Live, o) # 0}
<1>1. ASSUME NEW p \in Live PROVE owner[table[p].player] \in O
  <2>1. owner[table[p].player] \in Players
    BY DEF Live, TypeOK, EntriesOK, WorldOK, Entry
  <2> DEFINE o == owner[table[p].player]
             S == {q \in Live : owner[table[q].player] = o}
  <2>2. p \in S /\ S \in SUBSET Live
    OBVIOUS
  <2>3. IsFiniteSet(S)
    BY <2>2, Sizes, PidsFinite DEF TypeOK
  <2>4. Cardinality(S) # 0
    BY <2>2, <2>3, FS_EmptySet
  <2>5. ShareOf(Live, o) # 0
    BY <2>4 DEF ShareOf
  <2> QED
    BY <2>1, <2>5
<1>2. {p \in DOMAIN Payer : Payer[p] \in O} = Live
  BY <1>1 DEF Payer
<1>3. /\ money \in [Players -> Int] /\ queue \in [Players -> Int]
      /\ \A o \in Players : ShareOf(Live, o) \in Int
  BY Sizes DEF TypeOK, BooksOK
<1>4. \A o \in Players : Refund(money, o, ShareOf(Live, o))[o] = money[o] + WaitCost * ShareOf(Live, o)
  BY <1>3, Refunds
<1>5. ASSUME NEW o \in Players PROVE Ledger!Deposits(o, Live) = WaitCost * ShareOf(Live, o)
  <2>1. ShareOf(Live, o) = Cardinality(Ledger!Held(o) \cap Live)
    BY SharesHeld
  <2> QED
    BY <2>1, SameSize DEF Ledger!Deposits
<1>6. money' = [o \in Players |-> money[o] + Ledger!Deposits(o, Live)]
  BY <1>4, <1>5 DEF SettleAll
<1>7. queue' = [o \in Players |-> IF o \in O THEN 0 ELSE queue[o]]
  BY DEF SettleAll
<1>8. Ledger!Drop(Live)
  BY DroppedPayer
<1>9. O \in SUBSET Players
  OBVIOUS
<1> HIDE DEF O
<1>10. Ledger!Clear(O)
  BY <1>2, <1>6, <1>7, <1>8 DEF Ledger!Clear
<1> QED
  BY <1>9, <1>10
-----------------------------------------------------------------------------
(* The shapes a step gives the table, and which commands each takes out.   *)
LEMMA SameEntries ==
  ASSUME DOMAIN table' = DOMAIN table, UNCHANGED owner,
         \A p \in DOMAIN table : table'[p].player = table[p].player
  PROVE  Dropped({})
BY DEF Dropped, TakenOut, Live

LEMMA FreedEntries ==
  ASSUME NEW D, table' = Freed(table, D), UNCHANGED owner
  PROVE  Dropped(D \cap Live)
<1>1. DOMAIN table' = DOMAIN table \ D /\ \A p \in DOMAIN table \ D : table'[p] = table[p]
  BY DEF Freed
<1>2. Live' = Live \ (D \cap Live)
  BY <1>1 DEF Live
<1> QED
  BY <1>1, <1>2 DEF Dropped, TakenOut, Live

LEMMA CutEntries ==
  ASSUME EntriesOK, NEW H \in SUBSET Live, NEW D \in SUBSET Live,
         table' = [p \in DOMAIN table \ Parked(H, D) |->
                     IF p \in H THEN [table[p] EXCEPT !.player = Nothing] ELSE table[p]]
  PROVE  TakenOut(H \cup D)
<1>1. ASSUME NEW p \in H, p \in DOMAIN table'
      PROVE  table'[p].player = Nothing
  <2>1. table[p] \in Entry /\ table'[p] = [table[p] EXCEPT !.player = Nothing]
    BY <1>1 DEF EntriesOK
  <2> QED
    BY <2>1 DEF Entry
<1>2. \A p \in DOMAIN table \ (H \cup D) : p \in DOMAIN table' /\ table'[p] = table[p]
  BY DEF Parked
<1>3. DOMAIN table' \subseteq DOMAIN table \ D
  BY DEF Parked
<1>4. Live' = Live \ (H \cup D)
  BY <1>1, <1>2, <1>3 DEF Live
<1> QED
  BY <1>2, <1>4 DEF Dropped, TakenOut, Live

LEMMA HaltedEntries ==
  ASSUME EntriesOK, NEW H \in SUBSET Live, NEW cnt, HaltEntries(H, cnt)
  PROVE  TakenOut(H)
<1>1. H \cup {} = H /\ Parked(H, {}) = H \cap (Range(qwait) \cup Range(qsem))
  BY DEF Parked
<1>2. table' = [p \in DOMAIN table \ Parked(H, {}) |->
                  IF p \in H THEN [table[p] EXCEPT !.player = Nothing] ELSE table[p]]
  BY <1>1 DEF HaltEntries
<1>3. TakenOut(H \cup {})
  BY <1>2, CutEntries
<1> QED
  BY <1>1, <1>3

LEMMA PoppedEntry ==
  ASSUME EntriesOK, Intact, qfirst # <<>>, PopHead, UNCHANGED owner
  PROVE  /\ Head(qfirst) \in DOMAIN table /\ Head(qfirst) \in Pids
         /\ Dropped({Head(qfirst)} \cap Live)
<1>1. Head(qfirst) \in Range(qfirst) /\ Head(qfirst) \in Pids
  <2>1. qfirst \in Seq(Pids) /\ IsInjective(qfirst)
    BY DEF EntriesOK, Intact
  <2>2. Head(qfirst) \in Range(qfirst)
    BY <2>1, TailRange
  <2>3. Range(qfirst) \subseteq Pids
    BY DEF EntriesOK, Intact, Linked
  <2> QED
    BY <2>2, <2>3
<1>2. table' = Freed(table, {Head(qfirst)})
  BY DEF PopHead
<1> QED
  BY <1>1, <1>2, FreedEntries DEF Intact, Linked

-----------------------------------------------------------------------------
(* The steps of the ledger. *)
LedgerStep == [Ledger!Next]_(Ledger!vars)

LEMMA LedgerRests ==
  ASSUME UNCHANGED <<Payer, queue, money>>
  PROVE  LedgerStep
BY DEF LedgerStep, Ledger!vars

LEMMA LedgerSettles ==
  ASSUME EntriesOK, NEW D \in SUBSET Live, Ledger!Settle(D)
  PROVE  LedgerStep
<1>1. D \in SUBSET Pids
  BY Sizes
<1> QED
  BY <1>1 DEF LedgerStep, Ledger!Next

LEMMA LedgerClears ==
  ASSUME NEW O \in SUBSET Players, Ledger!Clear(O)
  PROVE  LedgerStep
BY DEF LedgerStep, Ledger!Next

(* A popped entry that is not paid back is forfeited, unless it had been   *)
(* halted or started.                                                      *)
LEMMA PoppedForfeits ==
  ASSUME EntriesOK, Intact, qfirst # <<>>, PopHead, UNCHANGED owner, UNCHANGED accounts
  PROVE  LedgerStep
<1> DEFINE p == Head(qfirst)
<1>1. p \in Pids /\ Dropped({p} \cap Live)
  BY PoppedEntry
<1>2. CASE p \in Live
  <2>1. {p} \cap Live = {p}
    BY <1>2
  <2>2. Ledger!Drop({p})
    BY <1>1, <2>1, DroppedPayer
  <2>3. Ledger!Forfeit(p)
    BY <2>2 DEF Ledger!Forfeit, accounts
  <2> QED
    BY <1>1, <2>3 DEF LedgerStep, Ledger!Next
<1>3. CASE p \notin Live
  <2>1. {p} \cap Live = {}
    BY <1>3
  <2>2. UNCHANGED Payer
    BY <1>1, <2>1, NoneDropped
  <2> QED
    BY <2>2, LedgerRests DEF accounts
<1> QED
  BY <1>2, <1>3

-----------------------------------------------------------------------------
(* Queueing a command.                                                     *)
LEMMA WaitQueSubmits ==
  ASSUME TypeOK, FreeOwners = {}, NEW x \in Objects, NEW c \in Objects, NEW d \in Int,
         NEW s \in Sems \cup {Nothing}, NEW cnt, WaitQue(x, c, d, s, cnt)
  PROVE  LedgerStep
<1>1. UNCHANGED owner
  BY DEF WaitQue
<1>2. UNCHANGED entries => UNCHANGED Payer
  BY <1>1 DEF entries, Payer, Live
<1> DEFINE o == owner[x]
<1>3. /\ o \in Players /\ queue[o] \in Int /\ QueueMax[o] \in Int /\ money[o] \in Int
      /\ queue \in [Players -> Int] /\ money \in [Players -> Int]
  BY ParameterAssumption DEF TypeOK, WorldOK, BooksOK
<1>4. CASE ~interp
  BY <1>2, <1>4, LedgerRests DEF WaitQue, accounts
<1>5. ASSUME NEW fee \in Fees, Refused(x, fee, cnt)
      PROVE  LedgerStep
  BY <1>2, <1>5, LedgerRests DEF Refused, accounts
<1>6. ASSUME NEW fee \in Fees, MayTry(x, fee)
      PROVE  money[o] >= fee /\ Debit(money, o, fee) = [money EXCEPT ![o] = @ - fee]
  BY <1>6 DEF MayTry, CanPay, Debit
<1>7. ASSUME NEW fee \in Fees, ~OverLimit(x), MayTry(x, fee), queue' = Charged(x),
             money' = Debit(money, o, fee)
      PROVE  Ledger!Charge(o, fee)
  <2>1. queue[o] < QueueMax[o]
    BY <1>3, <1>7 DEF OverLimit
  <2> QED
    BY <1>6, <1>7, <2>1 DEF Ledger!Charge, Charged
<1>8. ASSUME NEW fee \in Fees, TableFull(x, fee, cnt)
      PROVE  LedgerStep
  <2>1. Ledger!Lose(o, fee)
    BY <1>2, <1>7, <1>8 DEF TableFull, Ledger!Lose
  <2> QED
    BY <1>3, <2>1 DEF LedgerStep, Ledger!Next
<1>9. ASSUME NEW fee \in Fees, Enter(x, c, d, s, fee, cnt)
      PROVE  LedgerStep
  <2> DEFINE p == NextPid
             e == [player |-> x, cause |-> c, sem |-> s,
                   waittime |-> IF s = Nothing /\ ~(d > 0) THEN 0 ELSE WaitTime(d)]
  <2>1. p \in Pids \ DOMAIN table
    BY <1>9, NextPidFree DEF Enter, TypeOK
  <2>2. table' = WithEntry(p, e) /\ e.player = x /\ x # Nothing
    BY <1>9, ObjectAssumption DEF Enter
  <2>3. Ledger!Charge(o, fee)
    BY <1>7, <1>9 DEF Enter
  <2> HIDE DEF p, e
  <2>4. Live' = Live \cup {p}
    BY <2>1, <2>2 DEF Live, WithEntry
  <2>5. \A q \in Live' : table'[q].player = IF q = p THEN x ELSE table[q].player
    BY <2>2, <2>4 DEF Live, WithEntry
  <2>6. Payer' = [q \in DOMAIN Payer \cup {p} |-> IF q = p THEN o ELSE Payer[q]]
    BY <1>1, <2>1, <2>4, <2>5 DEF Payer, Live
  <2>7. p \notin DOMAIN Payer
    BY <2>1 DEF Payer, Live
  <2>8. Ledger!Submit(o, p, fee)
    BY <2>3, <2>6, <2>7 DEF Ledger!Submit
  <2> QED
    BY <1>3, <2>1, <2>8 DEF LedgerStep, Ledger!Next
<1>10. ASSUME NEW fee \in Fees, Runaway(x, fee, cnt)
       PROVE  LedgerStep
  <2> DEFINE H == LiveOf(o)
  <2>1. /\ MayTry(x, fee) /\ OverLimit(x) /\ HaltEntries(H, cnt)
        /\ money' = Refund(Debit(money, o, fee), o, Cardinality(H))
        /\ queue' = [queue EXCEPT ![o] = 0]
    BY <1>10 DEF Runaway
  <2>2. H \in SUBSET Live /\ Ledger!Held(o) = H
    BY HeldIsLive DEF LiveOf
  <2> HIDE DEF H
  <2>3. fee \in Int /\ Cardinality(H) \in Int
    <3>1. \A f \in Fees : f \in Int
      BY ParameterAssumption DEF Fees
    <3> QED
      BY <2>2, <3>1, Sizes DEF TypeOK
  <2>4. Debit(money, o, fee) = [money EXCEPT ![o] = @ - fee] /\ money[o] >= fee
    BY <1>6, <2>1
  <2> DEFINE m == [money EXCEPT ![o] = @ - fee]
             k == WaitCost * Cardinality(H)
  <2>5. m \in [Players -> Int] /\ m[o] = money[o] - fee
    BY <1>3, <2>3
  <2>6. money' = [m EXCEPT ![o] = @ + k]
    <3>1. money' = Refund(m, o, Cardinality(H))
      BY <2>1, <2>4
    <3> HIDE DEF m, o
    <3>2. \A n \in Int : Refund(m, o, n) = [m EXCEPT ![o] = @ + WaitCost * n]
      BY <1>3, <2>5, Refunds, Zenon
    <3> QED
      BY <2>3, <3>1, <3>2, Zenon
  <2>7. money' = [money EXCEPT ![o] = @ - fee + k]
    <3> HIDE DEF k
    <3> QED
      BY <1>3, <2>5, <2>6
  <2>8. Ledger!Drop(H)
    BY <1>1, <2>1, <2>2, HaltedEntries, DroppedPayer DEF TypeOK, Dropped
  <2>9. queue[o] >= QueueMax[o]
    BY <1>3, <2>1 DEF OverLimit
  <2>10. Ledger!Penalty(o, fee)
    BY <2>1, <2>2, <2>4, <2>7, <2>8, <2>9, SameSize DEF Ledger!Penalty
  <2> QED
    BY <1>3, <2>10 DEF LedgerStep, Ledger!Next
<1>11. CASE interp
  <2>1. PICK fee \in Fees : \/ Refused(x, fee, cnt) \/ Runaway(x, fee, cnt)
                            \/ TableFull(x, fee, cnt) \/ Enter(x, c, d, s, fee, cnt)
    BY <1>11 DEF WaitQue
  <2> QED
    BY <1>5, <1>8, <1>9, <1>10, <2>1
<1> QED
  BY <1>4, <1>11 DEF TypeOK, WorldOK
LEMMA PromotedEntries ==
  ASSUME EntriesOK, Intact, NEW tb, NEW t, Promotes(tb, t), UNCHANGED owner
  PROVE  Dropped({})
<1>1. /\ DOMAIN tb = DOMAIN table /\ tb \in [DOMAIN table -> Entry]
      /\ \A p \in DOMAIN table : tb[p].player = table[p].player
  BY PromotesTable
<1>2. DOMAIN table' = DOMAIN table
  BY PromotesWhere
<1>3. ASSUME NEW p \in DOMAIN table PROVE table'[p].player = table[p].player
  <2>1. table'[p] = IF p \in Late(tb, t) THEN [tb[p] EXCEPT !.waittime = 0, !.sem = Nothing]
                    ELSE IF p \in Ripe(tb, t) THEN [tb[p] EXCEPT !.waittime = 0]
                    ELSE tb[p]
    BY PromotesWhere
  <2>2. tb[p] \in Entry
    BY <1>1
  <2>3. table'[p].player = tb[p].player
    BY <2>1, <2>2 DEF Entry
  <2> QED
    BY <1>1, <2>3
<1> QED
  BY <1>2, <1>3, SameEntries
LEMMA QueueOperationLedger ==
  ASSUME TypeOK, FreeOwners = {}, Intact, Placed, QueueOperation
  PROVE  LedgerStep
<1>1. EntriesOK /\ Range(qsem) \subseteq DOMAIN table
  BY DEF TypeOK, Intact, Linked
<1>2. ASSUME Dropped({}), UNCHANGED accounts
      PROVE  LedgerStep
  BY <1>2, NoneDropped, LedgerRests DEF accounts
<1>3. ASSUME NEW i \in Issuers, NEW d \in Delays, Wait(i[1], i[2], d)
      PROVE  LedgerStep
  <2>1. i[1] \in Objects /\ i[2] \in Objects /\ d \in Int
    BY InputAssumption
  <2> QED
    BY <1>3, <2>1, WaitQueSubmits DEF Wait
<1>4. ASSUME NEW i \in Issuers, NEW s \in Sems, NEW d \in Timeouts, WaitSem(i[1], i[2], s, d)
      PROVE  LedgerStep
  <2>1. i[1] \in Objects /\ i[2] \in Objects /\ d \in Int /\ 0 \in Int
    BY InputAssumption
  <2>2. \E e \in Int, r \in Sems \cup {Nothing} :
          WaitQue(i[1], i[2], e, r, [count EXCEPT ![s] = @ + 1])
    BY <1>4, <2>1 DEF WaitSem
  <2> QED
    BY <2>1, <2>2, WaitQueSubmits
<1>5. ASSUME NEW q, Release(q), UNCHANGED <<accounts, objects>>
      PROVE  LedgerStep
  <2>1. DOMAIN table' = DOMAIN table /\ UNCHANGED owner
    BY <1>5 DEF Release, objects
  <2>2. ASSUME NEW p \in DOMAIN table PROVE table'[p].player = table[p].player
    <3>1. table[p] \in Entry
      BY <1>1 DEF EntriesOK
    <3>2. table'[p] = IF p \in Range(q) THEN [table[p] EXCEPT !.waittime = 0] ELSE table[p]
      BY <1>5 DEF Release
    <3> QED
      BY <3>1, <3>2 DEF Entry
  <2> QED
    BY <1>2, <1>5, <2>1, <2>2, SameEntries
<1>6. ASSUME NEW s \in Sems, NEW n \in NotifyCounts, Notify(s, n)
      PROVE  LedgerStep
  BY <1>5, <1>6 DEF Notify
<1>7. ASSUME NEW s \in Sems, NotifyAll(s)
      PROVE  LedgerStep
  BY <1>5, <1>7 DEF NotifyAll
<1>8. ASSUME NEW s \in Sems, Drain(s)
      PROVE  LedgerStep
  <2> DEFINE D == Range(Awaiting(s))
  <2>1. D \subseteq Range(qsem)
    BY <1>1, AwaitingProperties
  <2>2. D \in SUBSET Live
    BY <1>1, <2>1 DEF Placed, Live
  <2>3. table' = Freed(table, D) /\ SettleEach(D) /\ UNCHANGED owner
    BY <1>8 DEF Drain, objects
  <2> HIDE DEF D
  <2>4. Dropped(D)
    <3>1. D \cap Live = D
      BY <2>2
    <3> QED
      BY <2>3, <3>1, FreedEntries
  <2> QED
    BY <1>1, <2>2, <2>3, <2>4, SettleEachSettles, LedgerSettles
<1>9. ASSUME NEW t \in HaltTargets, Halt(t[1], t[2])
      PROVE  LedgerStep
  <2> DEFINE pl == t[1]
             ob == t[2]
             H == Wanted(pl, ob)
  <2>1. pl \in Players \cup {Nothing} /\ ob \in Objects \cup {Nothing}
    BY InputAssumption
  <2>2. H \in SUBSET Live
    BY DEF Wanted
  <2>3. Dropped(H)
    BY <1>1, <1>9, <2>2, HaltedEntries DEF Halt, objects, Dropped
  <2>4. CASE pl = Nothing /\ ob = Nothing
    <3>1. H = Live
      BY <2>4 DEF Wanted
    <3>2. SettleAll(H)
      BY <1>9, <2>4 DEF Halt
    <3> QED
      BY <2>3, <3>1, <3>2, SettleAllClears, LedgerClears
  <2>5. CASE pl # Nothing /\ ob = Nothing
    <3>1. H = LiveOf(pl)
      BY <2>5 DEF Wanted, LiveOf
    <3>2. SettleWith(pl, H, TRUE)
      BY <1>9, <2>5 DEF Halt
    <3>3. pl \in Players
      BY <2>1, <2>5
    <3>4. Ledger!Clear({pl})
      BY <2>3, <3>1, <3>2, <3>3, SettleWithClears
    <3> QED
      BY <3>3, <3>4, LedgerClears
  <2>6. CASE ob # Nothing
    <3> DEFINE o == IF pl = Nothing THEN owner[ob] ELSE pl
    <3>1. SettleWith(o, H, FALSE)
      BY <1>9, <2>6 DEF Halt
    <3>2. o \in Players
      BY <2>1, <2>6 DEF TypeOK, WorldOK
    <3>3. \A p \in H : owner[table[p].player] = o
      BY <2>6 DEF Wanted
    <3> HIDE DEF o
    <3>4. Ledger!Settle(H)
      BY <2>2, <2>3, <3>1, <3>2, <3>3, SettleWithSettles
    <3> QED
      BY <1>1, <2>2, <3>4, LedgerSettles
  <2> QED
    BY <2>4, <2>5, <2>6
<1>10. ASSUME NEW p \in Pids, HaltPid(p)
       PROVE  LedgerStep
  <2>1. p \in Live /\ table' = Freed(table, {p}) /\ SettleEach({p}) /\ UNCHANGED owner
    BY <1>10 DEF HaltPid, objects
  <2>2. {p} \in SUBSET Live /\ {p} \cap Live = {p}
    BY <2>1
  <2>3. Dropped({p})
    BY <2>1, <2>2, FreedEntries
  <2> QED
    BY <1>1, <2>1, <2>2, <2>3, SettleEachSettles, LedgerSettles
<1>11. ASSUME NEW p \in Pids, NEW a \in Adjustments, WaitPid(p, a)
       PROVE  LedgerStep
  <2>1. /\ DOMAIN table' = DOMAIN table
        /\ \A r \in DOMAIN table : table'[r].player = table[r].player
    BY <1>11, WaitPidWhere
  <2>2. UNCHANGED <<accounts, owner>>
    BY <1>11 DEF WaitPid, objects
  <2> QED
    BY <1>2, <2>1, <2>2, SameEntries
<1>12. ASSUME NEW i \in Warps, Warp(i)
       PROVE  LedgerStep
  <2>1. i \in Int /\ now \in Int
    BY InputAssumption DEF TypeOK, WorldOK
  <2>2. Promotes(Warped(i), now) /\ UNCHANGED <<accounts, owner>>
    BY <1>12, <2>1 DEF Warp, Promotes, objects
  <2> QED
    BY <1>2, <2>2, PromotedEntries DEF TypeOK
<1> QED
  BY <1>3, <1>4, <1>6, <1>7, <1>8, <1>9, <1>10, <1>11, <1>12 DEF QueueOperation
-----------------------------------------------------------------------------
(* The executor.                                                           *)
LEMMA PaidBackSettles ==
  ASSUME TypeOK, FreeOwners = {}, Head(qfirst) \in Live, Dropped({Head(qfirst)}), PaidBack
  PROVE  LedgerStep
<1> DEFINE p == Head(qfirst)
           o == owner[table[p].player]
<1>1. o \in Players /\ {p} \in SUBSET Live /\ \A r \in {p} : owner[table[r].player] = o
  BY DEF Live, TypeOK, EntriesOK, WorldOK, Entry
<1>2. Cardinality({p}) = 1
  BY FS_Singleton
<1>3. SettleWith(o, {p}, FALSE)
  BY <1>2 DEF PaidBack, HeadEntry, SettleWith
<1> HIDE DEF o, p
<1>4. Dropped({p})
  BY DEF p
<1>5. Ledger!Settle({p})
  BY <1>1, <1>3, <1>4, SettleWithSettles
<1> QED
  BY <1>1, <1>5, LedgerSettles DEF TypeOK

LEMMA ExecutionLedger ==
  ASSUME TypeOK, FreeOwners = {}, Intact, Execution
  PROVE  LedgerStep
<1>1. ASSUME UNCHANGED <<entries, accounts, owner>>
      PROVE  LedgerStep
  BY <1>1, LedgerRests DEF entries, accounts, Payer, Live
<1>2. ASSUME NEW n, BeginTop(n) \/ Kick(n)
      PROVE  LedgerStep
  BY <1>1, <1>2 DEF BeginTop, Kick, objects
<1>3. CASE StartEntry
  <2>1. /\ Head(qfirst) \in DOMAIN table /\ table[Head(qfirst)].player # Nothing
        /\ DOMAIN table' = DOMAIN table
        /\ \A r \in DOMAIN table :
             table'[r] = IF r = Head(qfirst) THEN [table[r] EXCEPT !.player = Nothing] ELSE table[r]
    BY <1>3, StartWhere DEF TypeOK
  <2>2. table'[Head(qfirst)].player = Nothing
    <3>1. table[Head(qfirst)] \in Entry
      BY <2>1 DEF TypeOK, EntriesOK
    <3> QED
      BY <2>1, <3>1 DEF Entry
  <2>3. Head(qfirst) \in Live /\ Live' = Live \ {Head(qfirst)}
    BY <2>1, <2>2 DEF Live
  <2>4. UNCHANGED owner /\ PaidBack
    BY <1>3 DEF StartEntry, objects
  <2>5. Dropped({Head(qfirst)})
    BY <2>1, <2>3, <2>4 DEF Dropped, TakenOut, Live
  <2> QED
    BY <2>3, <2>4, <2>5, PaidBackSettles
<1>4. CASE PassOver
  <2>1. /\ qfirst # <<>> /\ PopHead /\ PaidBack /\ UNCHANGED owner
        /\ table[Head(qfirst)].player # Nothing
    BY <1>4 DEF PassOver, AtLoop, Startable, HeadEntry, objects
  <2>2. Head(qfirst) \in DOMAIN table /\ Dropped({Head(qfirst)} \cap Live)
    BY <2>1, PoppedEntry DEF TypeOK
  <2>3. Head(qfirst) \in Live
    BY <2>1, <2>2 DEF Live
  <2>4. {Head(qfirst)} \cap Live = {Head(qfirst)}
    BY <2>3
  <2>5. Dropped({Head(qfirst)})
    BY <2>2, <2>4
  <2> QED
    BY <2>1, <2>3, <2>5, PaidBackSettles
<1>5. CASE Discard
  BY <1>5, PoppedForfeits DEF Discard, AtLoop, objects, TypeOK
<1>6. CASE EndEntry
  <2>1. CASE qfirst # <<>>
    BY <1>6, <2>1, PoppedForfeits DEF EndEntry, objects, TypeOK
  <2>2. CASE qfirst = <<>>
    BY <1>1, <1>6, <2>2 DEF EndEntry, objects
  <2> QED
    BY <2>1, <2>2
<1>7. CASE EndTop
  BY <1>1, <1>7 DEF EndTop, objects
<1> QED
  BY <1>2, <1>3, <1>4, <1>5, <1>6, <1>7 DEF Execution

-----------------------------------------------------------------------------
(* The operations of other files. *)
LEMMA PurgeLedger ==
  ASSUME TypeOK, FreeOwners = {}, Intact, Placed, NEW t \in Things, Purge(t)
  PROVE  LedgerStep
<1> DEFINE H == Wanted(Nothing, t)
           D == {p \in Range(qsem) \ H : table[p].sem[1] = t}
<1>1. H \in SUBSET Live
  BY DEF Wanted
<1>2. D \in SUBSET Live
  BY DEF Placed, Live, Intact, Linked
<1>3. /\ table' = [p \in DOMAIN table \ Parked(H, D) |->
                     IF p \in H THEN [table[p] EXCEPT !.player = Nothing] ELSE table[p]]
      /\ SettleEach(H \cup D) /\ UNCHANGED owner
  BY DEF Purge, Parked
<1> HIDE DEF H, D
<1>4. Dropped(H \cup D) /\ H \cup D \in SUBSET Live
  BY <1>1, <1>2, <1>3, CutEntries DEF TypeOK, Dropped
<1>5. Ledger!Settle(H \cup D)
  BY <1>3, <1>4, SettleEachSettles
<1> QED
  BY <1>4, <1>5, LedgerSettles DEF TypeOK

(* Objects change hands.                                                   *)
Transfer ==
  \/ \E c \in Chowns : Chown(c[1], c[2])
  \/ \E c \in ChownAlls : ChownAll(c[1], c[2])

LEMMA SurroundingsLedger ==
  ASSUME TypeOK, FreeOwners = {}, Intact, Placed, Surroundings
  PROVE  LedgerStep \/ Transfer
<1>1. ASSUME UNCHANGED <<entries, accounts, owner>>
      PROVE  LedgerStep
  BY <1>1, LedgerRests DEF entries, accounts, Payer, Live
<1>2. CASE Tick
  BY <1>1, <1>2 DEF Tick, objects
<1>3. CASE Dispatch
  <2>1. CASE dequeue
    <3>1. Promotes(table, clock) /\ UNCHANGED <<accounts, owner>>
      <4>1. clock \in Int
        BY DEF TypeOK, WorldOK
      <4> QED
        BY <1>3, <2>1, <4>1 DEF Dispatch, Promotes, objects
    <3> QED
      BY <3>1, PromotedEntries, NoneDropped, LedgerRests DEF TypeOK, accounts
  <2>2. CASE ~dequeue
    BY <1>1, <1>3, <2>2 DEF Dispatch, objects
  <2> QED
    BY <2>1, <2>2
<1>4. ASSUME NEW x, SetHalt(x)
      PROVE  LedgerStep
  BY <1>1, <1>4 DEF SetHalt
<1>5. ASSUME NEW t \in Things, MarkGoing(t) \/ Spare(t) \/ Purge(t)
      PROVE  LedgerStep
  BY <1>1, <1>5, PurgeLedger DEF MarkGoing, Spare
<1>6. CASE SwitchDequeue \/ SwitchInterp
  BY <1>1, <1>6 DEF SwitchDequeue, SwitchInterp, objects
<1> QED
  BY <1>2, <1>3, <1>4, <1>5, <1>6 DEF Surroundings, Transfer

-----------------------------------------------------------------------------
LEMMA StepLedger ==
  ASSUME TypeOK, FreeOwners = {}, PlacesAgree, [Next]_vars
  PROVE  LedgerStep \/ Transfer
<1>1. CASE UNCHANGED vars
  BY <1>1, LedgerRests DEF vars, Payer, Live
<1>2. CASE Next
  <2>1. Intact /\ Placed
    BY <1>2 DEF Next, PlacesAgree, Placed
  <2> QED
    BY <1>2, <2>1, QueueOperationLedger, ExecutionLedger, SurroundingsLedger DEF Next
<1> QED
  BY <1>1, <1>2

LEMMA InitLedger == Init => Ledger!Init
<1> SUFFICES ASSUME Init PROVE Ledger!Init
  OBVIOUS
<1>1. Live = {}
  BY DEF Init, Live
<1>2. Payer = [p \in {} |-> p]
  BY <1>1 DEF Payer
<1> QED
  BY <1>2 DEF Init, Ledger!Init

(***************************************************************************)
(* As long as nothing changes hands and nobody is let off paying, every    *)
(* run of the queue is one of the ledger: what cque_setup_que charges, the *)
(* executor, @halt, @drain and the destruction of objects pay back exactly *)
(* once, or it is lost in one of the two ways the ledger names.            *)
(***************************************************************************)
THEOREM QueueImplementsLedger ==
  FreeOwners = {} /\ Chowns = {} /\ ChownAlls = {} => (Spec => ImplementsLedger)
<1> SUFFICES ASSUME FreeOwners = {}, Chowns = {}, ChownAlls = {}
             PROVE  Spec => ImplementsLedger
  OBVIOUS
<1>1. TypeOK /\ PlacesAgree /\ [Next]_vars => [Ledger!Next]_(Ledger!vars)
  BY StepLedger DEF LedgerStep, Transfer
<1> QED
  BY <1>1, InitLedger, Typing, FieldsAgree, PTL DEF Spec, ImplementsLedger, Ledger!Spec
-----------------------------------------------------------------------------
(* CommandLedgerProofs, read as theorems about the queue.                  *)
Proved == INSTANCE CommandLedgerProofs WITH
  Cost <- WaitCost, Limit <- QueueMax,
  payer <- Payer, counter <- queue, purse <- money

LEMMA LedgerAssumed == Proved!LedgerAssumption
<1>1. Proved!IsFiniteSet(Pids)
  BY PidsFinite DEF Proved!IsFiniteSet, IsFiniteSet
<1>2. Fees \subseteq Nat /\ \A fee \in Fees : fee >= WaitCost
  BY ParameterAssumption DEF Fees
<1> QED
  BY <1>1, <1>2, ParameterAssumption DEF Proved!LedgerAssumption

LEMMA SameLedger ==
  /\ Ledger!Init => Proved!Init
  /\ [Ledger!Next]_(Ledger!vars) => [Proved!Next]_(Proved!vars)
  /\ Proved!QuotaHolds => Ledger!QuotaHolds
  /\ Proved!DepositsCovered => Ledger!DepositsCovered
<1>1. \A S : Proved!Cardinality(S) = Ledger!Cardinality(S)
  BY Zenon DEF Ledger!Cardinality, Proved!Cardinality
<1>2. \A o : Proved!Held(o) = Ledger!Held(o)
  BY DEF Ledger!Held, Proved!Held
<1>3. \A o, D : Proved!Deposits(o, D) = Ledger!Deposits(o, D)
  BY <1>1, <1>2 DEF Ledger!Deposits, Proved!Deposits
<1>4. \A D : Ledger!Drop(D) => Proved!Drop(D)
  BY DEF Ledger!Drop, Proved!Drop
<1>5. \A o, fee : Ledger!Charge(o, fee) => Proved!Charge(o, fee)
  BY DEF Ledger!Charge, Proved!Charge
<1>6. \A o, p, fee : Ledger!Submit(o, p, fee) => Proved!Submit(o, p, fee)
  BY <1>5 DEF Ledger!Submit, Proved!Submit
<1>7. \A o, fee : Ledger!Lose(o, fee) => Proved!Lose(o, fee)
  BY <1>5 DEF Ledger!Lose, Proved!Lose
<1>8. \A D : Ledger!Settle(D) => Proved!Settle(D)
  BY <1>1, <1>2, <1>3, <1>4 DEF Ledger!Settle, Proved!Settle
<1>9. \A O : Ledger!Clear(O) => Proved!Clear(O)
  BY <1>3, <1>4 DEF Ledger!Clear, Proved!Clear
<1>10. \A o, fee : Ledger!Penalty(o, fee) => Proved!Penalty(o, fee)
  BY <1>1, <1>2, <1>4 DEF Ledger!Penalty, Proved!Penalty
<1>11. \A p : Ledger!Forfeit(p) => Proved!Forfeit(p)
  BY <1>4 DEF Ledger!Forfeit, Proved!Forfeit
<1>12. Ledger!Next => Proved!Next
  BY <1>6, <1>7, <1>8, <1>9, <1>10, <1>11 DEF Ledger!Next, Proved!Next
<1>13. Ledger!Init => Proved!Init
  BY DEF Ledger!Init, Proved!Init
<1>15. [Ledger!Next]_(Ledger!vars) => [Proved!Next]_(Proved!vars)
  BY <1>12 DEF Ledger!vars, Proved!vars
<1>16. Proved!QuotaHolds => Ledger!QuotaHolds
  BY <1>1, <1>2 DEF Ledger!QuotaHolds, Proved!QuotaHolds
<1>17. Proved!DepositsCovered => Ledger!DepositsCovered
  BY <1>1, <1>2 DEF Ledger!DepositsCovered, Proved!DepositsCovered
<1> QED
  BY <1>13, <1>15, <1>16, <1>17

(***************************************************************************)
(* As long as nothing changes hands, no player has more commands in the    *)
(* queue than its counter says or the counter allows, and its purse and    *)
(* the deposits of its commands are never worth more than it began with:   *)
(* what cque.c, cque_halt.c, cque_notify.c and cque_exec.c pay back for a  *)
(* command, they pay back once.                                            *)
(***************************************************************************)
LimitsAndDeposits == Ledger!QuotaHolds /\ Ledger!DepositsCovered

THEOREM QueueKeepsLimits ==
  FreeOwners = {} /\ Chowns = {} /\ ChownAlls = {} => (Spec => []LimitsAndDeposits)
<1> SUFFICES ASSUME FreeOwners = {}, Chowns = {}, ChownAlls = {}
             PROVE  Spec => []LimitsAndDeposits
  OBVIOUS
<1>1. Proved!Spec => []Proved!QuotaHolds
  BY LedgerAssumed, Proved!LimitsHold, PTL
<1>2. Proved!Spec => []Proved!DepositsCovered
  BY LedgerAssumed, Proved!NothingPaidTwice, PTL
<1>3. Ledger!Init => Proved!Init
  BY SameLedger
<1>4. [Ledger!Next]_(Ledger!vars) => [Proved!Next]_(Proved!vars)
  BY SameLedger
<1>5. Proved!QuotaHolds /\ Proved!DepositsCovered => LimitsAndDeposits
  BY SameLedger DEF LimitsAndDeposits
<1>6. Ledger!Spec => Proved!Spec
  BY <1>3, <1>4, PTL DEF Ledger!Spec, Proved!Spec
<1>7. Spec => Ledger!Spec
  BY QueueImplementsLedger DEF ImplementsLedger
<1> QED
  BY <1>1, <1>2, <1>5, <1>6, <1>7, PTL
-----------------------------------------------------------------------------
(* The coins of all players and the deposits of all commands.              *)
Purses == SumFunctionOnSet(money, Players)
Coins == Purses + WaitCost * Cardinality(Live)

LEMMA CoinTypes ==
  ASSUME TypeOK
  PROVE  Purses \in Int /\ Cardinality(Live) \in Nat /\ Coins \in Int
<1>1. Purses \in Int
  BY FiniteAssumption, SumType DEF Purses, TypeOK, BooksOK
<1>2. Cardinality(Live) \in Nat
  BY Sizes DEF TypeOK
<1> QED
  BY <1>1, <1>2, ParameterAssumption DEF Coins

(* Commands that are out of the queue are paid back at most what they cost. *)
LEMMA OutOfDeposit ==
  ASSUME TypeOK, NEW D \in SUBSET Live, Live' = Live \ D, NEW paid \in Int,
         Purses' = Purses + paid, paid <= WaitCost * Cardinality(D)
  PROVE  Coins' <= Coins
<1>1. IsFiniteSet(Live) /\ D \subseteq Live
  <2>1. Live \in SUBSET Pids
    BY Sizes DEF TypeOK
  <2> QED
    BY <2>1, PidsFinite
<1>2. Live \cap D = D
  OBVIOUS
<1>3. /\ Cardinality(Live') = Cardinality(Live) - Cardinality(D)
      /\ Cardinality(Live) \in Int /\ Cardinality(D) \in Int
  <2>1. Cardinality(Live \ D) = Cardinality(Live) - Cardinality(D)
    BY <1>1, <1>2, FS_Difference
  <2>2. Cardinality(Live) \in Int /\ Cardinality(D) \in Int
    BY Sizes, CoinTypes DEF TypeOK
  <2> QED
    BY <2>1, <2>2
<1>4. WaitCost * (Cardinality(Live) - Cardinality(D))
        = WaitCost * Cardinality(Live) - WaitCost * Cardinality(D)
  BY <1>3, ParameterAssumption
<1>5. /\ Purses \in Int /\ WaitCost * Cardinality(Live) \in Int
      /\ WaitCost * Cardinality(D) \in Int
  BY <1>3, CoinTypes, ParameterAssumption
<1>6. Coins' = Purses + paid + WaitCost * Cardinality(Live) - WaitCost * Cardinality(D)
  BY <1>3, <1>4, <1>5 DEF Coins
<1> QED
  BY <1>5, <1>6 DEF Coins

(* Each owner is paid for its own.                                          *)
LEMMA EachPaid ==
  ASSUME TypeOK, NEW D \in SUBSET Live,
         money' = [o \in Players |-> money[o] + WaitCost * ShareOf(D, o)]
  PROVE  Purses' = Purses + WaitCost * Cardinality(D)
<1> DEFINE paid == [o \in Players |-> WaitCost * ShareOf(D, o)]
           own == [p \in D |-> owner[table[p].player]]
<1>1. IsFiniteSet(D)
  BY Sizes, PidsFinite DEF TypeOK
<1>2. \A p \in D : own[p] \in Players
  BY DEF Live, TypeOK, EntriesOK, WorldOK, Entry
<1>3. paid = Shares(D, own, WaitCost, Players)
  <2>1. \A o : {p \in D : own[p] = o} = {p \in D : owner[table[p].player] = o}
    OBVIOUS
  <2> HIDE DEF own
  <2> QED
    BY <2>1 DEF ShareOf, Shares
<1>4. SumFunctionOnSet(paid, Players) = WaitCost * Cardinality(D)
  <2> HIDE DEF own, paid
  <2>1. WaitCost \in Int
    BY ParameterAssumption
  <2> QED
    BY <1>1, <1>2, <1>3, <2>1, FiniteAssumption, SumOfShares
<1>5. \A o \in Players : money[o] \in Int /\ paid[o] \in Int /\ money'[o] = money[o] + paid[o]
  <2>1. \A o : ShareOf(D, o) \in Nat
    BY Sizes, Zenon DEF TypeOK
  <2> QED
    BY <2>1, ParameterAssumption DEF TypeOK, BooksOK
<1> HIDE DEF paid
<1>6. SumFunctionOnSet(money', Players) = SumFunctionOnSet(money, Players) + SumFunctionOnSet(paid, Players)
  BY <1>5, FiniteAssumption, SumPlus
<1> QED
  BY <1>4, <1>6 DEF Purses

(* One purse changes.                                                       *)
LEMMA OnePaid ==
  ASSUME TypeOK, NEW o \in Players, NEW k \in Int, money' = [money EXCEPT ![o] = @ + k]
  PROVE  Purses' = Purses + k
<1> DEFINE f == money
           h == money'
<1>1. \A x \in Players : f[x] \in Int /\ h[x] = IF x = o THEN f[x] + k ELSE f[x]
  BY DEF TypeOK, BooksOK
<1> HIDE DEF f, h
<1>2. SumFunctionOnSet(h, Players) = SumFunctionOnSet(f, Players) + k
  BY <1>1, FiniteAssumption, SumOne
<1> QED
  BY <1>2 DEF Purses, f, h
LEMMA DropLeaves ==
  ASSUME NEW D, Ledger!Drop(D)
  PROVE  Live' = Live \ (D \cap Live) /\ D \cap Live \in SUBSET Live
<1>1. DOMAIN Payer = Live /\ DOMAIN Payer' = Live'
  BY DEF Payer
<1>2. Payer' = [p \in DOMAIN Payer \ D |-> Payer[p]]
  BY DEF Ledger!Drop
<1>3. DOMAIN Payer' = DOMAIN Payer \ D
  BY <1>2
<1> QED
  BY <1>1, <1>3

LEMMA DepositsAreShares ==
  ASSUME NEW D, money' = [o \in Players |-> money[o] + Ledger!Deposits(o, D)]
  PROVE  money' = [o \in Players |-> money[o] + WaitCost * ShareOf(D \cap Live, o)]
<1>1. ASSUME NEW o PROVE Ledger!Deposits(o, D) = WaitCost * ShareOf(D \cap Live, o)
  <2>1. Ledger!Held(o) \cap D = {p \in D \cap Live : owner[table[p].player] = o}
    BY HeldIsLive DEF LiveOf
  <2> QED
    BY <2>1, SameSize DEF Ledger!Deposits, ShareOf
<1> QED
  BY <1>1

(* No step of the ledger makes a coin.                                     *)
LEMMA LedgerMakesNoCoins ==
  ASSUME TypeOK, LedgerStep
  PROVE  Coins' <= Coins
<1> USE CoinTypes
<1>1. \A n \in Nat : WaitCost * n \in Nat
  BY ParameterAssumption
<1>2. ASSUME NEW D \in SUBSET Live, Live' = Live \ D, UNCHANGED money
      PROVE  Coins' <= Coins
  <2>1. Cardinality(D) \in Nat
    BY Sizes DEF TypeOK
  <2>2. Purses' = Purses + 0 /\ 0 <= WaitCost * Cardinality(D)
    BY <1>1, <1>2, <2>1 DEF Purses
  <2> QED
    BY <1>2, <2>2, OutOfDeposit
<1>3. ASSUME NEW D, Ledger!Drop(D),
             money' = [o \in Players |-> money[o] + Ledger!Deposits(o, D)]
      PROVE  Coins' <= Coins
  <2> DEFINE E == D \cap Live
  <2>1. E \in SUBSET Live /\ Live' = Live \ E
    BY <1>3, DropLeaves
  <2>2. money' = [o \in Players |-> money[o] + WaitCost * ShareOf(E, o)]
    BY <1>3, DepositsAreShares
  <2> HIDE DEF E
  <2>3. Purses' = Purses + WaitCost * Cardinality(E)
    BY <2>1, <2>2, EachPaid
  <2>4. WaitCost * Cardinality(E) \in Int
    BY <1>1, <2>1, Sizes DEF TypeOK
  <2> QED
    BY <2>1, <2>3, <2>4, OutOfDeposit
<1>4. CASE UNCHANGED Ledger!vars
  <2>1. Live' = Live \ {} /\ UNCHANGED money
    <3>1. DOMAIN Payer = Live /\ DOMAIN Payer' = Live'
      BY DEF Payer
    <3> QED
      BY <1>4, <3>1 DEF Ledger!vars
  <2> QED
    BY <1>2, <2>1
<1>5. \A fee \in Fees : fee \in Int /\ fee >= 0 /\ fee >= WaitCost
  BY ParameterAssumption DEF Fees
<1>6. ASSUME NEW o \in Players, NEW fee \in Fees, Ledger!Charge(o, fee)
      PROVE  Purses' = Purses + (-fee)
  <2> DEFINE j == -fee
  <2>1. j \in Int /\ money[o] - fee = money[o] + j
    BY <1>5 DEF TypeOK, BooksOK
  <2> HIDE DEF j
  <2>2. money' = [money EXCEPT ![o] = @ + j]
    BY <1>6, <2>1, Zenon DEF Ledger!Charge
  <2>3. Purses' = Purses + j
    BY <2>1, <2>2, OnePaid
  <2> QED
    BY <2>3 DEF j
<1>7. ASSUME NEW o \in Players, NEW fee \in Fees, Ledger!Lose(o, fee)
      PROVE  Coins' <= Coins
  <2>1. DOMAIN Payer = Live /\ DOMAIN Payer' = Live' /\ Payer' = Payer
    BY <1>7 DEF Payer, Ledger!Lose
  <2>2. Live' = Live \ {} /\ -fee <= WaitCost * Cardinality({}) /\ -fee \in Int
    BY <1>1, <1>5, <2>1, FS_EmptySet
  <2>3. Purses' = Purses + (-fee)
    BY <1>6, <1>7 DEF Ledger!Lose
  <2> QED
    BY <2>2, <2>3, OutOfDeposit
<1>8. ASSUME NEW o \in Players, NEW p \in Pids, NEW fee \in Fees, Ledger!Submit(o, p, fee)
      PROVE  Coins' <= Coins
  <2>1. DOMAIN Payer = Live /\ DOMAIN Payer' = Live'
    BY DEF Payer
  <2>2. Live' = Live \cup {p} /\ p \notin Live
    BY <1>8, <2>1 DEF Ledger!Submit
  <2>3. IsFiniteSet(Live)
    <3>1. Live \in SUBSET Pids
      BY Sizes DEF TypeOK
    <3> QED
      BY <3>1, PidsFinite
  <2>4. Cardinality(Live') = Cardinality(Live) + 1
    BY <2>2, <2>3, FS_AddElement
  <2>5. WaitCost * (Cardinality(Live) + 1) = WaitCost * Cardinality(Live) + WaitCost
    BY ParameterAssumption
  <2>6. Purses' = Purses + (-fee)
    BY <1>6, <1>8 DEF Ledger!Submit
  <2>7. Coins' = Purses + (-fee) + (WaitCost * Cardinality(Live) + WaitCost)
    BY <2>4, <2>5, <2>6 DEF Coins
  <2>8. WaitCost * Cardinality(Live) \in Int /\ WaitCost \in Int
    BY ParameterAssumption
  <2> QED
    BY <1>5, <2>7, <2>8 DEF Coins
<1>9. ASSUME NEW o \in Players, NEW fee \in Fees, Ledger!Penalty(o, fee)
       PROVE  Coins' <= Coins
  <2> DEFINE D == LiveOf(o)
             k == WaitCost * Cardinality(D)
  <2>1. D \in SUBSET Live /\ D \cap Live = D /\ Ledger!Held(o) = D
    BY HeldIsLive DEF LiveOf
  <2>2. Live' = Live \ D
    BY <1>9, <2>1, DropLeaves DEF Ledger!Penalty
  <2>3. Cardinality(D) \in Nat
    BY <2>1, Sizes DEF TypeOK
  <2>4. k \in Int /\ fee \in Int
    BY <1>1, <1>5, <2>3
  <2>5. money' = [money EXCEPT ![o] = @ - fee + k]
    BY <1>9, <2>1, SameSize DEF Ledger!Penalty
  <2> HIDE DEF k, D
  <2> DEFINE j == k - fee
  <2>6. j \in Int /\ money[o] - fee + k = money[o] + j
    BY <2>4 DEF TypeOK, BooksOK
  <2>7. j <= WaitCost * Cardinality(D)
    BY <1>5, <2>4 DEF k
  <2> HIDE DEF j
  <2>8. money' = [money EXCEPT ![o] = @ + j]
    BY <2>5, <2>6, Zenon
  <2>9. Purses' = Purses + j
    BY <2>6, <2>8, OnePaid
  <2> QED
    BY <2>1, <2>2, <2>6, <2>7, <2>9, OutOfDeposit
<1>10. ASSUME NEW D, Ledger!Settle(D)
       PROVE  Coins' <= Coins
  BY <1>3, <1>10 DEF Ledger!Settle
<1>11. ASSUME NEW O, Ledger!Clear(O)
       PROVE  Coins' <= Coins
  BY <1>3, <1>11 DEF Ledger!Clear
<1>12. ASSUME NEW p, Ledger!Forfeit(p)
       PROVE  Coins' <= Coins
  BY <1>2, <1>12, DropLeaves DEF Ledger!Forfeit
<1> QED
  BY <1>4, <1>7, <1>8, <1>9, <1>10, <1>11, <1>12 DEF LedgerStep, Ledger!Next

-----------------------------------------------------------------------------
(* When objects change hands, the one who gets them may get the deposits.  *)
LEMMA TransferMakesNoCoins ==
  ASSUME TypeOK, FreeOwners = {}, Transfer
  PROVE  Coins' <= Coins
<1>1. ASSUME NEW c \in Chowns, Chown(c[1], c[2])
      PROVE  Coins' <= Coins
  <2> DEFINE o == c[2]
             H == Wanted(Nothing, c[1])
             k == WaitCost * Cardinality(H)
  <2>1. o \in Players /\ H \in SUBSET Live
    BY InputAssumption DEF Wanted
  <2>2. HaltEntries(H, count) /\ money' = Refund(money, o, Cardinality(H))
    BY <1>1 DEF Chown, SettleWith
  <2> HIDE DEF o, H
  <2>3. Live' = Live \ H
    BY <2>1, <2>2, HaltedEntries DEF TypeOK, TakenOut
  <2>4. Cardinality(H) \in Int /\ money \in [Players -> Int]
    BY <2>1, Sizes DEF TypeOK, BooksOK
  <2>5. money' = [money EXCEPT ![o] = @ + k] /\ k \in Int
    BY <2>1, <2>2, <2>4, Refunds
  <2>6. k <= WaitCost * Cardinality(H)
    <3>1. WaitCost * Cardinality(H) \in Int
      BY <2>5
    <3> QED
      BY <3>1
  <2> HIDE DEF k
  <2>7. Purses' = Purses + k
    BY <2>1, <2>5, OnePaid
  <2> QED
    BY <2>1, <2>3, <2>5, <2>6, <2>7, OutOfDeposit
<1>2. ASSUME NEW c \in ChownAlls, ChownAll(c[1], c[2])
      PROVE  Coins' <= Coins
  <2>1. UNCHANGED <<money, table>>
    BY <1>2 DEF ChownAll, entries, accounts
  <2>2. Coins' = Coins
    BY <2>1 DEF Coins, Purses, Live
  <2> QED
    BY <2>2, CoinTypes
<1> QED
  BY <1>1, <1>2 DEF Transfer

(***************************************************************************)
(* Whatever changes hands and whatever is destroyed, the queue makes no    *)
(* coin: payfor and giveto of cque_setup_que, halt_que, the executor and   *)
(* the rest only move what the players started with.                       *)
(***************************************************************************)
THEOREM QueueMakesNoCoins == Spec => []NoCoinsMade
<1> DEFINE Bounded == FreeOwners = {} => Coins <= SumFunction(Funds)
<1>1. Init => Bounded
  <2> SUFFICES ASSUME Init PROVE Coins <= SumFunction(Funds)
    OBVIOUS
  <2>1. Live = {} /\ money = Funds /\ DOMAIN Funds = Players
    BY ParameterAssumption DEF Init, Live
  <2>2. Cardinality(Live) = 0
    BY <2>1, FS_EmptySet
  <2>3. Purses = SumFunction(Funds)
    BY <2>1 DEF Purses, SumFunction
  <2>4. Purses \in Int
    BY <2>1, FiniteAssumption, ParameterAssumption, SumType DEF Purses
  <2>5. WaitCost * Cardinality(Live) = 0
    BY <2>2, ParameterAssumption
  <2> QED
    BY <2>3, <2>4, <2>5 DEF Coins
<1>2. TypeOK => Coins \in Int
  BY CoinTypes
<1>3. (TypeOK => Coins \in Int)'
  BY <1>2, PTL
<1>4. TypeOK /\ PlacesAgree /\ Bounded /\ [Next]_vars => (TypeOK' => Bounded')
  <2> SUFFICES ASSUME TypeOK, PlacesAgree, [Next]_vars, TypeOK', FreeOwners = {},
                      Coins <= SumFunction(Funds)
               PROVE  Coins' <= SumFunction(Funds)
    OBVIOUS
  <2>1. Coins' <= Coins
    BY StepLedger, LedgerMakesNoCoins, TransferMakesNoCoins
  <2>2. Coins \in Int /\ Coins' \in Int
    BY <1>2, <1>3
  <2>3. SumFunction(Funds) \in Int
    BY FiniteAssumption, ParameterAssumption, SumType DEF SumFunction
  <2> QED
    BY <2>1, <2>2, <2>3
<1>5. TypeOK /\ Bounded => NoCoinsMade
  BY DEF NoCoinsMade, Coins, Purses, SumFunction, TypeOK, BooksOK
<1> HIDE DEF Bounded
<1> QED
  BY <1>1, <1>4, <1>5, Typing, FieldsAgree, PTL DEF Spec
=============================================================================
