-------------------------- MODULE CheckpointProofs --------------------------
(***************************************************************************)
(* What is proved about Checkpoint.  The types and the attribute lists     *)
(* need no assumption.  The rest is under the one the model names Patient: *)
(* the child of a dump is done before the next dump is due, before         *)
(* fork_dump is changed, and before the server is started again.  The      *)
(* server may be stopped at any time, in any way.                          *)
(***************************************************************************)
EXTENDS Checkpoint, OperatorLemmas

Stores == [stored : [Objects -> SUBSET Attrs], listed : [Objects -> SUBSET Attrs],
           mod_al_id : Objects \cup {Nothing}, mod_alist : SUBSET Attrs,
           dirty : SUBSET Objects]

Up == server \in {"up", "forking"}
Dumpers == {p \in Running : writers[p].kind = "dump"}

(* No structure in the memory of a writer has a version it cannot have.    *)
ImagesOK == \A p \in Running : \A o \in Objects : writers[p].image[o] <= MaxVer

Typed == TypeOK /\ ImagesOK

(* The server stops, and what it exposes is known.                         *)
Stops == server = "down" \/ (server = "dumping" /\ next = "stop")

(***************************************************************************)
(* Which processes write structures: one child at most, and beside it the  *)
(* server only when it stops.                                              *)
(***************************************************************************)
Processes ==
  /\ Server \in Running <=> server = "dumping"
  /\ \A p \in Running : writers[p].kind = "backup" => writers[p].block = LastBlock + 1
  /\ \A p \in Running : writers[p].staged => writers[p].block <= LastBlock
  /\ \A p \in Dumpers : writers[p].id = Nothing
  /\ \A p, q \in DumpChildren : p = q
  /\ Server \in Running => Server \in Dumpers
  /\ server = "dumping" /\ DumpChildren # {} => next = "stop"

(* What the server knows of them.                                          *)
Flags ==
  /\ server = "up" => IF dumping THEN fork_dump /\ DumpChildren = {dumper}
                                 ELSE DumpChildren = {}
  /\ server = "forking" =>
       /\ dumping /\ fork_dump /\ forked \in Children
       /\ DumpChildren \subseteq {forked}
       /\ forked \in Running => forked \in DumpChildren
  /\ dumper # NoProcess => (server = "up" /\ dumping) \/ Stops

(***************************************************************************)
(* What a child may put other than it is in memory is exposed, and nothing *)
(* is exposed but by a server that stops.                                  *)
(***************************************************************************)
Risks ==
  /\ ~Stops => exposed = {}
  /\ server = "dumping" \/ (server = "down" /\ ended = "saved") =>
       \A p \in DumpChildren : Overtaken(p) \subseteq exposed

(***************************************************************************)
(* What is in the database is no newer than what is about to be written,   *)
(* unless it is exposed, and that no newer than what is in memory.         *)
(***************************************************************************)
Versions ==
  /\ \A p \in Dumpers : \A o \in Objects \ exposed :
       writers[p].image[o] # Skipped /\ WillWrite(p, BlockOf(o)) =>
         disk[o] <= writers[p].image[o]
  /\ server # "down" => \A p \in Dumpers : \A o \in Objects : writers[p].image[o] <= ver[o]
  /\ server # "down" => \A o \in Objects : disk[o] <= ver[o]

(* What a child passes over has been made since it was forked.             *)
Newer ==
  Up => \A p \in DumpChildren : writers[p].block <= LastBlock =>
          \A o \in Objects :
            writers[p].image[o] = Skipped /\ fate[o] = "live" => o \in store.dirty

(* How far the server is with a dump of its own.                           *)
Progress ==
  server = "dumping" =>
    /\ writers[Server].image = Image
    /\ writers[Server].dirty = store.dirty
    /\ \A o \in Objects \ exposed : fate[o] = "live" =>
         /\ \/ o \in store.dirty
            \/ writers[Server].staged /\ BlockOf(o) = writers[Server].block
            \/ disk[o] = ver[o]
         /\ BlockOf(o) < writers[Server].block => disk[o] = ver[o]

(* The list in memory is written before a dump, and gone after a crash.    *)
ListWritten == server \in {"dumping", "down"} => store.mod_al_id = Nothing

Sound == Processes /\ Flags /\ Risks /\ Versions /\ Newer /\ Progress /\ ListWritten
         /\ SavedOrDirty /\ StoppedIsSaved

-----------------------------------------------------------------------------
(* The attribute store.                                                    *)
Agrees(S, o) == S.stored[o] = ListOf(S, o)

(* T is a store that came from S by calls: what was marked still is, and   *)
(* lists that named what is stored still do.                               *)
Follows(S, T) ==
  /\ T \in Stores
  /\ S.dirty \subseteq T.dirty
  /\ \A o \in Objects : Agrees(S, o) => Agrees(T, o)

LEMMA FollowsItself == \A S \in Stores : Follows(S, S)
BY DEF Follows

LEMMA FollowsOn ==
  ASSUME NEW S, NEW T, NEW U, Follows(S, T), Follows(T, U)
  PROVE  Follows(S, U)
BY DEF Follows

LEMMA AlStoreFollows ==
  ASSUME NEW S \in Stores
  PROVE  /\ Follows(S, AlStore(S)) /\ AlStore(S) \in Stores
         /\ AlStore(S).mod_al_id = Nothing
         /\ AlStore(S).stored = S.stored
         /\ \A o \in Objects : AlStore(S).listed[o] = ListOf(S, o)
<1>1. CASE S.mod_al_id = Nothing
  <2>1. AlStore(S) = S
    BY <1>1 DEF AlStore
  <2>2. \A o \in Objects : ListOf(S, o) = S.listed[o]
    BY <1>1, ObjectAssumption DEF ListOf
  <2> QED
    BY <1>1, <2>1, <2>2, FollowsItself
<1>2. CASE S.mod_al_id # Nothing
  <2> DEFINE T == AlStore(S)
  <2>1. T = [S EXCEPT !.listed[S.mod_al_id] = S.mod_alist,
                      !.dirty = @ \cup {S.mod_al_id},
                      !.mod_al_id = Nothing, !.mod_alist = {}]
    BY <1>2 DEF AlStore
  <2>2. S.mod_al_id \in Objects
    BY <1>2 DEF Stores
  <2>3. /\ T.stored = S.stored
        /\ T.listed = [S.listed EXCEPT ![S.mod_al_id] = S.mod_alist]
        /\ T.dirty = S.dirty \cup {S.mod_al_id}
        /\ T.mod_al_id = Nothing /\ T.mod_alist = {}
    BY <2>1 DEF Stores
  <2>4. T \in Stores
    <3>1. /\ [S.listed EXCEPT ![S.mod_al_id] = S.mod_alist] \in [Objects -> SUBSET Attrs]
          /\ S.dirty \cup {S.mod_al_id} \in SUBSET Objects
      BY <2>2 DEF Stores
    <3> QED
      BY <2>1, <3>1 DEF Stores
  <2> HIDE DEF T
  <2>5. \A o \in Objects : T.listed[o] = ListOf(S, o)
    BY <2>2, <2>3 DEF Stores, ListOf
  <2>6. \A o \in Objects : ListOf(T, o) = ListOf(S, o)
    BY <2>3, <2>5, ObjectAssumption DEF ListOf
  <2>7. Follows(S, T)
    BY <2>3, <2>4, <2>6 DEF Follows, Agrees
  <2> QED
    BY <2>3, <2>4, <2>5, <2>7 DEF T
<1> QED
  BY <1>1, <1>2

LEMMA AlFetchFollows ==
  ASSUME NEW S \in Stores, NEW x \in Objects
  PROVE  /\ Follows(S, AlFetch(S, x)) /\ AlFetch(S, x) \in Stores
         /\ AlFetch(S, x).mod_al_id = x
         /\ AlFetch(S, x).mod_alist = ListOf(S, x)
         /\ AlFetch(S, x).stored = S.stored
         /\ \A o \in Objects : ListOf(AlFetch(S, x), o) = ListOf(S, o)
<1>1. CASE S.mod_al_id = x
  <2>1. AlFetch(S, x) = S
    BY <1>1 DEF AlFetch
  <2> QED
    BY <1>1, <2>1, FollowsItself DEF ListOf
<1>2. CASE S.mod_al_id # x
  <2> DEFINE A == AlStore(S)
             T == AlFetch(S, x)
  <2>1. T = [A EXCEPT !.mod_al_id = x, !.mod_alist = S.listed[x]]
    BY <1>2 DEF AlFetch
  <2>2. /\ A \in Stores /\ A.stored = S.stored /\ S.dirty \subseteq A.dirty
        /\ \A o \in Objects : A.listed[o] = ListOf(S, o)
    BY AlStoreFollows DEF Follows
  <2>3. S.listed[x] = ListOf(S, x) /\ S.listed[x] \in SUBSET Attrs
    BY <1>2 DEF ListOf, Stores
  <2> HIDE DEF A, T
  <2>4. /\ T \in Stores /\ T.stored = S.stored /\ S.dirty \subseteq T.dirty
        /\ T.mod_al_id = x /\ T.mod_alist = ListOf(S, x)
        /\ T.listed = A.listed
    BY <2>1, <2>2, <2>3 DEF Stores
  <2>5. \A o \in Objects : ListOf(T, o) = ListOf(S, o)
    BY <2>2, <2>4 DEF ListOf
  <2>6. Follows(S, T)
    BY <2>4, <2>5 DEF Follows, Agrees
  <2> QED
    BY <2>4, <2>5, <2>6 DEF T
<1> QED
  BY <1>1, <1>2

LEMMA AtrAddRawFollows ==
  ASSUME NEW S \in Stores, NEW x \in Objects, NEW a \in Attrs
  PROVE  Follows(S, AtrAddRaw(S, x, a)) /\ x \in AtrAddRaw(S, x, a).dirty
<1> DEFINE F == AlFetch(S, x)
           T == AtrAddRaw(S, x, a)
<1>1. T = [F EXCEPT !.stored[x] = @ \cup {a}, !.mod_alist = @ \cup {a}, !.dirty = @ \cup {x}]
  BY DEF AtrAddRaw
<1>2. /\ F \in Stores /\ F.stored = S.stored /\ S.dirty \subseteq F.dirty
      /\ F.mod_al_id = x /\ F.mod_alist = ListOf(S, x)
      /\ \A o \in Objects : ListOf(F, o) = ListOf(S, o)
  BY AlFetchFollows DEF Follows
<1> HIDE DEF F, T
<1>3. /\ T \in Stores /\ S.dirty \subseteq T.dirty /\ x \in T.dirty
      /\ T.stored = [S.stored EXCEPT ![x] = @ \cup {a}]
      /\ T.mod_al_id = x /\ T.mod_alist = ListOf(S, x) \cup {a}
      /\ T.listed = F.listed
  <2>1. /\ [F.stored EXCEPT ![x] = @ \cup {a}] \in [Objects -> SUBSET Attrs]
        /\ F.mod_alist \cup {a} \in SUBSET Attrs /\ F.dirty \cup {x} \in SUBSET Objects
    BY <1>2 DEF Stores
  <2>2. T \in Stores
    BY <1>1, <1>2, <2>1 DEF Stores
  <2>3. /\ T.stored = [F.stored EXCEPT ![x] = @ \cup {a}]
        /\ T.mod_alist = F.mod_alist \cup {a} /\ T.dirty = F.dirty \cup {x}
        /\ T.mod_al_id = F.mod_al_id /\ T.listed = F.listed
    BY <1>1, <1>2 DEF Stores
  <2> QED
    BY <1>2, <2>2, <2>3
<1>4. \A o \in Objects : ListOf(T, o) = IF o = x THEN ListOf(S, o) \cup {a} ELSE ListOf(S, o)
  BY <1>2, <1>3 DEF ListOf
<1>5. \A o \in Objects : T.stored[o] = IF o = x THEN S.stored[o] \cup {a} ELSE S.stored[o]
  BY <1>3 DEF Stores
<1>6. Follows(S, T)
  BY <1>3, <1>4, <1>5 DEF Follows, Agrees
<1> QED
  BY <1>3, <1>6 DEF T

LEMMA AtrClrFollows ==
  ASSUME NEW S \in Stores, NEW x \in Objects, NEW a \in Attrs
  PROVE  Follows(S, AtrClr(S, x, a))
<1> DEFINE F == AlFetch(S, x)
           T == AtrClr(S, x, a)
<1>1. T = [F EXCEPT !.stored[x] = @ \ {a}, !.mod_alist = @ \ {a}, !.dirty = @ \cup {x}]
  BY DEF AtrClr
<1>2. /\ F \in Stores /\ F.stored = S.stored /\ S.dirty \subseteq F.dirty
      /\ F.mod_al_id = x /\ F.mod_alist = ListOf(S, x)
      /\ \A o \in Objects : ListOf(F, o) = ListOf(S, o)
  BY AlFetchFollows DEF Follows
<1> HIDE DEF F, T
<1>3. /\ T \in Stores /\ S.dirty \subseteq T.dirty
      /\ T.stored = [S.stored EXCEPT ![x] = @ \ {a}]
      /\ T.mod_al_id = x /\ T.mod_alist = ListOf(S, x) \ {a}
      /\ T.listed = F.listed
  BY <1>1, <1>2 DEF Stores
<1>4. \A o \in Objects : ListOf(T, o) = IF o = x THEN ListOf(S, o) \ {a} ELSE ListOf(S, o)
  BY <1>2, <1>3 DEF ListOf
<1>5. \A o \in Objects : T.stored[o] = IF o = x THEN S.stored[o] \ {a} ELSE S.stored[o]
  BY <1>3 DEF Stores
<1>6. Follows(S, T)
  BY <1>3, <1>4, <1>5 DEF Follows, Agrees
<1> QED
  BY <1>6 DEF T

LEMMA AtrFreeFollows ==
  ASSUME NEW S \in Stores, NEW x \in Objects
  PROVE  Follows(S, AtrFree(S, x)) /\ x \in AtrFree(S, x).dirty
<1> DEFINE F == IF ListOf(S, x) = {} THEN S ELSE AlFetch(S, x)
           T == AtrFree(S, x)
<1>1. T = [F EXCEPT !.stored[x] = @ \ ListOf(S, x), !.listed[x] = {}, !.dirty = @ \cup {x},
                    !.mod_al_id = IF F.mod_al_id = x THEN Nothing ELSE @,
                    !.mod_alist = IF F.mod_al_id = x THEN {} ELSE @]
  BY DEF AtrFree
<1>2. /\ F \in Stores /\ F.stored = S.stored /\ S.dirty \subseteq F.dirty
      /\ \A o \in Objects : ListOf(F, o) = ListOf(S, o)
  BY AlFetchFollows DEF Follows
<1> HIDE DEF F, T
<1>3. /\ T \in Stores /\ S.dirty \subseteq T.dirty /\ x \in T.dirty
      /\ T.stored = [S.stored EXCEPT ![x] = @ \ ListOf(S, x)]
      /\ T.listed = [F.listed EXCEPT ![x] = {}]
      /\ T.mod_al_id = IF F.mod_al_id = x THEN Nothing ELSE F.mod_al_id
      /\ T.mod_alist = IF F.mod_al_id = x THEN {} ELSE F.mod_alist
  BY <1>1, <1>2 DEF Stores
<1>4. \A o \in Objects : ListOf(T, o) = IF o = x THEN {} ELSE ListOf(S, o)
  BY <1>2, <1>3, ObjectAssumption DEF ListOf, Stores
<1>5. \A o \in Objects : T.stored[o] = IF o = x THEN S.stored[o] \ ListOf(S, o) ELSE S.stored[o]
  BY <1>3 DEF Stores
<1>6. Follows(S, T)
  BY <1>3, <1>4, <1>5 DEF Follows, Agrees
<1> QED
  BY <1>3, <1>6 DEF T

LEMMA DestroyedFollows ==
  ASSUME NEW S \in Stores, NEW x \in Objects
  PROVE  Follows(S, Destroyed(S, x))
<1> DEFINE A == AtrAddRaw(S, God, Money)
           B == AtrFree(A, x)
           T == AtrAddRaw(B, x, Money)
<1>1. God \in Objects /\ Money \in Attrs
  BY ObjectAssumption
<1>2. Follows(S, A)
  BY <1>1, AtrAddRawFollows
<1>3. A \in Stores
  BY <1>2 DEF Follows
<1> HIDE DEF A
<1>4. Follows(A, B)
  BY <1>3, AtrFreeFollows
<1>5. B \in Stores
  BY <1>4 DEF Follows
<1> HIDE DEF B
<1>6. Follows(B, T)
  BY <1>1, <1>5, AtrAddRawFollows
<1> HIDE DEF T
<1>7. Follows(S, T)
  BY <1>2, <1>4, <1>6, FollowsOn
<1> QED
  BY <1>7 DEF A, B, T, Destroyed

(* purge_going, object by object. *)
PurgeStep(S, n) == IF fate[n - 1] = "going" THEN Destroyed(S, n - 1) ELSE S
PurgeValue(g, m) == IF m = 0 THEN store ELSE PurgeStep(g[m - 1], m)
PurgesTo(g, n) == g = [m \in 0..n |-> PurgeValue(g, m)]
ThePurge == CHOOSE g : PurgesTo(g, Top)

LEMMA PurgedUnfolds == Purged = ThePurge[Top]
BY DEF Purged, ThePurge, PurgesTo, PurgeValue, PurgeStep

LEMMA PurgeExists == PurgesTo(ThePurge, Top)
<1> DEFINE Q == {n \in 0..Top : \E g : PurgesTo(g, n)}
<1>1. Top \in Nat
  BY ObjectAssumption
<1>2. 0 \in Q
  <2> DEFINE g == [m \in 0..0 |-> store]
  <2>1. \A m \in 0..0 : m = 0 /\ PurgeValue(g, m) = store
    BY DEF PurgeValue
  <2>2. PurgesTo(g, 0)
    BY <2>1 DEF PurgesTo
  <2> HIDE DEF g
  <2> QED
    BY <1>1, <2>2
<1>3. ASSUME NEW n \in 0..Top - 1, n \in Q PROVE n + 1 \in Q
  <2>1. PICK g : PurgesTo(g, n)
    BY <1>3
  <2> DEFINE h == [m \in 0..n + 1 |-> IF m = n + 1 THEN PurgeStep(g[n], m) ELSE g[m]]
  <2>2. n \in Nat /\ n + 1 \in 0..Top
    BY <1>1
  <2>3. ASSUME NEW m \in 0..n + 1 PROVE h[m] = PurgeValue(h, m)
    <3>1. CASE m = 0
      <4>1. h[m] = g[m] /\ m \in 0..n
        BY <2>2, <3>1
      <4>2. g[m] = PurgeValue(g, m)
        BY <2>1, <4>1 DEF PurgesTo
      <4> QED
        BY <3>1, <4>1, <4>2 DEF PurgeValue
    <3>2. CASE m = n + 1
      <4>1. h[m] = PurgeStep(g[n], m) /\ h[m - 1] = g[n] /\ m # 0
        BY <2>2, <3>2
      <4> HIDE DEF h
      <4> QED
        BY <4>1 DEF PurgeValue
    <3>3. CASE m # 0 /\ m # n + 1
      <4>1. m \in 0..n /\ m - 1 \in 0..n /\ h[m] = g[m] /\ h[m - 1] = g[m - 1]
        BY <2>2, <3>3
      <4>2. g[m] = PurgeValue(g, m)
        BY <2>1, <4>1 DEF PurgesTo
      <4> HIDE DEF h
      <4> QED
        BY <3>3, <4>1, <4>2 DEF PurgeValue
    <3> QED
      BY <3>1, <3>2, <3>3
  <2>4. h = [m \in 0..n + 1 |-> h[m]]
    OBVIOUS
  <2> HIDE DEF h
  <2>5. PurgesTo(h, n + 1)
    BY <2>3, <2>4 DEF PurgesTo
  <2> QED
    BY <2>2, <2>5
<1>4. \A n \in 0..Top : n \in Q
  <2> HIDE DEF Q
  <2> QED
    BY <1>1, <1>2, <1>3, CountingInduction
<1>5. \E g : PurgesTo(g, Top)
  <2>1. Top \in Q
    BY <1>1, <1>4
  <2> QED
    BY <2>1
<1> QED
  BY <1>5 DEF ThePurge

LEMMA PurgedFollows ==
  ASSUME store \in Stores
  PROVE  Follows(store, Purged)
<1> DEFINE Q == {n \in 0..Top : Follows(store, ThePurge[n])}
<1>1. Top \in Nat
  BY ObjectAssumption
<1>2. ASSUME NEW n \in 0..Top
      PROVE  ThePurge[n] = PurgeValue(ThePurge, n)
  BY PurgeExists DEF PurgesTo
<1>3. 0 \in Q
  BY <1>1, <1>2, FollowsItself DEF PurgeValue
<1>4. ASSUME NEW n \in 0..Top - 1, n \in Q PROVE n + 1 \in Q
  <2> DEFINE S == ThePurge[n]
  <2>1. n + 1 \in 0..Top /\ n + 1 # 0 /\ (n + 1) - 1 = n /\ n \in Objects
    BY <1>1 DEF Objects
  <2>2. Follows(store, S) /\ S \in Stores
    BY <1>4 DEF Follows
  <2>3. ThePurge[n + 1] = PurgeStep(S, n + 1)
    BY <1>2, <2>1 DEF PurgeValue
  <2> HIDE DEF S
  <2>4. Follows(S, PurgeStep(S, n + 1))
    BY <2>1, <2>2, DestroyedFollows, FollowsItself DEF PurgeStep
  <2>5. Follows(store, ThePurge[n + 1])
    BY <2>2, <2>3, <2>4, FollowsOn
  <2> QED
    BY <2>1, <2>5
<1>5. \A n \in 0..Top : n \in Q
  <2> HIDE DEF Q
  <2> QED
    BY <1>1, <1>3, <1>4, CountingInduction
<1>6. Follows(store, ThePurge[Top])
  BY <1>1, <1>5
<1> QED
  BY <1>6, PurgedUnfolds

-----------------------------------------------------------------------------
(* Types. *)
LEMMA Blocks ==
  /\ LastBlock \in Nat
  /\ \A o \in Objects : BlockOf(o) \in Nat /\ BlockOf(o) <= LastBlock
<1>1. Top \in Nat /\ BlockSize \in Nat /\ BlockSize > 0
  BY ObjectAssumption
<1>2. \A n \in Nat : n \div BlockSize \in Nat
  BY <1>1
<1>3. \A n \in Nat : n < Top => n \div BlockSize <= Top \div BlockSize
  BY <1>1
<1> QED
  BY <1>1, <1>2, <1>3 DEF LastBlock, BlockOf, Objects

LEMMA DumperTypes ==
  ASSUME TypeOK, NEW S \in Stores
  PROVE  /\ Image \in [Objects -> Nat \cup {Skipped}]
         /\ \A o \in Objects : Image[o] <= MaxVer
         /\ Dumper(S) \in Writer /\ Dumper(S).kind = "dump" /\ Dumper(S).image = Image
         /\ Dumper(S).dirty = S.dirty /\ Dumper(S).block = 0 /\ ~Dumper(S).staged
         /\ Dumper(S).id = S.mod_al_id
<1>1. \A o \in Objects : Image[o] \in Nat \cup {Skipped} /\ Image[o] <= MaxVer
  BY ObjectAssumption DEF TypeOK, Image, Skipped
<1>2. Image = [o \in Objects |-> Image[o]]
  BY DEF Image
<1>3. Image \in [Objects -> Nat \cup {Skipped}]
  <2> HIDE DEF Image
  <2> QED
    BY <1>1, <1>2
<1>4. 0 \in 0..LastBlock + 1
  BY Blocks
<1> QED
  BY <1>1, <1>3, <1>4 DEF Dumper, Writer, Stores

LEMMA FileWriterTypes ==
  ASSUME TypeOK, NEW S \in Stores, NEW k \in {"dump", "backup"}
  PROVE  /\ FileWriter(k, S) \in Writer /\ FileWriter(k, S).kind = k
         /\ FileWriter(k, S).image = [o \in Objects |-> Skipped]
         /\ FileWriter(k, S).block = LastBlock + 1 /\ ~FileWriter(k, S).staged
         /\ FileWriter(k, S).id = S.mod_al_id
<1>1. /\ [o \in Objects |-> Skipped] \in [Objects -> Nat \cup {Skipped}]
      /\ {} \in SUBSET Objects /\ LastBlock + 1 \in 0..LastBlock + 1
  BY Blocks
<1>2. Dumper(S) \in Writer /\ ~Dumper(S).staged /\ Dumper(S).id = S.mod_al_id
  BY DumperTypes
<1> QED
  BY <1>1, <1>2 DEF FileWriter, Writer

LEMMA WithTypes ==
  ASSUME writers \in [Running -> Writer], NEW p, NEW w \in Writer, writers' = With(p, w)
  PROVE  /\ Running' = Running \cup {p} /\ writers' \in [Running' -> Writer]
         /\ \A q \in Running' : writers'[q] = IF q = p THEN w ELSE writers[q]
BY DEF With, Running

LEMMA LessTypes ==
  ASSUME writers \in [Running -> Writer], NEW p, writers' = Less(p)
  PROVE  /\ Running' = Running \ {p} /\ writers' \in [Running' -> Writer]
         /\ \A q \in Running' : writers'[q] = writers[q]
BY DEF Less, Running

(* What a command does. *)
CommandMoves ==
  /\ server = "up"
  /\ UNCHANGED <<disk, server, writers, dumps, stopping, ended>>
  /\ Follows(store, store')
  /\ fate' \in [Objects -> {"live", "going", "garbage"}]
  /\ ver' \in [Objects -> 0..MaxVer]
  /\ \A o \in Objects : ver[o] <= ver'[o]
  /\ \A o \in Objects :
       fate'[o] = "live" => o \in store'.dirty \/ (fate[o] = "live" /\ ver'[o] = ver[o])

LEMMA TouchFollows ==
  ASSUME store \in Stores, NEW o \in Objects
  PROVE  Follows(store, Touch(o)) /\ o \in Touch(o).dirty
BY DEF Follows, Touch, Stores, Agrees, ListOf

LEMMA SweptTypes ==
  ASSUME TypeOK
  PROVE  /\ Swept \in [Objects -> {"live", "going", "garbage"}]
         /\ \A o \in Objects : Swept[o] # "going" /\ (Swept[o] = "live" <=> fate[o] = "live")
BY DEF Swept, TypeOK

LEMMA CommandsMove ==
  ASSUME TypeOK, Commands
  PROVE  CommandMoves
<1> USE DEF Unchanged
<1>1. /\ store \in Stores /\ fate \in [Objects -> {"live", "going", "garbage"}]
      /\ ver \in [Objects -> 0..MaxVer] /\ MaxVer \in Nat
  BY ObjectAssumption DEF TypeOK, Stores
<1>2. \A o \in Objects : ver[o] <= ver[o]
  BY <1>1
<1>3. ASSUME NEW o \in Changed, Change(o)
      PROVE  CommandMoves
  <2>1. o \in Objects
    BY InputAssumption
  <2>2. Follows(store, store') /\ o \in store'.dirty
    BY <1>1, <1>3, <2>1, TouchFollows DEF Change
  <2>3. ver' \in [Objects -> 0..MaxVer] /\ \A x \in Objects : ver'[x] = IF x = o THEN ver[x] + 1 ELSE ver[x]
    BY <1>1, <1>3, <2>1 DEF Change
  <2>4. \A x \in Objects : ver[x] <= ver'[x]
    BY <1>1, <2>3
  <2> QED
    BY <1>1, <1>3, <2>2, <2>3, <2>4 DEF Change, CommandMoves
<1>4. ASSUME NEW n \in Noted, SetAttr(n[1], n[2])
      PROVE  CommandMoves
  <2>1. n[1] \in Objects /\ n[2] \in Attrs
    BY InputAssumption
  <2>2. Follows(store, store')
    BY <1>1, <1>4, <2>1, AtrAddRawFollows DEF SetAttr
  <2> QED
    BY <1>1, <1>2, <1>4, <2>2 DEF SetAttr, CommandMoves
<1>5. ASSUME NEW n \in Noted, ClearAttr(n[1], n[2])
      PROVE  CommandMoves
  <2>1. n[1] \in Objects /\ n[2] \in Attrs
    BY InputAssumption
  <2>2. Follows(store, store')
    BY <1>1, <1>5, <2>1, AtrClrFollows DEF ClearAttr
  <2> QED
    BY <1>1, <1>2, <1>5, <2>2 DEF ClearAttr, CommandMoves
<1>6. ASSUME NEW o \in Objects, Create(o)
      PROVE  CommandMoves
  <2> DEFINE paid == AtrAddRaw(store, God, Money)
             blank == AtrFree(paid, o)
  <2>1. God \in Objects /\ Money \in Attrs
    BY ObjectAssumption
  <2>2. Follows(store, paid) /\ paid \in Stores
    BY <1>1, <2>1, AtrAddRawFollows DEF Follows
  <2>3. store' = AtrAddRaw(blank, o, Money)
    BY <1>6 DEF Create
  <2> HIDE DEF paid
  <2>4. Follows(paid, blank) /\ blank \in Stores
    BY <2>2, AtrFreeFollows DEF Follows
  <2> HIDE DEF blank
  <2>5. Follows(blank, store') /\ o \in store'.dirty
    BY <2>1, <2>3, <2>4, AtrAddRawFollows
  <2>6. Follows(store, store')
    BY <2>2, <2>4, <2>5, FollowsOn
  <2>7. ver' \in [Objects -> 0..MaxVer] /\ \A x \in Objects : ver'[x] = IF x = o THEN ver[x] + 1 ELSE ver[x]
    BY <1>1, <1>6 DEF Create
  <2>8. \A x \in Objects : ver[x] <= ver'[x]
    BY <1>1, <2>7
  <2>9. fate' = [fate EXCEPT ![o] = "live"]
    BY <1>6 DEF Create
  <2> QED
    BY <1>1, <1>6, <2>5, <2>6, <2>7, <2>8, <2>9 DEF Create, CommandMoves
<1>7. ASSUME NEW o \in Objects, Destroy(o)
      PROVE  CommandMoves
  <2>1. Follows(store, store')
    BY <1>1, <1>7, DestroyedFollows DEF Destroy
  <2> QED
    BY <1>1, <1>2, <1>7, <2>1 DEF Destroy, CommandMoves
<1>8. ASSUME NEW o \in Objects, MarkGoing(o)
      PROVE  CommandMoves
  <2>1. Follows(store, store')
    BY <1>1, <1>8, TouchFollows DEF MarkGoing
  <2> QED
    BY <1>1, <1>2, <1>8, <2>1 DEF MarkGoing, CommandMoves
<1>9. CASE Check
  <2>1. Follows(store, store')
    BY <1>1, <1>9, PurgedFollows DEF Check
  <2> QED
    BY <1>1, <1>2, <1>9, <2>1, SweptTypes DEF Check, CommandMoves
<1> QED
  BY <1>3, <1>4, <1>5, <1>6, <1>7, <1>8, <1>9 DEF Commands

(* A process that writes goes on; the others stay as they are.             *)
OnlyWriter(p) ==
  /\ Running' = Running /\ writers' \in [Running' -> Writer]
  /\ \A q \in Running : q # p => writers'[q] = writers[q]
  /\ writers'[p].kind = writers[p].kind /\ writers'[p].image = writers[p].image
  /\ UNCHANGED <<fate, ver, server, dumps, stopping, ended>>

Staging(p) ==
  /\ writers[p].block <= LastBlock /\ writers[p].id = Nothing
  /\ ~writers[p].staged /\ writers'[p].staged /\ Stale(p) # {}
  /\ writers'[p].block = writers[p].block /\ writers'[p].id = Nothing
  /\ writers'[p].dirty = writers[p].dirty \ Stale(p)
  /\ store' = IF p = Server THEN [store EXCEPT !.dirty = @ \ Stale(p)] ELSE store
  /\ UNCHANGED disk

Advancing(p) ==
  /\ writers[p].block <= LastBlock /\ writers[p].id = Nothing
  /\ writers'[p].block = writers[p].block + 1
  /\ ~writers'[p].staged /\ writers'[p].id = Nothing
  /\ writers'[p].dirty = writers[p].dirty
  /\ UNCHANGED store

Putting(p) ==
  /\ Advancing(p) /\ writers[p].staged
  /\ disk' = [o \in Objects |->
                IF BlockOf(o) = writers[p].block THEN writers[p].image[o] ELSE disk[o]]

Passing(p) ==
  /\ Advancing(p)
  /\ ~writers[p].staged /\ Stale(p) = {}
  /\ disk' = [o \in Objects |->
                IF InBlock(p) = {} /\ BlockOf(o) = writers[p].block THEN Missing
                ELSE disk[o]]

Storing(p) ==
  /\ writers[p].id # Nothing
  /\ writers'[p].id = Nothing
  /\ writers'[p].block = writers[p].block /\ writers'[p].staged = writers[p].staged
  /\ writers'[p].dirty = writers[p].dirty
  /\ store' = [store EXCEPT !.listed[writers[p].id] = writers[p].list]
  /\ UNCHANGED disk

LEMMA StepsMove ==
  ASSUME TypeOK, NEW p \in Running, Steps(p)
  PROVE  OnlyWriter(p) /\ (Staging(p) \/ Putting(p) \/ Passing(p) \/ Storing(p))
<1> DEFINE w == writers[p]
<1>1. w \in Writer /\ writers \in [Running -> Writer] /\ LastBlock \in Nat
  BY Blocks DEF TypeOK
<1>2. ASSUME NEW u \in Writer, writers' = [writers EXCEPT ![p] = u], u.kind = w.kind,
             u.image = w.image, UNCHANGED <<fate, ver, server, dumps, stopping, ended>>
      PROVE  OnlyWriter(p) /\ writers'[p] = u
  BY <1>1, <1>2 DEF OnlyWriter, Running
<1>3. CASE Stage(p)
  <2> DEFINE u == [w EXCEPT !.staged = TRUE, !.dirty = @ \ Stale(p)]
  <2>1. u \in Writer /\ u.kind = w.kind /\ u.image = w.image
    BY <1>1 DEF Writer
  <2>2. writers' = [writers EXCEPT ![p] = u]
    BY <1>1, <1>3 DEF Stage
  <2>3. u.staged /\ u.block = w.block /\ u.id = w.id /\ u.dirty = w.dirty \ Stale(p)
    BY <1>1 DEF Writer
  <2> HIDE DEF u
  <2>4. OnlyWriter(p) /\ writers'[p] = u
    BY <1>2, <1>3, <2>1, <2>2 DEF Stage
  <2>5. Staging(p)
    BY <1>3, <2>3, <2>4 DEF Stage, Ready, Staging
  <2> QED
    BY <2>4, <2>5
<1>4. CASE PutBlock(p)
  <2> DEFINE u == [w EXCEPT !.staged = FALSE, !.block = @ + 1]
  <2>1. w.block + 1 \in 0..LastBlock + 1
    BY <1>1, <1>4 DEF PutBlock, Ready, Writer
  <2>2. u \in Writer /\ u.kind = w.kind /\ u.image = w.image
    BY <1>1, <2>1 DEF Writer
  <2>3. writers' = [writers EXCEPT ![p] = u]
    BY <1>1, <1>4 DEF PutBlock
  <2>4. ~u.staged /\ u.block = w.block + 1 /\ u.id = w.id /\ u.dirty = w.dirty
    BY <1>1 DEF Writer
  <2> HIDE DEF u
  <2>5. OnlyWriter(p) /\ writers'[p] = u
    BY <1>2, <1>4, <2>2, <2>3 DEF PutBlock, memory
  <2>6. Putting(p)
    BY <1>4, <2>4, <2>5 DEF PutBlock, Ready, Putting, Advancing, memory
  <2> QED
    BY <2>5, <2>6
<1>5. CASE PassBlock(p)
  <2> DEFINE u == [w EXCEPT !.block = @ + 1]
  <2>1. w.block + 1 \in 0..LastBlock + 1
    BY <1>1, <1>5 DEF PassBlock, Ready, Writer
  <2>2. u \in Writer /\ u.kind = w.kind /\ u.image = w.image
    BY <1>1, <2>1 DEF Writer
  <2>3. writers' = [writers EXCEPT ![p] = u]
    BY <1>1, <1>5 DEF PassBlock
  <2>4. u.staged = w.staged /\ u.block = w.block + 1 /\ u.id = w.id /\ u.dirty = w.dirty
    BY <1>1 DEF Writer
  <2> HIDE DEF u
  <2>5. OnlyWriter(p) /\ writers'[p] = u
    BY <1>2, <1>5, <2>2, <2>3 DEF PassBlock, memory
  <2>6. Passing(p)
    BY <1>5, <2>4, <2>5 DEF PassBlock, Ready, Passing, Advancing, memory
  <2> QED
    BY <2>5, <2>6
<1>6. CASE StoreList(p)
  <2> DEFINE u == [w EXCEPT !.id = Nothing]
  <2>1. u \in Writer /\ u.kind = w.kind /\ u.image = w.image
    BY <1>1 DEF Writer
  <2>2. writers' = [writers EXCEPT ![p] = u]
    BY <1>1, <1>6 DEF StoreList
  <2>3. u.staged = w.staged /\ u.block = w.block /\ u.id = Nothing /\ u.dirty = w.dirty
    BY <1>1 DEF Writer
  <2> HIDE DEF u
  <2>4. OnlyWriter(p) /\ writers'[p] = u
    BY <1>2, <1>6, <2>1, <2>2 DEF StoreList
  <2>5. Storing(p)
    BY <1>6, <2>3, <2>4 DEF StoreList, Storing
  <2> QED
    BY <2>4, <2>5
<1> QED
  BY <1>3, <1>4, <1>5, <1>6 DEF Steps

(* The types, put together again. *)
LEMMA StepsTyped ==
  ASSUME Typed, NEW p \in Running, Steps(p)
  PROVE  Typed'
<1>1. OnlyWriter(p) /\ (Staging(p) \/ Putting(p) \/ Passing(p) \/ Storing(p))
  BY StepsMove DEF Typed
<1>2. TypeOK /\ writers[p] \in Writer /\ store \in Stores /\ MaxVer \in Nat
      /\ disk \in [Objects -> 0..MaxVer \cup {Missing}]
  BY ObjectAssumption DEF Typed, TypeOK, Stores
<1>3. ImagesOK'
  BY <1>1 DEF OnlyWriter, Typed, ImagesOK
<1>4. store' \in Stores
  <2>1. CASE Staging(p)
    BY <1>2, <2>1 DEF Staging, Stores
  <2>2. CASE Putting(p) \/ Passing(p)
    BY <1>2, <2>2 DEF Putting, Passing, Advancing
  <2>3. CASE Storing(p)
    <3>1. writers[p].id \in Objects /\ writers[p].list \in SUBSET Attrs
      BY <1>2, <2>3 DEF Storing, Writer
    <3>2. [store.listed EXCEPT ![writers[p].id] = writers[p].list] \in [Objects -> SUBSET Attrs]
      BY <1>2, <3>1 DEF Stores
    <3> QED
      BY <1>2, <2>3, <3>2 DEF Storing, Stores
  <2> QED
    BY <1>1, <2>1, <2>2, <2>3
<1>5. disk' \in [Objects -> 0..MaxVer \cup {Missing}]
  <2>1. \A o \in Objects : writers[p].image[o] \in 0..MaxVer \cup {Missing}
    <3>1. \A o \in Objects : writers[p].image[o] \in Nat \cup {Skipped} /\ writers[p].image[o] <= MaxVer
      BY <1>2 DEF Writer, Typed, ImagesOK
    <3> QED
      BY <1>2, <3>1 DEF Skipped, Missing
  <2>2. CASE Putting(p)
    BY <1>2, <2>1, <2>2 DEF Putting
  <2>3. CASE Passing(p)
    BY <1>2, <2>3 DEF Passing
  <2>4. CASE Staging(p) \/ Storing(p)
    BY <1>2, <2>4 DEF Staging, Storing
  <2> QED
    BY <1>1, <2>2, <2>3, <2>4
<1>6. TypeOK'
  BY <1>1, <1>2, <1>4, <1>5 DEF TypeOK, OnlyWriter, Stores, dumps
<1> QED
  BY <1>3, <1>6 DEF Typed

-----------------------------------------------------------------------------
(* The server starts to write the database itself. *)
Written ==
  /\ Running' = Running \cup {Server} /\ writers' \in [Running' -> Writer]
  /\ \A q \in Running : q # Server => writers'[q] = writers[q]
  /\ writers'[Server].kind = "dump" /\ writers'[Server].image = Image'
  /\ writers'[Server].dirty = store'.dirty /\ writers'[Server].block = 0
  /\ ~writers'[Server].staged /\ writers'[Server].id = Nothing
  /\ server' = "dumping"
  /\ Follows(store, store') /\ store'.mod_al_id = Nothing
  /\ fate' \in [Objects -> {"live", "going", "garbage"}]
  /\ \A o \in Objects : fate'[o] = "live" <=> fate[o] = "live"
  /\ ver' = ver

(* ... and when it may. *)
Alone == server = "up" /\ (~dumping \/ DumpChildren = {})

HereMoves ==
  /\ Written /\ server # "down"
  /\ \/ /\ Patient => Alone
        /\ next' \in {"resume", "flag"} /\ exposed' = exposed
     \/ /\ next' = "stop" /\ exposed' = exposed \cup Exposed
  /\ dumping' \in BOOLEAN /\ dumper' \in {dumper, NoProcess}
  /\ handling' \subseteq {"SIGUSR1", "SIGTERM"}
  /\ UNCHANGED <<disk, fork_dump, ended, forked, stopping>>

(* A child is to write it. *)
ForkMoves ==
  /\ server = "up" /\ (Patient => Alone)
  /\ fork_dump /\ dumping' /\ dumping' \in BOOLEAN
  /\ server' = "forking" /\ forked' \in Children \ Running
  /\ Running' = Running \cup {forked'} /\ writers' \in [Running' -> Writer]
  /\ \A q \in Running : writers'[q] = writers[q]
  /\ writers'[forked'].kind = "dump" /\ writers'[forked'].id = Nothing
  /\ ~writers'[forked'].staged
  /\ \/ /\ writers'[forked'].block = 0
        /\ writers'[forked'].image = Image
     \/ /\ writers'[forked'].block = LastBlock + 1
        /\ writers'[forked'].image = [o \in Objects |-> Skipped]
  /\ Follows(store, store')
  /\ UNCHANGED <<fate, ver, disk, next, dumper, fork_dump, stopping, handling, ended, exposed>>

LEMMA ImageSame ==
  ASSUME \A o \in Objects : fate'[o] = "live" <=> fate[o] = "live", ver' = ver
  PROVE  Image' = Image
BY DEF Image

LEMMA DumpHereMoves ==
  ASSUME TypeOK, NEW S, Follows(store, S), NEW f, DumpHere(S, f),
         fate' = fate \/ fate' = Swept, ver' = ver
  PROVE  Written
<1> DEFINE w == Dumper(AlStore(S))
<1>1. S \in Stores /\ fate \in [Objects -> {"live", "going", "garbage"}]
  BY DEF Follows, TypeOK
<1>2. /\ store' = AlStore(S) /\ Follows(S, store')
      /\ store' \in Stores /\ store'.mod_al_id = Nothing
  BY <1>1, AlStoreFollows DEF DumpHere
<1>3. Follows(store, store')
  BY <1>2, FollowsOn
<1>4. /\ w \in Writer /\ w.kind = "dump" /\ w.image = Image /\ w.dirty = store'.dirty
      /\ w.block = 0 /\ ~w.staged /\ w.id = Nothing
  BY <1>2, DumperTypes
<1>5. fate' \in [Objects -> {"live", "going", "garbage"}]
      /\ \A o \in Objects : fate'[o] = "live" <=> fate[o] = "live"
  BY <1>1, SweptTypes
<1>6. Image' = Image
  BY <1>5, ImageSame
<1>7. writers \in [Running -> Writer] /\ writers' = With(Server, w) /\ server' = "dumping"
  BY DEF TypeOK, DumpHere
<1> HIDE DEF w
<1>8. /\ Running' = Running \cup {Server} /\ writers' \in [Running' -> Writer]
      /\ \A q \in Running' : writers'[q] = IF q = Server THEN w ELSE writers[q]
  BY <1>4, <1>7, WithTypes
<1>9. writers'[Server] = w /\ \A q \in Running : q # Server => writers'[q] = writers[q]
  BY <1>8
<1> QED
  BY <1>2, <1>3, <1>4, <1>5, <1>6, <1>7, <1>8, <1>9 DEF Written

LEMMA ForkAndDumpMoves ==
  ASSUME TypeOK, server = "up", Patient => Alone, NEW w,
         \/ w = Dumper(AlStore(store))
         \/ fork_dump /\ w = FileWriter("dump", AlStore(store)),
         ForkAndDump(w)
  PROVE  HereMoves \/ ForkMoves
<1>1. store \in Stores /\ writers \in [Running -> Writer]
  BY DEF TypeOK, Stores
<1>2. AlStore(store) \in Stores /\ Follows(store, AlStore(store))
      /\ AlStore(store).mod_al_id = Nothing
  BY <1>1, AlStoreFollows
<1>3. CASE fork_dump
  <2>1. PICK c \in Children \ Running :
          store' = AlStore(store) /\ writers' = With(c, w) /\ forked' = c /\ server' = "forking"
    BY <1>3 DEF ForkAndDump
  <2>2. w \in Writer /\ w.kind = "dump" /\ w.id = Nothing /\ ~w.staged
        /\ \/ w.block = 0 /\ w.image = Image
           \/ w.block = LastBlock + 1 /\ w.image = [o \in Objects |-> Skipped]
    <3>1. CASE w = Dumper(AlStore(store))
      BY <1>2, <3>1, DumperTypes
    <3>2. CASE w = FileWriter("dump", AlStore(store))
      BY <1>2, <3>2, FileWriterTypes
    <3> QED
      BY <3>1, <3>2
  <2>3. /\ Running' = Running \cup {c} /\ writers' \in [Running' -> Writer]
        /\ \A q \in Running' : writers'[q] = IF q = c THEN w ELSE writers[q]
    BY <1>1, <2>1, <2>2, WithTypes
  <2>4. writers'[c] = w /\ \A q \in Running : writers'[q] = writers[q]
    BY <2>1, <2>3
  <2> QED
    BY <1>2, <1>3, <2>1, <2>2, <2>3, <2>4 DEF ForkMoves, ForkAndDump
<1>4. CASE ~fork_dump
  <2>1. DumpHere(store, "resume") /\ dumper' = NoProcess /\ UNCHANGED forked
        /\ fate' = fate /\ ver' = ver
    BY <1>4 DEF ForkAndDump
  <2>2. Written
    BY <1>1, <2>1, FollowsItself, DumpHereMoves
  <2> QED
    BY <2>1, <2>2 DEF HereMoves, ForkAndDump, DumpHere, TypeOK
<1> QED
  BY <1>3, <1>4

SelfDumps == Shutdown \/ Leave \/ Restart \/ RestartNow \/ Terminate
DumpSteps == Dump \/ DumpFlatfile \/ AutoDump \/ SelfDumps

LEMMA DumpStepsMove ==
  ASSUME TypeOK, DumpSteps
  PROVE  HereMoves \/ ForkMoves
<1>1. store \in Stores
  BY DEF TypeOK, Stores
<1>2. Follows(store, store) /\ Follows(store, Purged)
  BY <1>1, FollowsItself, PurgedFollows
<1>3. CASE Dump
  <2>1. server = "up" /\ (Patient => Alone)
    BY <1>3 DEF Dump, Alone
  <2> QED
    BY <1>3, <2>1, ForkAndDumpMoves DEF Dump
<1>4. CASE DumpFlatfile
  <2>1. server = "up" /\ (Patient => Alone)
    BY <1>4 DEF DumpFlatfile, Alone
  <2> QED
    BY <1>4, <2>1, ForkAndDumpMoves DEF DumpFlatfile
<1>5. CASE AutoDump
  <2>1. server = "up" /\ (Patient => Alone)
    BY <1>5 DEF AutoDump, Alone, InTime
  <2> QED
    BY <1>5, <2>1, ForkAndDumpMoves DEF AutoDump
<1>6. CASE Shutdown
  <2>1. Written
    BY <1>2, <1>6, DumpHereMoves DEF Shutdown
  <2> QED
    BY <1>6, <2>1 DEF Shutdown, HereMoves, Alone, DumpHere, TypeOK
<1>7. CASE Leave
  <2>1. Written
    BY <1>2, <1>7, DumpHereMoves DEF Leave
  <2> QED
    BY <1>7, <2>1 DEF Leave, HereMoves, DumpHere, TypeOK
<1>8. CASE Restart \/ RestartNow
  <2>1. do_restart /\ server # "down"
    BY <1>8 DEF Restart, RestartNow, Caught
  <2>2. Written
    BY <1>2, <2>1, DumpHereMoves DEF do_restart
  <2>3. handling' \subseteq {"SIGUSR1", "SIGTERM"}
    BY <1>8 DEF Restart, RestartNow, Caught, TypeOK
  <2> QED
    BY <2>1, <2>2, <2>3 DEF do_restart, HereMoves, DumpHere, TypeOK
<1>9. CASE Terminate
  <2>1. Written
    BY <1>2, <1>9, DumpHereMoves DEF Terminate
  <2> QED
    BY <1>9, <2>1 DEF Terminate, Caught, HereMoves, DumpHere, TypeOK
<1> QED
  BY <1>3, <1>4, <1>5, <1>6, <1>7, <1>8, <1>9 DEF DumpSteps, SelfDumps

LEMMA HereTyped ==
  ASSUME Typed, HereMoves
  PROVE  Typed'
<1>1. TypeOK /\ \A o \in Objects : Image[o] <= MaxVer
  <2>1. store \in Stores
    BY DEF Typed, TypeOK, Stores
  <2> QED
    BY <2>1, DumperTypes DEF Typed
<1>2. Image' = Image
  BY ImageSame DEF HereMoves, Written
<1>3. ImagesOK'
  BY <1>1, <1>2 DEF HereMoves, Written, Typed, ImagesOK
<1>4. exposed' \subseteq Objects
  BY <1>1 DEF TypeOK, HereMoves, Exposed, Dropped, Overtaken
<1>5. /\ Running' \subseteq Children \cup {Server} /\ writers' \in [Running' -> Writer]
      /\ fate' \in [Objects -> {"live", "going", "garbage"}]
      /\ store' \in Stores /\ server' = "dumping" /\ ver' = ver
  BY <1>1 DEF TypeOK, HereMoves, Written, Follows
<1>6. /\ next' \in {"resume", "flag", "stop"} /\ {forked', dumper'} \subseteq Children \cup {NoProcess}
      /\ dumping' \in BOOLEAN /\ fork_dump' \in BOOLEAN /\ stopping' \in BOOLEAN
      /\ handling' \subseteq {"SIGUSR1", "SIGTERM"} /\ ended' = ended /\ disk' = disk
  BY <1>1 DEF TypeOK, HereMoves
<1>7. TypeOK'
  BY <1>1, <1>4, <1>5, <1>6 DEF TypeOK, Stores
<1> QED
  BY <1>3, <1>7 DEF Typed

LEMMA ForkTyped ==
  ASSUME Typed, ForkMoves
  PROVE  Typed'
<1>1. TypeOK /\ (\A o \in Objects : Image[o] <= MaxVer) /\ MaxVer \in Nat
  <2>1. store \in Stores
    BY DEF Typed, TypeOK, Stores
  <2> QED
    BY <2>1, DumperTypes, ObjectAssumption DEF Typed
<1>2. \A o \in Objects : writers'[forked'].image[o] <= MaxVer
  BY <1>1 DEF ForkMoves, Skipped
<1>3. ImagesOK'
  BY <1>1, <1>2 DEF ForkMoves, Typed, ImagesOK
<1>4. TypeOK'
  BY <1>1 DEF TypeOK, ForkMoves, Follows, Stores
<1> QED
  BY <1>3, <1>4 DEF Typed

LEMMA CommandsTyped ==
  ASSUME Typed, Commands
  PROVE  Typed'
<1>1. TypeOK /\ CommandMoves
  BY CommandsMove DEF Typed
<1> QED
  BY <1>1 DEF Typed, TypeOK, ImagesOK, CommandMoves, Follows, Stores, Running, dumps

(* What leaves the memory alone, and how many write, or starts afresh.     *)
Bookkeeping ==
  ForkFails \/ SaveList \/ Forked \/ SwitchFork \/ Quit
Leaving == EndDump \/ Crash \/ \E p \in Running : Reap(p)

LEMMA BookkeepingTyped ==
  ASSUME Typed, Bookkeeping
  PROVE  Typed'
<1>1. TypeOK /\ store \in Stores
  BY DEF Typed, TypeOK, Stores
<1>2. AlStore(store) \in Stores
  BY <1>1, AlStoreFollows
<1>3. store' \in Stores /\ UNCHANGED <<fate, ver, disk, writers>>
  BY <1>1, <1>2 DEF Bookkeeping, ForkFails, SaveList, Forked, SwitchFork, Quit, memory
<1>4. Running' = Running /\ UNCHANGED <<fate, ver, disk, writers>>
  BY <1>3 DEF Running
<1>5. ImagesOK'
  BY <1>4 DEF Typed, ImagesOK
<1>6. /\ {forked', dumper'} \subseteq Children \cup {NoProcess}
      /\ dumping' \in BOOLEAN /\ fork_dump' \in BOOLEAN /\ stopping' \in BOOLEAN
      /\ server' \in {"up", "forking", "dumping", "down"}
      /\ next' = next /\ ended' = ended /\ handling' = handling /\ exposed' = exposed
  BY <1>1 DEF TypeOK, Bookkeeping, ForkFails, SaveList, Forked, SwitchFork, Quit, dumps
<1>7. TypeOK'
  BY <1>1, <1>3, <1>4, <1>6 DEF TypeOK, Stores
<1> QED
  BY <1>5, <1>7 DEF Typed

LEMMA LeavingTyped ==
  ASSUME Typed, Leaving
  PROVE  Typed'
<1>1. TypeOK /\ store \in Stores /\ writers \in [Running -> Writer]
      /\ NoProcess \in Children \cup {NoProcess} /\ MaxVer \in Nat
  BY ObjectAssumption DEF Typed, TypeOK, Stores
<1>2. ASSUME NEW p, writers' = Less(p)
      PROVE  Running' = Running \ {p} /\ writers' \in [Running' -> Writer] /\ ImagesOK'
  <2>1. /\ Running' = Running \ {p} /\ writers' \in [Running' -> Writer]
        /\ \A q \in Running' : writers'[q] = writers[q]
    BY <1>1, <1>2, LessTypes
  <2> QED
    BY <2>1 DEF Typed, ImagesOK
<1>3. CASE EndDump
  <2>1. Running' = Running \ {Server} /\ writers' \in [Running' -> Writer] /\ ImagesOK'
    BY <1>2, <1>3 DEF EndDump
  <2> QED
    BY <1>1, <1>3, <2>1 DEF Typed, TypeOK, EndDump, memory
<1>4. CASE Crash
  <2>1. Running' = Running \ {Server} /\ writers' \in [Running' -> Writer] /\ ImagesOK'
    BY <1>2, <1>4 DEF Crash
  <2>2. fate' \in [Objects -> {"live", "going", "garbage"}] /\ ver' \in [Objects -> 0..MaxVer]
    BY <1>1, <1>4 DEF Crash
  <2>3. store' \in Stores
    BY <1>1, <1>4 DEF Crash, Stores
  <2> QED
    BY <1>1, <1>4, <2>1, <2>2, <2>3 DEF Typed, TypeOK, Crash, Stores
<1>5. ASSUME NEW p \in Running, Reap(p)
      PROVE  Typed'
  <2>1. Running' = Running \ {p} /\ writers' \in [Running' -> Writer] /\ ImagesOK'
    BY <1>2, <1>5 DEF Reap
  <2>2. dumping' \in BOOLEAN /\ {forked', dumper'} \subseteq Children \cup {NoProcess}
    BY <1>1, <1>5 DEF Reap, TypeOK
  <2> QED
    BY <1>1, <1>5, <2>1, <2>2 DEF Typed, TypeOK, Reap, memory
<1> QED
  BY <1>3, <1>4, <1>5 DEF Leaving

LEMMA BackupTyped ==
  ASSUME Typed, Backup
  PROVE  Typed'
<1>1. TypeOK /\ store \in Stores /\ writers \in [Running -> Writer] /\ MaxVer \in Nat
  BY ObjectAssumption DEF Typed, TypeOK, Stores
<1> DEFINE w == FileWriter("backup", store)
<1>2. PICK c \in Children \ Running : writers' = With(c, w)
  BY DEF Backup
<1>3. w \in Writer /\ w.image = [o \in Objects |-> Skipped]
  BY <1>1, FileWriterTypes
<1> HIDE DEF w
<1>4. /\ Running' = Running \cup {c} /\ writers' \in [Running' -> Writer]
      /\ \A q \in Running' : writers'[q] = IF q = c THEN w ELSE writers[q]
  BY <1>1, <1>2, <1>3, WithTypes
<1>5. \A o \in Objects : w.image[o] <= MaxVer
  BY <1>1, <1>3 DEF Skipped
<1>6. ImagesOK'
  BY <1>4, <1>5 DEF Typed, ImagesOK
<1>7. TypeOK'
  BY <1>1, <1>4 DEF TypeOK, Backup, memory, dumps
<1> QED
  BY <1>6, <1>7 DEF Typed

LEMMA StartTyped ==
  ASSUME Typed, Start
  PROVE  Typed'
<1>1. TypeOK /\ store \in Stores /\ MaxVer \in Nat
  BY ObjectAssumption DEF Typed, TypeOK, Stores
<1>2. fate' \in [Objects -> {"live", "going", "garbage"}] /\ ver' \in [Objects -> 0..MaxVer]
  BY <1>1 DEF Start, TypeOK, Missing
<1>3. store' \in Stores
  BY <1>1 DEF Start, Stores
<1>4. fork_dump' \in BOOLEAN
  BY ProcessAssumption DEF Start
<1>5. ImagesOK'
  BY DEF Typed, ImagesOK, Start, Running
<1>6. TypeOK'
  BY <1>1, <1>2, <1>3, <1>4 DEF TypeOK, Start, Stores, Running
<1> QED
  BY <1>5, <1>6 DEF Typed

LEMMA InitTyped == Init => Typed
<1> SUFFICES ASSUME Init PROVE Typed
  OBVIOUS
<1>1. MaxVer \in Nat /\ Money \in Attrs /\ ForkDumps \subseteq BOOLEAN
  BY ObjectAssumption, ProcessAssumption
<1>2. Running = {} /\ writers \in [Running -> Writer]
  BY DEF Init, Running
<1>3. store \in Stores
  BY <1>1 DEF Init, Stores
<1>4. disk \in [Objects -> 0..MaxVer \cup {Missing}]
  BY <1>1 DEF Init
<1>5. ver \in [Objects -> 0..MaxVer]
  BY <1>1 DEF Init
<1>6. handling \subseteq {"SIGUSR1", "SIGTERM"} /\ exposed \subseteq Objects
  BY DEF Init
<1>7. TypeOK
  BY <1>1, <1>2, <1>3, <1>4, <1>5, <1>6 DEF Init, TypeOK, Stores
<1> QED
  BY <1>2, <1>7 DEF Typed, ImagesOK

(* Every step is one of these. *)
LEMMA StepKinds ==
  ASSUME Next
  PROVE  \/ Commands \/ DumpSteps \/ Bookkeeping \/ Leaving \/ Backup \/ Start
         \/ \E p \in Running : Steps(p)
BY DEF Next, Writing, Dumping, Stopping, Steps, DumpSteps, SelfDumps, Bookkeeping, Leaving

LEMMA NextTyped ==
  ASSUME Typed, [Next]_vars
  PROVE  Typed'
<1>1. CASE Next
  <2>1. CASE DumpSteps
    BY <2>1, DumpStepsMove, HereTyped, ForkTyped DEF Typed
  <2> QED
    BY <1>1, <2>1, StepKinds, CommandsTyped, BookkeepingTyped, LeavingTyped, BackupTyped,
       StartTyped, StepsTyped
<1>2. CASE UNCHANGED vars
  BY <1>2 DEF Typed, TypeOK, ImagesOK, Running, vars
<1> QED
  BY <1>1, <1>2

(***************************************************************************)
(* The types of Checkpoint, whatever children are killed, whenever the     *)
(* server dies, and whether or not dumps overlap (game.c: dumps and start; *)
(* db_flatfile.c: db_write, db_read; db_attributes.c).                     *)
(***************************************************************************)
THEOREM CheckpointTyping == Spec => []TypeOK
<1>1. Typed /\ [Next]_vars => Typed'
  BY NextTyped
<1>2. Typed => TypeOK
  BY DEF Typed
<1> QED
  BY <1>1, <1>2, InitTyped, PTL DEF Spec

-----------------------------------------------------------------------------
(* What the processes write is sound.                                      *)
LEMMA Kinds ==
  ASSUME TypeOK
  PROVE  /\ \A p \in Running : writers[p].kind \in {"dump", "backup"}
         /\ \A p \in Running : p \in Dumpers \/ writers[p].kind = "backup"
         /\ DumpChildren = Dumpers \ {Server}
BY DEF TypeOK, Writer, Dumpers, DumpChildren

LEMMA Numbers ==
  ASSUME Typed
  PROVE  /\ \A o \in Objects : ver[o] \in Nat /\ disk[o] \in Nat \cup {-1}
         /\ \A p \in Running, o \in Objects : writers[p].image[o] \in Nat \cup {-1}
         /\ \A p \in Running : writers[p].block \in 0..LastBlock + 1
         /\ \A o \in Objects : fate[o] = "live" => Image[o] = ver[o]
         /\ \A o \in Objects : fate[o] # "live" => Image[o] = -1
         /\ Missing = -1 /\ Skipped = -1
<1>1. MaxVer \in Nat /\ TypeOK /\ Missing = -1 /\ Skipped = -1
  BY ObjectAssumption DEF Typed, Missing, Skipped
<1>2. \A o \in Objects : ver[o] \in Nat /\ disk[o] \in Nat \cup {-1}
  BY <1>1 DEF TypeOK
<1>3. \A p \in Running : writers[p] \in Writer
  BY <1>1 DEF TypeOK
<1> QED
  BY <1>1, <1>2, <1>3 DEF Image, Writer

LEMMA InitSound == Init => Sound
<1> SUFFICES ASSUME Init PROVE Sound
  OBVIOUS
<1>1. Running = {} /\ Dumpers = {} /\ DumpChildren = {} /\ server = "up"
  BY DEF Init, Running, Dumpers, DumpChildren
<1>2. Processes /\ Flags /\ Newer /\ Progress /\ ListWritten /\ StoppedIsSaved
  BY <1>1 DEF Init, Processes, Flags, Newer, Progress, ListWritten, StoppedIsSaved
<1>3. Versions /\ SavedOrDirty
  BY <1>1 DEF Init, Versions, SavedOrDirty, Missing
<1>4. Risks
  BY <1>1 DEF Init, Risks
<1> QED
  BY <1>2, <1>3, <1>4 DEF Sound

(* A process whose writer stays as it is goes on to write what it would.   *)
LEMMA WritesSame ==
  ASSUME NEW p, writers'[p] = writers[p]
  PROVE  /\ \A o \in Objects : WillWrite(p, BlockOf(o))' <=> WillWrite(p, BlockOf(o))
         /\ (ver' = ver /\ \A o \in Objects : fate'[o] = "live" <=> fate[o] = "live") =>
              Overtaken(p)' = Overtaken(p)
<1>1. \A o \in Objects : WillWrite(p, BlockOf(o))' <=> WillWrite(p, BlockOf(o))
  BY DEF WillWrite
<1>2. ASSUME ver' = ver, \A o \in Objects : fate'[o] = "live" <=> fate[o] = "live"
      PROVE  Overtaken(p)' = Overtaken(p)
  BY <1>1, <1>2 DEF Overtaken
<1> QED
  BY <1>1, <1>2

LEMMA CommandsSound ==
  ASSUME Typed, Sound, Commands
  PROVE  Sound'
<1>1. CommandMoves /\ TypeOK
  BY CommandsMove DEF Typed
<1>2. /\ Running' = Running /\ Dumpers' = Dumpers /\ DumpChildren' = DumpChildren
      /\ server' = "up" /\ server = "up" /\ writers' = writers /\ disk' = disk
  BY <1>1 DEF CommandMoves, Running, Dumpers, DumpChildren
<1>3. Processes' /\ Flags' /\ Risks'
  <2>1. exposed' = {}
    BY <1>1, <1>2 DEF Sound, Risks, Stops, CommandMoves, dumps
  <2> QED
    BY <1>1, <1>2, <2>1 DEF Sound, Processes, Flags, Risks, Stops, CommandMoves, dumps
<1>4. Versions'
  <2>1. /\ \A o \in Objects : ver[o] \in Int /\ ver'[o] \in Int /\ disk[o] \in Int
        /\ \A p \in Dumpers, o \in Objects : writers[p].image[o] \in Int
    BY <1>1, Numbers DEF CommandMoves, Dumpers
  <2>2. \A p \in Dumpers, o \in Objects : WillWrite(p, BlockOf(o))' <=> WillWrite(p, BlockOf(o))
    BY <1>2, WritesSame
  <2>3. exposed' = exposed
    BY <1>1 DEF CommandMoves, dumps
  <2> QED
    BY <1>1, <1>2, <2>1, <2>2, <2>3 DEF Sound, Versions, CommandMoves
<1>5. Newer'
  BY <1>1, <1>2 DEF Sound, Newer, CommandMoves, Follows, Up
<1>6. Progress' /\ ListWritten' /\ StoppedIsSaved'
  BY <1>2 DEF Progress, ListWritten, StoppedIsSaved
<1>7. SavedOrDirty'
  BY <1>1, <1>2 DEF Sound, SavedOrDirty, CommandMoves, Follows
<1> QED
  BY <1>3, <1>4, <1>5, <1>6, <1>7 DEF Sound

(* Who writes a block. *)
LEMMA BlockWriters ==
  ASSUME Typed, Sound, NEW p \in Running, writers[p].block <= LastBlock
  PROVE  /\ p \in Dumpers
         /\ p = Server => server = "dumping"
         /\ p # Server => p \in DumpChildren
<1>1. writers[p].kind # "backup"
  <2>1. LastBlock \in Nat /\ ~(LastBlock + 1 <= LastBlock)
    BY Blocks
  <2> QED
    BY <2>1 DEF Sound, Processes
<1>2. p \in Dumpers /\ DumpChildren = Dumpers \ {Server}
  BY <1>1, Kinds DEF Typed
<1> QED
  BY <1>2 DEF Sound, Processes

(* What a step of a process leaves as it was. *)
LEMMA StepsLeave ==
  ASSUME Typed, Sound, NEW p \in Running, OnlyWriter(p)
  PROVE  /\ Dumpers' = Dumpers /\ DumpChildren' = DumpChildren
         /\ \A q \in Running : writers'[q].image = writers[q].image /\ writers'[q].kind = writers[q].kind
         /\ Flags' /\ Up' = Up /\ Image' = Image
<1>1. \A q \in Running : writers'[q].image = writers[q].image /\ writers'[q].kind = writers[q].kind
  BY DEF OnlyWriter
<1>2. Dumpers' = Dumpers /\ DumpChildren' = DumpChildren
  BY <1>1 DEF OnlyWriter, Dumpers, DumpChildren
<1>3. Flags'
  BY <1>2 DEF Sound, Flags, Stops, OnlyWriter, dumps
<1>4. Up' = Up /\ Image' = Image
  BY DEF OnlyWriter, Up, Image
<1> QED
  BY <1>1, <1>2, <1>3, <1>4

(* A process that goes on writes no more than it would have, and what it   *)
(* puts is what it has.                                                    *)
LEMMA StepWrites ==
  ASSUME Typed, Sound, NEW p \in Running, OnlyWriter(p),
         Staging(p) \/ Putting(p) \/ Passing(p) \/ Storing(p)
  PROVE  /\ \A q \in Running, o \in Objects :
              WillWrite(q, BlockOf(o))' => WillWrite(q, BlockOf(o))
         /\ \A o \in Objects :
              \/ disk'[o] = disk[o]
              \/ disk'[o] = writers[p].image[o] /\ WillWrite(p, BlockOf(o))
         /\ \A q \in Running : Overtaken(q)' \subseteq Overtaken(q)
         /\ Risks'
<1>1. \A o \in Objects : BlockOf(o) \in Nat
  BY Blocks
<1>2. writers[p].block \in Nat /\ Missing = -1 /\ Skipped = -1
  BY Numbers
<1>3. ASSUME NEW o \in Objects, WillWrite(p, BlockOf(o))'
      PROVE  WillWrite(p, BlockOf(o))
  <2> DEFINE k == {x \in BlockObjects(BlockOf(o)) : writers[p].image[x] # Skipped}
             k1 == {x \in BlockObjects(BlockOf(o)) : writers'[p].image[x] # Skipped}
  <2>1. k1 = k
    BY DEF OnlyWriter
  <2>2. /\ BlockOf(o) >= writers'[p].block
        /\ k1 = {} \/ k1 \cap writers'[p].dirty # {} \/ (BlockOf(o) = writers'[p].block /\ writers'[p].staged)
    BY <1>3 DEF WillWrite
  <2>3. BlockOf(o) >= writers[p].block
    BY <1>1, <1>2, <2>2 DEF Staging, Putting, Passing, Advancing, Storing
  <2>4. \/ writers'[p].dirty \subseteq writers[p].dirty /\ writers'[p].staged = writers[p].staged
           /\ writers'[p].block = writers[p].block
        \/ writers'[p].dirty \subseteq writers[p].dirty /\ ~writers'[p].staged
        \/ Staging(p)
    BY DEF Putting, Passing, Advancing, Storing
  <2>5. CASE Staging(p)
    <3>1. BlockOf(o) = writers[p].block => k = InBlock(p)
      BY DEF InBlock
    <3>2. Stale(p) # {} /\ Stale(p) = InBlock(p) \cap writers[p].dirty
      BY <2>5 DEF Staging, Stale
    <3>3. writers'[p].dirty \subseteq writers[p].dirty /\ writers'[p].block = writers[p].block
      BY <2>5 DEF Staging
    <3>4. k = {} \/ k \cap writers[p].dirty # {}
      <4> HIDE DEF k, k1
      <4> QED
        BY <2>1, <2>2, <3>1, <3>2, <3>3
    <3> QED
      BY <2>3, <3>4 DEF WillWrite
  <2>6. CASE ~Staging(p)
    <3>1. \/ k = {} \/ k \cap writers[p].dirty # {}
          \/ BlockOf(o) = writers[p].block /\ writers[p].staged
      <4> HIDE DEF k, k1
      <4> QED
        BY <2>1, <2>2, <2>4, <2>6
    <3> QED
      BY <2>3, <3>1 DEF WillWrite
  <2> QED
    BY <2>5, <2>6
<1>4. ASSUME NEW q \in Running, NEW o \in Objects, WillWrite(q, BlockOf(o))'
      PROVE  WillWrite(q, BlockOf(o))
  <2>1. CASE q = p
    BY <1>3, <1>4, <2>1
  <2>2. CASE q # p
    BY <1>4, <2>2, WritesSame DEF OnlyWriter
  <2> QED
    BY <2>1, <2>2
<1>5. ASSUME NEW o \in Objects, disk'[o] # disk[o]
      PROVE  disk'[o] = writers[p].image[o] /\ WillWrite(p, BlockOf(o))
  <2>1. CASE Putting(p)
    <3>1. disk'[o] = writers[p].image[o] /\ BlockOf(o) = writers[p].block /\ writers[p].staged
      BY <1>5, <2>1 DEF Putting
    <3> QED
      BY <1>1, <3>1 DEF WillWrite
  <2>2. CASE Passing(p)
    <3>1. InBlock(p) = {} /\ BlockOf(o) = writers[p].block /\ disk'[o] = Missing
      BY <1>5, <2>2 DEF Passing
    <3>2. {x \in BlockObjects(BlockOf(o)) : writers[p].image[x] # Skipped} = {}
      BY <3>1 DEF InBlock
    <3>3. writers[p].image[o] = Skipped
      BY <3>2 DEF BlockObjects
    <3> QED
      BY <1>1, <1>2, <3>1, <3>2, <3>3 DEF WillWrite
  <2> QED
    BY <1>5, <2>1, <2>2 DEF Staging, Storing
<1>6. \A q \in Running : Overtaken(q)' \subseteq Overtaken(q)
  <2>1. \A q \in Running : writers'[q].image = writers[q].image
    BY DEF OnlyWriter
  <2> QED
    BY <1>4, <2>1 DEF Overtaken, OnlyWriter
<1>7. Risks'
  <2>1. DumpChildren' = DumpChildren /\ UNCHANGED <<server, next, ended, exposed>>
    BY StepsLeave DEF OnlyWriter, dumps
  <2>2. \A q \in DumpChildren : q \in Running
    BY DEF DumpChildren
  <2> QED
    BY <1>6, <2>1, <2>2 DEF Sound, Risks, Stops
<1> QED
  BY <1>4, <1>5, <1>6, <1>7

LEMMA StoringSound ==
  ASSUME Typed, Sound, NEW p \in Running, OnlyWriter(p), Storing(p)
  PROVE  Sound'
<1>1. /\ Dumpers' = Dumpers /\ DumpChildren' = DumpChildren /\ Flags' /\ Up' = Up /\ Image' = Image
      /\ \A q \in Running : writers'[q].image = writers[q].image /\ writers'[q].kind = writers[q].kind
      /\ Running' = Running
  BY StepsLeave DEF OnlyWriter
<1>2. store'.dirty = store.dirty /\ store'.mod_al_id = store.mod_al_id /\ disk' = disk
  BY DEF Storing, Typed, TypeOK
<1>3. p \notin Dumpers /\ (Server \in Running => p # Server)
  BY DEF Sound, Processes, Storing
<1>4. Processes'
  <2>1. \A q \in Running : writers'[q].block = writers[q].block /\ writers'[q].staged = writers[q].staged
    BY DEF OnlyWriter, Storing
  <2>2. \A q \in Dumpers : writers'[q].id = Nothing
    BY DEF Sound, Processes, OnlyWriter, Storing, Dumpers
  <2> QED
    BY <1>1, <2>1, <2>2 DEF Sound, Processes, OnlyWriter, dumps
<1>5. Versions' /\ Risks'
  <2>1. Risks' /\ \A q \in Running, o \in Objects :
                    WillWrite(q, BlockOf(o))' => WillWrite(q, BlockOf(o))
    BY StepWrites
  <2> QED
    BY <1>1, <1>2, <2>1 DEF Sound, Versions, OnlyWriter, Dumpers, dumps
<1>6. Newer'
  <2>1. \A q \in DumpChildren : writers'[q].block = writers[q].block /\ writers'[q].image = writers[q].image
    BY DEF OnlyWriter, Storing, DumpChildren
  <2> QED
    BY <1>1, <1>2, <2>1 DEF Sound, Newer, OnlyWriter
<1>7. Progress'
  <2>1. server = "dumping" => Server \in Running
    BY DEF Sound, Processes
  <2>2. Server \in Running => writers'[Server] = writers[Server]
    BY <1>3 DEF OnlyWriter, Sound, Processes, Storing
  <2> QED
    BY <1>1, <1>2, <2>1, <2>2 DEF Sound, Progress, OnlyWriter, dumps
<1>8. ListWritten' /\ SavedOrDirty' /\ StoppedIsSaved'
  BY <1>2 DEF Sound, ListWritten, SavedOrDirty, StoppedIsSaved, OnlyWriter, dumps
<1> QED
  BY <1>1, <1>4, <1>5, <1>6, <1>7, <1>8 DEF Sound

LEMMA StagingSound ==
  ASSUME Typed, Sound, NEW p \in Running, OnlyWriter(p), Staging(p)
  PROVE  Sound'
<1>1. /\ Dumpers' = Dumpers /\ DumpChildren' = DumpChildren /\ Flags' /\ Up' = Up /\ Image' = Image
      /\ \A q \in Running : writers'[q].image = writers[q].image /\ writers'[q].kind = writers[q].kind
      /\ Running' = Running /\ UNCHANGED <<fate, ver, server, next, ended, exposed>>
  BY StepsLeave DEF OnlyWriter, dumps
<1>2. p \in Dumpers /\ (p = Server => server = "dumping")
  BY BlockWriters DEF Staging
<1>3. /\ disk' = disk /\ store'.mod_al_id = store.mod_al_id
      /\ p # Server => store' = store
      /\ p = Server => store'.dirty = store.dirty \ Stale(p)
  BY DEF Staging, Typed, TypeOK
<1>4. \A q \in Running : writers'[q].block = writers[q].block
  BY DEF OnlyWriter, Staging
<1>5. Processes'
  <2>1. \A q \in Running : writers'[q].staged => writers[q].block <= LastBlock
    BY DEF Sound, Processes, OnlyWriter, Staging
  <2>2. \A q \in Dumpers : writers'[q].id = Nothing
    BY DEF Sound, Processes, OnlyWriter, Staging, Dumpers
  <2> QED
    BY <1>1, <1>4, <2>1, <2>2 DEF Sound, Processes
<1>6. Versions' /\ Risks'
  <2>1. Risks' /\ \A q \in Running, o \in Objects :
                    WillWrite(q, BlockOf(o))' => WillWrite(q, BlockOf(o))
    BY StepWrites
  <2> QED
    BY <1>1, <1>3, <2>1 DEF Sound, Versions, Dumpers
<1>7. Newer'
  BY <1>1, <1>2, <1>3, <1>4 DEF Sound, Newer, Up, DumpChildren
<1>8. CASE p # Server
  <2>1. Server \in Running => writers'[Server] = writers[Server]
    BY <1>8 DEF OnlyWriter
  <2>2. Progress'
    BY <1>1, <1>3, <1>8, <2>1 DEF Sound, Processes, Progress
  <2> QED
    BY <1>1, <1>3, <1>5, <1>6, <1>7, <1>8, <2>2
       DEF Sound, ListWritten, StoppedIsSaved, SavedOrDirty
<1>9. CASE p = Server
  <2>1. server = "dumping"
    BY <1>2, <1>9
  <2>2. p = Server
    BY <1>9
  <2>3. writers'[p].dirty = writers[p].dirty \ Stale(p) /\ writers'[p].staged
        /\ ~writers[p].staged /\ store'.dirty = store.dirty \ Stale(p)
    BY <1>3, <2>2 DEF Staging
  <2>4. writers[p].image = Image /\ writers[p].dirty = store.dirty
    BY <2>1, <2>2 DEF Sound, Progress
  <2>5. ASSUME NEW o \in Objects \ exposed, fate[o] = "live"
        PROVE  o \in store'.dirty \/ BlockOf(o) = writers[p].block \/ disk[o] = ver[o]
    <3>1. o \in store.dirty \/ disk[o] = ver[o]
      BY <2>1, <2>2, <2>3, <2>5 DEF Sound, Progress
    <3>2. o \in Stale(p) => BlockOf(o) = writers[p].block
      BY DEF Stale, InBlock, BlockObjects
    <3> QED
      BY <2>3, <3>1, <3>2
  <2>6. \A o \in Objects \ exposed : fate[o] = "live" /\ BlockOf(o) < writers[p].block => disk[o] = ver[o]
    BY <2>1, <2>2 DEF Sound, Progress
  <2>7. Progress'
    BY <1>1, <1>3, <1>4, <2>1, <2>2, <2>3, <2>4, <2>5, <2>6 DEF Progress
  <2> QED
    BY <1>1, <1>3, <1>5, <1>6, <1>7, <2>1, <2>7
       DEF Sound, ListWritten, StoppedIsSaved, SavedOrDirty
<1> QED
  BY <1>8, <1>9

(* A block is put, or passed over: p is at the next one. *)
LEMMA AdvancingSound ==
  ASSUME Typed, Sound, NEW p \in Running, OnlyWriter(p), Putting(p) \/ Passing(p)
  PROVE  Sound'
<1> DEFINE w == writers[p]
           b == writers[p].block
<1>1. /\ Dumpers' = Dumpers /\ DumpChildren' = DumpChildren /\ Flags' /\ Up' = Up /\ Image' = Image
      /\ \A q \in Running : writers'[q].image = writers[q].image /\ writers'[q].kind = writers[q].kind
      /\ Running' = Running /\ UNCHANGED <<fate, ver, server, ended, next, exposed>>
  BY StepsLeave DEF OnlyWriter, dumps
<1>2. Advancing(p) /\ b <= LastBlock
  BY DEF Putting, Passing, Advancing
<1>3. /\ p \in Dumpers
      /\ (p = Server => server = "dumping") /\ (p # Server => p \in DumpChildren)
  BY <1>2, BlockWriters
<1>4. store' = store /\ writers'[p].block = b + 1 /\ ~writers'[p].staged
      /\ writers'[p].dirty = writers[p].dirty /\ writers'[p].id = Nothing
  BY <1>2 DEF Advancing
<1>5. /\ \A o \in Objects : ver[o] \in Nat /\ disk[o] \in Nat \cup {-1}
      /\ \A q \in Running, o \in Objects : writers[q].image[o] \in Nat \cup {-1}
      /\ b \in Nat /\ LastBlock \in Nat /\ Missing = -1 /\ Skipped = -1
      /\ \A o \in Objects : fate[o] = "live" => Image[o] = ver[o]
      /\ \A o \in Objects : fate[o] # "live" => Image[o] = -1
  BY Numbers, Blocks
<1>6. /\ \A o \in Objects : disk'[o] = disk[o] \/ (disk'[o] = w.image[o] /\ WillWrite(p, BlockOf(o)))
      /\ \A q \in Running, o \in Objects : WillWrite(q, BlockOf(o))' => WillWrite(q, BlockOf(o))
      /\ Risks'
  BY StepWrites
<1>7. server = "dumping" => writers[Server].image = Image /\ Server \in Running
  BY DEF Sound, Progress, Processes
(* What a child puts while the server stops is as it is in memory.         *)
<1>8. ASSUME NEW q \in DumpChildren, NEW o \in Objects \ exposed, fate[o] = "live",
             server = "dumping" \/ (server = "down" /\ ended = "saved"), WillWrite(q, BlockOf(o))
      PROVE  writers[q].image[o] = ver[o]
  BY <1>8 DEF Sound, Risks, Overtaken
<1>9. \A q \in Dumpers : q = Server \/ q \in DumpChildren
  BY Kinds DEF Typed
<1>10. Processes'
  <2>1. \A q \in Running : writers'[q].staged => writers'[q].block <= LastBlock
    BY <1>4 DEF Sound, Processes, OnlyWriter
  <2>2. \A q \in Dumpers : writers'[q].id = Nothing
    BY <1>4 DEF Sound, Processes, OnlyWriter, Dumpers
  <2>3. \A q \in Running : writers[q].kind = "backup" => writers'[q].block = LastBlock + 1
    BY <1>3 DEF Sound, Processes, OnlyWriter, Dumpers
  <2> QED
    BY <1>1, <2>1, <2>2, <2>3 DEF Sound, Processes
<1>11. Versions'
  <2>1. /\ server # "down" => \A q \in Dumpers, o \in Objects : writers[q].image[o] <= ver[o]
        /\ server # "down" => \A o \in Objects : disk[o] <= ver[o]
        /\ \A q \in Dumpers, o \in Objects \ exposed :
             writers[q].image[o] # -1 /\ WillWrite(q, BlockOf(o)) => disk[o] <= writers[q].image[o]
    BY <1>5 DEF Sound, Versions
  <2>2. server # "down" => \A o \in Objects : disk'[o] <= ver[o]
    BY <1>3, <1>6, <2>1
  <2>3. ASSUME NEW q \in Dumpers, NEW o \in Objects \ exposed,
               writers[q].image[o] # -1, WillWrite(q, BlockOf(o))
        PROVE  disk'[o] <= writers[q].image[o]
    <3>1. q \in Running /\ p \in Running
      BY DEF Dumpers
    <3>2. disk[o] <= writers[q].image[o]
      BY <2>1, <2>3
    <3>3. CASE q = p
      BY <1>5, <1>6, <3>1, <3>2, <3>3
    <3>4. CASE q # p /\ server = "dumping"
      <4>1. CASE fate[o] = "live"
        <5>1. writers[q].image[o] = ver[o]
          <6>1. CASE q = Server
            BY <1>5, <1>7, <3>4, <4>1, <6>1
          <6>2. CASE q # Server
            BY <1>8, <1>9, <2>3, <3>4, <4>1, <6>2
          <6> QED
            BY <6>1, <6>2
        <5> QED
          BY <2>2, <3>4, <5>1
      <4>2. CASE fate[o] # "live"
        <5>1. q # Server
          BY <1>5, <1>7, <2>3, <3>4, <4>2
        <5>2. p = Server
          BY <1>3, <1>9, <3>4, <5>1 DEF Sound, Processes
        <5>3. w.image[o] = -1
          BY <1>5, <1>7, <3>4, <4>2, <5>2
        <5> QED
          BY <1>5, <1>6, <3>1, <3>2, <5>3
      <4> QED
        BY <4>1, <4>2
    <3>5. CASE q # p /\ server # "dumping"
      <4>1. p \in DumpChildren /\ q \in DumpChildren
        BY <1>3, <1>9, <3>1, <3>5 DEF Sound, Processes
      <4> QED
        BY <3>5, <4>1 DEF Sound, Processes
    <3> QED
      BY <3>3, <3>4, <3>5
  <2> QED
    BY <1>1, <1>5, <1>6, <2>1, <2>2, <2>3 DEF Versions, Dumpers
<1>12. Newer'
  <2>1. ASSUME Up, NEW q \in DumpChildren, NEW o \in Objects, writers'[q].block <= LastBlock,
               writers[q].image[o] = Skipped, fate[o] = "live"
        PROVE  o \in store.dirty
    <3>1. writers[q].block <= LastBlock
      BY <1>2, <2>1 DEF OnlyWriter, DumpChildren
    <3> QED
      BY <2>1, <3>1 DEF Sound, Newer
  <2> QED
    BY <1>1, <1>4, <2>1 DEF Newer, DumpChildren
<1>13. Progress'
  <2>1. SUFFICES ASSUME server = "dumping"
                 PROVE  Progress'
    BY <1>1 DEF Progress
  <2>2. /\ writers[Server].image = Image /\ writers[Server].dirty = store.dirty
        /\ \A o \in Objects \ exposed : fate[o] = "live" =>
             /\ \/ o \in store.dirty
                \/ writers[Server].staged /\ BlockOf(o) = writers[Server].block
                \/ disk[o] = ver[o]
             /\ BlockOf(o) < writers[Server].block => disk[o] = ver[o]
    BY <2>1 DEF Sound, Progress
  (* What is put is as it is in memory, whoever puts it.                   *)
  <2>3. ASSUME NEW o \in Objects \ exposed, fate[o] = "live"
        PROVE  disk'[o] = disk[o] \/ disk'[o] = ver[o]
    <3>1. SUFFICES ASSUME WillWrite(p, BlockOf(o))
                   PROVE  w.image[o] = ver[o]
      BY <1>6
    <3>2. CASE p = Server
      BY <1>5, <2>2, <2>3, <3>2
    <3>3. CASE p # Server
      BY <1>3, <1>8, <2>1, <2>3, <3>1, <3>3
    <3> QED
      BY <3>2, <3>3
  <2>4. CASE p # Server
    <3>1. writers'[Server] = writers[Server]
      BY <1>7, <2>1, <2>4 DEF OnlyWriter
    <3> QED
      BY <1>1, <1>4, <2>1, <2>2, <2>3, <3>1 DEF Progress
  <2>5. CASE p = Server
    <3>1. ASSUME NEW o \in Objects \ exposed, fate[o] = "live"
          PROVE  /\ o \in store.dirty \/ disk'[o] = ver[o]
                 /\ BlockOf(o) < b + 1 => disk'[o] = ver[o]
      <4>1. w.image[o] = ver[o] /\ w.image[o] # -1
        BY <1>5, <2>2, <2>5, <3>1
      <4>2. BlockOf(o) \in Nat
        BY Blocks
      <4>3. CASE Putting(p)
        <5>1. BlockOf(o) = b => disk'[o] = ver[o]
          BY <4>1, <4>3 DEF Putting
        <5> QED
          BY <1>5, <2>2, <2>3, <2>5, <3>1, <4>2, <5>1
      <4>4. CASE Passing(p)
        <5>1. ~w.staged
          BY <4>4 DEF Passing
        <5>2. BlockOf(o) = b => o \notin w.dirty
          BY <1>5, <4>1, <4>4 DEF Passing, InBlock, Stale, BlockObjects
        <5>3. BlockOf(o) = b => disk'[o] = ver[o]
          BY <2>2, <2>3, <2>5, <3>1, <5>1, <5>2
        <5> QED
          BY <1>5, <2>2, <2>3, <2>5, <3>1, <4>2, <5>1, <5>3
      <4> QED
        BY <4>3, <4>4
    <3> QED
      BY <1>1, <1>4, <2>2, <2>5, <3>1 DEF Progress
  <2> QED
    BY <2>4, <2>5
<1>14. ListWritten'
  BY <1>1, <1>4 DEF Sound, ListWritten
<1>15. StoppedIsSaved'
  <2>1. SUFFICES ASSUME server = "down", ended = "saved", NEW o \in Objects \ exposed, fate[o] = "live"
                 PROVE  disk'[o] = ver[o]
    BY <1>1 DEF StoppedIsSaved
  <2>2. disk[o] = ver[o]
    BY <2>1 DEF Sound, StoppedIsSaved
  <2>3. p \in DumpChildren
    BY <1>3, <2>1
  <2> QED
    BY <1>6, <1>8, <2>1, <2>2, <2>3
<1>16. SavedOrDirty'
  <2>1. SUFFICES ASSUME Up, NEW o \in Objects, o \notin store.dirty, fate[o] = "live"
                 PROVE  disk'[o] = ver[o]
    BY <1>1, <1>4 DEF SavedOrDirty, Up
  <2>2. disk[o] = ver[o] /\ server # "down" /\ server # "dumping" /\ exposed = {}
    BY <2>1 DEF Sound, SavedOrDirty, Risks, Stops, Up
  <2>3. p \in DumpChildren
    BY <1>3, <2>2
  <2>4. w.image[o] # -1
    BY <1>2, <1>5, <2>1, <2>3 DEF Sound, Newer
  <2>5. w.image[o] <= ver[o] /\ (WillWrite(p, BlockOf(o)) => disk[o] <= w.image[o])
    BY <1>3, <1>5, <2>2, <2>4 DEF Sound, Versions
  <2> QED
    BY <1>5, <1>6, <2>2, <2>5
<1> QED
  BY <1>1, <1>6, <1>10, <1>11, <1>12, <1>13, <1>14, <1>15, <1>16 DEF Sound

LEMMA StepsSound ==
  ASSUME Typed, Sound, NEW p \in Running, Steps(p)
  PROVE  Sound'
BY StepsMove, StoringSound, StagingSound, AdvancingSound DEF Typed

(* No child dumps when a dump starts in time. *)
LEMMA Quiet ==
  ASSUME Typed, Sound, Alone
  PROVE  /\ server = "up" /\ ~dumping /\ dumper = NoProcess /\ exposed = {}
         /\ DumpChildren = {} /\ Dumpers = {} /\ Server \notin Running
         /\ \A q \in Running : writers[q].kind = "backup"
<1>1. server = "up" /\ DumpChildren = {} /\ ~dumping
  BY DEF Alone, Sound, Flags
<1>2. dumper = NoProcess /\ exposed = {}
  BY <1>1 DEF Sound, Flags, Risks, Stops
<1>3. Server \notin Running
  BY <1>1 DEF Sound, Processes
<1>4. Dumpers = {} /\ \A q \in Running : writers[q].kind = "backup"
  BY <1>1, <1>3, Kinds DEF Typed, Dumpers
<1> QED
  BY <1>1, <1>2, <1>3, <1>4

LEMMA HereSound ==
  ASSUME Patient, Typed, Sound, HereMoves
  PROVE  Sound'
<1>1. /\ Written /\ server' = "dumping" /\ Running' = Running \cup {Server}
      /\ \A q \in Running : q # Server => writers'[q] = writers[q]
      /\ disk' = disk /\ ver' = ver /\ server # "down" /\ Server \in Running'
      /\ dumper' \in {dumper, NoProcess}
      /\ \A o \in Objects : fate'[o] = "live" <=> fate[o] = "live"
  BY DEF HereMoves, Written
<1>2. \/ Alone /\ exposed' = exposed
      \/ next' = "stop" /\ exposed' = exposed \cup Exposed
  BY DEF HereMoves
<1>3. /\ Dumpers' = DumpChildren \cup {Server} /\ DumpChildren' = DumpChildren
      /\ \A q \in DumpChildren : q \in Running /\ q \in Dumpers /\ q # Server /\ writers'[q] = writers[q]
  <2>1. \A q \in DumpChildren : q \in Running /\ q \in Dumpers /\ q # Server /\ writers'[q] = writers[q]
    BY <1>1 DEF DumpChildren, Dumpers
  <2> QED
    BY <1>1, <2>1 DEF DumpChildren, Dumpers, Written
<1>4. /\ \A o \in Objects : ver[o] \in Nat /\ disk[o] \in Nat \cup {-1}
      /\ LastBlock \in Nat /\ Missing = -1 /\ Skipped = -1
      /\ \A o \in Objects : fate[o] = "live" => Image[o] = ver[o]
      /\ \A o \in Objects : fate[o] # "live" => Image[o] = -1
  BY Numbers, Blocks
<1>5. Image' = Image
  BY ImageSame DEF HereMoves, Written
<1>6. DumpChildren # {} => next' = "stop" /\ exposed' = exposed \cup Exposed
  BY <1>2, Quiet
<1>7. Processes'
  <2>1. \A q \in Running' : writers'[q].kind = "backup" => writers'[q].block = LastBlock + 1
    BY <1>1 DEF Sound, Processes, Written
  <2>2. \A q \in Running' : writers'[q].staged => writers'[q].block <= LastBlock
    BY <1>1 DEF Sound, Processes, Written
  <2>3. \A q \in Dumpers' : writers'[q].id = Nothing
    BY <1>1, <1>3 DEF Sound, Processes, Written
  <2>4. (\A x, y \in DumpChildren' : x = y) /\ (DumpChildren' # {} => next' = "stop")
    BY <1>3, <1>6 DEF Sound, Processes
  <2> QED
    BY <1>1, <1>3, <2>1, <2>2, <2>3, <2>4 DEF Processes
<1>8. Flags'
  <2>1. CASE next' = "stop"
    BY <1>1, <2>1 DEF Flags, Stops
  <2>2. CASE Alone
    BY <1>1, <2>2, Quiet DEF Flags
  <2> QED
    BY <1>2, <2>1, <2>2
<1>9. Risks'
  <2>1. ~Stops' => exposed' = {}
    BY <1>1, <1>2, Quiet DEF Stops
  <2>2. ASSUME NEW q \in DumpChildren
        PROVE  Overtaken(q)' \subseteq exposed'
    <3>1. Overtaken(q)' = Overtaken(q)
      BY <1>1, <1>3, WritesSame
    <3> QED
      BY <1>6, <3>1 DEF Exposed
  <2> QED
    BY <1>3, <2>1, <2>2 DEF Risks
<1>10. Versions'
  <2>1. \A o \in Objects : disk[o] <= ver[o]
    BY <1>1 DEF Sound, Versions
  <2>2. \A o \in Objects : Image[o] <= ver[o] /\ (Image[o] # -1 => disk[o] <= Image[o])
    BY <1>4, <2>1
  <2>3. writers'[Server].image = Image
    BY <1>1, <1>5 DEF Written
  <2>4. ASSUME NEW q \in DumpChildren, NEW o \in Objects
        PROVE  /\ WillWrite(q, BlockOf(o))' => WillWrite(q, BlockOf(o))
               /\ writers[q].image[o] <= ver[o]
    BY <1>1, <1>3, WritesSame DEF Sound, Versions
  <2>5. exposed \subseteq exposed'
    BY <1>2
  <2> QED
    BY <1>1, <1>3, <1>4, <2>1, <2>2, <2>3, <2>4, <2>5 DEF Sound, Versions
<1>11. Progress'
  <2>1. ASSUME NEW o \in Objects \ exposed', fate[o] = "live"
        PROVE  o \in store.dirty \/ disk[o] = ver[o]
    <3>1. o \notin exposed
      BY <1>2, <2>1
    <3>2. CASE server \in {"up", "forking"}
      BY <2>1, <3>2 DEF Sound, SavedOrDirty
    <3>3. CASE server = "dumping"
      <4>1. ~Alone /\ Server \in Running
        BY <3>3 DEF Alone, Sound, Processes
      <4>2. o \notin Dropped
        BY <1>2, <2>1, <4>1 DEF Exposed
      <4> QED
        BY <2>1, <3>1, <3>3, <4>1, <4>2 DEF Sound, Progress, Dropped
    <3> QED
      BY <1>1, <3>2, <3>3 DEF Typed, TypeOK
  <2>2. \A o \in Objects : ~(BlockOf(o) < 0)
    BY Blocks
  <2>3. store.dirty \subseteq store'.dirty
    BY <1>1 DEF Written, Follows
  <2> QED
    BY <1>1, <2>1, <2>2, <2>3 DEF Progress, Written
<1>12. Newer' /\ ListWritten' /\ SavedOrDirty' /\ StoppedIsSaved'
  BY <1>1 DEF Newer, Up, ListWritten, SavedOrDirty, StoppedIsSaved, Written
<1> QED
  BY <1>7, <1>8, <1>9, <1>10, <1>11, <1>12 DEF Sound

LEMMA ForkSound ==
  ASSUME Patient, Typed, Sound, ForkMoves
  PROVE  Sound'
<1> DEFINE c == forked'
           w == writers'[forked']
<1>1. /\ server = "up" /\ dumper = NoProcess /\ Dumpers = {} /\ Server \notin Running
      /\ exposed = {} /\ \A q \in Running : writers[q].kind = "backup"
  BY Quiet DEF ForkMoves
<1>2. /\ server' = "forking" /\ Running' = Running \cup {c} /\ c \in Running' /\ c \in Children
      /\ c # Server
      /\ \A q \in Running : writers'[q] = writers[q]
      /\ disk' = disk /\ ver' = ver /\ fate' = fate /\ dumper' = NoProcess /\ exposed' = {}
      /\ w.kind = "dump" /\ w.id = Nothing /\ ~w.staged
      /\ fork_dump' /\ dumping'
  BY <1>1, ProcessAssumption DEF ForkMoves
<1>3. /\ Dumpers' = {c} /\ DumpChildren' = {c}
  BY <1>1, <1>2 DEF Dumpers, DumpChildren
<1>4. /\ \A o \in Objects : ver[o] \in Nat /\ disk[o] \in Nat \cup {-1}
      /\ LastBlock \in Nat /\ Missing = -1 /\ Skipped = -1
      /\ \A o \in Objects : fate[o] = "live" => Image[o] = ver[o]
      /\ \A o \in Objects : fate[o] # "live" => Image[o] = -1
  BY Numbers, Blocks
<1>5. \/ w.block = 0 /\ w.image = Image
      \/ w.block = LastBlock + 1 /\ w.image = [o \in Objects |-> Skipped]
  BY DEF ForkMoves
<1>6. Processes'
  <2>1. \A q \in Running' : writers'[q].kind = "backup" => writers'[q].block = LastBlock + 1
    BY <1>1, <1>2 DEF Sound, Processes
  <2>2. \A q \in Running' : writers'[q].staged => writers'[q].block <= LastBlock
    BY <1>2 DEF Sound, Processes
  <2> QED
    BY <1>1, <1>2, <1>3, <2>1, <2>2 DEF Processes
<1>7. Flags' /\ Risks'
  BY <1>2, <1>3 DEF Flags, Risks, Stops
<1>8. Versions'
  <2>1. \A o \in Objects : disk[o] <= ver[o]
    BY <1>1 DEF Sound, Versions
  <2>2. \A o \in Objects : w.image[o] <= ver[o] /\ (w.image[o] # -1 => disk[o] <= w.image[o])
    BY <1>4, <1>5, <2>1
  <2> QED
    BY <1>2, <1>3, <1>4, <2>1, <2>2 DEF Versions
<1>9. Newer'
  <2>1. w.block <= LastBlock => w.image = Image
    BY <1>4, <1>5
  <2>2. \A o \in Objects : Image[o] = Skipped => fate[o] # "live"
    BY <1>4
  <2> QED
    BY <1>2, <1>3, <2>1, <2>2 DEF Newer
<1>10. SavedOrDirty'
  BY <1>1, <1>2 DEF Sound, SavedOrDirty, ForkMoves, Follows
<1>11. Progress' /\ ListWritten' /\ StoppedIsSaved'
  BY <1>2 DEF Progress, ListWritten, StoppedIsSaved
<1> QED
  BY <1>6, <1>7, <1>8, <1>9, <1>10, <1>11 DEF Sound

LEMMA BookkeepingSound ==
  ASSUME Patient, Typed, Sound, Bookkeeping
  PROVE  Sound'
<1>1. store \in Stores /\ Follows(store, AlStore(store)) /\ Follows(store, store)
  <2>1. store \in Stores
    BY DEF Typed, TypeOK, Stores
  <2> QED
    BY <2>1, AlStoreFollows, FollowsItself
<1>2. Follows(store, store') /\ UNCHANGED <<fate, ver, disk, writers>>
  BY <1>1 DEF Bookkeeping, ForkFails, SaveList, Forked, SwitchFork, Quit, memory
<1>3. Running' = Running /\ Dumpers' = Dumpers /\ DumpChildren' = DumpChildren
      /\ UNCHANGED <<ended, exposed, next>>
  BY <1>2 DEF Running, Dumpers, DumpChildren, Bookkeeping, ForkFails, SaveList, Forked,
     SwitchFork, Quit, dumps
<1>4. server \in {"up", "forking"} /\ server' \in {"up", "forking"}
  BY DEF Bookkeeping, ForkFails, SaveList, Forked, SwitchFork, Quit
<1>5. Processes' /\ Risks'
  <2>1. exposed = {}
    BY <1>4 DEF Sound, Risks, Stops
  <2> QED
    BY <1>2, <1>3, <1>4, <2>1 DEF Sound, Processes, Risks
<1>6. Flags'
  <2> USE DEF Stops
  <2>1. CASE ForkFails
    BY <1>2, <1>3, <2>1 DEF Sound, Flags, ForkFails
  <2>2. CASE SaveList
    BY <1>2, <1>3, <2>2 DEF Sound, Flags, SaveList, dumps
  <2>3. CASE Forked
    <3>1. forked \in Running => DumpChildren = {forked}
      BY <2>3 DEF Sound, Flags, Forked
    <3>2. forked \notin Running => DumpChildren = {}
      BY <2>3 DEF Sound, Flags, Forked, DumpChildren
    <3> QED
      BY <1>2, <1>3, <2>3, <3>1, <3>2 DEF Sound, Flags, Forked
  <2>4. CASE SwitchFork
    BY <1>2, <1>3, <2>4 DEF Sound, Flags, SwitchFork, InTime
  <2>5. CASE Quit
    BY <1>2, <1>3, <2>5 DEF Sound, Flags, Quit, dumps
  <2> QED
    BY <2>1, <2>2, <2>3, <2>4, <2>5 DEF Bookkeeping
<1>7. Versions'
  <2>1. \A q \in Dumpers, o \in Objects : WillWrite(q, BlockOf(o))' <=> WillWrite(q, BlockOf(o))
    BY <1>2, WritesSame
  <2> QED
    BY <1>2, <1>3, <1>4, <2>1 DEF Sound, Versions
<1>8. Newer'
  BY <1>2, <1>3, <1>4 DEF Sound, Newer, Up, Follows
<1>9. SavedOrDirty'
  BY <1>2, <1>4 DEF Sound, SavedOrDirty, Follows
<1>10. Progress' /\ ListWritten' /\ StoppedIsSaved'
  BY <1>4 DEF Progress, ListWritten, StoppedIsSaved
<1> QED
  BY <1>5, <1>6, <1>7, <1>8, <1>9, <1>10 DEF Sound

(* A writer that is gone; what the others write is as sound as before.     *)
LEMMA LessLeaves ==
  ASSUME Typed, NEW p, writers' = Less(p)
  PROVE  /\ Running' = Running \ {p} /\ (\A q \in Running' : writers'[q] = writers[q])
         /\ Dumpers' = Dumpers \ {p} /\ DumpChildren' = DumpChildren \ {p}
         /\ \A q \in Dumpers', o \in Objects : WillWrite(q, BlockOf(o))' <=> WillWrite(q, BlockOf(o))
<1>1. Running' = Running \ {p} /\ \A q \in Running' : writers'[q] = writers[q]
  BY LessTypes DEF Typed, TypeOK
<1>2. Dumpers' = Dumpers \ {p} /\ DumpChildren' = DumpChildren \ {p}
  BY <1>1 DEF Dumpers, DumpChildren
<1>3. \A q \in Dumpers', o \in Objects : WillWrite(q, BlockOf(o))' <=> WillWrite(q, BlockOf(o))
  BY <1>1, WritesSame DEF Dumpers
<1> QED
  BY <1>1, <1>2, <1>3

LEMMA EndDumpSound ==
  ASSUME Typed, Sound, EndDump
  PROVE  Sound'
<1>1. /\ server = "dumping" /\ writers' = Less(Server) /\ dumping' = FALSE
      /\ UNCHANGED <<fate, ver, store, disk, forked, dumper, fork_dump, exposed>>
      /\ \/ next = "stop" /\ server' = "down" /\ ended' = "saved"
         \/ next # "stop" /\ server' = "up"
  BY DEF EndDump, memory
<1>2. /\ Running' = Running \ {Server} /\ (\A q \in Running' : writers'[q] = writers[q])
      /\ Dumpers' = DumpChildren /\ DumpChildren' = DumpChildren
      /\ \A q \in Dumpers', o \in Objects : WillWrite(q, BlockOf(o))' <=> WillWrite(q, BlockOf(o))
  BY <1>1, LessLeaves, Kinds DEF Typed
<1>3. \A q \in DumpChildren : q \in Dumpers /\ q \in Running' /\ writers'[q] = writers[q]
  BY <1>2 DEF DumpChildren, Dumpers
<1>4. next # "stop" => DumpChildren = {} /\ exposed = {} /\ dumper = NoProcess
  BY <1>1 DEF Sound, Processes, Risks, Flags, Stops
<1>5. \A o \in Objects \ exposed : fate[o] = "live" => disk[o] = ver[o]
  <2>1. writers[Server].block = LastBlock + 1
    BY DEF EndDump, Finished
  <2>2. \A o \in Objects : BlockOf(o) < LastBlock + 1
    BY Blocks
  <2> QED
    BY <1>1, <2>1, <2>2 DEF Sound, Progress
<1>6. Processes'
  BY <1>1, <1>2, <1>3 DEF Sound, Processes
<1>7. Flags'
  BY <1>1, <1>2, <1>4 DEF Flags, Stops
<1>8. Risks'
  <2>1. \A q \in DumpChildren : Overtaken(q)' = Overtaken(q)
    BY <1>1, <1>3, WritesSame
  <2> QED
    BY <1>1, <1>2, <1>4, <2>1 DEF Sound, Risks, Stops
<1>9. Versions'
  <2>1. /\ \A q \in Dumpers, o \in Objects : writers[q].image[o] <= ver[o]
        /\ \A o \in Objects : disk[o] <= ver[o]
        /\ \A q \in Dumpers, o \in Objects \ exposed :
             writers[q].image[o] # Skipped /\ WillWrite(q, BlockOf(o)) => disk[o] <= writers[q].image[o]
    BY <1>1 DEF Sound, Versions
  <2> QED
    BY <1>1, <1>2, <1>3, <2>1 DEF Versions
<1>10. Newer' /\ Progress'
  BY <1>1, <1>2, <1>4 DEF Newer, Progress, Up
<1>11. ListWritten'
  BY <1>1 DEF Sound, ListWritten
<1>12. SavedOrDirty' /\ StoppedIsSaved'
  BY <1>1, <1>4, <1>5 DEF SavedOrDirty, StoppedIsSaved
<1> QED
  BY <1>6, <1>7, <1>8, <1>9, <1>10, <1>11, <1>12 DEF Sound

LEMMA CrashSound ==
  ASSUME Typed, Sound, Crash
  PROVE  Sound'
<1>1. /\ server' = "down" /\ ended' = "crashed" /\ writers' = Less(Server)
      /\ disk' = disk /\ dumper' = NoProcess /\ exposed' = exposed
  BY DEF Crash
<1>2. /\ Running' = Running \ {Server} /\ (\A q \in Running' : writers'[q] = writers[q])
      /\ Dumpers' = Dumpers \ {Server} /\ DumpChildren' = DumpChildren \ {Server}
      /\ \A q \in Dumpers', o \in Objects : WillWrite(q, BlockOf(o))' <=> WillWrite(q, BlockOf(o))
  BY <1>1, LessLeaves
<1>3. Processes'
  <2>1. \A q \in Dumpers' : q \in Dumpers /\ writers'[q] = writers[q]
    BY <1>2 DEF Dumpers
  <2> QED
    BY <1>1, <1>2, <2>1 DEF Sound, Processes
<1>4. Flags' /\ Risks'
  BY <1>1 DEF Flags, Risks, Stops
<1>5. Versions'
  BY <1>1, <1>2 DEF Sound, Versions, Dumpers
<1>6. Newer' /\ Progress' /\ SavedOrDirty' /\ StoppedIsSaved'
  BY <1>1 DEF Newer, Up, Progress, SavedOrDirty, StoppedIsSaved
<1>7. ListWritten'
  BY DEF ListWritten, Crash, Typed, TypeOK
<1> QED
  BY <1>3, <1>4, <1>5, <1>6, <1>7 DEF Sound

LEMMA ReapSound ==
  ASSUME Typed, Sound, NEW p \in Running, Reap(p)
  PROVE  Sound'
<1>1. /\ p # Server /\ writers' = Less(p)
      /\ UNCHANGED <<fate, ver, store, disk, server, next, forked, fork_dump, ended, exposed>>
      /\ p \in Children /\ p # NoProcess
  BY ProcessAssumption DEF Reap, memory, Typed, TypeOK
<1>2. /\ Running' = Running \ {p} /\ (\A q \in Running' : writers'[q] = writers[q])
      /\ Dumpers' = Dumpers \ {p} /\ DumpChildren' = DumpChildren \ {p}
      /\ \A q \in Dumpers', o \in Objects : WillWrite(q, BlockOf(o))' <=> WillWrite(q, BlockOf(o))
  BY <1>1, LessLeaves
<1>3. Processes'
  <2>1. \A q \in Dumpers' : q \in Dumpers /\ writers'[q] = writers[q]
    BY <1>2 DEF Dumpers
  <2> QED
    BY <1>1, <1>2, <2>1 DEF Sound, Processes
<1>4. Flags'
  <2>1. CASE server # "down" /\ fork_dump /\ dumping /\ p = dumper
    <3>1. dumping' = FALSE /\ dumper' = NoProcess
      BY <2>1 DEF Reap
    <3>2. server = "up" => DumpChildren = {dumper}
      BY <2>1 DEF Sound, Flags
    <3>3. server # "forking"
      BY <1>1, <2>1 DEF Sound, Flags, Stops
    <3> QED
      BY <1>1, <1>2, <2>1, <3>1, <3>2, <3>3 DEF Flags
  <2>2. CASE ~(server # "down" /\ fork_dump /\ dumping /\ p = dumper)
    <3>1. dumping' = dumping /\ dumper' = dumper
      BY <2>2 DEF Reap
    <3>2. server = "up" /\ dumping => p \notin DumpChildren
      BY <2>2 DEF Sound, Flags
    <3>3. server = "forking" /\ forked \in Running' => forked \in DumpChildren'
      BY <1>2 DEF Sound, Flags
    <3> QED
      BY <1>1, <1>2, <3>1, <3>2, <3>3 DEF Sound, Flags, Stops
  <2> QED
    BY <2>1, <2>2
<1>5. Risks'
  <2>1. \A q \in DumpChildren' : q \in DumpChildren /\ Overtaken(q)' = Overtaken(q)
    BY <1>1, <1>2, WritesSame DEF DumpChildren
  <2> QED
    BY <1>1, <2>1 DEF Sound, Risks, Stops
<1>6. Versions'
  BY <1>1, <1>2 DEF Sound, Versions, Dumpers
<1>7. Newer'
  BY <1>1, <1>2 DEF Sound, Newer, Up, DumpChildren
<1>8. Progress'
  <2>1. server = "dumping" => Server \in Running'
    BY <1>1, <1>2 DEF Sound, Processes
  <2>2. Image' = Image
    BY <1>1 DEF Image
  <2> QED
    BY <1>1, <1>2, <2>1, <2>2 DEF Sound, Progress
<1>9. ListWritten' /\ SavedOrDirty' /\ StoppedIsSaved'
  BY <1>1 DEF Sound, ListWritten, SavedOrDirty, StoppedIsSaved
<1> QED
  BY <1>3, <1>4, <1>5, <1>6, <1>7, <1>8, <1>9 DEF Sound

LEMMA BackupSound ==
  ASSUME Typed, Sound, Backup
  PROVE  Sound'
<1> DEFINE w == FileWriter("backup", store)
<1>1. TypeOK /\ store \in Stores /\ writers \in [Running -> Writer]
  BY DEF Typed, TypeOK, Stores
<1>2. /\ server = "up" /\ ~dumping
      /\ UNCHANGED <<fate, ver, store, disk, server, next, forked, dumping, dumper, fork_dump,
                     ended, exposed>>
  BY DEF Backup, memory, dumps
<1>3. PICK c \in Children \ Running : writers' = With(c, w)
  BY DEF Backup
<1>4. w \in Writer /\ w.kind = "backup" /\ w.block = LastBlock + 1 /\ ~w.staged
  BY <1>1, FileWriterTypes
<1> HIDE DEF w
<1>5. /\ Running' = Running \cup {c} /\ c # Server
      /\ \A q \in Running : writers'[q] = writers[q]
      /\ writers'[c] = w
  BY <1>1, <1>3, <1>4, WithTypes, ProcessAssumption
<1>6. Dumpers' = Dumpers /\ DumpChildren' = DumpChildren
  BY <1>4, <1>5 DEF Dumpers, DumpChildren
<1>7. Processes'
  BY <1>2, <1>4, <1>5, <1>6 DEF Sound, Processes, Dumpers
<1>8. Flags' /\ Risks'
  BY <1>2, <1>6 DEF Sound, Flags, Risks, Stops
<1>9. Versions'
  <2>1. \A q \in Dumpers : q \in Running /\ writers'[q] = writers[q]
    BY <1>5 DEF Dumpers
  <2>2. \A q \in Dumpers, o \in Objects : WillWrite(q, BlockOf(o))' <=> WillWrite(q, BlockOf(o))
    BY <2>1, WritesSame
  <2> QED
    BY <1>2, <1>6, <2>1, <2>2 DEF Sound, Versions
<1>10. Newer'
  BY <1>2, <1>5, <1>6 DEF Sound, Newer, Up, DumpChildren
<1>11. Progress' /\ ListWritten' /\ SavedOrDirty' /\ StoppedIsSaved'
  BY <1>2 DEF Sound, Progress, ListWritten, SavedOrDirty, StoppedIsSaved
<1> QED
  BY <1>7, <1>8, <1>9, <1>10, <1>11 DEF Sound

LEMMA StartSound ==
  ASSUME Patient, Typed, Sound, Start
  PROVE  Sound'
<1>1. /\ server = "down" /\ server' = "up" /\ writers' = writers /\ disk' = disk
      /\ dumping' = FALSE /\ dumper' = NoProcess /\ DumpChildren = {} /\ exposed' = {}
  BY DEF Start, InTime
<1>2. Running' = Running /\ Dumpers' = Dumpers /\ DumpChildren' = {}
  BY <1>1 DEF Running, Dumpers, DumpChildren
<1>3. Server \notin Running /\ Dumpers = {}
  BY <1>1, Kinds DEF Sound, Processes, Typed, Dumpers
<1>4. /\ \A o \in Objects : ver'[o] = IF disk[o] = Missing THEN 0 ELSE disk[o]
      /\ \A o \in Objects : o \in store'.dirty \/ disk[o] # Missing
  BY DEF Start, Typed, TypeOK
<1>5. \A o \in Objects : disk[o] \in Nat \cup {-1} /\ Missing = -1
  BY Numbers
<1>6. Processes'
  BY <1>1, <1>2, <1>3 DEF Sound, Processes
<1>7. Flags' /\ Risks'
  BY <1>1, <1>2 DEF Flags, Risks
<1>8. Versions' /\ SavedOrDirty'
  BY <1>1, <1>2, <1>3, <1>4, <1>5 DEF Versions, SavedOrDirty
<1>9. Newer' /\ Progress' /\ ListWritten' /\ StoppedIsSaved'
  BY <1>1, <1>2 DEF Newer, Progress, ListWritten, StoppedIsSaved
<1> QED
  BY <1>6, <1>7, <1>8, <1>9 DEF Sound

LEMMA NextSound ==
  ASSUME Patient, Typed, Sound, [Next]_vars
  PROVE  Sound'
<1>1. CASE Next
  <2>1. CASE DumpSteps
    BY <2>1, DumpStepsMove, HereSound, ForkSound DEF Typed
  <2>2. CASE Leaving
    BY <2>2, EndDumpSound, CrashSound, ReapSound DEF Leaving
  <2> QED
    BY <1>1, <2>1, <2>2, StepKinds, CommandsSound, StepsSound, BookkeepingSound, BackupSound,
       StartSound
<1>2. CASE UNCHANGED vars
  <2>1. Running' = Running /\ Dumpers' = Dumpers /\ DumpChildren' = DumpChildren
        /\ Image' = Image /\ Up' = Up /\ Stops' = Stops /\ UNCHANGED vars
    BY <1>2 DEF vars, Running, Dumpers, DumpChildren, Image, Up, Stops
  <2>2. /\ \A q, o : WillWrite(q, BlockOf(o))' <=> WillWrite(q, BlockOf(o))
        /\ \A q : Overtaken(q)' = Overtaken(q)
    BY <2>1 DEF WillWrite, Overtaken, vars
  <2>3. Processes' /\ Flags' /\ Risks' /\ Versions' /\ Newer'
    BY <2>1, <2>2 DEF Sound, Processes, Flags, Risks, Versions, Newer, vars
  <2>4. Progress' /\ ListWritten' /\ SavedOrDirty' /\ StoppedIsSaved'
    BY <2>1 DEF Sound, Progress, ListWritten, SavedOrDirty, StoppedIsSaved, vars
  <2> QED
    BY <2>3, <2>4 DEF Sound
<1> QED
  BY <1>1, <1>2

LEMMA CheckpointsSound == Patient => (Spec => [](Typed /\ Sound))
<1> SUFFICES ASSUME Patient PROVE Spec => [](Typed /\ Sound)
  OBVIOUS
<1>1. Init => Typed /\ Sound
  BY InitTyped, InitSound
<1>2. Typed /\ Sound /\ [Next]_vars => (Typed /\ Sound)'
  BY NextTyped, NextSound
<1> QED
  BY <1>1, <1>2, PTL DEF Spec

(***************************************************************************)
(* If dumps do not overlap, mushstate.dumping tells the truth: it is set   *)
(* exactly while a child dumps, though the child may be faster than fork() *)
(* or die early (bsd_signals.c: sighandler; game.c: fork_and_dump).        *)
(***************************************************************************)
THEOREM DumpingTellsTheTruth == Patient => (Spec => []DumpsInv)
<1> SUFFICES ASSUME Patient PROVE Spec => []DumpsInv
  OBVIOUS
<1>1. Typed /\ Sound => DumpsInv
  BY DEF Typed, Sound, Flags, DumpsInv, DumpingIsTrue
<1> QED
  BY <1>1, CheckpointsSound, PTL

(***************************************************************************)
(* If dumps do not overlap, what has no DIRTY flag is in the database as   *)
(* it is in memory, so that db_write may pass its block over, also while a *)
(* child is still writing what it was forked with (db_flatfile.c:          *)
(* db_write; object.c).                                                    *)
(***************************************************************************)
THEOREM CleanMeansSaved == Patient => (Spec => []SavedOrDirty)
<1> SUFFICES ASSUME Patient PROVE Spec => []SavedOrDirty
  OBVIOUS
<1>1. Typed /\ Sound => SavedOrDirty
  BY DEF Sound
<1> QED
  BY <1>1, CheckpointsSound, PTL

(***************************************************************************)
(* If the child of a dump is done before the next dump is due, a server    *)
(* that is stopped, by a command or by a signal, whenever it comes, leaves *)
(* every object in the database as it last was in memory, but for what the *)
(* stop exposed: what a child was yet to write and had changed since, and  *)
(* the block a dump of the server's own had marked clean and not yet put.  *)
(* A child that still writes when the server is down harms nothing else    *)
(* (bsd_signals.c: sighandler; game.c: do_shutdown, dump_database, main;   *)
(* predicates_eval.c: do_restart).                                         *)
(***************************************************************************)
THEOREM OrderlyStopSaves == Patient => (Spec => []StoppedIsSaved)
<1> SUFFICES ASSUME Patient PROVE Spec => []StoppedIsSaved
  OBVIOUS
<1>1. Typed /\ Sound => StoppedIsSaved
  BY DEF Sound
<1> QED
  BY <1>1, CheckpointsSound, PTL

(***************************************************************************)
(* If the child of a dump is done before the next dump is due, no dump     *)
(* puts an older structure over a newer one, but a child that goes on      *)
(* while the server stops, over what that stop exposed (db_flatfile.c:     *)
(* db_write; bsd_signals.c).                                               *)
(***************************************************************************)
THEOREM DumpsOnlyAdvance == Patient => (Spec => DiskNeverGoesBack)
<1> SUFFICES ASSUME Patient PROVE Spec => DiskNeverGoesBack
  OBVIOUS
<1> DEFINE Forward == \A o \in Objects \ exposed :
             disk[o] # Missing /\ disk'[o] # Missing => disk[o] <= disk'[o]
<1>1. ASSUME Typed, Sound, [Next]_vars
      PROVE  Forward
  <2>1. \A o \in Objects : disk[o] \in Int /\ disk[o] <= disk[o]
    BY <1>1, Numbers
  <2>2. CASE UNCHANGED disk
    BY <2>1, <2>2
  <2>3. ASSUME NEW p \in Running, Steps(p)
        PROVE  Forward
    <3>1. OnlyWriter(p) /\ (Staging(p) \/ Putting(p) \/ Passing(p) \/ Storing(p))
      BY <1>1, <2>3, StepsMove DEF Typed
    <3>2. CASE Staging(p) \/ Storing(p)
      BY <2>2, <3>2 DEF Staging, Storing
    <3>3. CASE Putting(p)
      <4>1. writers[p].block <= LastBlock
        BY <3>3 DEF Putting, Advancing
      <4>2. p \in Dumpers
        BY <1>1, <4>1, BlockWriters
      <4>3. \A o \in Objects : \/ disk'[o] = disk[o]
                              \/ (disk'[o] = writers[p].image[o] /\ WillWrite(p, BlockOf(o)))
        BY <1>1, <2>3, <3>1, StepWrites
      <4>4. \A o \in Objects \ exposed :
              writers[p].image[o] # Missing /\ WillWrite(p, BlockOf(o)) => disk[o] <= writers[p].image[o]
        BY <1>1, <4>2 DEF Sound, Versions, Missing, Skipped
      <4> QED
        BY <2>1, <4>3, <4>4
    <3>4. CASE Passing(p)
      <4>1. \A o \in Objects : disk'[o] = disk[o] \/ disk'[o] = Missing
        BY <3>4 DEF Passing
      <4> QED
        BY <2>1, <4>1
    <3> QED
      BY <3>1, <3>2, <3>3, <3>4
  <2>4. Commands => UNCHANGED disk
    BY <1>1, CommandsMove DEF CommandMoves, Typed
  <2>5. DumpSteps => UNCHANGED disk
    BY <1>1, DumpStepsMove DEF HereMoves, ForkMoves, Typed
  <2>6. Bookkeeping => UNCHANGED disk
    BY DEF Bookkeeping, ForkFails, SaveList, Forked, SwitchFork, Quit
  <2>7. Leaving \/ Backup \/ Start => UNCHANGED disk
    BY DEF Leaving, EndDump, Crash, Reap, Backup, Start
  <2>8. UNCHANGED vars => UNCHANGED disk
    BY DEF vars
  <2> HIDE DEF Forward
  <2> QED
    BY <1>1, <2>2, <2>3, <2>4, <2>5, <2>6, <2>7, <2>8, StepKinds
<1>2. Typed /\ Sound /\ [Next]_vars => [Forward]_vars
  BY <1>1
<1> QED
  BY <1>2, CheckpointsSound, PTL DEF Spec, DiskNeverGoesBack

-----------------------------------------------------------------------------
(* The lists of attributes.  The list in memory has been written when the  *)
(* server is down, whatever it went through.                               *)
LEMMA ListKept ==
  ASSUME Typed, ListWritten, [Next]_vars
  PROVE  ListWritten'
<1>1. CASE Next
  <2>1. Commands => server' = "up"
    BY CommandsMove DEF CommandMoves, Typed
  <2>2. DumpSteps => server' = "forking" \/ store'.mod_al_id = Nothing
    BY DumpStepsMove DEF HereMoves, ForkMoves, Written, Typed
  <2>3. Bookkeeping => server' \in {"up", "forking"}
    BY DEF Bookkeeping, ForkFails, SaveList, Forked, SwitchFork, Quit
  <2>4. EndDump => store'.mod_al_id = Nothing
    BY DEF EndDump, ListWritten, memory
  <2>5. Crash => store'.mod_al_id = Nothing
    BY DEF Crash, Typed, TypeOK
  <2>6. (\E p \in Running : Reap(p)) \/ Backup => UNCHANGED <<server, store>>
    BY DEF Reap, Backup, memory
  <2>7. Start => server' = "up"
    BY DEF Start
  <2>8. ASSUME NEW p \in Running, Steps(p)
        PROVE  server' = server /\ store'.mod_al_id = store.mod_al_id
    <3>1. OnlyWriter(p) /\ (Staging(p) \/ Putting(p) \/ Passing(p) \/ Storing(p))
      BY <2>8, StepsMove DEF Typed
    <3>2. store'.mod_al_id = store.mod_al_id
      BY <3>1 DEF Staging, Putting, Passing, Advancing, Storing, Typed, TypeOK
    <3> QED
      BY <3>1, <3>2 DEF OnlyWriter
  <2> QED
    BY <1>1, <2>1, <2>2, <2>3, <2>4, <2>5, <2>6, <2>7, <2>8, StepKinds DEF ListWritten, Leaving
<1>2. CASE UNCHANGED vars
  BY <1>2 DEF ListWritten, vars
<1> QED
  BY <1>1, <1>2

(***************************************************************************)
(* Whatever happens, the list of an object goes on to name its attributes, *)
(* until a crash or a process that writes the copy of a list it was forked *)
(* with: destroying, purging, dumping, stopping and starting keep the two  *)
(* together (db_attributes.c: al_store, al_fetch, atr_add_raw, atr_clr,    *)
(* atr_free; object.c: destroy_obj; game.c).                               *)
(***************************************************************************)
THEOREM ListsStayTrue == Spec => OnlyLostListsOrphan
<1> DEFINE Excused ==
             \/ server' = "down" /\ ended' = "crashed"
             \/ \E p \in Running \cap DOMAIN writers' : writers'[p].id # writers[p].id
           Kept == \A o \in Objects :
             /\ store.stored[o] = ListOf(store, o)
             /\ store'.stored[o] # ListOf(store', o)
             => Excused
<1>1. ASSUME Typed, ListWritten, [Next]_vars
      PROVE  Kept
  <2>1. Follows(store, store') => Kept
    BY DEF Follows, Agrees
  <2>2. store' = store => Kept
    OBVIOUS
  <2>3. store \in Stores
    BY <1>1 DEF Typed, TypeOK, Stores
  <2>4. Commands => Follows(store, store')
    BY <1>1, CommandsMove DEF CommandMoves, Typed
  <2>5. DumpSteps => Follows(store, store')
    BY <1>1, DumpStepsMove DEF HereMoves, Written, ForkMoves, Typed
  <2>6. Bookkeeping => Follows(store, store') \/ store' = store
    BY <2>3, AlStoreFollows DEF Bookkeeping, ForkFails, SaveList, Forked, SwitchFork, Quit, memory
  <2>7. EndDump \/ (\E p \in Running : Reap(p)) \/ Backup => store' = store
    BY DEF EndDump, Reap, Backup, memory
  <2>8. Crash => Excused
    BY DEF Crash
  <2>9. Start => Kept
    <3>1. SUFFICES ASSUME Start, NEW o \in Objects
                   PROVE  store'.stored[o] = store.stored[o] /\ ListOf(store', o) = ListOf(store, o)
      OBVIOUS
    <3>2. store.mod_al_id = Nothing /\ store'.mod_al_id = Nothing
          /\ store'.stored = store.stored /\ store'.listed = store.listed
      BY <1>1, <2>3, <3>1 DEF Start, ListWritten, Stores
    <3> QED
      BY <3>2, ObjectAssumption DEF ListOf
  <2>10. ASSUME NEW p \in Running, Steps(p)
         PROVE  Kept
    <3>1. OnlyWriter(p) /\ (Staging(p) \/ Putting(p) \/ Passing(p) \/ Storing(p))
      BY <1>1, <2>10, StepsMove DEF Typed
    <3>2. CASE Storing(p)
      <4>1. p \in Running \cap DOMAIN writers' /\ writers'[p].id # writers[p].id
        BY <3>1, <3>2 DEF OnlyWriter, Storing, Running
      <4> QED
        BY <4>1
    <3>3. CASE Putting(p) \/ Passing(p)
      BY <2>2, <3>3 DEF Putting, Passing, Advancing
    <3>4. CASE Staging(p)
      <4>1. /\ store'.stored = store.stored /\ store'.listed = store.listed
            /\ store'.mod_al_id = store.mod_al_id /\ store'.mod_alist = store.mod_alist
        BY <2>3, <3>4 DEF Staging, Stores
      <4> QED
        BY <4>1 DEF ListOf
    <3> QED
      BY <3>1, <3>2, <3>3, <3>4
  <2>11. UNCHANGED vars => store' = store
    BY DEF vars
  <2>12. Excused => Kept
    OBVIOUS
  <2> HIDE DEF Kept, Excused
  <2> QED
    BY <1>1, <2>1, <2>2, <2>4, <2>5, <2>6, <2>7, <2>8, <2>9, <2>10, <2>11, <2>12, StepKinds
       DEF Leaving
<1>2. Typed /\ ListWritten /\ [Next]_vars => [Kept]_vars
  BY <1>1
<1>3. Init => Typed /\ ListWritten
  BY InitTyped DEF Init, ListWritten
<1>4. Typed /\ ListWritten /\ [Next]_vars => (Typed /\ ListWritten)'
  BY NextTyped, ListKept
<1> QED
  BY <1>2, <1>3, <1>4, PTL DEF Spec, OnlyLostListsOrphan
=============================================================================
