--------------------------- MODULE MCDatabaseCheck ---------------------------
(* Databases for TLC: after a crash in the middle of a dump, with nobody   *)
(* there to give commands, and in order, with a player (6).  Numbers 0 and *)
(* 1 are rooms, 2 and 3 things, 4 and 5 exits.                             *)
EXTENDS DatabaseCheck

MCOwner == [x \in Obj |-> x]
Things == Obj \cap {2, 3}
Exits == Obj \cap {4, 5}

(* All ways to put these objects into lists of these places.               *)
Lists(objects, places) ==
  {f \in [places -> UNION {[1..n -> objects] : n \in 0..Cardinality(objects)}] :
     /\ \A p \in places : \A i \in DOMAIN f[p] : f[p][i] # p
     /\ \A p, q \in places : \A i \in DOMAIN f[p], j \in DOMAIN f[q] :
       <<p, i>> # <<q, j>> => f[p][i] # f[q][j]}

On(f, x) == \E p \in DOMAIN f : \E i \in DOMAIN f[p] : f[p][i] = x
PlaceOf(f, x) == CHOOSE p \in DOMAIN f : \E i \in DOMAIN f[p] : f[p][i] = x
NextIn(f, x) == LET s == f[PlaceOf(f, x)]
                    i == CHOOSE j \in DOMAIN s : s[j] = x
                IN IF i + 1 \in DOMAIN s THEN s[i + 1] ELSE NOTHING
First(f, p) == IF p \in DOMAIN f /\ 1 \in DOMAIN f[p] THEN f[p][1] ELSE NOTHING

(* A database in order: what is on no list is garbage.                     *)
Game(contents, exits) ==
  LET type(x) == IF x < 2 THEN "room"
                 ELSE IF On(contents, x) THEN "thing"
                 ELSE IF On(exits, x) THEN "exit" ELSE "garbage"
  IN [type |-> [x \in Obj |-> type(x)],
      going |-> {x \in Obj : type(x) = "garbage"},
      location |-> [x \in Obj |-> IF On(contents, x) THEN PlaceOf(contents, x)
                                  ELSE IF type(x) = "exit" THEN 1 ELSE NOTHING],
      contents |-> [x \in Obj |-> First(contents, x)],
      exits |-> [x \in Obj |-> IF On(exits, x) THEN PlaceOf(exits, x) ELSE First(exits, x)],
      next |-> [x \in Obj |-> IF On(contents, x) THEN NextIn(contents, x)
                              ELSE IF On(exits, x) THEN NextIn(exits, x) ELSE NOTHING],
      link |-> [x \in Obj |-> IF type(x) = "thing" THEN 1 ELSE NOTHING]]

(* Objects in new have been put, the others are as they were before.       *)
Mix(a, b, new) ==
  LET pick(f) == [x \in Obj |-> IF x \in new THEN b[f][x] ELSE a[f][x]]
  IN [type |-> pick("type"), going |-> (a.going \ new) \cup (b.going \cap new),
      location |-> pick("location"), contents |-> pick("contents"),
      exits |-> pick("exits"), next |-> pick("next"), link |-> pick("link")]

NoLists == [p \in {0, 1} |-> <<>>]
Games == {Game(c, NoLists) : c \in Lists(Things, {0, 1, 2})}
         \cup {Game(NoLists, e) : e \in Lists(Exits, {0, 1})}
Torn == {Mix(a, b, new) : a \in Games, b \in Games, new \in SUBSET (0..5)}

(* In order: a player in a thing, and an exit from one room to the other.  *)
Inhabited ==
  LET d == Game([p \in {0, 1, 2} |-> IF p = 1 THEN <<2>> ELSE IF p = 2 THEN <<6>> ELSE <<>>],
                [p \in {0, 1} |-> IF p = 0 THEN <<5>> ELSE <<>>])
  IN [d EXCEPT !.type[6] = "player", !.link[2] = 0, !.link[6] = 0]

MCStart ==
  {<<d, {}>> : d \in Torn}
    \cup {<<Inhabited, {"@destroy", "@destroy/instant", "@create", "@link"}>>}
=============================================================================
