---------------------------- MODULE ObjectLists ----------------------------
(***************************************************************************)
(* The lists that say where objects are.  Every object has one next        *)
(* pointer; the contents of a place and its exits are lists threaded       *)
(* through it, and every member names its place in a field of its own      *)
(* (location of players and things, exits of exits).  predicates.c (the    *)
(* list operations), move.c (move_object), object.c (destroy_obj),         *)
(* object_utils.c (homes).                                                 *)
(*                                                                         *)
(* A database is a record of functions over object numbers.  As in the     *)
(* code, location holds the dropto of a room and the destination of an     *)
(* exit.                                                                   *)
(***************************************************************************)
EXTENDS Naturals, Sequences, FiniteSets, FiniteSetsExt, Functions

CONSTANTS
  Obj,         (* object numbers                                           *)
  NOTHING,     (* the number that is no object's                           *)
  DefaultHome, (* mushconf.default_home, which is never destroyed          *)
  Owner,       (* who owns each object                                     *)
  Abode        (* places their owners may make a home of                   *)

ASSUME ObjAssumption ==
  /\ Obj \subseteq Nat /\ IsFiniteSet(Obj)
  /\ NOTHING \notin Obj /\ DefaultHome \in Obj
  /\ Owner \in [Obj -> Obj]

Types == {"room", "thing", "player", "exit", "garbage"}
Dbref == Obj \cup {NOTHING}

Databases ==
  [type : [Obj -> Types], going : SUBSET Obj,
   location : [Obj -> Dbref], contents : [Obj -> Dbref],
   exits : [Obj -> Dbref], next : [Obj -> Dbref], link : [Obj -> Dbref]]

Good(d, x) == x \in Obj /\ d.type[x] # "garbage"
Has_location(d, x) == d.type[x] \in {"thing", "player"}
Going(d, x) == x \in d.going
----------------------------------------------------------------------------
(***************************************************************************)
(* Walking a list.                                                         *)
(***************************************************************************)
(* The objects a loop over the list meets, one after the other.  It stops  *)
(* at an object that is its own next; a list that runs in a ring is cut    *)
(* after as many objects as there are.                                     *)
Walk(next, head) ==
  LET from[left \in 0..Cardinality(Obj)] ==
        [x \in Dbref |->
           IF x = NOTHING \/ left = 0 THEN <<>>
           ELSE <<x>> \o IF next[x] = x THEN <<>> ELSE from[left - 1][next[x]]]
  IN from[Cardinality(Obj)][head]

Chain(next, head) == Range(Walk(next, head))

Ends(next, head) ==
  LET list == Walk(next, head) IN
  list # <<>> => next[list[Len(list)]] = NOTHING

(* insert_first at the list of a place.                                    *)
InsertFirst(d, list, place, x) ==
  [d EXCEPT !.next[x] = d[list][place], ![list][place] = x]

(* remove_first from the list of a place.  It gives up after as many       *)
(* objects as there are, and leaves the list alone if x is not on it.      *)
RemoveFirst(d, list, place, x) ==
  LET members == Walk(d.next, d[list][place])
      before == {k \in DOMAIN members : members[k] # x /\ d.next[members[k]] = x}
  IN IF d[list][place] = x THEN [d EXCEPT ![list][place] = d.next[x]]
     ELSE IF before = {} THEN d
     ELSE [d EXCEPT !.next[members[Min(before)]] = d.next[x]]

(* reverse_list of the contents of a place, a list that ends.              *)
Backwards(d, place) ==
  LET list == Walk(d.next, d.contents[place])
      at(x) == CHOOSE k \in DOMAIN list : list[k] = x
  IN IF list = <<>> THEN d
     ELSE [d EXCEPT !.contents[place] = list[Len(list)],
                    !.next = [x \in Obj |->
                                IF x \notin Range(list) THEN d.next[x]
                                ELSE IF at(x) = 1 THEN NOTHING
                                ELSE list[at(x) - 1]]]
----------------------------------------------------------------------------
(***************************************************************************)
(* Homes, moving and destroying.                                           *)
(***************************************************************************)
can_set_home(d, x, home) ==
  /\ Good(d, home) /\ home # x
  /\ d.type[home] # "exit"
  /\ ~Going(d, home)
  /\ home \in Abode

new_home(d, x) ==
  IF can_set_home(d, x, d.location[x]) THEN d.location[x]
  ELSE LET home == d.link[Owner[x]] IN
       IF can_set_home(d, x, home) THEN home ELSE DefaultHome

(* Mutant of MoveObject: put there before it is taken from here.           *)
MoveObjectInFirst(d, x, dest) ==
  IF ~Good(d, x) THEN d
  ELSE LET src == d.location[x]
           in == IF dest = NOTHING THEN [d EXCEPT !.next[x] = NOTHING]
                 ELSE InsertFirst(d, "contents", dest, x)
           out == IF src = NOTHING THEN in
                  ELSE RemoveFirst(in, "contents", src, x)
       IN [out EXCEPT !.location[x] = dest]

(* move_object: the place an object leaves is the one it is in by now.     *)
MoveObject(d, x, dest) ==
  IF ~Good(d, x) THEN d
  ELSE LET src == d.location[x]
           out == IF src = NOTHING THEN d
                  ELSE RemoveFirst(d, "contents", src, x)
           in == IF dest = NOTHING THEN [out EXCEPT !.next[x] = NOTHING]
                 ELSE InsertFirst(out, "contents", dest, x)
       IN [in EXCEPT !.location[x] = dest]

(* Mutant of MoveExit: the same.                                           *)
MoveExitInFirst(d, x, place) ==
  [RemoveFirst(InsertFirst(d, "exits", place, x), "exits", d.exits[x], x)
     EXCEPT !.exits[x] = place]

(* The exit goes from one place to another: get, drop and @teleport.       *)
MoveExit(d, x, place) ==
  [InsertFirst(RemoveFirst(d, "exits", d.exits[x], x), "exits", place, x)
     EXCEPT !.exits[x] = place]

(* destroy_obj: what becomes of the object itself.                         *)
DestroyObj(d, x) ==
  IF ~Good(d, x) THEN d
  ELSE [d EXCEPT !.type[x] = "garbage", !.going = @ \cup {x},
                 !.location[x] = NOTHING, !.contents[x] = NOTHING,
                 !.exits[x] = NOTHING, !.next[x] = NOTHING,
                 !.link[x] = NOTHING]

IsClean(d, x) ==
  /\ d.type[x] = "garbage"
  /\ \A f \in {"location", "contents", "exits", "next"} : d[f][x] = NOTHING
----------------------------------------------------------------------------
(***************************************************************************)
(* What the lists promise.                                                 *)
(***************************************************************************)
(* The list of a place has what names that place, each once, and ends.     *)
ContentsAgree(d, place) ==
  /\ Ends(d.next, d.contents[place])
  /\ Chain(d.next, d.contents[place]) =
       {x \in Obj : Has_location(d, x) /\ d.location[x] = place}

ExitsAgree(d, place) ==
  /\ Ends(d.next, d.exits[place])
  /\ Chain(d.next, d.exits[place]) =
       {x \in Obj : d.type[x] = "exit" /\ d.exits[x] = place}

IsPlace(d, x) == Good(d, x) /\ d.type[x] # "exit"
=============================================================================
