----------------------------- MODULE MCMovement -----------------------------
(* Small databases for TLC.  Numbers 0 and 1 are rooms, 2 a player.    *)
EXTENDS Movement

(* A database whose lists of contents and exits are these sequences.       *)
(* Thing 3 has room 1 for a home, others room 0; the rooms have droptos to  *)
(* each other, and exits lead to room 1.                                   *)
In(lists, x) == {r \in DOMAIN lists : \E i \in DOMAIN lists[r] : lists[r][i] = x}
After(s, x) == LET i == CHOOSE j \in DOMAIN s : s[j] = x
               IN IF i = Len(s) THEN NOTHING ELSE s[i + 1]
Only(set) == CHOOSE x \in set : TRUE

Game(contents, exits) ==
  LET isExit(x) == In(exits, x) # {}
      isThing(x) == In(contents, x) # {}
      first(lists, x) == IF x \in DOMAIN lists /\ lists[x] # <<>>
                         THEN lists[x][1] ELSE NOTHING
  IN [type |-> [x \in Obj |-> IF x < 2 THEN "room" ELSE IF x = 2 THEN "player"
                              ELSE IF isExit(x) THEN "exit"
                              ELSE IF isThing(x) THEN "thing" ELSE "garbage"],
      going |-> {x \in Obj : x > 2 /\ ~isExit(x) /\ ~isThing(x)},
      location |-> [x \in Obj |-> IF isExit(x) THEN 1
                                  ELSE IF isThing(x) THEN Only(In(contents, x))
                                  ELSE IF x < 2 THEN 1 - x ELSE NOTHING],
      contents |-> [x \in Obj |-> first(contents, x)],
      exits |-> [x \in Obj |-> IF isExit(x) THEN Only(In(exits, x)) ELSE first(exits, x)],
      next |-> [x \in Obj |-> IF isExit(x) THEN After(exits[Only(In(exits, x))], x)
                              ELSE IF isThing(x) THEN After(contents[Only(In(contents, x))], x)
                              ELSE NOTHING],
      link |-> [x \in Obj |-> IF ~isThing(x) THEN NOTHING ELSE IF x = 3 THEN 1 ELSE 0]]

(* One with more things, and one with more exits.                          *)
Rooms(a, b) == [r \in {0, 1} |-> IF r = 0 THEN a ELSE b]
MCOwner == [x \in Obj |-> 2]
Moves == {"home", "get", "drop", "enter", "leave", "teleport"}
ExitMoves == {"exit", "carry", "@teleport exit"}
Removals == {"@destroy", "@destroy/instant", "@link"}
MCStart == {<<Game(Rooms(<<2>>, <<3, 4>>), Rooms(<<>>, <<>>)), Moves>>,
            <<Game(Rooms(<<2>>, <<>>), Rooms(<<3, 4, 5>>, <<>>)), Moves \cup ExitMoves>>,
            <<Game(Rooms(<<2>>, <<3>>), Rooms(<<>>, <<4>>)), Removals>>}
=============================================================================
