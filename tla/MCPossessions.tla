--------------------------- MODULE MCPossessions ----------------------------
(* Small instances for TLC.  Number 1 is God, 2 and 3 are players, and the *)
(* rest is free to begin with.                                             *)
EXTENDS Possessions

MCPrice == [t \in {"ROOM", "EXIT", "ROBOT"} |-> IF t = "EXIT" THEN 1 ELSE 2]
MCQuota ==
  [t \in Types \cup {"GARBAGE"} |-> CASE t = "GARBAGE" -> 0 [] t = "ROOM" -> 2 [] OTHER -> 1]
MCSacAdjust == -1
MCAmounts == {-1, 1, 2}

Player(n, coins, quota) ==
  [type |-> "PLAYER", owner |-> n, going |-> FALSE, linked |-> FALSE,
   coins |-> coins, quota |-> quota, rquota |-> quota - Quota["PLAYER"]]
Town(coins, quota, free) ==
  [n \in Numbers |->
     IF n <= 3 THEN Player(n, coins[n], quota[n]) ELSE [Garbage EXCEPT !.linked = n \in free]]

(* A player with a robot                                                   *)
Pair == [Town(<<0, 2, 0>>, <<1, 4, 1>>, {}) EXCEPT ![2].rquota = 2, ![3].type = "ROBOT",
           ![3].owner = 2, ![3].rquota = 1]
(* God, a player with a thing, and no more                                 *)
Workshop ==
  [n \in Numbers |->
     CASE n = 1 -> Player(1, 0, 1)
       [] n = 2 -> [Player(2, 2, 3) EXCEPT !.rquota = 1]
       [] n = 4 -> [Garbage EXCEPT !.type = "THING", !.owner = 2, !.going = FALSE]
       [] OTHER -> Garbage]

(* What there is, and the commands with which it is looked at.             *)
MCGames ==
  {[db |-> Town(<<0, 3, 1>>, <<1, 3, 3>>, {4, 5}), ops |-> {"dig", "link", "destroy"}],
   [db |-> Town(<<0, 4, 0>>, <<1, 3, 3>>, {4, 5}), ops |-> {"create", "clone", "destroy"}],
   [db |-> Town(<<0, 4, 3>>, <<1, 4, 4>>, {4, 5}),
    ops |-> {"create", "dig", "link", "chown", "clone"}],
   [db |-> Town(<<0, 3, 2>>, <<1, 3, 3>>, {4}), ops |-> {"create", "chown", "destroy"}],
   [db |-> Town(<<0, 3, 1>>, <<1, 3, 2>>, {4, 5}), ops |-> {"robots", "create", "rule"}],
   [db |-> Pair, ops |-> {"chown", "rule"}],
   [db |-> Town(<<0, 2, 1>>, <<1, 3, 3>>, {4, 5}), ops |-> {"players", "create", "destroy"}],
   [db |-> Town(<<0, 4, 2>>, <<1, 3, 3>>, {4}), ops |-> {"create", "quota"}],
   [db |-> Town(<<0, 3, 2>>, <<1, 3, 3>>, {4}), ops |-> {"create", "pay"}],
   [db |-> Workshop, ops |-> {"stack"}],
   [db |-> Workshop, ops |-> {"variables"}],
   [db |-> Workshop, ops |-> {"structures"}],
   [db |-> Workshop, ops |-> {"grids", "create", "destroy"}]}

MCLists == {<<"v">>, <<"w", "v">>}
MCComponents == {<<"a">>, <<"b", "a">>}
MCInstances == {<<"i">>, <<"i", "b">>}
=============================================================================
