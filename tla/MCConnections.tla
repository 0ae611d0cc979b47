--------------------------- MODULE MCConnections ---------------------------
(* Small instances for TLC.  Player 1 is God, 2 a player, 3 the guest of    *)
(* the only slot, 4 one who may be created.                                *)
EXTENDS Connections

Say(verb, who) == [verb |-> verb, who |-> who, good |-> TRUE, piped |-> FALSE]
Piped(l) == [l EXCEPT !.piped = TRUE]
Wrong(l) == [l EXCEPT !.good = FALSE]

Nothing ==
  [list |-> <<>>, conn |-> [f \in Sockets |-> Closed],
   hash |-> [p \in Players |-> <<>>], connected |-> {}, dark |-> {},
   exists |-> {1, 2}, logins |-> TRUE, programs |-> {}, progcmd |-> {},
   queue |-> <<>>]

(* Connections of these players have been made, one after the other.       *)
With(s, players) ==
  LET Add(t, p) == LET f == Min({g \in Sockets : ~t.conn[g].open})
                   IN Login(Initialize(t, f, 1), f, p)
  IN [FoldLeft(Add, s, players) EXCEPT !.queue = <<>>]
(* These lines have come from connection f.                                *)
Ahead(s, f, lines) == [s EXCEPT !.conn[f].input = lines]

MCGuests == <<3>>
Come2 == Say("connect", 2)
Leave2 == Piped(Say("LOGOUT", 2))
MCTyped ==
  {Come2, Say("connect", 1), Wrong(Come2), Say("connect guest", 2), Say("create", 4)}
MCOrdered == {Say("QUIT", 2), Say("@program", 2)}

Twice == With(Nothing, <<2, 2>>)
Both == With(Nothing, <<1, 2>>)
Guest == With([Nothing EXCEPT !.exists = {1, 2, 3}], <<3, 3>>)
MCStart ==
  {Nothing,
   do_prog(With(Nothing, <<1>>), 1),
   Ahead(With(Nothing, <<1>>), 1, <<Say("@logins", 1), Say("LOGOUT", 1)>>),
   Ahead(do_prog(Twice, 2), 1, <<Leave2, Come2>>),
   Ahead(Ahead(Both, 1, <<Say("@boot", 2), Say("@restart", 1)>>),
         2, <<Say("@program", 2), Say("IDLE", 2), Piped(Say("@quitprogram", 2))>>),
   Ahead(Ahead(Both, 1, <<Say("@destroy", 2)>>), 2, <<Say("LOGOUT", 2), Come2>>),
   Ahead(Ahead(Guest, 1, <<Say("LOGOUT", 3)>>),
         2, <<Say("LOGOUT", 3), Say("connect guest", 2)>>)}
=============================================================================
