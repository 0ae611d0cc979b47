---------------------------- MODULE Descriptors ----------------------------
(***************************************************************************)
(* Connections and what the server keeps of them: the list of descriptors, *)
(* the hash table from players to their connections, the CONNECTED and     *)
(* DARK flags, programs that read a player's input, the players there are. *)
(* netcommon.c, bsd_connection.c, predicates_prog.c, mguests.c.  A state   *)
(* of all this is a record, and a function of the code an operator on it.  *)
(***************************************************************************)
EXTENDS QueueOps, FiniteSetsExt, SequencesExt

CONSTANTS
  Sockets,     (* file descriptors a connection may get: 1, 2, ...         *)
  Players,     (* objects that are or may be created as players: 1, 2, ... *)
  God,         (* the wizard                                               *)
  Guests,      (* the guests of the slots, in order                        *)
  Announced,   (* players with @aconnect and @adisconnect attributes       *)
  Sites,       (* the addresses clients have: 1, 2, ...                    *)
  QuotaMax,    (* cmd_quota_max                                            *)
  RetryLimit,  (* retry_limit                                              *)
  MaxPlayers,  (* max_players                                              *)
  Timeout      (* idle_timeout and conn_timeout, in checks                 *)

ASSUME DescriptorsAssumption ==
  /\ Sockets \subseteq Nat \ {0} /\ IsFiniteSet(Sockets)
  /\ Players \subseteq Nat \ {0} /\ IsFiniteSet(Players)
  /\ Sites \subseteq Nat \ {0}
  /\ God \in Players /\ Announced \subseteq Players
  /\ Guests \in Seq(Players \ {God})
  /\ {QuotaMax, RetryLimit, MaxPlayers, Timeout} \subseteq Nat \ {0}

Nobody == 0
Verbs == {"connect", "connect guest", "create", "QUIT", "LOGOUT", "IDLE", "say",
          "@boot", "@destroy", "@program", "@quitprogram", "@restart", "@logins"}
(* A line a client sends: whom it names, whether its password is right, and *)
(* whether it begins with a bar.                                           *)
Lines == [verb : Verbs, who : Players, good : BOOLEAN, piped : BOOLEAN]

(* DESC.  It is connected (DS_CONNECTED) when it has a player.  Its age    *)
(* runs from last_time when connected, from connected_at when not.  Its    *)
(* address is in letters when it has a name, which belongs to a site.      *)
Connection ==
  [open : BOOLEAN, player : Players \cup {Nobody}, retries : 0..RetryLimit,
   quota : 0..QuotaMax, input : Seq(Lines), age : 0..Timeout + 1,
   program : 0..Cardinality(Players), autodark : BOOLEAN,
   site : Sites \cup {0}, name : Sites \cup {0}]
Closed ==
  [open |-> FALSE, player |-> Nobody, retries |-> 0, quota |-> 0, input |-> <<>>,
   age |-> 0, program |-> 0, autodark |-> FALSE, site |-> 0, name |-> 0]

Net ==
  [list : Seq(Sockets), conn : [Sockets -> Connection],
   hash : [Players -> Seq(Sockets)], connected : SUBSET Players,
   dark : SUBSET Players, exists : SUBSET Players, logins : BOOLEAN,
   programs : SUBSET (1..Cardinality(Players)), progcmd : SUBSET Players,
   queue : Seq([what : {"connect", "disconnect", "program"}, player : Players])]

IsConnected(s, f) == s.conn[f].player # Nobody
ConnectedOnes(s) == {f \in Range(s.list) : IsConnected(s, f)}
----------------------------------------------------------------------------
(* _bsd_sock_initialize *)
Initialize(s, f, site) ==
  [s EXCEPT !.list = <<f>> \o @,
            !.conn[f] = [Closed EXCEPT !.open = TRUE, !.retries = RetryLimit,
                                       !.quota = QuotaMax, !.site = site]]

desc_addhash(s, f) == [s EXCEPT !.hash[s.conn[f].player] = <<f>> \o @]
desc_delhash(s, f) == [s EXCEPT !.hash[s.conn[f].player] = Without(@, {f})]

(* announce_connattr: the attribute is put in the queue, where one is.     *)
announce_connattr(queue, p, what) ==
  IF p \notin Announced THEN queue
  ELSE Append(queue, [what |-> what, player |-> p])

announce_connect(s, f) ==
  LET p == s.conn[f].player
  IN [desc_addhash(s, f) EXCEPT !.connected = @ \cup {p},
                                !.queue = announce_connattr(@, p, "connect")]

(* Mutant of announce_disconnect: the flag is cleared whichever it is.     *)
announce_disconnect_always(s, f) ==
  LET p == s.conn[f].player
  IN [desc_delhash(s, f) EXCEPT !.connected = @ \ {p},
                                !.queue = announce_connattr(@, p, "disconnect")]

announce_disconnect(s, f) ==
  LET p == s.conn[f].player
      last == Len(s.hash[p]) < 2
      undark == IF s.conn[f].autodark THEN s.dark \ {p} ELSE s.dark
      told == [desc_delhash(s, f) EXCEPT
                 !.queue = announce_connattr(@, p, "disconnect")]
  IN IF ~last THEN told
     ELSE [told EXCEPT !.connected = @ \ {p},
                       !.conn[f].autodark = FALSE,
                       !.dark = undark \cup ({p} \cap Range(Guests))]

(* The program is freed when no connection of its player is left.          *)
FreeProgram(s, p, prog) ==
  [s EXCEPT !.programs = @ \ {prog}, !.progcmd = @ \ {p}]

(* _bsd_conn_shutdown: a LOGOUT keeps the connection for another player;   *)
(* not so one that is not connected.                                       *)
Shutdown(s, f, reason) ==
  LET c == s.conn[f]
      left == IF IsConnected(s, f) THEN announce_disconnect(s, f) ELSE s
      done == IF c.program # 0 /\ left.hash[c.player] = <<>>
              THEN FreeProgram(left, c.player, c.program) ELSE left
  IN IF reason = "LOGOUT" /\ IsConnected(s, f)
     THEN [done EXCEPT !.conn[f] =
             [@ EXCEPT !.player = Nobody, !.retries = RetryLimit, !.age = 0,
                       !.quota = QuotaMax, !.program = 0]]
     ELSE [done EXCEPT !.list = Without(@, {f}), !.conn[f] = Closed]

(* The connections of the chain are shut down, one after the other.        *)
boot_off(s, p) ==
  LET list == s.hash[p]
      booted[n \in 0..Len(list)] ==
        IF n = 0 THEN s ELSE Shutdown(booted[n - 1], list[n], "boot")
  IN booted[Len(list)]

destroy_player(s, p) ==
  [boot_off(s, p) EXCEPT !.exists = @ \ {p}, !.progcmd = @ \ {p}, !.dark = @ \ {p}]

(* A wizard is not timed out but set DARK (idle_wiz_dark is on).            *)
CheckIdle(s, f) ==
  LET c == s.conn[f] IN
  IF c.age <= Timeout THEN s
  ELSE IF c.player # God THEN Shutdown(s, f, "timeout")
  ELSE IF God \in s.dark THEN s
  ELSE [s EXCEPT !.dark = @ \cup {God}, !.conn[f].autodark = TRUE]

(* Mutant of check_idle: only those who are connected are timed out.       *)
check_idle_connected(s) ==
  LET checked[n \in 0..Len(s.list)] ==
        IF n = 0 THEN s
        ELSE IF s.conn[s.list[n]].player = Nobody THEN checked[n - 1]
        ELSE CheckIdle(checked[n - 1], s.list[n])
  IN checked[Len(s.list)]

check_idle(s) ==
  LET checked[n \in 0..Len(s.list)] ==
        IF n = 0 THEN s ELSE CheckIdle(checked[n - 1], s.list[n])
  IN checked[Len(s.list)]
----------------------------------------------------------------------------
(***************************************************************************)
(* At the login screen.                                                    *)
(***************************************************************************)
Login(s, f, p) ==
  announce_connect([s EXCEPT !.conn[f].player = p, !.conn[f].age = 0], f)

(* make_guest: the slots that have no guest or one that is not connected;  *)
(* the guest of the first of them is destroyed and made again.             *)
FreeSlots(s) ==
  {i \in DOMAIN Guests : Guests[i] \notin s.exists \/ Guests[i] \notin s.connected}

MakeGuest(s, g) == [destroy_player(s, g) EXCEPT !.exists = @ \cup {g}]

(* Mutant of Admit: a program is not looked for.                         *)
AdmitAlone(s, f, p) ==
  IF p = God \/ (s.logins /\ Cardinality(ConnectedOnes(s)) < MaxPlayers)
  THEN Login(s, f, p) ELSE Shutdown(s, f, "full")

(* check_connect for a player who has given the right password.  A program *)
(* that reads the input of another connection reads that of this one too.  *)
Admit(s, f, p) ==
  LET full == Cardinality(ConnectedOnes(s)) >= MaxPlayers
      reading == {s.conn[g].program : g \in Range(s.hash[p])} \ {0}
      joined == IF reading = {} THEN s
                ELSE [s EXCEPT !.conn[f].program = CHOOSE prog \in reading : TRUE]
  IN IF p = God \/ (s.logins /\ ~full) THEN Login(joined, f, p)
     ELSE Shutdown(s, f, "full")

Refuse(s, f) ==
  IF s.conn[f].retries <= 1 THEN Shutdown(s, f, "badlogin")
  ELSE [s EXCEPT !.conn[f].retries = @ - 1]

Create(s, f, p) ==
  IF ~s.logins \/ Cardinality(ConnectedOnes(s)) > MaxPlayers
  THEN Shutdown(s, f, "full")
  ELSE IF p \in s.exists THEN s
  ELSE Login([s EXCEPT !.exists = @ \cup {p}], f, p)

check_connect(s, f, l) ==
  CASE l.verb = "connect guest" /\ s.logins ->
         IF FreeSlots(s) = {} THEN s
         ELSE LET g == Guests[Min(FreeSlots(s))] IN Admit(MakeGuest(s, g), f, g)
    [] l.verb = "connect guest" /\ ~s.logins -> Refuse(s, f)
    [] l.verb = "connect" ->
         IF l.good /\ l.who \in s.exists THEN Admit(s, f, l.who) ELSE Refuse(s, f)
    [] l.verb = "create" -> Create(s, f, l.who)
    [] OTHER -> s
----------------------------------------------------------------------------
(***************************************************************************)
(* Commands of players.                                                    *)
(***************************************************************************)
(* logged_out: QUIT and LOGOUT are for the connection used last.           *)
LastUsed(s, p) ==
  LET chain == s.hash[p]
      recent == {i \in DOMAIN chain :
                   \A j \in DOMAIN chain : s.conn[chain[i]].age <= s.conn[chain[j]].age}
  IN chain[Min(recent)]

(* All connections of p have this program now.                             *)
SetProgram(s, p, prog) ==
  [s EXCEPT !.conn = [f \in Sockets |->
     IF f \in Range(s.hash[p]) THEN [s.conn[f] EXCEPT !.program = prog]
     ELSE s.conn[f]]]

Programmed(s, p) == \E f \in Range(s.hash[p]) : s.conn[f].program # 0

do_prog(s, p) ==
  LET new == CHOOSE i \in 1..Cardinality(Players) : i \notin s.programs
  IN IF p \notin s.connected \/ Programmed(s, p) THEN s
     ELSE SetProgram([s EXCEPT !.programs = @ \cup {new}, !.progcmd = @ \cup {p}],
                     p, new)

(* do_quitprog, and handle_prog when a line has been read.                 *)
EndProgram(s, p) ==
  IF s.hash[p] = <<>> \/ s.conn[Head(s.hash[p])].program = 0 THEN s
  ELSE SetProgram(FreeProgram(s, p, s.conn[Head(s.hash[p])].program), p, 0)

(* process_command, as far as connections go.  Only God may do to others.  *)
process_command(s, p, l) ==
  LET mine == p = God \/ l.who = p other == p = God /\ l.who # p IN
  CASE l.verb \in {"QUIT", "LOGOUT"} /\ s.hash[p] # <<>> ->
         Shutdown(s, LastUsed(s, p), l.verb)
    [] l.verb = "@boot" /\ other -> boot_off(s, l.who)
    [] l.verb = "@destroy" /\ other /\ l.who \in s.exists -> destroy_player(s, l.who)
    [] l.verb = "@program" /\ mine -> do_prog(s, l.who)
    [] l.verb = "@quitprogram" /\ mine /\ l.who \in s.connected -> EndProgram(s, l.who)
    [] l.verb = "@logins" /\ p = God -> [s EXCEPT !.logins = ~@]
    [] OTHER -> s

do_command(s, f, l) ==
  CASE IsConnected(s, f) -> process_command(s, s.conn[f].player, l)
    [] ~IsConnected(s, f) /\ l.verb \in {"QUIT", "LOGOUT"} -> Shutdown(s, f, l.verb)
    [] OTHER -> check_connect(s, f, l)

handle_prog(s, f, l) ==
  IF l.piped THEN do_command(s, f, l) ELSE EndProgram(s, s.conn[f].player)

(* do_restart: dump_restart_db and load_restart_db.  What was typed and not *)
(* yet run, programs and the queue are lost; the hash chains come out in   *)
(* the reverse of the list.                                                *)
Restarted(s) ==
  LET of(p) == Only(s.list, {f \in Sockets : s.conn[f].player = p})
  IN [s EXCEPT
       !.conn = [f \in Sockets |->
          IF ~s.conn[f].open THEN Closed
          ELSE [s.conn[f] EXCEPT !.retries = RetryLimit, !.quota = QuotaMax,
                                 !.input = <<>>, !.program = 0]],
       !.hash = [p \in Players |-> Reverse(of(p))],
       !.connected = {p \in Players : of(p) # <<>>},
       !.programs = {}, !.queue = <<>>]
----------------------------------------------------------------------------
(***************************************************************************)
(* What is kept twice agrees.                                              *)
(***************************************************************************)
(* The list holds the open connections, each once, and nothing is left of  *)
(* a closed one.                                                           *)
ListAgrees(s) ==
  /\ IsInjective(s.list)
  /\ Range(s.list) = {f \in Sockets : s.conn[f].open}
  /\ \A f \in Sockets : ~s.conn[f].open =>
       s.conn[f].player = Nobody /\ s.conn[f].program = 0 /\ s.conn[f].input = <<>>

(* The chain of a player holds their connections, each once, and they are  *)
(* flagged CONNECTED and exist as long as there is one: what WHO, @boot,   *)
(* disconnecting and make_guest go by (desc_addhash, announce_disconnect,  *)
(* boot_off, do_restart).                                                  *)
ChainsAgree(s) ==
  \A p \in Players :
    /\ IsInjective(s.hash[p])
    /\ Range(s.hash[p]) = {f \in Sockets : s.conn[f].player = p}
    /\ p \in s.connected <=> s.hash[p] # <<>>
    /\ p \in s.connected => p \in s.exists

(* All connections of a player read for the same program, which has not    *)
(* been freed; and one that exists is read for (do_prog, check_connect,    *)
(* handle_prog, _bsd_conn_shutdown).                                       *)
ProgramsShared(s) ==
  /\ \A f \in Sockets : s.conn[f].program # 0 =>
       s.conn[f].program \in s.programs /\ s.conn[f].player \in s.progcmd
  /\ \A f, g \in Sockets : s.conn[f].program # 0 =>
       (s.conn[f].program = s.conn[g].program <=> s.conn[f].player = s.conn[g].player)
  /\ s.programs \subseteq {s.conn[f].program : f \in Sockets}

Agree(s) == ListAgrees(s) /\ ChainsAgree(s) /\ ProgramsShared(s)
=============================================================================
