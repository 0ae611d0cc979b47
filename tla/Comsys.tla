------------------------------- MODULE Comsys -------------------------------
(***************************************************************************)
(* The channel module (comsys.c).  Who is on a channel is kept four times: *)
(* the hash table of aliases, each member's list of them, the channel's    *)
(* list of who is on it with their number, and the array of those among    *)
(* them who are connected.  All of it is a record, and a function of the   *)
(* code an operator on it; up is the set of players who are connected.     *)
(***************************************************************************)
EXTENDS Naturals, FiniteSets

CONSTANTS
  Users,     (* objects that are or may be players                         *)
  Things,    (* other objects, which hear whatever is said                 *)
  Channels,  (* names of channels                                          *)
  Public,    (* the channel new players join (public_channel)              *)
  Names      (* aliases for channels                                       *)

Members == Users \cup Things
NoChannel == "no channel"
pub == CHOOSE n \in Names : TRUE     (* public_calias                      *)

Switchboard ==
  [on : SUBSET Channels, owner : [Channels -> Users], loud : SUBSET Channels,
   who : [Channels -> SUBSET Members], num : [Channels -> Nat],
   listening : [Channels -> SUBSET Members], connected : [Channels -> SUBSET Members],
   channel : [Members -> [Names -> Channels \cup {NoChannel}]],
   comlist : [Members -> SUBSET Names]]

(* mod_comsys_make_minimal                                                 *)
Silence(god) ==
  [on |-> {Public}, owner |-> [ch \in Channels |-> god], loud |-> {},
   who |-> [ch \in Channels |-> {}], num |-> [ch \in Channels |-> 0],
   listening |-> [ch \in Channels |-> {}], connected |-> [ch \in Channels |-> {}],
   channel |-> [q \in Members |-> [n \in Names |-> NoChannel]],
   comlist |-> [q \in Members |-> {}]]
----------------------------------------------------------------------------
(***************************************************************************)
(* Lists and arrays.                                                       *)
(***************************************************************************)
is_onchannel(s, q, ch) == q \in s.who[ch]
is_listenchannel(s, q, ch) == q \in s.connected[ch] \cap s.listening[ch]

(* For each of these channels, none of which matters to another.           *)
update_comwho(s, chs, up) ==
  [s EXCEPT !.connected = [ch \in Channels |->
     IF ch \in chs THEN {q \in s.who[ch] : q \in Things \/ q \in up} ELSE @[ch]]]

Emptied(s, ch) ==
  [s EXCEPT !.num[ch] = 0, !.who[ch] = {}, !.listening[ch] = {}, !.connected[ch] = {}]

(* From each of these channels.  The last one's departure does not look    *)
(* for who it is.                                                          *)
remove_from_channel(s, q, chs, up) ==
  LET left == {ch \in chs : s.num[ch] # 0 /\ s.who[ch] # {}}
      Stay(set, ch) == IF ch \notin left THEN set
                       ELSE IF s.num[ch] = 1 THEN {} ELSE set \ {q}
  IN update_comwho(
       [s EXCEPT !.num = [ch \in Channels |-> IF ch \in left THEN @[ch] - 1 ELSE @[ch]],
                 !.who = [ch \in Channels |-> Stay(@[ch], ch)],
                 !.listening = [ch \in Channels |-> Stay(@[ch], ch)]], left, up)

(* zorch_alias_from_list and clear_chan_alias.                             *)
Unaliased(s, q, gone) ==
  [s EXCEPT !.comlist[q] = @ \ gone,
            !.channel[q] = [n \in Names |-> IF n \in gone THEN NoChannel ELSE @[n]]]

AliasesFor(s, q, ch) == {n \in s.comlist[q] : s.channel[q][n] = ch}

(* A lock that refuses somebody leaves everything as it was.               *)
join_channel(s, q, ch, n, up) ==
  IF s.channel[q][n] # NoChannel \/ ch \notin s.on THEN s
  ELSE LET named == [s EXCEPT !.channel[q][n] = ch, !.comlist[q] = @ \cup {n}]
       IN IF is_onchannel(s, q, ch) THEN named
          ELSE update_comwho([named EXCEPT !.who[ch] = @ \cup {q}, !.num[ch] = @ + 1,
                                           !.listening[ch] = @ \cup {q}], {ch}, up)

(* Mutant of channel_clr: only the channel of one alias is left.           *)
channel_clr_one(s, q, up) ==
  IF s.comlist[q] = {} THEN s
  ELSE LET n == CHOOSE k \in s.comlist[q] : TRUE
       IN remove_from_channel(Unaliased(s, q, s.comlist[q]), q, {s.channel[q][n]}, up)

channel_clr(s, q, up) ==
  remove_from_channel(Unaliased(s, q, s.comlist[q]), q,
                      {s.channel[q][n] : n \in s.comlist[q]}, up)

update_comwho_all(s, up) == update_comwho(s, s.on, up)

(* Mutant of comsys_chown: the new owner is not looked for (NOTHING).      *)
comsys_chown_nothing(s, from, to) ==
  [s EXCEPT !.owner = [ch \in Channels |->
     IF ch \in s.on /\ @[ch] = from THEN 0 ELSE @[ch]]]
comsys_chown(s, from, to) ==
  [s EXCEPT !.owner = [ch \in Channels |->
     IF ch \in s.on /\ @[ch] = from THEN to ELSE @[ch]]]
----------------------------------------------------------------------------
(***************************************************************************)
(* Commands.                                                               *)
(***************************************************************************)
do_ccreate(s, p, ch) ==
  IF ch \in s.on THEN s
  ELSE [Emptied(s, ch) EXCEPT !.on = @ \cup {ch}, !.owner[ch] = p, !.loud = @ \ {ch}]

(* @channel: the owner, and whether it is loud.                            *)
do_channel(s, ch, owner, loud) ==
  IF ch \notin s.on THEN s
  ELSE [s EXCEPT !.owner[ch] = owner,
                 !.loud = IF loud THEN @ \cup {ch} ELSE @ \ {ch}]

do_cdestroy(s, ch) ==
  IF ch \notin s.on THEN s
  ELSE [Emptied(s, ch) EXCEPT
          !.on = @ \ {ch},
          !.channel = [q \in Members |->
            [n \in Names |-> IF @[q][n] = ch THEN NoChannel ELSE @[q][n]]],
          !.comlist = [q \in Members |-> {n \in @[q] : s.channel[q][n] # ch}]]

(* Mutant of do_cboot: the first alias for the channel is cleared.         *)
do_cboot_once(s, q, ch, up) ==
  IF ~is_onchannel(s, q, ch) THEN s
  ELSE remove_from_channel(
         Unaliased(s, q, {CHOOSE n \in AliasesFor(s, q, ch) : TRUE}), q, {ch}, up)

do_cboot(s, q, ch, up) ==
  IF ~is_onchannel(s, q, ch) THEN s
  ELSE remove_from_channel(Unaliased(s, q, AliasesFor(s, q, ch)), q, {ch}, up)

do_delcom(s, q, n, up) ==
  LET ch == s.channel[q][n]
      less == Unaliased(s, q, {n})
  IN IF ch = NoChannel THEN s
     ELSE IF AliasesFor(less, q, ch) # {} THEN less
     ELSE remove_from_channel(less, q, {ch}, up)

(* process_comsys: <alias> on and <alias> off.                             *)
process_comsys(s, q, n, on) ==
  LET ch == s.channel[q][n]
  IN IF ch = NoChannel \/ ~is_onchannel(s, q, ch) THEN s
     ELSE [s EXCEPT !.listening[ch] = IF on THEN @ \cup {q} ELSE @ \ {q}]
----------------------------------------------------------------------------
(***************************************************************************)
(* What the server calls.                                                  *)
(***************************************************************************)
(* Mutant of mod_comsys_announce_connect: only loud channels are updated.  *)
announce_connect_loud(s, p, up) ==
  update_comwho(s, {ch \in s.on \cap s.loud : is_onchannel(s, p, ch)}, up)

mod_comsys_announce_connect(s, p, up) ==
  update_comwho(s, {ch \in s.on : is_onchannel(s, p, ch)}, up)

(* A channel that says nothing of it keeps who has left in its array.      *)
mod_comsys_announce_disconnect(s, p, up) ==
  update_comwho(s, {ch \in s.on \cap s.loud :
                      is_onchannel(s, p, ch) /\ is_listenchannel(s, p, ch)}, up)

(* mod_comsys_dump_database and mod_comsys_load_database: channels and     *)
(* aliases are written, and who is on them follows from the aliases.  Then *)
(* mod_comsys_cleanup_startup.                                             *)
Restored(s, up) ==
  LET on(ch) == {q \in Members : \E n \in Names : s.channel[q][n] = ch}
      read == [s EXCEPT
        !.who = [ch \in Channels |-> on(ch)],
        !.num = [ch \in Channels |-> Cardinality(on(ch))],
        !.listening = [ch \in Channels |-> @[ch] \cap on(ch)],
        !.connected = [ch \in Channels |-> {}],
        !.comlist = [q \in Members |-> {n \in Names : s.channel[q][n] # NoChannel}]]
  IN update_comwho_all(read, up)
=============================================================================
