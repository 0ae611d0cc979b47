------------------------------ MODULE Modules -------------------------------
(***************************************************************************)
(* The server's hooks for modules (call_all_modules and the loops over     *)
(* mushstate.modules_list), with the mail and the channel modules behind   *)
(* them: players connect, leave, are made and destroyed, the server is     *)
(* restarted, and in between players send mail and talk on channels.       *)
(***************************************************************************)
EXTENDS QueueOps

CONSTANTS
  Players, God, Texts, Slots, Folders,       (* see Mail                   *)
  Things, Channels, Public, Names,           (* see Comsys                 *)
  Budgets,         (* bounds: how many mail and channel commands are given *)
                   (* and how many connections each player has             *)
  Addressees       (* lists of recipients a player writes                  *)

INSTANCE Mail
INSTANCE Comsys WITH Users <- Players

ASSUME MailAssumption ==
  /\ Players \subseteq Nat \ {0} /\ God \in Players
  /\ Slots \subseteq Nat /\ 0 \in Slots /\ IsFiniteSet(Slots)
  /\ NoText \notin Texts
  /\ Folders \subseteq Nat /\ 0 \in Folders

ASSUME ComsysAssumption ==
  /\ IsFiniteSet(Players) /\ IsFiniteSet(Things) /\ Things \subseteq Nat \ Players
  /\ Public \in Channels /\ NoChannel \notin Channels /\ Names # {}

ASSUME ModulesAssumption ==
  /\ Budgets \subseteq [mail : Nat, channels : Nat, links : [Players -> Nat]]
  /\ Addressees \subseteq Recipients

VARIABLES
  exists,    (* objects that exist                                         *)
  links,     (* how many connections each player has                       *)
  post,      (* the mail                                                   *)
  com,       (* the channels                                               *)
  budget     (* the commands that are left                                 *)

vars == <<exists, links, post, com, budget>>

Living == exists \cap Players
Up(l) == {p \in Players : l[p] > 0}

TypeOK ==
  /\ exists \subseteq Members /\ God \in exists
  /\ \A p \in Players : links[p] \in 0 .. budget.links[p]
  /\ post \in Mailroom
  /\ com \in Switchboard

(* A new game has the wizard, the channel Public, and no more.             *)
Init ==
  /\ exists = {God} \cup Things
  /\ links = [p \in Players |-> 0]
  /\ post = NoMail
  /\ com = Silence(God)
  /\ budget \in Budgets
----------------------------------------------------------------------------
(***************************************************************************)
(* The hooks.                                                              *)
(***************************************************************************)
(* announce_connect                                                        *)
Connect(p) ==
  /\ p \in Living /\ links[p] < budget.links[p]
  /\ links' = [links EXCEPT ![p] = @ + 1]
  /\ com' = mod_comsys_announce_connect(com, p, Up(links'))
  /\ UNCHANGED <<exists, post, budget>>

(* announce_disconnect, of which both modules hear for every connection.   *)
Disconnect(p) ==
  /\ links[p] > 0
  /\ links' = [links EXCEPT ![p] = @ - 1]
  /\ com' = mod_comsys_announce_disconnect(com, p, Up(links'))
  /\ post' = do_mail_purge(post, p)
  /\ UNCHANGED <<exists, budget>>

(* create_player, under a number that may have been another's.             *)
CreatePlayer(p) ==
  /\ p \notin exists
  /\ exists' = exists \cup {p}
  /\ com' = join_channel(com, p, Public, pub, Up(links))
  /\ UNCHANGED <<links, post, budget>>

(* destroy_player: boot_off, the hooks of destroy_player, and those of     *)
(* destroy_obj; what the player owned is another's.                        *)
DestroyPlayer(p) ==
  /\ p \in Living \ {God}
  /\ exists' = exists \ {p}
  /\ links' = [links EXCEPT ![p] = 0]
  /\ \E to \in Living \ {p} :
       LET booted == IF links[p] = 0 THEN com
                     ELSE mod_comsys_announce_disconnect(com, p, Up(links'))
       IN com' = channel_clr(comsys_chown(booted, p, to), p, Up(links'))
  /\ post' = ForgetPlayer(IF links[p] = 0 THEN post ELSE do_mail_purge(post, p), p)
  /\ UNCHANGED budget

DestroyThing(x) ==
  /\ x \in exists \cap Things
  /\ exists' = exists \ {x}
  /\ com' = channel_clr(com, x, Up(links))
  /\ UNCHANGED <<links, post, budget>>

(* do_restart: both modules write their files and read them again, and     *)
(* players stay connected.                                                 *)
Restart ==
  /\ post' = Reloaded(post, Living)
  /\ com' = Restored(com, Up(links))
  /\ UNCHANGED <<exists, links, budget>>

(* Mail there is has been there for mail_expiration days.                  *)
DaysPass ==
  /\ post' = [post EXCEPT !.box = [p \in Players |->
       [i \in DOMAIN @[p] |-> [@[p][i] EXCEPT !.old = TRUE]]]]
  /\ UNCHANGED <<exists, links, com, budget>>

Hooks ==
  \/ \E p \in Players :
       Connect(p) \/ Disconnect(p) \/ CreatePlayer(p) \/ DestroyPlayer(p)
  \/ \E x \in Things : DestroyThing(x)
  \/ Restart \/ DaysPass
----------------------------------------------------------------------------
(***************************************************************************)
(* Commands.                                                               *)
(***************************************************************************)
(* Commands that are refused or find nothing to do change nothing.         *)
Mailed(new) ==
  /\ post' = new /\ post' # post
  /\ budget' = [budget EXCEPT !.mail = @ - 1]
  /\ UNCHANGED <<exists, links, com>>

(* @mail/quick, @mail and its drafts, @mail/fwd and @mail/reply.           *)
Write(p) ==
  \/ \E to \in Addressees, text \in Texts :
       \/ Mailed(do_mail_quick(post, p, to, text, Living))
       \/ Mailed(do_expmail_start(post, p, to, NoText, Living))
  \/ \E text \in Texts : Mailed(do_postpend(post, p, text))
  \/ Mailed(do_expmail_stop(post, p, Living))
  \/ Mailed(do_expmail_abort(post, p))
  \/ \E n \in DOMAIN Here(post, p), to \in Addressees :
       Mailed(do_mail_fwd(post, p, n, to, Living))
  \/ \E n \in DOMAIN Here(post, p) : Mailed(do_mail_reply(post, p, n, Living))

(* Lists of messages a player gives: all, the folder's, or one.            *)
Lists(p) == {All, Current} \cup DOMAIN post.box[p]
Sort(p) ==
  \/ \E list \in Lists(p) :
       \/ Mailed(do_mail_read(post, p, list))
       \/ Mailed(do_mail_safe(post, p, list))
       \/ Mailed(do_mail_clear(post, p, list))
       \/ Mailed(do_mail_unclear(post, p, list))
       \/ \E f \in Folders : Mailed(do_mail_file(post, p, list, f))
  \/ \E f \in Folders : Mailed(do_mail_change_folder(post, p, f))
  \/ Mailed(do_mail_purge(post, p))
  \/ \E q \in Living, list \in {All, 1} : Mailed(do_mail_retract(post, p, q, list))

(* What only the wizard may do; the alias is the wizard's.                 *)
Postmaster ==
  \/ Mailed(do_mail_nuke(post))
  \/ \E q \in Living : Mailed(Wiped(post, q))
  \/ Mailed(Fixed(post, Living))
  \/ \E q \in Living : \/ Mailed(do_malias_create(post, <<q>>))
                       \/ Mailed(do_malias_add(post, q))
                       \/ Mailed(do_malias_remove(post, q))
  \/ Mailed(do_malias_delete(post))

(* No more slots are used than the bound allows.                           *)
EmptySlots == {n \in Slots : post.text[n] = NoText}
MailCommands ==
  /\ budget.mail > 0 /\ Cardinality(EmptySlots) > Cardinality(Players) + 1
  /\ \/ \E p \in Living : Write(p) \/ Sort(p)
     \/ Postmaster

Switched(new) ==
  /\ com' = new /\ com' # com
  /\ budget' = [budget EXCEPT !.channels = @ - 1]
  /\ UNCHANGED <<exists, links, post>>

Chat(q) ==
  \E n \in Names :
    \/ \E ch \in Channels : Switched(join_channel(com, q, ch, n, Up(links)))
    \/ Switched(do_delcom(com, q, n, Up(links)))
    \/ \E on \in BOOLEAN : Switched(process_comsys(com, q, n, on))
Clearcom(q) == Switched(channel_clr(com, q, Up(links)))

(* check_owned_channel                                                     *)
Owned(p, ch) == ch \in com.on /\ p \in {God, com.owner[ch]}
Administer(p, ch) ==
  \/ p = God /\ Switched(do_ccreate(com, p, ch))
  \/ /\ Owned(p, ch)
     /\ \/ Switched(do_cdestroy(com, ch))
        \/ \E to \in Living, loud \in BOOLEAN : Switched(do_channel(com, ch, to, loud))
        \/ \E q \in Members : Switched(do_cboot(com, q, ch, Up(links)))

ChannelCommands ==
  /\ budget.channels > 0
  /\ \/ \E q \in exists : Chat(q) \/ Clearcom(q)
     \/ \E p \in Living, ch \in Channels : Administer(p, ch)

Next == Hooks \/ MailCommands \/ ChannelCommands
Spec == Init /\ [][Next]_vars
----------------------------------------------------------------------------
(***************************************************************************)
(* Properties.                                                             *)
(***************************************************************************)
Shown(n) == Cardinality(Showing(post.box, n))

(* Whatever is deleted, retracted, expired or saved and read again, and    *)
(* whoever used the slot before: a message shows what was sent (mail.c:    *)
(* add_mail_message, delete_mail_message, mod_mail_load_database).         *)
MailReadsTrue ==
  \A p \in Players : \A i \in DOMAIN post.box[p] :
    post.text[post.box[p][i].number] = post.box[p][i].sent

(* A slot counts at least the messages that show it, and has no count      *)
(* without a text: no text goes before its last reader (mail.c:            *)
(* add_count, delete_mail_message).                                        *)
CountsCover ==
  \A n \in Slots : /\ post.count[n] >= Shown(n)
                   /\ post.text[n] = NoText => post.count[n] = 0

(* The invariant of the mail module: types, and texts that are counted and *)
(* shown as they were sent (mail.c).                                       *)
MailInv == TypeOK /\ MailReadsTrue /\ CountsCover

(* Texts are given back: a slot counts one less for every message that     *)
(* showed it and is gone (mail.c: do_mail_purge, do_mail_retract,          *)
(* check_mail_expiration, do_mail_nuke, mod_mail_load_database).           *)
TextsGivenBack ==
  [][\A n \in Slots :
       LET gone == Shown(n) - Shown(n)'
       IN gone > 0 => post'.count[n] <= post.count[n] - gone]_vars

(* @mail/nuke and @mail/debug apart, a message that is safe, read and not       *)
(* cleared stays in its list as long as the player exists: neither its     *)
(* sender nor age, other messages' deletion or a restart takes it (mail.c: *)
(* do_mail_retract, do_mail_purge, check_mail_expiration).                 *)
Kept(m) == m.safe /\ m.read /\ ~m.cleared
Likeness(m) == <<m.from, m.number, m.sent>>
SafeStays ==
  [][\/ post' = do_mail_nuke(post)
     \/ \A p \in Living \cap exists' :
          \/ post' = Wiped(post, p)
          \/ \A i \in DOMAIN post.box[p] : Kept(post.box[p][i]) =>
               \E j \in DOMAIN post'.box[p] :
                 Likeness(post'.box[p][j]) = Likeness(post.box[p][i])]_vars

(* Who is told that a message was sent to them finds it in their list: the *)
(* slot's count does not grow without a list that grows (mail.c:           *)
(* send_mail and do_mail_retract; help.txt, @mail/quick).                  *)
MailArrives ==
  [][\A n \in Slots :
       post'.count[n] > post.count[n] =>
         Shown(n)' - Shown(n)
           = post'.count[n] - post.count[n]]_vars

(* The four records of who is on a channel agree: the aliases, the lists   *)
(* of aliases, who is on the channel and how many (comsys.c: join_channel, *)
(* remove_from_channel, do_cboot, do_cdestroy).                            *)
ChannelsAgree ==
  /\ \A q \in Members, n \in Names : com.channel[q][n] # NoChannel <=> n \in com.comlist[q]
  /\ \A ch \in Channels :
       /\ com.who[ch] = {q \in Members : AliasesFor(com, q, ch) # {}}
       /\ com.num[ch] = Cardinality(com.who[ch])
       /\ com.listening[ch] \subseteq com.who[ch]
       /\ com.who[ch] # {} => ch \in com.on

(* A message on a channel reaches whoever is on it and connected, and      *)
(* com_message never looks at a member that was freed (comsys.c:           *)
(* update_comwho and those that have to call it).                          *)
MembersHear ==
  \A ch \in Channels :
    /\ com.connected[ch] \subseteq com.who[ch]
    /\ \A q \in com.who[ch] :
         q \in Things \/ q \in Up(links) => q \in com.connected[ch]

(* Nobody who was destroyed is on a channel or owns one (comsys.c:         *)
(* mod_comsys_destroy_obj, mod_comsys_destroy_player).                     *)
GoneAreGone ==
  \A ch \in com.on : com.who[ch] \subseteq exists /\ com.owner[ch] \in Living

(* The invariant of the channel module: its records agree, members hear,   *)
(* and nobody who is gone is left in them (comsys.c).                      *)
ChannelsInv == ChannelsAgree /\ MembersHear /\ GoneAreGone
=============================================================================
