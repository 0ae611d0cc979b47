-------------------------------- MODULE Mail --------------------------------
(***************************************************************************)
(* The mail module (mail.c): texts are kept once, in numbered slots with a *)
(* count of the messages that show them; each player has a list of         *)
(* messages, which a hash table finds by the player's number.  All of it   *)
(* is a record, and a function of the code an operator on it.              *)
(***************************************************************************)
EXTENDS QueueOps

CONSTANTS
  Players,     (* numbers of objects that are or may be players: 1, 2, ... *)
  God,         (* the wizard                                               *)
  Texts,       (* what players write                                       *)
  Slots,       (* the slots there may be: 0, 1, ... (a bound)              *)
  Folders      (* the folders of a player: 0, 1, ...                       *)

NoText == "none"
BadAlias == "alias error"   (* what God is told of members who are gone    *)
Nobody == 0
Alias == 0                  (* stands for an alias in a list of recipients *)
Recipients == Seq(Players \cup {Alias})
Current == 0                (* a list of messages: those of the folder     *)
All == -1                   (* a list of messages: all of them             *)

(* A message.  What it said when it was sent is not in the code.           *)
Message ==
  [from : Players, number : Slots, folder : Folders, read : BOOLEAN,
   cleared : BOOLEAN, safe : BOOLEAN, old : BOOLEAN, sent : Texts \cup {BadAlias}]

(* A message in the making: PLAYER_MAILS, A_MAILTO and A_MAILMSG.          *)
Draft == [on : BOOLEAN, to : Recipients, text : Texts \cup {NoText, BadAlias}]
NoDraft == [on |-> FALSE, to |-> <<>>, text |-> NoText]

(* shut: those who have an entry without a list in the hash table.         *)
Mailroom ==
  [text : [Slots -> Texts \cup {NoText, BadAlias}], count : [Slots -> Nat],
   free : Slots, box : [Players -> Seq(Message)], folder : [Players -> Folders],
   shut : SUBSET Players, draft : [Players -> Draft],
   alias : Seq(Players), aliased : BOOLEAN]

NoMail ==
  [text |-> [n \in Slots |-> NoText], count |-> [n \in Slots |-> 0], free |-> 0,
   box |-> [p \in Players |-> <<>>], folder |-> [p \in Players |-> 0],
   shut |-> {}, draft |-> [p \in Players |-> NoDraft],
   alias |-> <<>>, aliased |-> FALSE]
----------------------------------------------------------------------------
(***************************************************************************)
(* Slots.                                                                  *)
(***************************************************************************)
(* make_mail_freelist: the first empty one; another is made where all are full. *)
FirstEmpty(text) == CHOOSE n \in Slots :
  text[n] = NoText /\ \A k \in Slots : k < n => text[k] # NoText

(* add_mail_message gives a text this number; it counts for nothing yet.   *)
(* Mutant of NewNumber: it does not look whether that one is still empty.  *)
NewNumber_free(s) == s.free
NewNumber(s) == IF s.text[s.free] = NoText THEN s.free ELSE FirstEmpty(s.text)
add_mail_message(s, text) ==
  LET full == [s EXCEPT !.text[NewNumber(s)] = text]
  IN [full EXCEPT !.free = FirstEmpty(full.text)]

(* delete_mail_message, as often as less[n] says for each slot n.          *)
delete_mail_message(s, less) ==
  [s EXCEPT !.count = [n \in Slots |-> IF @[n] > less[n] THEN @[n] - less[n] ELSE 0],
            !.text = [n \in Slots |-> IF less[n] = 0 \/ s.count[n] > less[n]
                                      THEN @[n] ELSE NoText]]

(* The messages that show a slot: whose they are, and their places.        *)
Showing(box, n) ==
  {m \in UNION {{p} \X DOMAIN box[p] : p \in Players} : box[m[1]][m[2]].number = n}

(* The places of a list, in order, and what is left of the list when the   *)
(* messages at these places are unlinked.                                  *)
Order(list) == [i \in DOMAIN list |-> i]
Left(list, gone) ==
  LET kept == Without(Order(list), gone) IN [k \in DOMAIN kept |-> list[kept[k]]]

(* The messages at gone[p] are unlinked from the list of p, for every p,   *)
(* and their texts given back.                                             *)
Delete(s, gone) ==
  LET less == [n \in Slots |->
                 Cardinality({m \in Showing(s.box, n) : m[2] \in gone[m[1]]})]
  IN delete_mail_message(
       [s EXCEPT !.box = [p \in Players |-> Left(@[p], gone[p])]], less)
Of(p, places) == [q \in Players |-> IF q = p THEN places ELSE {}]

Cleared(s, p) == {i \in DOMAIN s.box[p] : s.box[p][i].cleared}

(* Mutant of do_mail_purge: texts are not given back.                      *)
do_mail_purge_kept(s, p) == [s EXCEPT !.box[p] = Left(@, Cleared(s, p))]
do_mail_purge(s, p) == Delete(s, Of(p, Cleared(s, p)))

(* Those among what p sent that nobody has read: all, or one by its place. *)
(* Where the list is at its end the table keeps an entry without a list.   *)
Sent(s, p, target, list) ==
  LET theirs == Only(Order(s.box[target]),
                     {i \in DOMAIN s.box[target] : s.box[target][i].from = p})
  IN IF list \in {Current, All} THEN Range(theirs)
     ELSE IF list \in DOMAIN theirs THEN {theirs[list]} ELSE {}
do_mail_retract(s, p, target, list) ==
  LET gone == {i \in Sent(s, p, target, list) : ~s.box[target][i].read}
      left == Delete(s, Of(target, gone))
  IN IF gone # {} /\ left.box[target] = <<>>
     THEN [left EXCEPT !.shut = @ \cup {target}] ELSE left

do_mail_nuke(s) ==
  [Delete(s, [p \in Players |-> DOMAIN s.box[p]]) EXCEPT !.shut = {}]

(* Mutant of check_mail_expiration: safe messages are not excepted.        *)
check_mail_expiration_all(s) ==
  Delete(s, [p \in Players |-> {i \in DOMAIN s.box[p] : s.box[p][i].old}])
check_mail_expiration(s) ==
  Delete(s, [p \in Players |->
               {i \in DOMAIN s.box[p] : s.box[p][i].old /\ ~s.box[p][i].safe}])
----------------------------------------------------------------------------
(***************************************************************************)
(* Sending.                                                                *)
(***************************************************************************)
(* send_mail, to all of these, who are players.  Where the table has an    *)
(* entry without a list, nhashadd fails and the message is in no list.     *)
send_mail(s, p, targets, number) ==
  LET m == [from |-> p, number |-> number, folder |-> 0, read |-> FALSE,
            cleared |-> FALSE, safe |-> FALSE, old |-> FALSE, sent |-> s.text[number]]
  IN [s EXCEPT !.count[number] = @ + Cardinality(targets),
               !.box = [q \in Players |-> IF q \in targets \ s.shut
                                          THEN Append(@[q], m) ELSE @[q]]]

(* God gets a message for every member of an alias that is gone.           *)
Tell(s) == send_mail(add_mail_message(s, BadAlias), God, {God}, NewNumber(s))
Told(s, times) ==
  LET told[k \in 0..times] == IF k = 0 THEN s ELSE Tell(told[k - 1])
  IN told[times]

(* mail_to_list: the text is stored, God is told of those who are gone, and *)
(* everyone else who is meant gets one message, not two.  Where the alias  *)
(* is gone, nothing is sent and the text stays where it is.                *)
mail_to_list(s, p, to, text, exists) ==
  LET number == NewNumber(s)
      stored == add_mail_message(s, text)
      aliased == Alias \in Range(to)
      named == (Range(to) \ {Alias}) \cup (IF aliased THEN Range(s.alias) ELSE {})
      gone == IF aliased THEN Range(s.alias) \ exists ELSE {}
  IN IF aliased /\ ~s.aliased THEN stored
     ELSE send_mail(Told(stored, Cardinality(gone)), p, named \cap exists, number)

(* make_numlist has found everyone who is named, or nothing is done.       *)
Known(s, to, exists) ==
  /\ to # <<>>
  /\ \A i \in DOMAIN to : IF to[i] = Alias THEN s.aliased ELSE to[i] \in exists

do_mail_quick(s, p, to, text, exists) ==
  IF s.draft[p].on \/ ~Known(s, to, exists) THEN s
  ELSE mail_to_list(s, p, to, text, exists)

do_expmail_start(s, p, to, text, exists) ==
  IF s.draft[p].on \/ ~Known(s, to, exists) THEN s
  ELSE [s EXCEPT !.draft[p] = [on |-> TRUE, to |-> to, text |-> text]]

do_postpend(s, p, text) ==
  IF ~s.draft[p].on THEN s ELSE [s EXCEPT !.draft[p].text = text]

do_expmail_abort(s, p) == [s EXCEPT !.draft[p] = NoDraft]

do_expmail_stop(s, p, exists) ==
  do_expmail_abort(IF s.draft[p].text = NoText THEN s
                   ELSE mail_to_list(s, p, s.draft[p].to, s.draft[p].text, exists), p)
----------------------------------------------------------------------------
(***************************************************************************)
(* One alias, which is God's and may be used by all.                       *)
(***************************************************************************)
do_malias_create(s, to) ==
  IF s.aliased THEN s ELSE [s EXCEPT !.aliased = TRUE, !.alias = to]
do_malias_add(s, q) ==
  IF ~s.aliased \/ q \in Range(s.alias) THEN s
  ELSE [s EXCEPT !.alias = Append(@, q)]
do_malias_remove(s, q) == [s EXCEPT !.alias = Without(@, {q})]
do_malias_delete(s) == [s EXCEPT !.aliased = FALSE, !.alias = <<>>]
----------------------------------------------------------------------------
(***************************************************************************)
(* Reading.  The numbers of a player's messages are their places in the    *)
(* current folder.                                                         *)
(***************************************************************************)
Here(s, p) ==
  Only(Order(s.box[p]), {i \in DOMAIN s.box[p] : s.box[p][i].folder = s.folder[p]})

(* parse_msglist and mail_match: a number, the current folder, or all.     *)
Selected(s, p, list) ==
  CASE list = All -> DOMAIN s.box[p]
    [] list = Current -> Range(Here(s, p))
    [] list \in DOMAIN Here(s, p) -> {Here(s, p)[list]}
    [] OTHER -> {}

(* The messages at these places are m(message) now.                        *)
Marked(s, p, places, m(_)) ==
  [s EXCEPT !.box[p] = [i \in DOMAIN @ |-> IF i \in places THEN m(@[i]) ELSE @[i]]]

(* Reading never leaves the folder.                                        *)
do_mail_read(s, p, list) ==
  Marked(s, p, Selected(s, p, list) \cap Range(Here(s, p)),
         LAMBDA m : [m EXCEPT !.read = TRUE])
do_mail_safe(s, p, list) ==
  Marked(s, p, Selected(s, p, list), LAMBDA m : [m EXCEPT !.safe = TRUE])
do_mail_clear(s, p, list) ==
  Marked(s, p, Selected(s, p, list), LAMBDA m : [m EXCEPT !.cleared = TRUE])
do_mail_unclear(s, p, list) ==
  Marked(s, p, Selected(s, p, list), LAMBDA m : [m EXCEPT !.cleared = FALSE])
do_mail_file(s, p, list, f) ==
  Marked(s, p, Selected(s, p, list), LAMBDA m : [m EXCEPT !.folder = f])
do_mail_change_folder(s, p, f) == [s EXCEPT !.folder[p] = f]

(* mail_fetch, then get_mail_message.                                      *)
do_mail_fwd(s, p, n, to, exists) ==
  IF n \notin DOMAIN Here(s, p) THEN s
  ELSE do_expmail_start(s, p, to, s.text[s.box[p][Here(s, p)[n]].number], exists)

(* The number of the player who sent it goes to make_numlist, which takes  *)
(* it for the number of a message and puts who sent that in its place.     *)
do_mail_reply(s, p, n, exists) ==
  IF s.draft[p].on \/ n \notin DOMAIN Here(s, p) THEN s
  ELSE LET k == s.box[p][Here(s, p)[n]].from
       IN IF k \notin DOMAIN Here(s, p) THEN s
          ELSE [s EXCEPT !.draft[p] =
                  [NoDraft EXCEPT !.on = TRUE, !.to = <<s.box[p][Here(s, p)[k]].from>>]]

(* @mail/debug: what is left of those who are no players is deleted; the   *)
(* messages of one player's folder are.                                    *)
Fixed(s, exists) ==
  Delete(s, [p \in Players |-> IF p \in exists THEN {} ELSE DOMAIN s.box[p]])
Wiped(s, p) == do_mail_purge(do_mail_clear(s, p, Current), p)

(* mod_mail_destroy_player; the attributes of the player go too.           *)
ForgetPlayer(s, p) ==
  [Wiped(s, p) EXCEPT !.folder[p] = 0, !.draft[p] = NoDraft]

(* mod_mail_dump_database and mod_mail_load_database: what is written are  *)
(* the messages of players and the texts that count, and messages are      *)
(* counted anew.  Then old ones are deleted (mod_mail_cleanup_startup).    *)
Reloaded(s, exists) ==
  LET kept == [p \in Players |-> IF p \in exists THEN s.box[p] ELSE <<>>]
  IN check_mail_expiration(
       [s EXCEPT !.box = kept, !.free = 0, !.shut = {},
                 !.text = [n \in Slots |-> IF s.count[n] > 0 THEN @[n] ELSE NoText],
                 !.count = [n \in Slots |-> Cardinality(Showing(kept, n))]])
=============================================================================
