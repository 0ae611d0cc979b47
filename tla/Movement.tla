------------------------------ MODULE Movement ------------------------------
(***************************************************************************)
(* Moving and destroying objects.  A move runs attributes of the places    *)
(* and of the thing (did_it), and the functions in them (tel(), force(),   *)
(* create(), command()) run further commands to their end before the move  *)
(* goes on.  What is still to be done is a stack of frames, the innermost  *)
(* first; a loop over a list is a frame that holds the object it goes on   *)
(* with, as the code does.  move.c, wiz.c (do_teleport), create.c          *)
(* (do_destroy, do_link), object.c (divest_object, empty_obj, destroy_obj). *)
(***************************************************************************)
EXTENDS ObjectLists

CONSTANTS
  HOME,        (* the destination that stands for one's home               *)
  Sticky,      (* rooms and things that are STICKY                         *)
  Key,         (* things set KEY that are not controlled by their carrier  *)
  Hearers,     (* who is connected and hears: Dropper                      *)
  Start,       (* the databases the game may start with, each with the     *)
               (* commands that are given in it                            *)
  Actors       (* who gives commands, or is forced to                      *)

CONSTANT
  MaxHooked    (* bound: commands run by attributes during one command     *)

ASSUME MovementAssumption ==
  /\ HOME \notin Obj \cup {NOTHING}
  /\ Sticky \cup Key \cup Hearers \subseteq Obj
  /\ Start \subseteq Databases \X SUBSET STRING
  /\ MaxHooked \in Nat

VARIABLES
  db,          (* the objects                                              *)
  stack,       (* what the server is in the middle of, innermost first     *)
  hooked,      (* commands run by attributes in the present command        *)
  ops          (* the commands that are given: a bound, which never changes *)

vars == <<db, stack, hooked, ops>>

FrameOps ==
  {"leaving", "moving", "arrived", "divest", "keys", "sticky", "sweep",
   "dropped", "empty", "flush", "unexit", "destroy", "settle"}
Frame(op, x, y) == [op |-> op, x |-> x, y |-> y]
Frames == [op : FrameOps, x : Dbref, y : Dbref]

TypeOK ==
  /\ db \in Databases
  /\ stack \in Seq(Frames)
  /\ hooked \in 0..MaxHooked

Top == Head(stack)
Rest == Tail(stack)

(* The database is d now, and these frames take the place of the top one.  *)
Then(d, frames) ==
  /\ db' = d
  /\ stack' = frames \o Rest
  /\ UNCHANGED <<hooked, ops>>
----------------------------------------------------------------------------
(***************************************************************************)
(* Calls, as the frames they stand for.                                    *)
(***************************************************************************)
(* The object one goes to.                                                 *)
Destination(d, x, dest) == IF dest = HOME THEN d.link[x] ELSE dest

(* process_leave_loc runs attributes unless one does not leave or does not *)
(* go to an object.                                                        *)
Leaves(d, x, to) == d.location[x] \notin {NOTHING, to} /\ Good(d, to)

(* Mutant of move_via_generic: HOME is not looked up.                      *)
move_via_generic_anywhere(d, x, dest) ==
  <<Frame(IF Leaves(d, x, dest) THEN "leaving" ELSE "moving", x, dest)>>

move_via_generic(d, x, dest) ==
  LET to == Destination(d, x, dest) IN
  IF dest = HOME /\ ~Good(d, to) THEN <<>>
  ELSE <<Frame(IF Leaves(d, x, to) THEN "leaving" ELSE "moving", x, to)>>

divest_object(x) == <<Frame("divest", x, NOTHING)>>
process_sticky_dropto(place) == <<Frame("sticky", place, NOTHING)>>

send_dropto(d, x) ==
  LET dropto == IF d.location[x] = NOTHING THEN NOTHING
                ELSE d.location[d.location[x]]
      dest == IF x \notin Sticky /\ Good(d, dropto) THEN dropto ELSE HOME
  IN move_via_generic(d, x, dest) \o divest_object(x)

empty_obj(x) == <<Frame("empty", x, NOTHING)>>
destroy_obj(x) == <<Frame("destroy", x, NOTHING)>>

(* destroy_thing, destroy_player and destroy_exit, and what is done to a   *)
(* room.                                                                   *)
Destroy(d, x) ==
  CASE d.type[x] = "thing" ->
         move_via_generic(d, x, NOTHING) \o empty_obj(x) \o destroy_obj(x)
    [] d.type[x] = "player" ->
         move_via_generic(d, x, NOTHING) \o destroy_obj(x)
    [] d.type[x] = "room" -> empty_obj(x) \o destroy_obj(x)
    [] d.type[x] = "exit" -> <<Frame("unexit", x, NOTHING)>> \o destroy_obj(x)
    [] OTHER -> <<>>
----------------------------------------------------------------------------
(***************************************************************************)
(* Commands.  One is given to an idle server, or by an attribute that is   *)
(* being run.                                                              *)
(***************************************************************************)
Runs(op) == op \in {"leaving", "arrived"}

Give(command, d, frames) ==
  /\ command \in ops
  /\ IF stack = <<>> THEN hooked' = 0
     ELSE Runs(Top.op) /\ hooked < MaxHooked /\ hooked' = hooked + 1
  /\ db' = d
  /\ stack' = frames \o stack
  /\ UNCHANGED ops

Movable(p) == Has_location(db, p)
Acts(p) == p \in Actors /\ Movable(p)
Loc(x) == db.location[x]

(* home *)
GoHome(p) ==
  /\ Acts(p)
  /\ Give("home", db, move_via_generic(db, p, HOME) \o divest_object(p)
                        \o process_sticky_dropto(Loc(p)))

(* get *)
Get(p, x) ==
  /\ Acts(p) /\ Good(db, Loc(p))
  /\ Has_location(db, x) /\ x # p /\ Loc(x) # p
  /\ \/ Loc(x) = Loc(p)
     \/ Loc(x) \in Obj /\ Movable(Loc(x)) /\ Loc(Loc(x)) = Loc(p)
  /\ Give("get", db, move_via_generic(db, x, p))

(* drop *)
Drop(p, x) ==
  /\ Acts(p) /\ Good(db, Loc(p))
  /\ Has_location(db, x) /\ Loc(x) = p
  /\ Give("drop", db, move_via_generic(db, x, Loc(p))
                        \o <<Frame("dropped", x, NOTHING)>>)

(* enter, do_enter_internal *)
Enter(p, x) ==
  /\ Acts(p) /\ Movable(x) /\ p # x /\ Good(db, Loc(p))
  /\ Give("enter", db, move_via_generic(db, p, x) \o divest_object(p)
                         \o process_sticky_dropto(Loc(p)))

(* leave *)
Leave(p) ==
  /\ Acts(p) /\ Good(db, Loc(p))
  /\ db.type[Loc(p)] # "room" /\ ~Going(db, Loc(p))
  /\ Good(db, Loc(Loc(p)))
  /\ Give("leave", db, move_via_generic(db, p, Loc(Loc(p))))

(* An exit is used: move_exit, move_via_exit.  Attributes of the exit run   *)
(* first, even if it leads to where one is.                                *)
UseExit(p, e) ==
  /\ Acts(p) /\ db.type[e] = "exit" /\ db.exits[e] = Loc(p)
  /\ LET dest == Loc(e) IN
     /\ Good(db, dest) /\ ~Going(db, dest) /\ db.type[dest] # "exit"
     /\ Give("exit", db,
             <<Frame("leaving", p, dest)>> \o process_sticky_dropto(Loc(p))
               \o (IF db.type[dest] = "room" THEN <<>> ELSE divest_object(p)))

(* @teleport, move_via_teleport.  Attributes of the thing run first, even  *)
(* if it stays where it is.                                                *)
Teleport(x, dest) ==
  /\ Movable(x)
  /\ \/ dest = HOME
     \/ dest # x /\ Good(db, dest) /\ ~Going(db, dest) /\ db.type[dest] # "exit"
  /\ LET to == Destination(db, x, dest) IN
     /\ Good(db, to)
     /\ Give("teleport", db, <<Frame("leaving", x, to)>> \o divest_object(x)
                               \o process_sticky_dropto(Loc(x)))

Destroying ==
  \E i \in DOMAIN stack : stack[i].op \in {"empty", "flush", "settle", "unexit", "destroy"}

(* The exits of a place are what names it as its source, each once.  Bound:*)
(* exits are not put elsewhere any more once that is broken (see           *)
(* OnlyPutBackBreaks).                                                     *)
ExitListsAgree ==
  Destroying \/ \A place \in Obj : IsPlace(db, place) => ExitsAgree(db, place)

(* Exits that are taken, dropped and put elsewhere: get, drop.             *)
CarryExit(e, place) ==
  /\ db.type[e] = "exit" /\ IsPlace(db, place) /\ db.exits[e] # place
  /\ Good(db, db.exits[e]) /\ ExitListsAgree
  /\ Give("carry", MoveExit(db, e, place), <<>>)

(* @teleport of an exit.  The heads of both lists are read before the exit *)
(* is taken off the one.                                                   *)
TeleportExit(e, place) ==
  /\ db.type[e] = "exit" /\ IsPlace(db, place) /\ ~Going(db, place)
  /\ Good(db, db.exits[e]) /\ ExitListsAgree
  /\ LET out == RemoveFirst(db, "exits", db.exits[e], e)
         in == [out EXCEPT !.next[e] = db.exits[place], !.exits[place] = e]
     IN Give("@teleport exit", [in EXCEPT !.exits[e] = place], <<>>)

(* @link of a thing to a home.                                             *)
Link(p, x, home) ==
  /\ Acts(p) /\ Movable(x) /\ can_set_home(db, x, home)
  /\ Give("@link", [db EXCEPT !.link[x] = home], <<>>)

(* create_destroyable, and no suicide.                                     *)
Destroyable(p, x) ==
  /\ Good(db, x) /\ x # DefaultHome
  /\ db.type[x] = "player" => x # p

(* @destroy *)
DestroyLater(p, x) ==
  /\ Acts(p) /\ Destroyable(p, x) /\ ~Going(db, x)
  /\ Give("@destroy", [db EXCEPT !.going = @ \cup {x}], <<>>)

(* @destroy/instant *)
DestroyNow(p, x) ==
  /\ Acts(p) /\ Destroyable(p, x)
  /\ Give("@destroy/instant", db, Destroy(db, x))

Command ==
  \/ \E p \in Obj : GoHome(p) \/ Leave(p) \/ Teleport(p, HOME)
  \/ \E p, x \in Obj :
       \/ Get(p, x) \/ Drop(p, x) \/ Enter(p, x) \/ UseExit(p, x)
       \/ Teleport(p, x) \/ CarryExit(p, x) \/ TeleportExit(p, x)
       \/ DestroyLater(p, x) \/ DestroyNow(p, x)
       \/ \E home \in Obj : Link(p, x, home)
----------------------------------------------------------------------------
(***************************************************************************)
(* The server goes on with the innermost frame.                            *)
(***************************************************************************)
At(op) == stack # <<>> /\ Top.op = op

(* The attributes of leaving have run; the thing is moved, out of where it *)
(* is by now.                                                              *)
MoveOn ==
  /\ At("leaving") \/ At("moving")
  /\ Then(MoveObject(db, Top.x, Top.y), <<Frame("arrived", Top.x, NOTHING)>>)

(* The attributes of arriving have run.                                    *)
Arrive == At("arrived") /\ Then(db, <<>>)

(* divest_object: things set KEY are sent home.  The next one is read      *)
(* before that.                                                            *)
Divest ==
  /\ At("divest")
  /\ Then(db, <<Frame("keys", Top.x, db.contents[Top.x])>>)

KeysHome ==
  /\ At("keys")
  /\ LET x == Top.y IN
     IF x = NOTHING THEN Then(db, <<>>)
     ELSE IF db.next[x] = x THEN Then(db, <<>>)
     ELSE Then(db, (IF x \in Key /\ Has_location(db, x)
                    THEN move_via_generic(db, x, HOME) ELSE <<>>)
                     \o <<Frame("keys", Top.x, db.next[x])>>)

(* process_sticky_dropto: a sticky room that nobody listens in is emptied  *)
(* through its dropto, last come last.                                     *)
Empties(room) ==
  /\ Good(db, room) /\ db.type[room] = "room" /\ room \in Sticky
  /\ db.location[room] \notin {NOTHING, room}
  /\ Ends(db.next, db.contents[room])
  /\ Chain(db.next, db.contents[room]) \cap Hearers = {}

StickyDropto ==
  /\ At("sticky")
  /\ IF Empties(Top.x)
     THEN LET d == Backwards(db, Top.x) IN
          Then(d, <<Frame("sweep", Top.x, d.contents[Top.x])>>)
     ELSE Then(db, <<>>)

(* Mutant of Sweep: it takes what is first in the room every time.         *)
SweepFirst ==
  /\ At("sweep")
  /\ LET x == db.contents[Top.x] IN
     IF x = NOTHING THEN Then(db, <<>>)
     ELSE Then(db, send_dropto(db, x) \o <<Frame("sweep", Top.x, NOTHING)>>)

Sweep ==
  /\ At("sweep")
  /\ LET x == Top.y IN
     IF x = NOTHING THEN Then(db, <<>>)
     ELSE IF db.next[x] = x THEN Then(db, <<>>)
     ELSE Then(db, send_dropto(db, x)
                     \o <<Frame("sweep", Top.x, db.next[x])>>)

(* process_dropped_dropto *)
Dropped ==
  /\ At("dropped")
  /\ LET x == Top.x
         place == db.location[x]
     IN IF x \in Sticky
        THEN Then(db, move_via_generic(db, x, HOME) \o divest_object(x))
        ELSE Then(db, IF /\ Good(db, place) /\ db.type[place] = "room"
                         /\ db.location[place] # NOTHING
                         /\ place \notin Sticky
                      THEN send_dropto(db, x) ELSE <<>>)

(* empty_obj: the contents are sent home one by one.  It stops at one that *)
(* is elsewhere.                                                           *)
Empty ==
  /\ At("empty")
  /\ Then(db, <<Frame("flush", Top.x, db.contents[Top.x])>>)

FlushContents ==
  /\ At("flush")
  /\ LET place == Top.x
         x == Top.y
         goes == x # NOTHING /\ db.next[x] # x /\ Has_location(db, x)
                   /\ db.location[x] = place
         out == [db EXCEPT !.location[x] = NOTHING, !.next[x] = NOTHING]
         d == IF db.link[x] = place
              THEN [out EXCEPT !.link[x] = new_home(out, x)] ELSE out
     IN IF goes
        THEN Then(d, move_via_generic(d, x, HOME) \o divest_object(x)
                       \o <<Frame("flush", place, db.next[x])>>)
        ELSE Then(db, <<Frame("settle", place, db.exits[place])>>)

(* ... and then the exits are destroyed.                                   *)
FlushExits ==
  /\ At("settle")
  /\ LET place == Top.x
         x == Top.y
         goes == x # NOTHING /\ db.next[x] # x /\ db.type[x] = "exit"
                   /\ db.exits[x] = place
     IN IF goes THEN Then(DestroyObj(db, x), <<Frame("settle", place, db.next[x])>>)
        ELSE Then(db, <<>>)

(* destroy_exit takes the exit off its list.                               *)
Unexit ==
  /\ At("unexit")
  /\ Then(RemoveFirst(db, "exits", db.exits[Top.x], Top.x), <<>>)

Finish == At("destroy") /\ Then(DestroyObj(db, Top.x), <<>>)

Proceed ==
  \/ MoveOn \/ Arrive \/ Divest \/ KeysHome \/ StickyDropto \/ Sweep
  \/ Dropped \/ Empty \/ FlushContents \/ FlushExits \/ Unexit \/ Finish
----------------------------------------------------------------------------
(***************************************************************************)
(* Properties                                                              *)
(***************************************************************************)
(* The contents of a place end, and are what names it as its location,     *)
(* each once: also in the middle of a move, of a divestiture and of a      *)
(* sweep, whatever the attributes that run then have moved elsewhere, and  *)
(* again after something is destroyed.                                     *)
ListsAgree ==
  Destroying \/ \A place \in Obj : IsPlace(db, place) => ContentsAgree(db, place)

(* Both parts of the invariant: types, and lists that agree with locations *)
(* (move.c: move_object; the callers that run attributes before it).       *)
MovementInv == TypeOK /\ ListsAgree

(* The exits of a place are what names it as its source, and               *)
(* only an exit that is teleported to where it already is breaks that: it  *)
(* is put before itself, and those before it are lost (wiz.c:193).         *)
PutBack == \E e, place \in Obj : place = db.exits[e] /\ TeleportExit(e, place)
OnlyPutBackBreaks == [][ExitListsAgree /\ ~PutBack => ExitListsAgree']_vars

(* Whatever is moved by the attributes that run in the middle of it, a     *)
(* command comes to its end: loops over lists that change under them reach *)
(* the end of some list.                                                   *)
CommandsEnd == stack # <<>> ~> stack = <<>>
----------------------------------------------------------------------------
Init ==
  /\ \E game \in Start : db = game[1] /\ ops = game[2]
  /\ stack = <<>> /\ hooked = 0
Next == Command \/ Proceed

(* A command is run to its end before the next is looked at.               *)
Spec == Init /\ [][Next]_vars /\ WF_vars(Proceed)
=============================================================================
