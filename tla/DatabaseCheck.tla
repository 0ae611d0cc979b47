---------------------------- MODULE DatabaseCheck ----------------------------
(***************************************************************************)
(* The database check (@dbck, do_dbck), which the server makes when it     *)
(* starts, from time to time and before every dump: it clears references   *)
(* to what is gone, walks every list of exits and of contents, repairs     *)
(* what disagrees, sends home what is on no list, and destroys for good    *)
(* what is GOING.  Then the numbers of what was destroyed earlier are free *)
(* for new objects (create_obj).  object_check.c, object.c.                *)
(*                                                                         *)
(* The check walks lists with recursive calls, and it moves objects, which *)
(* run their attributes: it uses the stack of frames of Movement.          *)
(***************************************************************************)
EXTENDS Movement

CONSTANTS
  StackLimit,  (* frames that the stack of the server process holds        *)
  MaxGood      (* bound: objects there are when one more is created        *)

VARIABLES
  freelist,    (* mushstate.freelist, and numbers past the last in use     *)
  marks,       (* mushstate.markbits                                       *)
  crashed      (* the server process has run out of stack                  *)

checkVars == <<freelist, marks, crashed>>
allVars == <<db, stack, hooked, ops, freelist, marks, crashed>>

CheckOps == {"refs", "exit lists", "exit list", "scan exits", "own exit",
             "loose exits", "lists", "list", "scan", "own", "orphans", "purge", "checked"}
CheckFrame(op, x, y, back) == [op |-> op, x |-> x, y |-> y, back |-> back]

TypeOKCheck ==
  /\ db \in Databases
  /\ \A i \in 1..Len(stack) :
       stack[i] \in Frames \cup [op : CheckOps, x : Nat \cup {NOTHING}, y : Dbref,
                                 back : Dbref]
  /\ freelist \subseteq Obj
  /\ marks \subseteq Obj
  /\ crashed \in BOOLEAN

Checking == \E i \in 1..Len(stack) : stack[i].op \in CheckOps

(* Loops over all numbers: on to the first of these that is left.          *)
For(op) == <<CheckFrame(op, 0, NOTHING, NOTHING)>>
Left(some) == {x \in some : x >= Top.x}
OnFrom(x) == <<CheckFrame(Top.op, x + 1, NOTHING, NOTHING)>>
----------------------------------------------------------------------------
(* do_dbck, which starts with make_freelist: what is clean garbage now.    *)
make_freelist == {x \in Obj : IsClean(db, x)}
do_dbck == For("refs") \o For("exit lists") \o For("loose exits")
             \o For("lists") \o For("orphans") \o For("purge") \o For("checked")

StartCheck ==
  /\ stack = <<>>
  /\ freelist' = make_freelist
  /\ marks' = {}
  /\ stack' = do_dbck
  /\ hooked' = 0
  /\ UNCHANGED <<db, crashed, ops>>

(* Mutant of Dead: what is gone already is not dead.                       *)
DeadGoing(d, x) == Good(d, x) /\ Going(d, x)

(* check_dead_refs: what it does to one object, and to all in turn.        *)
Dead(d, x) == x \in Obj /\ (~Good(d, x) \/ Going(d, x))

check_dead_refs(d, x) ==
  LET homed == IF Dead(d, d.link[x]) THEN [d EXCEPT !.link[x] = new_home(d, x)]
               ELSE d
      placed == IF Good(d, d.location[x]) THEN homed
                ELSE LET out == [homed EXCEPT !.location[x] = NOTHING,
                                              !.next[x] = NOTHING]
                     IN IF Good(out, out.link[x])
                        THEN MoveObject(out, x, out.link[x]) ELSE out
      straight(e) == IF e.next[x] = x THEN [e EXCEPT !.next[x] = NOTHING] ELSE e
  IN CASE Has_location(d, x) /\ ~Going(d, x) -> straight(placed)
       [] d.type[x] = "room" /\ Dead(d, d.location[x]) ->
            [d EXCEPT !.location[x] = NOTHING]
       [] d.type[x] = "exit" ->
            straight(IF Dead(d, d.location[x])
                     THEN [d EXCEPT !.going = @ \cup {x}] ELSE d)
       [] OTHER -> d

CheckDeadRefs ==
  /\ At("refs")
  /\ LET wrong == Left({x \in Obj : check_dead_refs(db, x) # db})
         x == Min(wrong)
     IN IF wrong = {} THEN Then(db, <<>>)
        ELSE Then(check_dead_refs(db, x), OnFrom(x))
  /\ UNCHANGED marks
----------------------------------------------------------------------------
(***************************************************************************)
(* Lists of exits: check_exit_chains, check_loc_exits.                     *)
(***************************************************************************)
(* The list ends before this member.                                       *)
Cut(d, list, place, back) ==
  IF back = NOTHING THEN [d EXCEPT ![list][place] = NOTHING]
  ELSE [d EXCEPT !.next[back] = NOTHING]

(* The list passes this member over.                                       *)
Skip(d, list, place, back, x) ==
  IF back = NOTHING THEN [d EXCEPT ![list][place] = d.next[x]]
  ELSE [d EXCEPT !.next[back] = d.next[x]]

EachExitList ==
  /\ At("exit lists")
  /\ LET places == Left({x \in Obj : IsPlace(db, x)}) IN
     Then(db, IF places = {} THEN <<>>
              ELSE <<CheckFrame("exit list", Min(places), NOTHING, NOTHING)>>
                     \o OnFrom(Min(places)))
  /\ UNCHANGED marks

ExitList ==
  /\ At("exit list")
  /\ LET place == Top.x IN
     IF IsPlace(db, place) /\ ~Going(db, place) /\ place \notin marks
     THEN /\ marks' = marks \cup {place}
          /\ Then(db, <<CheckFrame("scan exits", place, db.exits[place], NOTHING)>>)
     ELSE Then(db, <<>>) /\ UNCHANGED marks

(* Mutant of KeepExit: it is not marked.                                   *)
KeepExitUnmarked(d, place, x) ==
  /\ UNCHANGED marks
  /\ IF d.next[x] = x THEN Then([d EXCEPT !.next[x] = NOTHING], <<>>)
     ELSE Then(d, <<CheckFrame("scan exits", place, d.next[x], x)>>)

(* A member that is all right, or has been put right, in database d.       *)
KeepExit(d, place, x) ==
  /\ marks' = marks \cup {x}
  /\ IF d.next[x] = x THEN Then([d EXCEPT !.next[x] = NOTHING], <<>>)
     ELSE Then(d, <<CheckFrame("scan exits", place, d.next[x], x)>>)

ScanExits ==
  /\ At("scan exits")
  /\ LET place == Top.x
         x == Top.y
         back == Top.back
     IN \/ x = NOTHING /\ Then(db, <<>>) /\ UNCHANGED marks
        \/ /\ x # NOTHING
           /\ \/ db.type[x] # "exit"
              \/ ~Going(db, x) /\ x \in marks
           /\ Then(Cut(db, "exits", place, back), <<>>)
           /\ UNCHANGED marks
        \/ /\ x # NOTHING /\ db.type[x] = "exit" /\ Going(db, x)
           /\ Then(DestroyObj(Skip(db, "exits", place, back, x), x),
                   <<CheckFrame("scan exits", place, db.next[x], back)>>)
           /\ UNCHANGED marks
        \/ /\ x # NOTHING /\ db.type[x] = "exit" /\ ~Going(db, x) /\ x \notin marks
           /\ IF db.location[x] \in Obj /\ ~Good(db, db.location[x])
              THEN KeepExit([db EXCEPT !.location[x] = NOTHING], place, x)
              ELSE IF db.exits[x] = place THEN KeepExit(db, place, x)
              ELSE /\ Then(db, (IF db.exits[x] = NOTHING THEN <<>>
                                ELSE <<CheckFrame("exit list", db.exits[x], NOTHING, NOTHING)>>)
                                 \o <<CheckFrame("own exit", place, x, back)>>)
                   /\ UNCHANGED marks

(* The place the exit names has been walked: either the exit was there, or *)
(* it is taken to be here.                                                 *)
OwnExit ==
  /\ At("own exit")
  /\ LET place == Top.x
         x == Top.y
     IN IF x \in marks
        THEN Then(Cut(db, "exits", place, Top.back), <<>>) /\ UNCHANGED marks
        ELSE KeepExit([db EXCEPT !.exits[x] = place], place, x)

(* Exits that were met on no list are destroyed.                           *)
LooseExits ==
  /\ At("loose exits")
  /\ LET loose == Left({x \in Obj \ marks : db.type[x] = "exit"}) IN
     IF loose = {} THEN Then(db, <<>>) /\ marks' = {}
     ELSE /\ Then(DestroyObj(db, Min(loose)), OnFrom(Min(loose)))
          /\ UNCHANGED marks
----------------------------------------------------------------------------
(***************************************************************************)
(* Contents: check_contents_chains, check_loc_contents,                    *)
(* check_misplaced_obj.                                                    *)
(***************************************************************************)
EachList ==
  /\ At("lists")
  /\ LET places == Left({x \in Obj : IsPlace(db, x)}) IN
     Then(db, IF places = {} THEN <<>>
              ELSE <<CheckFrame("list", Min(places), NOTHING, NOTHING)>>
                     \o OnFrom(Min(places)))
  /\ UNCHANGED marks

List ==
  /\ At("list")
  /\ LET place == Top.x IN
     Then(db, IF IsPlace(db, place) /\ ~Going(db, place)
              THEN <<CheckFrame("scan", place, db.contents[place], NOTHING)>> ELSE <<>>)
  /\ UNCHANGED marks

Keep(d, place, x) ==
  /\ marks' = marks \cup {x}
  /\ IF d.next[x] = x THEN Then([d EXCEPT !.next[x] = NOTHING], <<>>)
     ELSE Then(d, <<CheckFrame("scan", place, d.next[x], x)>>)

Scan ==
  /\ At("scan")
  /\ LET place == Top.x
         x == Top.y
         back == Top.back
     IN \/ x = NOTHING /\ Then(db, <<>>) /\ UNCHANGED marks
        \/ /\ x # NOTHING /\ ~Has_location(db, x)
           /\ Then(Cut(db, "contents", place, back), <<>>)
           /\ UNCHANGED marks
        \/ /\ x # NOTHING /\ Has_location(db, x) /\ db.location[x] = place
           /\ Keep(db, place, x)
        \/ /\ x # NOTHING /\ Has_location(db, x) /\ db.location[x] # place
           /\ marks' = marks \ {x}
           /\ Then(db, (IF Good(db, db.location[x])
                        THEN <<CheckFrame("list", db.location[x], NOTHING, NOTHING)>>
                        ELSE <<>>)
                         \o <<CheckFrame("own", place, x, back)>>)

(* Mutant of Own: what is here is not told so.                             *)
OwnUntold ==
  /\ At("own")
  /\ IF Top.y \in marks
     THEN Then(Cut(db, "contents", Top.x, Top.back), <<>>) /\ UNCHANGED marks
     ELSE Keep(db, Top.x, Top.y)

Own ==
  /\ At("own")
  /\ LET place == Top.x
         x == Top.y
     IN IF x \in marks
        THEN Then(Cut(db, "contents", place, Top.back), <<>>) /\ UNCHANGED marks
        ELSE Keep([db EXCEPT !.location[x] = place], place, x)

(* What was met on no list goes home.                                      *)
Orphans ==
  /\ At("orphans")
  /\ LET lost == Left({x \in Obj \ marks : Has_location(db, x) /\ ~Going(db, x)})
         x == Min(lost)
         d == [db EXCEPT !.location[x] = NOTHING, !.next[x] = NOTHING]
     IN Then(IF lost = {} THEN db ELSE d,
             IF lost = {} THEN <<>> ELSE move_via_generic(d, x, HOME) \o OnFrom(x))
  /\ UNCHANGED marks

(* purge_going *)
Purge ==
  /\ At("purge")
  /\ LET going == Left({x \in Obj : Good(db, x) /\ Going(db, x)}) IN
     Then(db, IF going = {} THEN <<>>
              ELSE Destroy(db, Min(going)) \o OnFrom(Min(going)))
  /\ UNCHANGED marks

Checked == At("checked") /\ Then(db, <<>>) /\ UNCHANGED marks

CheckStep ==
  /\ \/ CheckDeadRefs
     \/ EachExitList \/ ExitList \/ ScanExits \/ OwnExit \/ LooseExits
     \/ EachList \/ List \/ Scan \/ Own
     \/ Orphans \/ Purge \/ Checked
  /\ crashed' = (Len(stack') > StackLimit)
  /\ UNCHANGED freelist
----------------------------------------------------------------------------
(* create_obj takes a number from the freelist, and the new thing is moved *)
(* to who made it.  A damaged freelist is given up.                        *)
Create(p) ==
  /\ freelist # {} /\ Acts(p)
  /\ Cardinality({x \in Obj : Good(db, x)}) <= MaxGood
  /\ LET x == CHOOSE n \in freelist : \A m \in freelist : n <= m IN
     IF IsClean(db, x)
     THEN LET d == [db EXCEPT !.type[x] = "thing", !.going = @ \ {x},
                              !.link[x] = new_home(db, p)]
          IN /\ Give("@create", d, move_via_generic(d, x, p))
             /\ freelist' = freelist \ {x}
             /\ marks' = marks \ {x}
     ELSE /\ Give("@create", db, <<>>)
          /\ freelist' = {}
          /\ UNCHANGED marks
  /\ UNCHANGED crashed

(***************************************************************************)
(* Properties                                                              *)
(***************************************************************************)
(* Everything is somewhere, and all lists say so.                          *)
InOrder(d) ==
  /\ \A place \in Obj : IsPlace(d, place) => ContentsAgree(d, place) /\ ExitsAgree(d, place)
  /\ \A x \in Obj :
       /\ Has_location(d, x) => Good(d, d.location[x]) /\ d.type[d.location[x]] # "exit"
       /\ d.type[x] = "exit" => IsPlace(d, d.exits[x])

(* If a check comes to its end the database is in order, whatever a dump   *)
(* that was cut short has made of it.                                      *)
CheckPutsInOrder == [][At("checked") => InOrder(db)]_allVars

(* A number that may be given to a new object is not referred to any more: *)
(* nobody is in it or at home there, no exit or dropto leads there, and    *)
(* no list has it.                                                         *)
FreeIsUnreferenced ==
  stack = <<>> => \A x \in freelist : \A y \in Obj :
    Good(db, y) => x \notin {db[f][y] : f \in {"location", "contents", "exits", "next", "link"}}

(* The invariant: types, and numbers on the freelist that nobody refers to *)
(* (object_check.c: check_dead_refs; object.c: destroy_obj).               *)
RepairInv == TypeOKCheck /\ FreeIsUnreferenced

(* Contents that run in a ring, and contents each of which has, first of   *)
(* what is elsewhere, something that says it is in the next of them.       *)
Ring(d, p) ==
  LET list == Walk(d.next, d.contents[p]) IN
  ~Ends(d.next, d.contents[p]) /\ \A x \in Range(list) : d.next[x] # x

LeadsTo(d, p) ==
  LET list == Walk(d.next, d.contents[p])
      strays == {k \in DOMAIN list : Good(d, list[k]) /\ d.location[list[k]] # p}
  IN IF strays = {} THEN NOTHING ELSE d.location[list[Min(strays)]]

Crossed(d) ==
  \E places \in SUBSET {p \in Obj : IsPlace(d, p)} :
    places # {} /\ \A p \in places : LeadsTo(d, p) \in places

Endless(d) == Crossed(d) \/ \E p \in Obj : IsPlace(d, p) /\ Ring(d, p)

(* A check that is begun comes to its end, and within the stack, unless    *)
(* contents run in a ring or lead to one another in one when it begins:    *)
(* exits that do are met and cut.                                          *)
CheckEnds == stack = do_dbck /\ ~Endless(db) ~> ~Checking

(* A place already visited is skipped, and the chain ends at a member that *)
(* has been checked (object_check.c:846, 850): every check comes to its    *)
(* end.                                                                    *)
EveryCheckEnds == Checking ~> ~Checking
----------------------------------------------------------------------------
(* The server starts with a check of the database it has read.             *)
CheckInit ==
  /\ \E game \in Start : db = game[1] /\ ops = game[2]
  /\ stack = do_dbck
  /\ hooked = 0
  /\ freelist = make_freelist /\ marks = {} /\ crashed = FALSE

(* A process that has run out of stack does nothing any more.              *)
Gone == crashed /\ UNCHANGED allVars

CheckNext ==
  \/ /\ ~crashed
     /\ \/ (Command \/ Proceed) /\ UNCHANGED checkVars
        \/ StartCheck
        \/ CheckStep
        \/ \E p \in Obj : Create(p)
  \/ Gone

CheckSpec ==
  /\ CheckInit /\ [][CheckNext]_allVars
  /\ WF_allVars(Proceed /\ UNCHANGED checkVars)
  /\ WF_allVars(CheckStep)
=============================================================================
