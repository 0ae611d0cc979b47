---------------------------- MODULE Possessions -----------------------------
(***************************************************************************)
(* A game as its players see it: what there is, who owns it, what is in    *)
(* their pockets, and what softcode keeps for an object (Accounts and      *)
(* Softcode), with the commands and functions that change it.  A command   *)
(* that is refused changes nothing.  What p may reach, where it stands and *)
(* what locks say is left open.  A game has the commands in ops: that is a *)
(* bound.                                                                  *)
(***************************************************************************)
EXTENDS Accounts, Softcode

CONSTANTS
  PayLimit, Paycheck,     (* the parameters of these names                 *)
  Costs,                  (* what is asked for with @create and kill       *)
  Amounts,                (* what is given                                 *)
  QuotaValues,            (* what @quota/set is given                      *)
  MaxCoins, MaxQuota,
  MaxOverdraft,           (* bounds of purses and quotas                   *)
  MaxDrift,               (* bound of a count of variables                 *)
  Coders,                 (* bound: the numbers softcode is looked at for  *)
  Lists,                  (* lists of names of variables a call is given   *)
  Games                   (* what a game starts with                       *)

(* robotcost is the cost of a robot and tells create_obj that it is one;   *)
(* a clone of a thing of one coin costs no more than a thing may.          *)
ASSUME AccountsAssumption ==
  /\ N \in Nat /\ God \in Numbers
  /\ Price \in [{"ROOM", "EXIT", "ROBOT"} -> Nat] /\ Price["ROBOT"] > 0
  /\ Quota \in [Types \cup {"GARBAGE"} -> Int] /\ Quota["GARBAGE"] = 0
  /\ Quota["ROBOT"] = Quota["PLAYER"]
  /\ {LinkCost, CreateMin, CreateMax, SacFactor, SacAdjust, PayStart, StartQuota} \subseteq Int
  /\ SacFactor > 0 /\ OBJECT_DEPOSIT(1) <= CreateMax
  /\ {PayLimit, Paycheck} \cup Costs \cup Amounts \cup QuotaValues \subseteq Int
  /\ {MaxCoins, MaxQuota, MaxOverdraft, MaxDrift} \subseteq Nat
(* God is a player and is not GOING.                                       *)
ASSUME GamesAssumption ==
  \A g \in Games : /\ g.db \in [Numbers -> Object]
                   /\ IsPlayer(g.db, God) /\ ~g.db[God].going
ASSUME SoftcodeAssumption ==
  /\ Coders \subseteq Numbers
  /\ IsFiniteSet(Variables) /\ IsFiniteSet(Structures) /\ IsFiniteSet(Instances)
  /\ Values \cap {Unset, None, Freed} = {} /\ None \notin Structures
  /\ {StackLim, VarLim, StructLim, InstLim} \subseteq Nat
  /\ Lists \subseteq Seq(Variables)

VARIABLES
  db,        (* the objects                                                *)
  memory,    (* what softcode keeps for a number                           *)
  ops        (* the commands of this game                                  *)
vars == <<db, memory, ops>>

Init == \E g \in Games : /\ db = g.db /\ ops = g.ops
                         /\ memory = [n \in Coders |-> Blank]

Objs == {n \in Numbers : Good(db, n)}
Plrs == {n \in Objs : IsPlayer(db, n)}
Things == {n \in Objs \cap Coders : db[n].type = "THING"}
(* What acts.  Whatever else acts does so for its owner and may do less.   *)
Actors == Plrs

(* Numbers that are let go are cleared, and numbers that are used again    *)
(* are reset.                                                              *)
Died(d) == {n \in Objs \cap Coders : ~Good(d, n)}
Remembered(d, kept) ==
  [n \in Coders |->
     IF n \in Died(d) THEN Cleared(memory[n], n \in kept)
     ELSE IF n \notin Objs /\ Good(d, n) THEN Reset(memory[n])
     ELSE memory[n]]
Within(d) ==
  \A n \in Numbers : /\ d[n].coins \in -MaxCoins .. MaxCoins
                     /\ d[n].quota \in 0 .. MaxQuota
                     /\ d[n].rquota \in -MaxOverdraft .. MaxQuota
Became(d) ==
  /\ d # db /\ Within(d) /\ db' = d
  /\ \E kept \in SUBSET Died(d) : memory' = Remembered(d, kept)
  /\ UNCHANGED ops
----------------------------------------------------------------------------
(***************************************************************************)
(* Building.                                                               *)
(***************************************************************************)
(* @dig, with an exit there and one back if they are asked for             *)
Dig(p, there, back) ==
  /\ "dig" \in ops /\ CanCreate(db, p, "ROOM", 0)
  /\ LET room == create_obj(db, p, "ROOM", 0)
         out == IF there THEN Opened(room, p, TRUE) ELSE room
     IN Became(IF back THEN Opened(out, p, TRUE) ELSE out)
Create(p, cost) ==
  /\ "create" \in ops /\ CanCreate(db, p, "THING", cost)
  /\ Became(create_obj(db, p, "THING", cost))
Open(p, linkto) ==
  "dig" \in ops /\ Became(Opened(db, p, linkto))

(* @link of an exit, and of a room to its dropto                           *)
Link(p, x) ==
  /\ "link" \in ops
  /\ \/ db[x].type = "EXIT" /\ CanLink(db, p, x) /\ Became(Linked(db, p, x))
     \/ /\ db[x].type = "ROOM" /\ Controls(db, p, x)
        /\ Became([db EXCEPT ![x].linked = TRUE])
Clone(p, x, preserve, asked, linkable) ==
  /\ "clone" \in ops /\ CanClone(db, p, x, preserve, asked)
  /\ Became(Cloned(db, p, x, preserve, asked, linkable))

(* An exit of a place p controls, and a thing in p's hands that is         *)
(* DESTROY_OK, may be another's.                                           *)
Destroy(p, x, instant) ==
  /\ "destroy" \in ops /\ x # God
  /\ Controls(db, p, x) \/ db[x].type \in {"EXIT", "THING"}
  /\ db[x].type \in {"PLAYER", "ROBOT"} => p = God
  /\ ~db[x].going \/ instant
  /\ Became(IF instant THEN Destroyed(db, x) ELSE [db EXCEPT ![x].going = TRUE])
(* @set x=!GOING                                                           *)
Spare(p, x) ==
  /\ "destroy" \in ops /\ Controls(db, p, x) /\ db[x].going
  /\ Became([db EXCEPT ![x].going = FALSE])
(* do_dbck, also the clock's                                               *)
Check == "destroy" \in ops /\ Became(do_dbck(db))

Building ==
  \/ \E p \in Actors :
       \/ \E there, back \in BOOLEAN : Dig(p, there, back)
       \/ \E cost \in Costs : Create(p, cost)
       \/ \E linkto \in BOOLEAN : Open(p, linkto)
       \/ \E x \in Objs :
            \/ Link(p, x) \/ Spare(p, x)
            \/ \E preserve, linkable \in BOOLEAN, asked \in Costs \cup {NotAsked} :
                 Clone(p, x, preserve, asked, linkable)
            \/ \E instant \in BOOLEAN : Destroy(p, x, instant)
  \/ Check
----------------------------------------------------------------------------
(***************************************************************************)
(* Owners, players and their quotas.                                       *)
(***************************************************************************)
(* do_chown; a thing that p does not control may be CHOWN_OK.              *)
Chown(p, x, owner) ==
  /\ "chown" \in ops /\ x # God /\ Controls(db, p, owner)
  /\ IsPlayer(db, x) => p = God /\ "rule" \in ops
  /\ canpayfees(db, owner, ChownFee(db, x), Quota[db[x].type])
  /\ Became(do_chown(db, p, x, owner))
Chownall(from, to) == "rule" \in ops /\ Became(chown_all(db, from, to))
Toad(victim, to, chown) ==
  "rule" \in ops /\ victim # God /\ Became(do_toad(db, victim, to, chown))
SetQuota(who, value, remaining) ==
  "quota" \in ops /\ Became(adjust_quota(db, who, value, remaining))
FixQuota(who, total) ==
  "quota" \in ops /\ Became(mung_quotas_fix(db, who, total))

(* create of the login screen, @pcreate and @robot                         *)
CreatePlayer ==
  /\ "players" \in ops /\ Freelist(db) # {}
  /\ Became(create_obj(db, Nobody, "PLAYER", 0))
Pcreate ==
  /\ "players" \in ops /\ CanCreate(db, God, "PLAYER", 0)
  /\ Became(create_obj(db, God, "PLAYER", 0))
Robot(p) ==
  /\ "robots" \in ops /\ CanCreate(db, p, "ROBOT", 0)
  /\ Became(create_obj(db, p, "ROBOT", 0))

Owning ==
  \/ \E p \in Actors, x \in Objs, owner \in Plrs : Chown(p, x, owner)
  \/ \E from, to \in Objs : Chownall(from, to)
  \/ \E victim, to \in Plrs, chown \in BOOLEAN : Toad(victim, to, chown)
  \/ \E who \in Plrs, value \in QuotaValues, remaining \in BOOLEAN :
       SetQuota(who, value, remaining)
  \/ \E who \in Plrs, total \in BOOLEAN : FixQuota(who, total)
  \/ CreatePlayer \/ Pcreate \/ \E p \in Actors : Robot(p)
----------------------------------------------------------------------------
(***************************************************************************)
(* Pockets.                                                                *)
(***************************************************************************)
Give(p, x, amount, price) ==
  /\ "pay" \in ops /\ CanGive(db, p, x, amount, PayLimit)
  /\ Became(give_money(db, p, x, amount, price))
Kill(p, x, cost, success) ==
  /\ "pay" \in ops /\ db[x].type \notin {"EXIT", "ROOM"} /\ CanPay(db, p, cost)
  /\ Became(IF success /\ ~Free(db, x) THEN Killed(db, p, x, cost, PayLimit)
            ELSE payfor(db, p, cost))
(* The paycheck of the day's first connection, and a coin that is found.   *)
Earn(p, coins) ==
  /\ "pay" \in ops /\ db[p].coins < PayLimit
  /\ Became(giveto(db, p, coins))
Poor(limit) == "rule" \in ops /\ Became(do_poor(db, limit))

Paying ==
  \/ \E p \in Actors, x \in Objs, amount \in Amounts, price \in Costs : Give(p, x, amount, price)
  \/ \E p \in Actors, x \in Objs, cost \in Costs, success \in BOOLEAN : Kill(p, x, cost, success)
  \/ \E p \in Plrs, coins \in {1, Paycheck} : Earn(p, coins)
  \/ \E limit \in Costs : Poor(limit)
----------------------------------------------------------------------------
(***************************************************************************)
(* Softcode.  A thing evaluates a function; what there is then is one of   *)
(* these.                                                                  *)
(***************************************************************************)
StackCalls(m) ==
  {fun_push(m, x) : x \in Values} \cup {fun_swap(m), stack_clr(m)}
  \cup (UNION {{fun_dup(m, pos), handle_pop(m, pos)} : pos \in 0 .. StackLim})
  \cup {fun_popn(m, pos, n) : pos \in 0 .. StackLim, n \in 0 .. StackLim}

TextsOf(S) == [S -> Values \cup {Unset}]
VariableCalls(m) ==
  {set_xvar(m, v, x) : v \in Variables, x \in Values \cup {Unset}}
  \cup (UNION {{fun_xvars(m, l, texts) : texts \in TextsOf(DOMAIN l) \cup {<<>>}} : l \in Lists})
  \cup {xvars_clr(m)}

StructureCalls(m) ==
  {fun_structure(m, s, comps) : s \in Structures, comps \in (SUBSET Components) \ {{}}}
  \cup {fun_unstructure(m, s) : s \in Structures}
  \cup (UNION {{fun_construct(m, i, s, texts) : texts \in UNION {TextsOf(c) : c \in SUBSET Components}}
                : i \in Instances, s \in Structures})
  \cup {load_structure(m, i, s, x) : i \in Instances, s \in Structures, x \in Values}
  \cup (UNION {{fun_modify(m, i, texts) : texts \in UNION {TextsOf(c) : c \in SUBSET Components}}
                : i \in Instances})
  \cup {fun_destruct(m, i) : i \in Instances}

GridCalls(m) ==
  {fun_gridmake(m, x) : x \in Values \cup {Unset, None}}
  \cup {fun_gridset(m, x) : x \in Values \cup {Unset}}

Calls(m) ==
  UNION {IF "stack" \in ops THEN StackCalls(m) ELSE {},
         IF "variables" \in ops THEN VariableCalls(m) ELSE {},
         IF "structures" \in ops THEN StructureCalls(m) ELSE {},
         IF "grids" \in ops THEN GridCalls(m) ELSE {}}

Evaluated(n, new) ==
  /\ new.vars >= -MaxDrift
  /\ memory' = [memory EXCEPT ![n] = new]
  /\ UNCHANGED ops

Evaluate(n) ==
  \E new \in Calls(memory[n]) \ {memory[n]} : Evaluated(n, new) /\ UNCHANGED db

(* command(@destroy me) in an argument, of a thing that is DESTROY_OK      *)
(* under instant_recycle: the function goes on for an object that is gone. *)
EvaluateLast(n) ==
  /\ db' = destroy_obj(db, n)
  /\ \E kept \in BOOLEAN : \E new \in Calls(Cleared(memory[n], kept)) : Evaluated(n, new)

(* let(names, values, body): either of the last two may set a variable,    *)
(* and the body may be the thing's last.  Without values the variables are *)
(* left as they are; with too few or too many there is no body, and what   *)
(* the values have set stays.                                              *)
Meanwhile(m) == {m} \cup {set_xvar(m, v, x) : v \in Variables, x \in Values \cup {Unset}}
fun_let(m, names, values, capitals) ==
  LET set == {SetAll(valued, names, values) : valued \in Meanwhile(m)}
      bodies == UNION {Meanwhile(before) : before \in set \cup {m}}
  IN {SetAll(body, names, Kept(m, names, capitals)) : body \in bodies}
Let(n, names, values, capitals) ==
  \E new \in fun_let(memory[n], names, values, capitals) \cup Meanwhile(memory[n]) :
    Evaluated(n, new) /\ UNCHANGED db
LetLast(n, names, values, capitals) ==
  \E kept \in BOOLEAN :
    /\ db' = destroy_obj(db, n)
    /\ Evaluated(n, SetAll(Cleared(SetAll(memory[n], names, values), kept), names,
                           Kept(memory[n], names, capitals)))

Softly ==
  \E n \in Things :
    \/ Evaluate(n) \/ EvaluateLast(n)
    \/ /\ "variables" \in ops
       /\ \E names \in Lists : \E capitals \in SUBSET DOMAIN names,
                                 values \in TextsOf(DOMAIN names) :
            Let(n, names, values, capitals) \/ LetLast(n, names, values, capitals)

Next == Building \/ Owning \/ Paying \/ Softly
Spec == Init /\ [][Next]_vars
----------------------------------------------------------------------------
(***************************************************************************)
(* Properties.                                                             *)
(***************************************************************************)
TypeOK ==
  /\ db \in [Numbers -> Object] /\ Good(db, God)
  /\ memory \in [Coders -> Memory]

(* Players who are their own; what else there is belongs to one of them.   *)
Standing(d) == {p \in Numbers \ {God} : IsPlayer(d, p) /\ d[p].owner = p}
Flat(d) == \A n \in Numbers : Good(d, n) => d[n].owner \in Standing(d) \cup {God}

(* What the quota of p says beyond what it has and what it may have yet.   *)
Slack(d, p) == d[p].quota - d[p].rquota - QuotaOf(d, Objects(d, p))
(* What p has in its pockets and could get back for what it owns.           *)
Riches(d, p) ==
  LET mine == Objects(d, p) \ {p}
  IN d[p].coins + SumFunctionOnSet([n \in mine |-> ChownFee(d, n)], mine)
Wealth(d) == SumFunctionOnSet([p \in Standing(d) |-> Riches(d, p)], Standing(d))

(* Players turned to things, players that become their own, and linked     *)
(* rooms that God cloned for another: what they cost is not moved with     *)
(* them.                                                                   *)
Turned == \E n \in Plrs : db'[n].type = "THING"
Emancipated == \E n \in Plrs : db[n].owner # n /\ db'[n].owner = n
Linked_room ==
  \E n \in Numbers \ Objs : db'[n].type = "ROOM" /\ db'[n].linked /\ db'[n].owner = God
Regraded ==
  \E who \in Plrs :
    \/ \E value \in QuotaValues, remaining \in BOOLEAN : SetQuota(who, value, remaining)
    \/ \E total \in BOOLEAN : FixQuota(who, total)
Given_all == \E from, to \in Objs : Chownall(from, to)
Income ==
  \/ \E n \in Numbers \ Objs : db'[n].type = "PLAYER"
  \/ \E p \in Plrs, coins \in {1, Paycheck} : Earn(p, coins)
  \/ \E p \in Actors, x \in Objs :
       /\ Free(db, p)
       /\ \/ \E amount \in Amounts, price \in Costs : Give(p, x, amount, price)
          \/ \E cost \in Costs : Kill(p, x, cost, TRUE)

(* What a player has and what it may still have differ from its quota by   *)
(* what they always did.                                                   *)
QuotaKept ==
  \/ \A p \in Standing(db) \cap Standing(db') : Slack(db', p) = Slack(db, p)
  \/ Turned \/ Emancipated \/ Linked_room \/ Regraded
(* Nobody has more than it may have.                                       *)
NoOverdraft ==
  \/ \A p \in Standing(db) \cap Standing(db') :
       db'[p].rquota >= 0 \/ db'[p].rquota >= db[p].rquota
  \/ Turned \/ Regraded \/ Given_all
(* Nobody becomes richer but by income or a wizard.                        *)
NoneRicher ==
  Wealth(db') <= Wealth(db) \/ Turned \/ Emancipated \/ Linked_room \/ Income
(* Quota and coins are neither made nor lost: as long as things belong to  *)
(* players who are their own, QuotaKept, NoOverdraft and NoneRicher hold   *)
(* of whatever is built, cloned, linked, given away, chowned, destroyed,   *)
(* spared and purged: a deposit is what was paid (predicates.c, object.c,  *)
(* create.c, set.c, walkdb.c, rob.c).  Where that is not so is said:       *)
(* @quota, which sets them; @chownall and @toad, which leave robots and    *)
(* toads out of account and do not ask what the new owner may have; the    *)
(* clone of a linked room, that is charged as an exit.                     *)
BooksKept ==
  [][Flat(db) /\ Flat(db') => QuotaKept /\ NoOverdraft /\ NoneRicher]_db

(* What is there is what is counted; a structure that is in use is there;  *)
(* what an instance is made of is there and nobody else's; nothing is      *)
(* found that was freed; and what structure_clr collects fits its arrays.  *)
Instanced(m) == {i \in Instances : m.inst[i] # None}
Defined(m) == {s \in Structures : m.def[s] # {}}
Agrees(m) ==
  /\ m.stacks = Len(m.stack)
  /\ m.vars = Cardinality({v \in Variables : m.var[v] # Unset})
  /\ m.structs = Cardinality(Defined(m)) /\ m.structs <= StructLim + 1
  /\ m.insts = Cardinality(Instanced(m)) /\ m.insts <= InstLim + 1
  /\ \A s \in Structures : m.users[s] = Cardinality({i \in Instances : m.inst[i] = s})
  /\ \A i \in Instanced(m) : m.inst[i] \in Defined(m)
  /\ \A k \in DOMAIN m.comp : m.comp[k] = IF k[2] \in m.def[k[1]] THEN Own ELSE None
  /\ \A k \in Keys :
       m.data[k] # None <=> \E i \in Instanced(m) : k \in KeysOf(m, i, m.inst[i])
  /\ m.grid # Freed
(* Nothing is left of what is gone.                                        *)
Forgotten(m) ==
  [m EXCEPT !.stacks = 0, !.vars = 0, !.structs = 0, !.insts = 0] = Blank
Sound(m, alive) == IF alive THEN Agrees(m) ELSE Forgotten(m)

(* What breaks it: xvars() that clears variables which are not there or    *)
(* names one twice, an object that is destroyed while it evaluates a       *)
(* function or while it has structures or a grid, a cell of the grid that  *)
(* is set to nothing, and instances a name and a period of which make the  *)
(* same key.                                                               *)
Miscounts(m, new) ==
  \E l \in Lists : /\ ~IsInjective(l) \/ \E v \in Range(l) : m.var[v] = Unset
                   /\ new = clear_xvars(m, l)
Emptied_cell(m, new) == m.grid \in Values /\ new = fun_gridset(m, Unset)
Shared_key(m, new) ==
  \E i, j \in Instanced(m) :
    i # j /\ new = fun_destruct(m, i) /\ KeysOf(m, i, m.inst[i]) \cap KeysOf(m, j, m.inst[j]) # {}
Undone(n) ==
  n \in Objs /\ ~Good(db', n)
    /\ \/ \E kept \in BOOLEAN : memory'[n] # Cleared(memory[n], kept)
       \/ memory[n].grid # None \/ Defined(memory[n]) # {}

(* let() gives the variables that it names their old values back, whatever *)
(* its arguments do, if it has come to its body: unless the name is not    *)
(* the first and has capitals, or there are as many variables as there may *)
(* be.                                                                     *)
Restores(m, names, values, capitals) ==
  \A new \in fun_let(m, names, values, capitals), i \in DOMAIN names :
    \/ new.var[names[i]] = m.var[names[i]]
    \/ \E j \in capitals \ {1} : names[j] = names[i]
    \/ new.vars + Len(names) > VarLim
LetRestores ==
  "variables" \in ops =>
    \A n \in Things, names \in Lists :
      \A capitals \in SUBSET DOMAIN names, values \in TextsOf(DOMAIN names) :
        Restores(memory[n], names, values, capitals)

(* Whatever softcode does in whatever order, what is kept for an object    *)
(* agrees with what is counted and is found whole, and nothing of it is    *)
(* found by the next object of its number (funvars_stacks.c,               *)
(* funvars_xvars.c, funvars_struct_core.c, funvars_struct_ops.c,           *)
(* funvars_grids.c; object.c: destroy_obj, create_obj), but for what is    *)
(* said above; and let() restores variables.                               *)
MemoryKept ==
  /\ [](TypeOK /\ LetRestores)
  /\ [][\A n \in Coders :
          (memory'[n] # memory[n] \/ Good(db', n) # Good(db, n)) /\ Sound(memory[n], Good(db, n)) =>
            \/ Sound(memory'[n], Good(db', n))
            \/ Miscounts(memory[n], memory'[n]) \/ Emptied_cell(memory[n], memory'[n])
            \/ Shared_key(memory[n], memory'[n]) \/ Undone(n)]_<<db, memory>>
=============================================================================
