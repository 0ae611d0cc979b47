------------------------------ MODULE Softcode ------------------------------
(***************************************************************************)
(* What softcode keeps for an object between commands: its stack, its      *)
(* variables, its structures with their instances, and its grid            *)
(* (funvars_stacks.c, funvars_xvars.c, funvars_struct_core.c,              *)
(* funvars_struct_ops.c, funvars_grids.c).  They are in hash tables under  *)
(* the object's number; how many there are is counted in the object.  m is *)
(* what there is for one number; a function of the code is an operator on  *)
(* it.  Whether a value has the type a component asks for is left open.    *)
(***************************************************************************)
EXTENDS Integers, FiniteSets, SequencesExt

CONSTANTS
  Values,
  Variables,                                (* names of variables          *)
  Structures,                               (* names of structures         *)
  Components, Instances,                    (* names of these, which may   *)
                                            (* have periods: sequences     *)
  StackLim, VarLim, StructLim, InstLim      (* stack_lim, numvars_lim,     *)
                                            (* struct_lim, instance_lim    *)

Unset == "unset"       (* no variable; no text                             *)
None == "none"         (* no structure, data, component or grid            *)
Own == "own"           (* a component that is there                        *)
Freed == "freed"       (* memory that was given back and is still found    *)
Keys == {i \o c : i \in Instances, c \in Components}

Memory ==
  [stack : Seq(Values), stacks : Int,
   var : [Variables -> Values \cup {Unset}], vars : Int,
   def : [Structures -> SUBSET Components], users : [Structures -> Int], structs : Int,
   comp : [Structures \X Components -> {None, Own, Freed}],
   inst : [Instances -> Structures \cup {None}], insts : Int,
   data : [Keys -> Values \cup {Unset, None}],
   grid : Values \cup {Unset, None, Freed}]

Blank ==
  [stack |-> <<>>, stacks |-> 0,
   var |-> [v \in Variables |-> Unset], vars |-> 0,
   def |-> [s \in Structures |-> {}], users |-> [s \in Structures |-> 0], structs |-> 0,
   comp |-> [k \in Structures \X Components |-> None],
   inst |-> [i \in Instances |-> None], insts |-> 0,
   data |-> [k \in Keys |-> None],
   grid |-> None]
----------------------------------------------------------------------------
(***************************************************************************)
(* Stacks.  The top is the head; positions count from 0.                   *)
(***************************************************************************)
stack_clr(m) == [m EXCEPT !.stack = <<>>, !.stacks = 0]

fun_push(m, x) ==
  IF m.stacks + 1 > StackLim THEN m
  ELSE [m EXCEPT !.stack = <<x>> \o @, !.stacks = @ + 1]

fun_dup(m, pos) ==
  IF pos + 1 \notin DOMAIN m.stack THEN m ELSE fun_push(m, m.stack[pos + 1])

fun_swap(m) ==
  IF Len(m.stack) < 2 THEN m
  ELSE [m EXCEPT !.stack = <<@[2], @[1]>> \o SubSeq(@, 3, Len(@))]

handle_pop(m, pos) ==
  IF pos + 1 \notin DOMAIN m.stack THEN m
  ELSE [m EXCEPT !.stack = RemoveAt(@, pos + 1), !.stacks = @ - 1]

fun_popn(m, pos, n) ==
  LET last == IF pos + n < Len(m.stack) THEN pos + n ELSE Len(m.stack)
  IN IF pos + 1 \notin DOMAIN m.stack \/ n < 1 THEN m
     ELSE [m EXCEPT !.stack = SubSeq(@, 1, pos) \o SubSeq(@, last + 1, Len(@)),
                    !.stacks = @ - (last - pos)]
----------------------------------------------------------------------------
(***************************************************************************)
(* Variables.  Unset as a value is an empty text.                          *)
(***************************************************************************)
set_xvar(m, v, x) ==
  IF m.var[v] # Unset
  THEN [m EXCEPT !.var[v] = x, !.vars = IF x = Unset THEN @ - 1 ELSE @]
  ELSE IF x = Unset \/ m.vars + 1 > VarLim THEN m
  ELSE [m EXCEPT !.var[v] = x, !.vars = @ + 1]

(* xvars() without values counts names, not variables.                     *)
clear_xvars(m, names) ==
  [m EXCEPT !.var = [v \in Variables |-> IF v \in Range(names) THEN Unset ELSE @[v]],
            !.vars = @ - Len(names)]

xvars_clr(m) == [m EXCEPT !.var = [v \in Variables |-> Unset], !.vars = 0]

SetAll(m, names, values) ==
  LET set[i \in 0 .. Len(names)] ==
        IF i = 0 THEN m ELSE set_xvar(set[i - 1], names[i], values[i])
  IN set[Len(names)]
fun_xvars(m, names, values) ==
  IF values = <<>> THEN clear_xvars(m, names) ELSE SetAll(m, names, values)

(* let() keeps the values of the variables it names, sets them, evaluates  *)
(* its last argument and puts the old values back.  Of the names only the  *)
(* first is put in lower case before the old values are looked up: one of  *)
(* capitals is not found.                                                  *)
Kept(m, names, capitals) ==
  [i \in DOMAIN names |-> IF i \in capitals \ {1} THEN Unset ELSE m.var[names[i]]]
----------------------------------------------------------------------------
(***************************************************************************)
(* Structures.  The limits are checked with > and not with >=.  hashadd    *)
(* leaves an entry of the same key as it is.                               *)
(***************************************************************************)
fun_structure(m, s, comps) ==
  IF m.structs > StructLim \/ m.def[s] # {} THEN m
  ELSE [m EXCEPT !.def[s] = comps, !.users[s] = 0, !.structs = @ + 1,
                 !.comp = [k \in DOMAIN @ |->
                            IF k[1] = s /\ k[2] \in comps /\ @[k] = None THEN Own ELSE @[k]]]

KeysOf(m, i, s) == {i \o c : c \in m.def[s]}
Instantiable(m, i, s) == m.insts <= InstLim /\ m.inst[i] = None /\ m.def[s] # {}
Instantiated(m, i, s, data) ==
  [m EXCEPT !.inst[i] = s, !.users[s] = @ + 1, !.insts = @ + 1, !.data = data]
(* Texts for some components c of instance i, where there is data          *)
Texted(data, i, texts) ==
  [k \in Keys |->
     IF data[k] # None /\ \E c \in DOMAIN texts : k = i \o c
     THEN texts[CHOOSE c \in DOMAIN texts : k = i \o c] ELSE data[k]]

fun_construct(m, i, s, texts) ==
  LET empty == [k \in Keys |->
                 IF m.data[k] = None /\ k \in KeysOf(m, i, s) THEN Unset ELSE m.data[k]]
  IN IF ~Instantiable(m, i, s) \/ (\E c \in DOMAIN texts : m.comp[<<s, c>>] = None) THEN m
     ELSE Instantiated(m, i, s, Texted(empty, i, texts))

(* load() and read(), every component with the same text                   *)
load_structure(m, i, s, x) ==
  IF ~Instantiable(m, i, s) THEN m
  ELSE Instantiated(m, i, s,
         [k \in Keys |->
            IF m.data[k] = None /\ k \in KeysOf(m, i, s) THEN x ELSE m.data[k]])

fun_modify(m, i, texts) ==
  IF m.inst[i] = None THEN m ELSE [m EXCEPT !.data = Texted(@, i, texts)]

fun_destruct(m, i) ==
  LET s == m.inst[i]
  IN IF s = None THEN m
     ELSE [m EXCEPT !.inst[i] = None, !.users[s] = @ - 1, !.insts = @ - 1,
                    !.data = [k \in Keys |-> IF k \in KeysOf(m, i, s) THEN None ELSE @[k]]]

(* Mutant of fun_unstructure: it is not asked whether there are instances. *)
fun_unstructure_used(m, s) ==
  IF m.def[s] = {} THEN m
  ELSE [m EXCEPT !.def[s] = {}, !.structs = @ - 1,
                 !.comp = [k \in DOMAIN @ |->
                            IF k[1] = s /\ k[2] \in m.def[s] THEN None ELSE @[k]]]
fun_unstructure(m, s) ==
  IF m.def[s] = {} \/ m.users[s] > 0 THEN m
  ELSE [m EXCEPT !.def[s] = {}, !.structs = @ - 1,
                 !.comp = [k \in DOMAIN @ |->
                            IF k[1] = s /\ k[2] \in m.def[s] THEN None ELSE @[k]]]

(* structure_clr builds the keys of data and components from names it has  *)
(* freed: with kept they are not found, the data of instances stays and    *)
(* components are freed and stay in their table.                           *)
structure_clr(m, kept) ==
  LET gone == UNION {KeysOf(m, i, m.inst[i]) : i \in {j \in Instances : m.inst[j] # None}}
  IN [m EXCEPT !.inst = [i \in Instances |-> None],
               !.data = [k \in Keys |-> IF k \in gone /\ ~kept THEN None ELSE @[k]],
               !.def = [s \in Structures |-> {}], !.users = [s \in Structures |-> 0],
               !.comp = [k \in DOMAIN @ |->
                          IF k[2] \notin m.def[k[1]] THEN @[k] ELSE IF kept THEN Freed ELSE None]]
----------------------------------------------------------------------------
(* A grid, of which one cell stands for all.  gridset() of nothing frees   *)
(* what is in the cell and leaves the pointer.                             *)
fun_gridmake(m, x) == [m EXCEPT !.grid = x]
fun_gridset(m, x) ==
  IF m.grid = None \/ (m.grid = Unset /\ x = Unset) THEN m
  ELSE [m EXCEPT !.grid = IF x = Unset THEN Freed ELSE x]

(* What destroy_obj clears, and what create_obj resets.                    *)
Cleared(m, kept) == structure_clr(xvars_clr(stack_clr(m)), kept)
Reset(m) == [m EXCEPT !.stacks = 0, !.vars = 0, !.structs = 0, !.insts = 0]
=============================================================================
