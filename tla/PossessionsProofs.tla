-------------------------- MODULE PossessionsProofs --------------------------
(***************************************************************************)
(* Theorems about Possessions, for any numbers, prices, limits and names.  *)
(***************************************************************************)
EXTENDS Possessions, OperatorLemmas

(***************************************************************************)
(* What softcode keeps: each function of Softcode keeps its types, and     *)
(* what is counted agrees with what is there, in four parts that hardly    *)
(* meet.                                                                   *)
(***************************************************************************)
StackAgrees(m) == m.stacks = Len(m.stack)
SetOf(f) == {v \in Variables : f[v] # Unset}
VariablesAgree(m) == m.vars = Cardinality(SetOf(m.var))
UsersOf(f, s) == {i \in Instances : f[i] = s}
StructuresAgree(m) ==
  /\ m.structs = Cardinality(Defined(m)) /\ m.structs <= StructLim + 1
  /\ m.insts = Cardinality(Instanced(m)) /\ m.insts <= InstLim + 1
  /\ \A s \in Structures : m.users[s] = Cardinality(UsersOf(m.inst, s))
  /\ \A i \in Instanced(m) : m.inst[i] \in Defined(m)
  /\ \A k \in DOMAIN m.comp : m.comp[k] = IF k[2] \in m.def[k[1]] THEN Own ELSE None
  /\ \A k \in Keys :
       m.data[k] # None <=> \E i \in Instanced(m) : k \in KeysOf(m, i, m.inst[i])

LEMMA AgreesInParts ==
  ASSUME NEW m
  PROVE  Agrees(m) <=> /\ StackAgrees(m) /\ VariablesAgree(m)
                       /\ StructuresAgree(m) /\ m.grid # Freed
BY DEF Agrees, StackAgrees, VariablesAgree, StructuresAgree, SetOf, UsersOf

SameStack(m, new) == new.stack = m.stack /\ new.stacks = m.stacks
SameVariables(m, new) == new.var = m.var /\ new.vars = m.vars
SameStructures(m, new) ==
  /\ new.def = m.def /\ new.users = m.users /\ new.structs = m.structs
  /\ new.comp = m.comp /\ new.inst = m.inst /\ new.insts = m.insts /\ new.data = m.data

LEMMA SameAgree ==
  ASSUME NEW m, NEW new
  PROVE  /\ SameStack(m, new) => (StackAgrees(m) <=> StackAgrees(new))
         /\ SameVariables(m, new) => (VariablesAgree(m) <=> VariablesAgree(new))
         /\ SameStructures(m, new) => (StructuresAgree(m) <=> StructuresAgree(new))
<1>1. SameStructures(m, new) => (StructuresAgree(m) <=> StructuresAgree(new))
  <2> SUFFICES ASSUME SameStructures(m, new) PROVE StructuresAgree(m) <=> StructuresAgree(new)
    OBVIOUS
  <2>1. Defined(m) = Defined(new) /\ Instanced(m) = Instanced(new)
    BY DEF SameStructures, Defined, Instanced
  <2>2. \A i, s : KeysOf(m, i, s) = KeysOf(new, i, s)
    BY DEF SameStructures, KeysOf
  <2> QED
    BY <2>1, <2>2 DEF StructuresAgree, SameStructures
<1> QED
  BY <1>1 DEF SameStack, SameVariables, StackAgrees, VariablesAgree

(* A function keeps the types and the agreement of what it is given.       *)
KeepsMemory(m, new) == new \in Memory /\ (Agrees(m) => Agrees(new))

LEMMA KeepsItself == ASSUME NEW m \in Memory PROVE KeepsMemory(m, m)
BY DEF KeepsMemory

-----------------------------------------------------------------------------
(***************************************************************************)
(* Stacks.                                                                 *)
(***************************************************************************)
Restacked(m, a, b) == [m EXCEPT !.stack = a, !.stacks = b]

LEMMA RestackedKeeps ==
  ASSUME NEW m \in Memory, NEW a \in Seq(Values), NEW b \in Int,
         StackAgrees(m) => b = Len(a)
  PROVE  KeepsMemory(m, Restacked(m, a, b))
<1> SUFFICES ASSUME NEW new, new = Restacked(m, a, b)
             PROVE  KeepsMemory(m, new)
  OBVIOUS
<1>1. new \in Memory
  BY DEF Restacked, Memory
<1>2. /\ SameVariables(m, new) /\ SameStructures(m, new)
      /\ new.grid = m.grid /\ new.stack = a /\ new.stacks = b
  BY DEF Restacked, Memory, SameVariables, SameStructures
<1>3. StackAgrees(m) => StackAgrees(new)
  BY <1>2 DEF StackAgrees
<1> QED
  BY <1>1, <1>2, <1>3, AgreesInParts, SameAgree DEF KeepsMemory

LEMMA StackTyped ==
  ASSUME NEW m \in Memory
  PROVE  m.stack \in Seq(Values) /\ m.stacks \in Int /\ Len(m.stack) \in Nat
BY DEF Memory

LEMMA PushKeeps ==
  ASSUME NEW m \in Memory, NEW x \in Values
  PROVE  KeepsMemory(m, fun_push(m, x))
<1>1. <<x>> \o m.stack \in Seq(Values) /\ Len(<<x>> \o m.stack) = Len(m.stack) + 1
  BY StackTyped
<1>2. m.stacks + 1 \in Int /\ (StackAgrees(m) => m.stacks + 1 = Len(<<x>> \o m.stack))
  BY <1>1, StackTyped DEF StackAgrees
<1>3. KeepsMemory(m, Restacked(m, <<x>> \o m.stack, m.stacks + 1))
  BY <1>1, <1>2, RestackedKeeps
<1> QED
  BY <1>3, KeepsItself DEF fun_push, Restacked

LEMMA DupKeeps ==
  ASSUME NEW m \in Memory, NEW pos \in Nat
  PROVE  KeepsMemory(m, fun_dup(m, pos))
<1>1. pos + 1 \in DOMAIN m.stack => m.stack[pos + 1] \in Values
  BY StackTyped
<1> QED
  BY <1>1, PushKeeps, KeepsItself DEF fun_dup

LEMMA SwapKeeps ==
  ASSUME NEW m \in Memory
  PROVE  KeepsMemory(m, fun_swap(m))
<1> DEFINE s == m.stack
<1>1. CASE Len(s) < 2
  BY <1>1, KeepsItself DEF fun_swap
<1>2. CASE ~(Len(s) < 2)
  <2>1. s[1] \in Values /\ s[2] \in Values
    BY <1>2, StackTyped
  <2>2. SubSeq(s, 3, Len(s)) \in Seq(Values) /\ Len(SubSeq(s, 3, Len(s))) = Len(s) - 2
    BY <1>2, StackTyped, SubSeqProperties
  <2>3. /\ <<s[2], s[1]>> \o SubSeq(s, 3, Len(s)) \in Seq(Values)
        /\ Len(<<s[2], s[1]>> \o SubSeq(s, 3, Len(s))) = Len(s)
    BY <2>1, <2>2, StackTyped
  <2>4. KeepsMemory(m, Restacked(m, <<s[2], s[1]>> \o SubSeq(s, 3, Len(s)), m.stacks))
    BY <2>3, StackTyped, RestackedKeeps DEF StackAgrees
  <2>5. fun_swap(m) = [m EXCEPT !.stack = <<s[2], s[1]>> \o SubSeq(s, 3, Len(s))]
    BY <1>2 DEF fun_swap
  <2>6. fun_swap(m) = Restacked(m, <<s[2], s[1]>> \o SubSeq(s, 3, Len(s)), m.stacks)
    BY <2>5 DEF Restacked, Memory
  <2> QED
    BY <2>4, <2>6
<1> QED
  BY <1>1, <1>2

LEMMA CutProperties ==
  ASSUME NEW T, NEW s \in Seq(T), NEW a \in Nat, NEW b \in Nat, a <= b, b <= Len(s)
  PROVE  /\ SubSeq(s, 1, a) \o SubSeq(s, b + 1, Len(s)) \in Seq(T)
         /\ Len(SubSeq(s, 1, a) \o SubSeq(s, b + 1, Len(s))) = Len(s) - (b - a)
<1>1. SubSeq(s, 1, a) \in Seq(T) /\ Len(SubSeq(s, 1, a)) = a
  BY SubSeqProperties
<1>2. SubSeq(s, b + 1, Len(s)) \in Seq(T) /\ Len(SubSeq(s, b + 1, Len(s))) = Len(s) - b
  BY SubSeqProperties
<1> QED
  <2> DEFINE x == SubSeq(s, 1, a)
             y == SubSeq(s, b + 1, Len(s))
  <2>1. x \in Seq(T) /\ Len(x) = a /\ y \in Seq(T) /\ Len(y) = Len(s) - b
    BY <1>1, <1>2
  <2> HIDE DEF x, y
  <2>2. x \o y \in Seq(T) /\ Len(x \o y) = Len(x) + Len(y)
    BY <2>1, ConcatProperties
  <2>3. Len(x \o y) = Len(s) - (b - a)
    BY <2>1, <2>2
  <2> QED
    BY <2>2, <2>3 DEF x, y

(* The places a + 1 to b are cut out of the stack.                         *)
CutOut(s, a, b) == SubSeq(s, 1, a) \o SubSeq(s, b + 1, Len(s))

LEMMA CutKeeps ==
  ASSUME NEW m \in Memory, NEW a \in Nat, NEW b \in Nat, a <= b, b <= Len(m.stack),
         NEW n, n = b - a
  PROVE  KeepsMemory(m, Restacked(m, CutOut(m.stack, a, b), m.stacks - n))
<1>1. /\ CutOut(m.stack, a, b) \in Seq(Values)
      /\ Len(CutOut(m.stack, a, b)) = Len(m.stack) - (b - a)
  BY StackTyped, CutProperties DEF CutOut
<1>2. m.stacks - n \in Int /\ (StackAgrees(m) => m.stacks - n = Len(CutOut(m.stack, a, b)))
  BY <1>1, StackTyped DEF StackAgrees
<1> QED
  BY <1>1, <1>2, RestackedKeeps

LEMMA PopKeeps ==
  ASSUME NEW m \in Memory, NEW pos \in Nat
  PROVE  KeepsMemory(m, handle_pop(m, pos))
<1>1. CASE pos + 1 \notin DOMAIN m.stack
  BY <1>1, KeepsItself DEF handle_pop
<1>2. CASE pos + 1 \in DOMAIN m.stack
  <2>1. PICK at \in Nat : at = pos + 1
    OBVIOUS
  <2>2. pos <= at /\ at <= Len(m.stack) /\ 1 = at - pos /\ at - 1 = pos
    BY <1>2, <2>1, StackTyped
  <2>3. KeepsMemory(m, Restacked(m, CutOut(m.stack, pos, at), m.stacks - 1))
    BY <2>2, CutKeeps
  <2>4. RemoveAt(m.stack, at) = CutOut(m.stack, pos, at)
    BY <2>2 DEF RemoveAt, CutOut
  <2>5. handle_pop(m, pos) = [m EXCEPT !.stack = RemoveAt(m.stack, at), !.stacks = m.stacks - 1]
    BY <1>2, <2>1 DEF handle_pop
  <2> QED
    BY <2>3, <2>4, <2>5 DEF Restacked
<1> QED
  BY <1>1, <1>2

LEMMA PopnKeeps ==
  ASSUME NEW m \in Memory, NEW pos \in Nat, NEW n \in Nat
  PROVE  KeepsMemory(m, fun_popn(m, pos, n))
<1>1. CASE pos + 1 \notin DOMAIN m.stack \/ n < 1
  BY <1>1, KeepsItself DEF fun_popn
<1>2. CASE ~(pos + 1 \notin DOMAIN m.stack \/ n < 1)
  <2>1. PICK last : last = IF pos + n < Len(m.stack) THEN pos + n ELSE Len(m.stack)
    OBVIOUS
  <2>2. last \in Nat /\ pos <= last /\ last <= Len(m.stack)
    BY <1>2, <2>1, StackTyped
  <2>3. PICK k : k = last - pos
    OBVIOUS
  <2>4. KeepsMemory(m, Restacked(m, CutOut(m.stack, pos, last), m.stacks - k))
    BY <2>2, <2>3, CutKeeps
  <2>5. fun_popn(m, pos, n) = Restacked(m, CutOut(m.stack, pos, last), m.stacks - k)
    BY <1>2, <2>1, <2>3 DEF fun_popn, Restacked, CutOut
  <2> QED
    BY <2>4, <2>5
<1> QED
  BY <1>1, <1>2

LEMMA StackClrKeeps ==
  ASSUME NEW m \in Memory
  PROVE  KeepsMemory(m, stack_clr(m))
<1>1. <<>> \in Seq(Values) /\ Len(<<>>) = 0 /\ 0 \in Int
  OBVIOUS
<1>2. KeepsMemory(m, Restacked(m, <<>>, 0))
  BY <1>1, RestackedKeeps
<1> QED
  BY <1>2 DEF stack_clr, Restacked

LEMMA StackCallsKeep ==
  ASSUME NEW m \in Memory, NEW new \in StackCalls(m)
  PROVE  KeepsMemory(m, new)
<1>1. 0..StackLim \subseteq Nat
  BY SoftcodeAssumption
<1>2. CASE \E x \in Values : new = fun_push(m, x)
  BY <1>2, PushKeeps
<1>3. CASE new = fun_swap(m) \/ new = stack_clr(m)
  BY <1>3, SwapKeeps, StackClrKeeps
<1>4. CASE \E pos \in 0..StackLim : new = fun_dup(m, pos) \/ new = handle_pop(m, pos)
  BY <1>1, <1>4, DupKeeps, PopKeeps
<1>5. CASE \E pos, n \in 0..StackLim : new = fun_popn(m, pos, n)
  BY <1>1, <1>5, PopnKeeps
<1> QED
  BY <1>2, <1>3, <1>4, <1>5 DEF StackCalls

-----------------------------------------------------------------------------
(***************************************************************************)
(* Variables.                                                              *)
(***************************************************************************)
Assigned(m, f, k) == [m EXCEPT !.var = f, !.vars = k]
Texts == Values \cup {Unset}

LEMMA AssignedKeeps ==
  ASSUME NEW m \in Memory, NEW f \in [Variables -> Texts], NEW k \in Int,
         VariablesAgree(m) => k = Cardinality(SetOf(f))
  PROVE  /\ KeepsMemory(m, Assigned(m, f, k))
         /\ Assigned(m, f, k).var = f /\ Assigned(m, f, k).vars = k
<1> SUFFICES ASSUME NEW new, new = Assigned(m, f, k)
             PROVE  KeepsMemory(m, new) /\ new.var = f /\ new.vars = k
  OBVIOUS
<1>1. new \in Memory
  BY DEF Assigned, Memory, Texts
<1>2. /\ SameStack(m, new) /\ SameStructures(m, new)
      /\ new.grid = m.grid /\ new.var = f /\ new.vars = k
  BY DEF Assigned, Memory, SameStack, SameStructures
<1>3. VariablesAgree(m) => VariablesAgree(new)
  BY <1>2 DEF VariablesAgree
<1> QED
  BY <1>1, <1>2, <1>3, AgreesInParts, SameAgree DEF KeepsMemory

LEMMA VariablesTyped ==
  ASSUME NEW m \in Memory
  PROVE  m.var \in [Variables -> Texts] /\ m.vars \in Int
BY DEF Memory, Texts

LEMMA SetOfFinite ==
  ASSUME NEW f
  PROVE  IsFiniteSet(SetOf(f)) /\ Cardinality(SetOf(f)) \in Nat
<1>1. SetOf(f) \in SUBSET Variables
  BY DEF SetOf
<1> QED
  BY <1>1, SoftcodeAssumption, FS_Subset, FS_CardinalityType

(* set_xvar, and what became of the variable and of the count.             *)
LEMMA SetXvar ==
  ASSUME NEW m \in Memory, NEW v \in Variables, NEW x \in Texts
  PROVE  LET new == set_xvar(m, v, x) IN
         /\ KeepsMemory(m, new)
         /\ new.vars >= m.vars - 1
         /\ \A w \in Variables \ {v} : new.var[w] = m.var[w]
         /\ new.var[v] = x \/ (new.vars = m.vars /\ m.vars + 1 > VarLim)
<1> DEFINE f == [m.var EXCEPT ![v] = x]
<1>1. /\ f \in [Variables -> Texts] /\ f[v] = x /\ \A w \in Variables \ {v} : f[w] = m.var[w]
      /\ m.vars \in Int /\ VarLim \in Nat
  BY VariablesTyped, SoftcodeAssumption
<1>2. CASE m.var[v] # Unset /\ x # Unset
  <2>1. SetOf(f) = SetOf(m.var)
    BY <1>1, <1>2 DEF SetOf
  <2>2. KeepsMemory(m, Assigned(m, f, m.vars)) /\ Assigned(m, f, m.vars).var = f
        /\ Assigned(m, f, m.vars).vars = m.vars
    BY <1>1, <2>1, AssignedKeeps DEF VariablesAgree
  <2>3. set_xvar(m, v, x) = Assigned(m, f, m.vars)
    BY <1>2 DEF set_xvar, Assigned
  <2> QED
    BY <1>1, <2>2, <2>3
<1>3. CASE m.var[v] # Unset /\ x = Unset
  <2>1. SetOf(f) = SetOf(m.var) \ {v} /\ v \in SetOf(m.var)
    BY <1>1, <1>3 DEF SetOf
  <2>2. Cardinality(SetOf(f)) = Cardinality(SetOf(m.var)) - 1
    BY <2>1, SetOfFinite, FS_RemoveElement
  <2>3. KeepsMemory(m, Assigned(m, f, m.vars - 1)) /\ Assigned(m, f, m.vars - 1).var = f
        /\ Assigned(m, f, m.vars - 1).vars = m.vars - 1
    BY <1>1, <2>2, AssignedKeeps DEF VariablesAgree
  <2>4. set_xvar(m, v, x) = Assigned(m, f, m.vars - 1)
    BY <1>3 DEF set_xvar, Assigned
  <2> QED
    BY <1>1, <2>3, <2>4
<1>4. CASE m.var[v] = Unset /\ (x = Unset \/ m.vars + 1 > VarLim)
  <2>1. set_xvar(m, v, x) = m
    BY <1>4 DEF set_xvar
  <2> QED
    BY <1>1, <1>4, <2>1, KeepsItself
<1>5. CASE m.var[v] = Unset /\ x # Unset /\ ~(m.vars + 1 > VarLim)
  <2>1. SetOf(f) = SetOf(m.var) \cup {v} /\ v \notin SetOf(m.var)
    BY <1>1, <1>5 DEF SetOf
  <2>2. Cardinality(SetOf(f)) = Cardinality(SetOf(m.var)) + 1
    BY <2>1, SetOfFinite, FS_AddElement
  <2>3. KeepsMemory(m, Assigned(m, f, m.vars + 1)) /\ Assigned(m, f, m.vars + 1).var = f
        /\ Assigned(m, f, m.vars + 1).vars = m.vars + 1
    BY <1>1, <2>2, AssignedKeeps DEF VariablesAgree
  <2>4. set_xvar(m, v, x) = Assigned(m, f, m.vars + 1)
    BY <1>5 DEF set_xvar, Assigned
  <2> QED
    BY <1>1, <2>3, <2>4
<1> QED
  BY <1>2, <1>3, <1>4, <1>5

(* Variables set one after the other.                                      *)
AreSteps(S, F, last) == F \in [1..last -> [S -> S]]
Taken(S, s, F, last, h) ==
  h \in [0..last -> S] /\ h[0] = s /\ \A n \in 1..last : h[n] = F[n][h[n - 1]]

LEMMA StepsTaken ==
  ASSUME NEW S, NEW s, s \in S, NEW last, last \in Nat, NEW F, AreSteps(S, F, last)
  PROVE  \E h : Taken(S, s, F, last, h)
BY StepsExist DEF AreSteps, Taken

Setting(m, v, x, last, h) ==
  /\ h \in [0..last -> Memory] /\ h[0] = m
  /\ \A i \in 1..last : h[i] = set_xvar(h[i - 1], v[i], x[i])
CanSet(v, x, last) == v \in [1..last -> Variables] /\ x \in [1..last -> Texts]

LEMMA SettingSteps ==
  ASSUME NEW m, m \in Memory, NEW last, last \in Nat, NEW v, NEW x, CanSet(v, x, last)
  PROVE  \E h : Setting(m, v, x, last, h)
<1>1. PICK F : F = [i \in 1..last |-> [c \in Memory |-> set_xvar(c, v[i], x[i])]]
  OBVIOUS
<1>2. AreSteps(Memory, F, last)
  <2>1. ASSUME NEW i \in 1..last, NEW c \in Memory
        PROVE  set_xvar(c, v[i], x[i]) \in Memory
    <3>1. v[i] \in Variables /\ x[i] \in Texts
      BY DEF CanSet
    <3> QED
      BY <3>1, SetXvar DEF KeepsMemory
  <2> QED
    BY <1>1, <2>1 DEF AreSteps
<1>3. PICK h : Taken(Memory, m, F, last, h)
  BY <1>2, StepsTaken
<1>4. \A i \in 1..last : h[i] = set_xvar(h[i - 1], v[i], x[i])
  <2> SUFFICES ASSUME NEW i \in 1..last PROVE h[i] = set_xvar(h[i - 1], v[i], x[i])
    OBVIOUS
  <2>1. h[i - 1] \in Memory
    BY <1>3 DEF Taken
  <2>2. h[i] = F[i][h[i - 1]]
    BY <1>3 DEF Taken
  <2> QED
    BY <1>1, <2>1, <2>2
<1> QED
  BY <1>3, <1>4 DEF Taken, Setting

(* The function that SetAll chooses: there is one, and all agree.          *)
IsSetting(m, v, x, last, g) ==
  g = [i \in 0..last |-> IF i = 0 THEN m ELSE set_xvar(g[i - 1], v[i], x[i])]

SetsAt(h, v, x, n) == h[n] \in Memory /\ h[n + 1] = set_xvar(h[n], v[n + 1], x[n + 1])

LEMMA SettingStep ==
  ASSUME NEW m, NEW last, last \in Nat, NEW v, NEW x, NEW h, Setting(m, v, x, last, h)
  PROVE  \A n \in 0..last - 1 : SetsAt(h, v, x, n)
<1> TAKE n \in 0..last - 1
<1>1. n + 1 \in 1..last /\ n \in 0..last /\ n + 1 \in 0..last /\ n + 1 - 1 = n
  OBVIOUS
<1>2. h[n + 1] = set_xvar(h[n + 1 - 1], v[n + 1], x[n + 1])
  BY <1>1 DEF Setting
<1> QED
  BY <1>1, <1>2 DEF Setting, SetsAt

LEMMA SettingIs ==
  ASSUME NEW m, NEW last, last \in Nat, NEW v, NEW x, NEW h, Setting(m, v, x, last, h)
  PROVE  IsSetting(m, v, x, last, h)
<1>1. h \in [0..last -> Memory]
  BY DEF Setting
<1>2. ASSUME NEW i \in 0..last
      PROVE  h[i] = IF i = 0 THEN m ELSE set_xvar(h[i - 1], v[i], x[i])
  <2>1. i = 0 \/ i \in 1..last
    OBVIOUS
  <2> QED
    BY <2>1 DEF Setting
<1> QED
  BY <1>1, <1>2 DEF IsSetting

LEMMA SettingOnly ==
  ASSUME NEW m, NEW last, last \in Nat, NEW v, NEW x, NEW h, Setting(m, v, x, last, h),
         NEW g, IsSetting(m, v, x, last, g)
  PROVE  g[last] = h[last]
<1>0. \A n \in 0..last - 1 : SetsAt(h, v, x, n)
  BY SettingStep
<1> DEFINE Q == {n \in 0..last : g[n] = h[n]}
<1>1. 0 \in Q
  <2>1. 0 \in 0..last
    OBVIOUS
  <2>2. g[0] = m
    BY <2>1 DEF IsSetting
  <2> QED
    BY <2>1, <2>2 DEF Setting
<1>2. \A n \in 0..last - 1 : n \in Q => n + 1 \in Q
  <2> SUFFICES ASSUME NEW n \in 0..last - 1, n \in Q PROVE n + 1 \in Q
    OBVIOUS
  <2>1. n + 1 \in 0..last /\ h[n + 1] = set_xvar(h[n], v[n + 1], x[n + 1])
    BY <1>0 DEF SetsAt
  <2>2. n + 1 \in 0..last /\ n + 1 - 1 = n /\ n + 1 # 0
    OBVIOUS
  <2>3. g[n + 1] = set_xvar(g[n], v[n + 1], x[n + 1])
    BY <2>2 DEF IsSetting
  <2> QED
    BY <2>1, <2>3
<1> HIDE DEF Q
<1>3. \A n \in 0..last : n \in Q
  BY <1>1, <1>2, CountingInduction, Zenon
<1>4. last \in 0..last
  OBVIOUS
<1> QED
  BY <1>3, <1>4 DEF Q

(* What SetAll makes, one name after the other.                            *)
HasTexts(names, values) ==
  names \in Seq(Variables) /\ values \in [DOMAIN names -> Texts]
HasLast(names, last) == last = Len(names) /\ last \in Nat /\ DOMAIN names = 1..last
Set_by(m, names, values, last, h) ==
  /\ Setting(m, names, values, last, h) /\ CanSet(names, values, last)
  /\ h[last] = SetAll(m, names, values)

LEMMA HasSomeLast ==
  ASSUME NEW names, names \in Seq(Variables)
  PROVE  \E last : HasLast(names, last)
BY DEF HasLast

LEMMA SetAllSteps ==
  ASSUME NEW m, m \in Memory, NEW names, NEW values, HasTexts(names, values),
         NEW last, HasLast(names, last)
  PROVE  \E h : Set_by(m, names, values, last, h)
<1>1. last \in Nat /\ last = Len(names) /\ CanSet(names, values, last)
  BY DEF HasLast, HasTexts, CanSet
<1>2. PICK h : Setting(m, names, values, last, h)
  BY <1>1, SettingSteps
<1> DEFINE Set(g) == IsSetting(m, names, values, last, g)
<1>3. SetAll(m, names, values) = (CHOOSE g : Set(g))[last]
  BY <1>1 DEF SetAll, IsSetting
<1>4. Set(h)
  BY <1>1, <1>2, SettingIs
<1> HIDE DEF Set
<1>5. Set(CHOOSE g : Set(g))
  BY <1>4
<1> USE DEF Set
<1>6. (CHOOSE g : Set(g))[last] = h[last]
  BY <1>1, <1>2, <1>5, SettingOnly
<1> QED
  BY <1>1, <1>2, <1>3, <1>6 DEF Set_by

LEMMA SettingKeeps ==
  ASSUME NEW m, m \in Memory, NEW last, last \in Nat, NEW v, NEW x, CanSet(v, x, last),
         NEW h, Setting(m, v, x, last, h)
  PROVE  KeepsMemory(m, h[last])
<1>0. \A n \in 0..last - 1 : SetsAt(h, v, x, n)
  BY SettingStep
<1> DEFINE Q == {n \in 0..last : KeepsMemory(m, h[n])}
<1>1. 0 \in Q
  BY KeepsItself DEF Setting
<1>2. \A n \in 0..last - 1 : n \in Q => n + 1 \in Q
  <2> SUFFICES ASSUME NEW n \in 0..last - 1, n \in Q PROVE n + 1 \in Q
    OBVIOUS
  <2>1. /\ n + 1 \in 1..last /\ n + 1 \in 0..last
        /\ h[n] \in Memory /\ h[n + 1] = set_xvar(h[n], v[n + 1], x[n + 1])
    BY <1>0 DEF SetsAt
  <2>2. v[n + 1] \in Variables /\ x[n + 1] \in Texts
    BY <2>1 DEF CanSet
  <2>3. KeepsMemory(h[n], set_xvar(h[n], v[n + 1], x[n + 1]))
    BY <2>1, <2>2, SetXvar
  <2> QED
    BY <2>1, <2>3 DEF KeepsMemory
<1> HIDE DEF Q
<1>3. \A n \in 0..last : n \in Q
  BY <1>1, <1>2, CountingInduction, Zenon
<1>4. last \in 0..last
  OBVIOUS
<1> QED
  BY <1>3, <1>4 DEF Q

LEMMA SetAllKeeps ==
  ASSUME NEW m, m \in Memory, NEW names, NEW values, HasTexts(names, values)
  PROVE  KeepsMemory(m, SetAll(m, names, values))
<1>1. PICK last : HasLast(names, last)
  BY HasSomeLast DEF HasTexts
<1>2. PICK h : Set_by(m, names, values, last, h)
  BY <1>1, SetAllSteps
<1>3. last \in Nat
  BY <1>1 DEF HasLast
<1>4. KeepsMemory(m, h[last])
  BY <1>2, <1>3, SettingKeeps DEF Set_by
<1> QED
  BY <1>2, <1>4 DEF Set_by

(* The variable w gets the value y wherever it is among v: then it has it, *)
(* or there are as many variables as there may be.                         *)
SameText(v, x, last, i) ==
  i \in 1..last /\ \A j \in 1..last : v[j] = v[i] => x[j] = x[i]
Restored(m, w, y, last) == m.var[w] = y \/ m.vars + last > VarLim

LEMMA SettingRestores ==
  ASSUME NEW m, m \in Memory, NEW last, last \in Nat, NEW v, NEW x, CanSet(v, x, last),
         NEW h, Setting(m, v, x, last, h), NEW i, SameText(v, x, last, i)
  PROVE  Restored(h[last], v[i], x[i], last)
<1> USE DEF SameText, Restored
<1>0. \A n \in 0..last - 1 : SetsAt(h, v, x, n)
  BY SettingStep
<1> DEFINE Q == {n \in 0..last : \/ i <= n => h[n].var[v[i]] = x[i]
                                 \/ h[n].vars + n > VarLim}
<1>1. 0 \in Q
  OBVIOUS
<1>2. \A n \in 0..last - 1 : n \in Q => n + 1 \in Q
  <2> SUFFICES ASSUME NEW n \in 0..last - 1, n \in Q PROVE n + 1 \in Q
    OBVIOUS
  <2>1. /\ n + 1 \in 1..last /\ n + 1 \in 0..last
        /\ h[n] \in Memory /\ h[n + 1] = set_xvar(h[n], v[n + 1], x[n + 1])
    BY <1>0 DEF SetsAt
  <2>2. v[n + 1] \in Variables /\ x[n + 1] \in Texts /\ v[i] \in Variables
    BY <2>1 DEF CanSet
  <2>3. PICK new : new = h[n + 1]
    OBVIOUS
  <2>4. /\ KeepsMemory(h[n], new) /\ new.vars >= h[n].vars - 1
        /\ \A w \in Variables \ {v[n + 1]} : new.var[w] = h[n].var[w]
        /\ new.var[v[n + 1]] = x[n + 1] \/ (new.vars = h[n].vars /\ h[n].vars + 1 > VarLim)
    BY <2>1, <2>2, <2>3, SetXvar
  <2>5. h[n].vars \in Int /\ new.vars \in Int /\ VarLim \in Nat
    BY <2>1, <2>4, VariablesTyped, SoftcodeAssumption DEF KeepsMemory
  <2>6. CASE h[n].vars + n > VarLim
    <3>1. new.vars + (n + 1) > VarLim
      BY <2>4, <2>5, <2>6
    <3> QED
      BY <2>1, <2>3, <3>1
  <2>7. CASE v[n + 1] = v[i] /\ new.var[v[i]] = x[i]
    BY <2>1, <2>3, <2>7
  <2>8. CASE v[n + 1] = v[i] /\ new.var[v[i]] # x[i]
    <3>1. x[n + 1] = x[i]
      BY <2>1, <2>8
    <3>2. new.vars = h[n].vars /\ h[n].vars + 1 > VarLim
      BY <2>4, <2>8, <3>1
    <3>3. new.vars + (n + 1) > VarLim
      BY <2>5, <3>2
    <3> QED
      BY <2>1, <2>3, <3>3
  <2>9. CASE v[n + 1] # v[i] /\ (i <= n => h[n].var[v[i]] = x[i])
    <3>1. i <= n + 1 => i <= n
      BY <2>9
    <3>2. new.var[v[i]] = h[n].var[v[i]]
      BY <2>2, <2>4, <2>9
    <3> QED
      BY <2>1, <2>3, <2>9, <3>1, <3>2
  <2> QED
    BY <2>6, <2>7, <2>8, <2>9
<1> HIDE DEF Q
<1>3. \A n \in 0..last : n \in Q
  BY <1>1, <1>2, CountingInduction, Zenon
<1>4. last \in 0..last /\ i <= last
  OBVIOUS
<1> QED
  BY <1>3, <1>4 DEF Q

(* What a call makes agrees, but for what is said in MemoryKept.           *)
CallKeeps(m, new) ==
  /\ new \in Memory
  /\ Agrees(m) => \/ Agrees(new) \/ Miscounts(m, new)
                  \/ Emptied_cell(m, new) \/ Shared_key(m, new)

LEMMA KeepsIsCallKeeps ==
  ASSUME NEW m, NEW new, KeepsMemory(m, new)
  PROVE  CallKeeps(m, new)
BY DEF KeepsMemory, CallKeeps

LEMMA ClearXvarsKeeps ==
  ASSUME NEW m \in Memory, NEW l \in Lists
  PROVE  CallKeeps(m, clear_xvars(m, l))
<1> DEFINE f == [v \in Variables |-> IF v \in Range(l) THEN Unset ELSE m.var[v]]
<1>1. l \in Seq(Variables) /\ Len(l) \in Nat /\ Range(l) \in SUBSET Variables
  BY SoftcodeAssumption DEF Range
<1>2. /\ f \in [Variables -> Texts] /\ m.var \in [Variables -> Texts]
      /\ m.vars \in Int /\ m.vars - Len(l) \in Int
  BY <1>1, VariablesTyped DEF Texts
<1>3. SetOf(f) = SetOf(m.var) \ Range(l)
  BY <1>2 DEF SetOf
<1>4. PICK new : new = clear_xvars(m, l)
  OBVIOUS
<1>5. new = Assigned(m, f, m.vars - Len(l))
  BY <1>4 DEF clear_xvars, Assigned
<1> HIDE DEF f
<1>6. CASE IsInjective(l) /\ \A v \in Range(l) : m.var[v] # Unset
  <2>1. SetOf(m.var) \cap Range(l) = Range(l)
    BY <1>1, <1>6 DEF SetOf
  <2>2. Cardinality(Range(l)) = Len(l)
    <3>1. l \in Seq(Variables) /\ IsInjective(l)
      BY <1>1, <1>6
    <3> HIDE <1>6
    <3> QED
      BY <3>1, InjectiveLength, Zenon
  <2>3. Cardinality(SetOf(f)) = Cardinality(SetOf(m.var)) - Len(l)
    <3>1. ASSUME NEW S, IsFiniteSet(S), NEW T, S \cap T = T
          PROVE  Cardinality(S \ T) = Cardinality(S) - Cardinality(T)
      BY <3>1, FS_Difference
    <3>2. IsFiniteSet(SetOf(m.var))
      BY SetOfFinite
    <3>3. Cardinality(SetOf(m.var) \ Range(l)) = Cardinality(SetOf(m.var)) - Cardinality(Range(l))
      BY <2>1, <3>1, <3>2
    <3> QED
      BY <1>3, <2>2, <3>3
  <2>4. KeepsMemory(m, Assigned(m, f, m.vars - Len(l)))
    BY <1>2, <2>3, AssignedKeeps DEF VariablesAgree
  <2> QED
    BY <1>4, <1>5, <2>4, KeepsIsCallKeeps
<1>7. CASE ~(IsInjective(l) /\ \A v \in Range(l) : m.var[v] # Unset)
  <2>1. Miscounts(m, new)
    BY <1>4, <1>7 DEF Miscounts
  <2>2. new \in Memory
    BY <1>2, <1>5 DEF Assigned, Memory, Texts
  <2> QED
    BY <1>4, <2>1, <2>2 DEF CallKeeps
<1> QED
  BY <1>6, <1>7

LEMMA XvarsClrKeeps ==
  ASSUME NEW m \in Memory
  PROVE  KeepsMemory(m, xvars_clr(m))
<1> DEFINE f == [v \in Variables |-> Unset]
<1>1. f \in [Variables -> Texts] /\ SetOf(f) = {} /\ 0 \in Int
  BY DEF SetOf, Texts
<1>2. Cardinality({}) = 0
  BY FS_EmptySet
<1>3. xvars_clr(m) = Assigned(m, f, 0)
  BY DEF xvars_clr, Assigned
<1> HIDE DEF f
<1> QED
  BY <1>1, <1>2, <1>3, AssignedKeeps

LEMMA ListedNames == \A l \in Lists : l \in Seq(Variables)
BY SoftcodeAssumption

LEMMA VariableCallsKeep ==
  ASSUME NEW m \in Memory, NEW new \in VariableCalls(m)
  PROVE  CallKeeps(m, new)
<1>1. CASE \E v \in Variables, x \in Values \cup {Unset} : new = set_xvar(m, v, x)
  BY <1>1, SetXvar, KeepsIsCallKeeps DEF Texts
<1>2. ASSUME NEW l \in Lists, NEW texts \in TextsOf(DOMAIN l) \cup {<<>>},
             new = fun_xvars(m, l, texts)
      PROVE  CallKeeps(m, new)
  <2>1. CASE texts = <<>>
    BY <1>2, <2>1, ClearXvarsKeeps DEF fun_xvars
  <2>2. CASE texts # <<>>
    <3>1. HasTexts(l, texts)
      BY <2>2, ListedNames DEF TextsOf, Texts, HasTexts
    <3>2. KeepsMemory(m, SetAll(m, l, texts))
      BY <3>1, SetAllKeeps
    <3> QED
      BY <1>2, <2>2, <3>2, KeepsIsCallKeeps DEF fun_xvars
  <2> QED
    BY <2>1, <2>2
<1>3. CASE new = xvars_clr(m)
  BY <1>3, XvarsClrKeeps, KeepsIsCallKeeps
<1> QED
  BY <1>1, <1>2, <1>3 DEF VariableCalls

(* let(): whatever its arguments do, and that it restores.                 *)
LEMMA KeptTyped ==
  ASSUME NEW m, m \in Memory, NEW names, names \in Seq(Variables), NEW capitals
  PROVE  HasTexts(names, Kept(m, names, capitals))
<1> SUFFICES ASSUME NEW i \in DOMAIN names PROVE m.var[names[i]] \in Texts
  BY DEF Kept, Texts, HasTexts
<1>1. names[i] \in Variables
  OBVIOUS
<1> QED
  BY <1>1, VariablesTyped

LEMMA MeanwhileKeeps ==
  ASSUME NEW m, m \in Memory, NEW new \in Meanwhile(m)
  PROVE  KeepsMemory(m, new)
BY KeepsItself, SetXvar DEF Meanwhile, Texts

LEMMA KeepsOn ==
  ASSUME NEW m, NEW e, NEW new, KeepsMemory(m, e), KeepsMemory(e, new)
  PROVE  KeepsMemory(m, new)
BY DEF KeepsMemory

LEMMA LetMakes ==
  ASSUME NEW m, m \in Memory, NEW names, NEW values, HasTexts(names, values),
         NEW capitals, NEW new \in fun_let(m, names, values, capitals)
  PROVE  \E body : KeepsMemory(m, body) /\ new = SetAll(body, names, Kept(m, names, capitals))
<1>1. PICK before \in {SetAll(valued, names, values) : valued \in Meanwhile(m)} \cup {m} :
        \E body \in Meanwhile(before) :
          new = SetAll(body, names, Kept(m, names, capitals))
  BY DEF fun_let
<1>2. PICK body \in Meanwhile(before) :
        new = SetAll(body, names, Kept(m, names, capitals))
  BY <1>1
<1>3. KeepsMemory(m, before)
  <2>1. CASE before = m
    BY <2>1, KeepsItself
  <2>2. ASSUME NEW valued \in Meanwhile(m), before = SetAll(valued, names, values)
        PROVE  KeepsMemory(m, before)
    <3>1. KeepsMemory(m, valued) /\ valued \in Memory
      BY MeanwhileKeeps DEF KeepsMemory
    <3>2. KeepsMemory(valued, before)
      BY <2>2, <3>1, SetAllKeeps
    <3> QED
      BY <3>1, <3>2, KeepsOn
  <2> QED
    BY <1>1, <2>1, <2>2
<1>4. before \in Memory
  BY <1>3 DEF KeepsMemory
<1>5. KeepsMemory(before, body)
  BY <1>4, MeanwhileKeeps
<1> QED
  BY <1>2, <1>3, <1>5, KeepsOn

LEMMA LetKeeps ==
  ASSUME NEW m, m \in Memory, NEW names, NEW values, HasTexts(names, values),
         NEW capitals, NEW new \in fun_let(m, names, values, capitals)
  PROVE  KeepsMemory(m, new)
<1>1. PICK body : KeepsMemory(m, body) /\ new = SetAll(body, names, Kept(m, names, capitals))
  BY LetMakes
<1>2. body \in Memory
  BY <1>1 DEF KeepsMemory
<1>3. HasTexts(names, Kept(m, names, capitals))
  BY KeptTyped DEF HasTexts
<1> QED
  BY <1>1, <1>2, <1>3, SetAllKeeps, KeepsOn

(* Wherever the i-th name is among names, its old value is put back.       *)
Found(names, capitals, i) == ~ \E j \in capitals \ {1} : names[j] = names[i]

LEMMA FoundKept ==
  ASSUME NEW m, NEW names, NEW last, HasLast(names, last), NEW capitals,
         NEW i \in DOMAIN names, Found(names, capitals, i), NEW x, x = Kept(m, names, capitals)
  PROVE  SameText(names, x, last, i)
<1>1. DOMAIN names = 1..last /\ i \in 1..last
  BY DEF HasLast
<1>2. \A j \in 1..last : x[j] = IF j \in capitals \ {1} THEN Unset ELSE m.var[names[j]]
  BY <1>1 DEF Kept
<1>3. \A j \in 1..last : names[j] = names[i] => j \notin capitals \ {1}
  BY DEF Found
<1> HIDE DEF HasLast
<1> QED
  BY <1>1, <1>2, <1>3 DEF SameText

LEMMA LetGivesBack ==
  ASSUME NEW m, m \in Memory, NEW names, NEW values, HasTexts(names, values), NEW capitals
  PROVE  Restores(m, names, values, capitals)
<1> SUFFICES ASSUME NEW new \in fun_let(m, names, values, capitals), NEW i \in DOMAIN names,
                    Found(names, capitals, i)
             PROVE  new.var[names[i]] = m.var[names[i]] \/ new.vars + Len(names) > VarLim
  BY DEF Restores, Found
<1>1. PICK x : x = Kept(m, names, capitals)
  OBVIOUS
<1>2. PICK body : KeepsMemory(m, body) /\ new = SetAll(body, names, x)
  BY <1>1, LetMakes
<1>3. body \in Memory /\ HasTexts(names, x)
  BY <1>1, <1>2, KeptTyped DEF KeepsMemory, HasTexts
<1>4. PICK last : HasLast(names, last)
  BY HasSomeLast DEF HasTexts
<1>5. PICK h : Set_by(body, names, x, last, h)
  BY <1>3, <1>4, SetAllSteps
<1>6. SameText(names, x, last, i)
  BY <1>1, <1>4, FoundKept
<1>9. x[i] = m.var[names[i]]
  BY <1>1 DEF Kept, Found
<1>7. /\ last \in Nat /\ last = Len(names) /\ h[last] = new
      /\ CanSet(names, x, last) /\ Setting(body, names, x, last, h)
  BY <1>2, <1>4, <1>5 DEF HasLast, Set_by
<1>8. Restored(h[last], names[i], x[i], last)
  BY <1>3, <1>6, <1>7, SettingRestores
<1> QED
  BY <1>7, <1>8, <1>9 DEF Restored

-----------------------------------------------------------------------------
(***************************************************************************)
(* Grids and structures.                                                   *)
(***************************************************************************)
LEMMA Strange ==
  /\ Unset \notin Values /\ None \notin Values /\ Freed \notin Values
  /\ Unset # None /\ Unset # Freed /\ None # Freed /\ Own # None /\ None \notin Structures
BY SoftcodeAssumption DEF Unset, None, Freed, Own

LEMMA RegriddedKeeps ==
  ASSUME NEW m \in Memory, NEW x \in Values \cup {Unset, None, Freed},
         NEW new, new = [m EXCEPT !.grid = x]
  PROVE  new \in Memory /\ (Agrees(m) /\ x # Freed => Agrees(new))
<1>1. new \in Memory
  BY DEF Memory
<1>2. /\ SameStack(m, new) /\ SameVariables(m, new) /\ SameStructures(m, new)
      /\ new.grid = x
  BY DEF Memory, SameStack, SameVariables, SameStructures
<1> QED
  BY <1>1, <1>2, AgreesInParts, SameAgree

LEMMA GridCallsKeep ==
  ASSUME NEW m \in Memory, NEW new \in GridCalls(m)
  PROVE  CallKeeps(m, new)
<1>1. ASSUME NEW x \in Values \cup {Unset, None}, new = fun_gridmake(m, x)
      PROVE  CallKeeps(m, new)
  <2>1. x \in Values \cup {Unset, None, Freed} /\ x # Freed
    BY Strange
  <2>2. new = [m EXCEPT !.grid = x]
    BY <1>1 DEF fun_gridmake
  <2> QED
    BY <2>1, <2>2, RegriddedKeeps DEF CallKeeps
<1>2. ASSUME NEW x \in Values \cup {Unset}, new = fun_gridset(m, x)
      PROVE  CallKeeps(m, new)
  <2>1. CASE m.grid = None \/ (m.grid = Unset /\ x = Unset)
    BY <1>2, <2>1, KeepsItself, KeepsIsCallKeeps DEF fun_gridset
  <2>2. CASE ~(m.grid = None \/ (m.grid = Unset /\ x = Unset)) /\ x # Unset
    <3>1. x \in Values \cup {Unset, None, Freed} /\ x # Freed
      BY Strange
    <3>2. new = [m EXCEPT !.grid = x]
      BY <1>2, <2>2 DEF fun_gridset
    <3> QED
      BY <3>1, <3>2, RegriddedKeeps DEF CallKeeps
  <2>3. CASE ~(m.grid = None \/ (m.grid = Unset /\ x = Unset)) /\ x = Unset
    <3>1. new = [m EXCEPT !.grid = Freed]
      BY <1>2, <2>3 DEF fun_gridset
    <3>2. new \in Memory
      BY <3>1, RegriddedKeeps
    <3>3. m.grid \in Values \/ m.grid = Freed
      BY <2>3 DEF Memory
    <3>4. Agrees(m) => Emptied_cell(m, new)
      BY <1>2, <2>3, <3>3 DEF Emptied_cell, Agrees
    <3> QED
      BY <3>2, <3>4 DEF CallKeeps
  <2> QED
    BY <2>1, <2>2, <2>3
<1> QED
  BY <1>1, <1>2 DEF GridCalls

LEMMA StructuresTyped ==
  ASSUME NEW m \in Memory
  PROVE  /\ m.def \in [Structures -> SUBSET Components] /\ m.users \in [Structures -> Int]
         /\ m.structs \in Int /\ m.insts \in Int
         /\ m.comp \in [Structures \X Components -> {None, Own, Freed}]
         /\ m.inst \in [Instances -> Structures \cup {None}]
         /\ m.data \in [Keys -> Values \cup {Unset, None}]
BY DEF Memory

LEMMA Finite ==
  ASSUME NEW m, NEW f, NEW s
  PROVE  IsFiniteSet(Defined(m)) /\ IsFiniteSet(Instanced(m)) /\ IsFiniteSet(UsersOf(f, s))
<1>1. /\ Defined(m) \in SUBSET Structures /\ Instanced(m) \in SUBSET Instances
      /\ UsersOf(f, s) \in SUBSET Instances
  BY DEF Defined, Instanced, UsersOf
<1> QED
  BY <1>1, SoftcodeAssumption, FS_Subset

(* Only structures changed.                                                *)
Others(m, new) == SameStack(m, new) /\ SameVariables(m, new) /\ new.grid = m.grid

(* Whatever of structures a function changes.                              *)
AreDefined(d, n, c) ==
  /\ d \in [Structures -> SUBSET Components] /\ n \in Int
  /\ c \in [Structures \X Components -> {None, Own, Freed}]
AreInstances(i, u, o, t) ==
  /\ i \in [Instances -> Structures \cup {None}] /\ u \in [Structures -> Int] /\ o \in Int
  /\ t \in [Keys -> Values \cup {Unset, None}]
WithDefined(m, d, u, n, c) == [m EXCEPT !.def = d, !.users = u, !.structs = n, !.comp = c]
WithoutDefined(m, d, n, c) == [m EXCEPT !.def = d, !.structs = n, !.comp = c]
WithInstances(m, i, u, o, t) == [m EXCEPT !.inst = i, !.users = u, !.insts = o, !.data = t]
WithData(m, t) == [m EXCEPT !.data = t]
HasDefined(m, d, u, n, c) == m.def = d /\ m.users = u /\ m.structs = n /\ m.comp = c
HasInstances(m, i, o, t) == m.inst = i /\ m.insts = o /\ m.data = t

LEMMA StructuredMakes ==
  ASSUME NEW m, m \in Memory
  PROVE  /\ \A d, u, n, c : AreDefined(d, n, c) /\ u \in [Structures -> Int] =>
              LET new == WithDefined(m, d, u, n, c) IN
              /\ new \in Memory /\ Others(m, new)
              /\ HasDefined(new, d, u, n, c) /\ HasInstances(new, m.inst, m.insts, m.data)
         /\ \A d, n, c : AreDefined(d, n, c) =>
              LET new == WithoutDefined(m, d, n, c) IN
              /\ new \in Memory /\ Others(m, new)
              /\ HasDefined(new, d, m.users, n, c) /\ HasInstances(new, m.inst, m.insts, m.data)
         /\ \A i, u, o, t : AreInstances(i, u, o, t) =>
              LET new == WithInstances(m, i, u, o, t) IN
              /\ new \in Memory /\ Others(m, new)
              /\ HasDefined(new, m.def, u, m.structs, m.comp) /\ HasInstances(new, i, o, t)
         /\ \A t \in [Keys -> Values \cup {Unset, None}] :
              LET new == WithData(m, t) IN
              /\ new \in Memory /\ Others(m, new)
              /\ HasDefined(new, m.def, m.users, m.structs, m.comp)
              /\ HasInstances(new, m.inst, m.insts, t)
<1>1. ASSUME NEW d, NEW u, NEW n, NEW c, AreDefined(d, n, c), u \in [Structures -> Int],
             NEW new, new = WithDefined(m, d, u, n, c)
      PROVE  /\ new \in Memory /\ Others(m, new)
             /\ HasDefined(new, d, u, n, c) /\ HasInstances(new, m.inst, m.insts, m.data)
  <2>1. new \in Memory
    BY <1>1 DEF AreDefined, WithDefined, Memory
  <2> QED
    BY <1>1, <2>1 DEF WithDefined, Memory, Others, SameStack, SameVariables, HasDefined, HasInstances
<1>2. ASSUME NEW d, NEW n, NEW c, AreDefined(d, n, c),
             NEW new, new = WithoutDefined(m, d, n, c)
      PROVE  /\ new \in Memory /\ Others(m, new)
             /\ HasDefined(new, d, m.users, n, c) /\ HasInstances(new, m.inst, m.insts, m.data)
  <2>1. new \in Memory
    BY <1>2 DEF AreDefined, WithoutDefined, Memory
  <2> QED
    BY <1>2, <2>1 DEF WithoutDefined, Memory, Others, SameStack, SameVariables, HasDefined, HasInstances
<1>3. ASSUME NEW i, NEW u, NEW o, NEW t, AreInstances(i, u, o, t),
             NEW new, new = WithInstances(m, i, u, o, t)
      PROVE  /\ new \in Memory /\ Others(m, new)
             /\ HasDefined(new, m.def, u, m.structs, m.comp) /\ HasInstances(new, i, o, t)
  <2>1. new \in Memory
    BY <1>3 DEF AreInstances, WithInstances, Memory
  <2> QED
    BY <1>3, <2>1 DEF WithInstances, Memory, Others, SameStack, SameVariables, HasDefined, HasInstances
<1>4. ASSUME NEW t \in [Keys -> Values \cup {Unset, None}], NEW new, new = WithData(m, t)
      PROVE  /\ new \in Memory /\ Others(m, new)
             /\ HasDefined(new, m.def, m.users, m.structs, m.comp)
             /\ HasInstances(new, m.inst, m.insts, t)
  <2>1. new \in Memory
    BY <1>4 DEF WithData, Memory
  <2> QED
    BY <1>4, <2>1 DEF WithData, Memory, Others, SameStack, SameVariables, HasDefined, HasInstances
<1> QED
  BY <1>1, <1>2, <1>3, <1>4

LEMMA StructuredKeeps ==
  ASSUME NEW m, NEW new, new \in Memory, Others(m, new),
         StructuresAgree(m) => StructuresAgree(new)
  PROVE  KeepsMemory(m, new)
BY AgreesInParts, SameAgree DEF KeepsMemory, Others

(* What StructuresAgree says, in two parts.                                *)
InstancesAgree(m) ==
  /\ m.insts = Cardinality(Instanced(m)) /\ m.insts <= InstLim + 1
  /\ \A s \in Structures : m.users[s] = Cardinality(UsersOf(m.inst, s))
DefinedAgree(m) ==
  /\ m.structs = Cardinality(Defined(m)) /\ m.structs <= StructLim + 1
  /\ \A k \in DOMAIN m.comp : m.comp[k] = IF k[2] \in m.def[k[1]] THEN Own ELSE None
DataAgree(m) ==
  /\ \A i \in Instanced(m) : m.inst[i] \in Defined(m)
  /\ \A k \in Keys :
       m.data[k] # None <=> \E i \in Instanced(m) : k \in KeysOf(m, i, m.inst[i])

LEMMA StructuresInParts ==
  ASSUME NEW m
  PROVE  StructuresAgree(m) <=> InstancesAgree(m) /\ DefinedAgree(m) /\ DataAgree(m)
BY DEF StructuresAgree, InstancesAgree, DefinedAgree, DataAgree

LEMMA SameKeys ==
  ASSUME NEW m, NEW new, NEW i, NEW s, new.def[s] = m.def[s]
  PROVE  KeysOf(new, i, s) = KeysOf(m, i, s)
BY DEF KeysOf

LEMMA StructureKeeps ==
  ASSUME NEW m \in Memory, NEW s \in Structures, NEW comps \in (SUBSET Components) \ {{}}
  PROVE  KeepsMemory(m, fun_structure(m, s, comps))
<1>1. CASE m.structs > StructLim \/ m.def[s] # {}
  BY <1>1, KeepsItself DEF fun_structure
<1>2. CASE ~(m.structs > StructLim \/ m.def[s] # {})
  <2>1. PICK new : new = fun_structure(m, s, comps)
    OBVIOUS
  <2>2. new = [m EXCEPT !.def[s] = comps, !.users[s] = 0, !.structs = @ + 1,
                 !.comp = [k \in DOMAIN @ |->
                            IF k[1] = s /\ k[2] \in comps /\ @[k] = None THEN Own ELSE @[k]]]
    BY <1>2, <2>1 DEF fun_structure
  <2>3. PICK d, u, c :
          /\ d = [m.def EXCEPT ![s] = comps] /\ u = [m.users EXCEPT ![s] = 0]
          /\ c = [k \in Structures \X Components |->
                    IF k[1] = s /\ k[2] \in comps /\ m.comp[k] = None THEN Own ELSE m.comp[k]]
    OBVIOUS
  <2>4. /\ new \in Memory /\ Others(m, new)
        /\ HasDefined(new, d, u, m.structs + 1, c) /\ HasInstances(new, m.inst, m.insts, m.data)
    <3>1. DOMAIN m.comp = Structures \X Components
      BY StructuresTyped
    <3>2. new = WithDefined(m, d, u, m.structs + 1, c)
      BY <2>2, <2>3, <3>1 DEF WithDefined
    <3>3. AreDefined(d, m.structs + 1, c) /\ u \in [Structures -> Int]
      BY <2>3, StructuresTyped DEF AreDefined
    <3> QED
      BY <3>2, <3>3, StructuredMakes
  <2> USE DEF HasDefined, HasInstances
  <2>5. ASSUME StructuresAgree(m) PROVE StructuresAgree(new)
    <3>1. InstancesAgree(m) /\ DefinedAgree(m) /\ DataAgree(m)
      BY <2>5, StructuresInParts
    <3>2. /\ Defined(new) = Defined(m) \cup {s} /\ s \notin Defined(m)
          /\ Instanced(new) = Instanced(m)
      BY <1>2, <2>3, <2>4, StructuresTyped DEF Defined, Instanced
    <3>3. \A i \in Instanced(m) : m.inst[i] \in Defined(m) /\ m.inst[i] # s
      BY <3>1, <3>2 DEF DataAgree
    <3>4. InstancesAgree(new)
      <4>1. UsersOf(m.inst, s) = {}
        BY <3>3, Strange DEF UsersOf, Instanced
      <4>2. new.users[s] = Cardinality(UsersOf(m.inst, s))
        BY <2>3, <2>4, <4>1, StructuresTyped, FS_EmptySet
      <4>3. \A t \in Structures : t # s => new.users[t] = m.users[t]
        BY <2>3, <2>4, StructuresTyped
      <4> QED
        BY <2>3, <2>4, <3>1, <3>2, <4>2, <4>3 DEF InstancesAgree
    <3>5. DefinedAgree(new)
      <4>1. new.structs = Cardinality(Defined(new)) /\ new.structs <= StructLim + 1
        <5>1. Cardinality(Defined(new)) = Cardinality(Defined(m)) + 1
          BY <3>2, Finite, FS_AddElement
        <5>2. m.structs = Cardinality(Defined(m)) /\ m.structs <= StructLim /\ StructLim \in Nat
          BY <1>2, <3>1, StructuresTyped, SoftcodeAssumption DEF DefinedAgree
        <5> QED
          BY <2>3, <2>4, <5>1, <5>2, StructuresTyped
      <4>2. ASSUME NEW k \in Structures \X Components
            PROVE  new.comp[k] = IF k[2] \in new.def[k[1]] THEN Own ELSE None
        <5>1. m.comp[k] = IF k[2] \in m.def[k[1]] THEN Own ELSE None
          BY <3>1, StructuresTyped DEF DefinedAgree
        <5>2. new.comp[k] = IF k[1] = s /\ k[2] \in comps /\ m.comp[k] = None THEN Own ELSE m.comp[k]
          BY <2>3, <2>4
        <5>3. k[1] \in Structures /\ new.def[k[1]] = IF k[1] = s THEN comps ELSE m.def[k[1]]
          BY <2>3, <2>4, StructuresTyped
        <5>4. CASE k[1] = s
          BY <1>2, <5>1, <5>2, <5>3, <5>4
        <5>5. CASE k[1] # s
          BY <5>1, <5>2, <5>3, <5>5
        <5> QED
          BY <5>4, <5>5
      <4>3. DOMAIN new.comp = Structures \X Components
        BY <2>3, <2>4
      <4> QED
        BY <4>1, <4>2, <4>3 DEF DefinedAgree
    <3>6. DataAgree(new)
      <4>1. \A i \in Instanced(m) : KeysOf(new, i, m.inst[i]) = KeysOf(m, i, m.inst[i])
        <5> TAKE i \in Instanced(m)
        <5>1. m.inst[i] # s
          BY <3>3
        <5>2. new.def[m.inst[i]] = m.def[m.inst[i]]
          BY <2>3, <2>4, <3>3, <5>1, StructuresTyped DEF Defined
        <5> QED
          BY <5>2, SameKeys
      <4> QED
        BY <2>3, <2>4, <3>1, <3>2, <4>1 DEF DataAgree
    <3> QED
      BY <3>4, <3>5, <3>6, StructuresInParts
  <2> QED
    BY <2>1, <2>3, <2>4, <2>5, StructuredKeeps
<1> QED
  BY <1>1, <1>2

LEMMA UnstructureKeeps ==
  ASSUME NEW m \in Memory, NEW s \in Structures
  PROVE  KeepsMemory(m, fun_unstructure(m, s))
<1>1. CASE m.def[s] = {} \/ m.users[s] > 0
  BY <1>1, KeepsItself DEF fun_unstructure
<1>2. CASE ~(m.def[s] = {} \/ m.users[s] > 0)
  <2>1. PICK new : new = fun_unstructure(m, s)
    OBVIOUS
  <2>2. new = [m EXCEPT !.def[s] = {}, !.structs = @ - 1,
                 !.comp = [k \in DOMAIN @ |->
                            IF k[1] = s /\ k[2] \in m.def[s] THEN None ELSE @[k]]]
    BY <1>2, <2>1 DEF fun_unstructure
  <2>3. PICK d, c :
          /\ d = [m.def EXCEPT ![s] = {}]
          /\ c = [k \in Structures \X Components |->
                    IF k[1] = s /\ k[2] \in m.def[s] THEN None ELSE m.comp[k]]
    OBVIOUS
  <2>4. /\ new \in Memory /\ Others(m, new)
        /\ HasDefined(new, d, m.users, m.structs - 1, c) /\ HasInstances(new, m.inst, m.insts, m.data)
    <3>1. DOMAIN m.comp = Structures \X Components
      BY StructuresTyped
    <3>2. new = WithoutDefined(m, d, m.structs - 1, c)
      BY <2>2, <2>3, <3>1 DEF WithoutDefined
    <3>3. AreDefined(d, m.structs - 1, c)
      BY <2>3, StructuresTyped DEF AreDefined
    <3> QED
      BY <3>2, <3>3, StructuredMakes
  <2> USE DEF HasDefined, HasInstances
  <2>5. ASSUME StructuresAgree(m) PROVE StructuresAgree(new)
    <3>1. InstancesAgree(m) /\ DefinedAgree(m) /\ DataAgree(m)
      BY <2>5, StructuresInParts
    <3>2. /\ Defined(new) = Defined(m) \ {s} /\ s \in Defined(m)
          /\ Instanced(new) = Instanced(m)
      BY <1>2, <2>3, <2>4, StructuresTyped DEF Defined, Instanced
    <3>3. UsersOf(m.inst, s) = {}
      <4>1. m.users[s] = Cardinality(UsersOf(m.inst, s))
        BY <3>1 DEF InstancesAgree
      <4>2. IsFiniteSet(UsersOf(m.inst, s)) /\ Cardinality(UsersOf(m.inst, s)) \in Nat
        BY Finite, FS_CardinalityType
      <4>3. Cardinality(UsersOf(m.inst, s)) = 0
        BY <1>2, <4>1, <4>2
      <4> QED
        BY <4>2, <4>3, FS_EmptySet
    <3>4. \A i \in Instanced(m) : m.inst[i] \in Defined(m) /\ m.inst[i] # s
      BY <3>1, <3>3 DEF DataAgree, Instanced, UsersOf
    <3>5. InstancesAgree(new)
      BY <2>3, <2>4, <3>1, <3>2 DEF InstancesAgree
    <3>6. DefinedAgree(new)
      <4>1. new.structs = Cardinality(Defined(new)) /\ new.structs <= StructLim + 1
        <5>1. Cardinality(Defined(new)) = Cardinality(Defined(m)) - 1
          BY <3>2, Finite, FS_RemoveElement
        <5>2. m.structs = Cardinality(Defined(m)) /\ m.structs <= StructLim + 1 /\ StructLim \in Nat
          BY <3>1, SoftcodeAssumption DEF DefinedAgree
        <5> QED
          BY <2>3, <2>4, <5>1, <5>2, StructuresTyped
      <4>2. ASSUME NEW k \in Structures \X Components
            PROVE  new.comp[k] = IF k[2] \in new.def[k[1]] THEN Own ELSE None
        <5>1. m.comp[k] = IF k[2] \in m.def[k[1]] THEN Own ELSE None
          BY <3>1, StructuresTyped DEF DefinedAgree
        <5>2. new.comp[k] = IF k[1] = s /\ k[2] \in m.def[s] THEN None ELSE m.comp[k]
          BY <2>3, <2>4
        <5>3. k[1] \in Structures /\ new.def[k[1]] = IF k[1] = s THEN {} ELSE m.def[k[1]]
          BY <2>3, <2>4, StructuresTyped
        <5>4. CASE k[1] = s
          BY <5>1, <5>2, <5>3, <5>4
        <5>5. CASE k[1] # s
          BY <5>1, <5>2, <5>3, <5>5
        <5> QED
          BY <5>4, <5>5
      <4>3. DOMAIN new.comp = Structures \X Components
        BY <2>3, <2>4
      <4> QED
        BY <4>1, <4>2, <4>3 DEF DefinedAgree
    <3>7. DataAgree(new)
      <4>1. \A i \in Instanced(m) : KeysOf(new, i, m.inst[i]) = KeysOf(m, i, m.inst[i])
        <5> TAKE i \in Instanced(m)
        <5>1. m.inst[i] # s
          BY <3>4
        <5>2. new.def[m.inst[i]] = m.def[m.inst[i]]
          BY <2>3, <2>4, <3>4, <5>1, StructuresTyped DEF Defined
        <5> QED
          BY <5>2, SameKeys
      <4> QED
        BY <2>3, <2>4, <3>1, <3>2, <3>4, <4>1 DEF DataAgree
    <3> QED
      BY <3>5, <3>6, <3>7, StructuresInParts
  <2> QED
    BY <2>1, <2>3, <2>4, <2>5, StructuredKeeps
<1> QED
  BY <1>1, <1>2

(* A new instance has data under its keys, and others keep theirs.         *)
LEMMA InstantiatedKeeps ==
  ASSUME NEW m, m \in Memory, NEW i \in Instances, NEW s \in Structures, Instantiable(m, i, s),
         NEW t \in [Keys -> Values \cup {Unset, None}],
         \A k \in Keys : t[k] # None <=> m.data[k] # None \/ k \in KeysOf(m, i, s)
  PROVE  KeepsMemory(m, Instantiated(m, i, s, t))
<1>1. PICK new : new = Instantiated(m, i, s, t)
  OBVIOUS
<1>2. PICK f, u : f = [m.inst EXCEPT ![i] = s] /\ u = [m.users EXCEPT ![s] = @ + 1]
  OBVIOUS
<1>3. /\ new \in Memory /\ Others(m, new)
      /\ HasDefined(new, m.def, u, m.structs, m.comp) /\ HasInstances(new, f, m.insts + 1, t)
  <2>1. new = WithInstances(m, f, u, m.insts + 1, t)
    BY <1>1, <1>2 DEF Instantiated, WithInstances
  <2>2. AreInstances(f, u, m.insts + 1, t)
    BY <1>2, StructuresTyped DEF AreInstances
  <2> QED
    BY <2>1, <2>2, StructuredMakes
<1>4. ASSUME StructuresAgree(m) PROVE StructuresAgree(new)
  <2> USE DEF HasDefined, HasInstances
  <2>1. InstancesAgree(m) /\ DefinedAgree(m) /\ DataAgree(m)
    BY <1>4, StructuresInParts
  <2>2. m.insts <= InstLim /\ m.inst[i] = None /\ s \in Defined(m)
    BY DEF Instantiable, Defined
  <2>3. /\ \A j \in Instances : f[j] = IF j = i THEN s ELSE m.inst[j]
        /\ \A r \in Structures : u[r] = IF r = s THEN m.users[s] + 1 ELSE m.users[r]
    BY <1>2, StructuresTyped
  <2>4. Instanced(new) = Instanced(m) \cup {i} /\ i \notin Instanced(m) /\ Defined(new) = Defined(m)
    BY <1>3, <2>2, <2>3, Strange DEF Instanced, Defined
  <2>5. InstancesAgree(new)
    <3>1. new.insts = Cardinality(Instanced(new)) /\ new.insts <= InstLim + 1
      <4>1. Cardinality(Instanced(new)) = Cardinality(Instanced(m)) + 1
        BY <2>4, Finite, FS_AddElement
      <4>2. m.insts = Cardinality(Instanced(m)) /\ InstLim \in Nat
        BY <2>1, SoftcodeAssumption DEF InstancesAgree
      <4> QED
        BY <1>3, <2>2, <4>1, <4>2, StructuresTyped
    <3>2. ASSUME NEW r \in Structures PROVE u[r] = Cardinality(UsersOf(f, r))
      <4>1. m.users[r] = Cardinality(UsersOf(m.inst, r))
        BY <2>1 DEF InstancesAgree
      <4>2. CASE r = s
        <5>1. UsersOf(f, r) = UsersOf(m.inst, r) \cup {i} /\ i \notin UsersOf(m.inst, r)
          BY <2>2, <2>3, <4>2, Strange DEF UsersOf
        <5>2. Cardinality(UsersOf(f, r)) = Cardinality(UsersOf(m.inst, r)) + 1
          BY <5>1, Finite, FS_AddElement
        <5> QED
          BY <2>3, <4>1, <4>2, <5>2
      <4>3. CASE r # s
        <5>1. UsersOf(f, r) = UsersOf(m.inst, r)
          BY <2>2, <2>3, <4>3, Strange DEF UsersOf
        <5> QED
          BY <2>3, <4>1, <4>3, <5>1
      <4> QED
        BY <4>2, <4>3
    <3> QED
      BY <1>3, <3>1, <3>2 DEF InstancesAgree
  <2>6. DefinedAgree(new)
    BY <1>3, <2>1, <2>4 DEF DefinedAgree
  <2>7. DataAgree(new)
    <3>1. \A j, r : KeysOf(new, j, r) = KeysOf(m, j, r)
      BY <1>3, SameKeys
    <3>2. \A j \in Instanced(m) : j \in Instances /\ f[j] = m.inst[j] /\ m.inst[j] \in Defined(m)
      BY <2>1, <2>3, <2>4 DEF DataAgree, Instanced
    <3>3. f[i] = s
      BY <2>3
    <3>4. \A j \in Instanced(new) : new.inst[j] \in Defined(new)
      BY <1>3, <2>2, <2>4, <3>2, <3>3
    <3>5. ASSUME NEW k \in Keys
          PROVE  t[k] # None <=> \E j \in Instanced(new) : k \in KeysOf(new, j, new.inst[j])
      <4>1. m.data[k] # None <=> \E j \in Instanced(m) : k \in KeysOf(m, j, m.inst[j])
        BY <2>1 DEF DataAgree
      <4>2. \A j \in Instanced(m) : KeysOf(new, j, new.inst[j]) = KeysOf(m, j, m.inst[j])
        BY <1>3, <3>1, <3>2
      <4>3. KeysOf(new, i, new.inst[i]) = KeysOf(m, i, s)
        BY <1>3, <3>1, <3>3
      <4> QED
        BY <2>4, <4>1, <4>2, <4>3
    <3> QED
      BY <1>3, <3>4, <3>5 DEF DataAgree
  <2> QED
    BY <2>5, <2>6, <2>7, StructuresInParts
<1> QED
  BY <1>1, <1>3, <1>4, StructuredKeeps

ComponentTexts == UNION {TextsOf(c) : c \in SUBSET Components}

LEMMA TextedIs ==
  ASSUME NEW t \in [Keys -> Values \cup {Unset, None}], NEW i, NEW texts \in ComponentTexts
  PROVE  /\ Texted(t, i, texts) \in [Keys -> Values \cup {Unset, None}]
         /\ \A k \in Keys : Texted(t, i, texts)[k] # None <=> t[k] # None
<1>1. PICK C : texts \in [C -> Values \cup {Unset}]
  BY DEF ComponentTexts, TextsOf
<1>2. ASSUME NEW k \in Keys, \E c \in DOMAIN texts : k = i \o c
      PROVE  texts[CHOOSE c \in DOMAIN texts : k = i \o c] \in Values \cup {Unset}
  <2>1. (CHOOSE c \in DOMAIN texts : k = i \o c) \in C
    BY <1>1, <1>2
  <2> QED
    BY <1>1, <2>1
<1>3. PICK y : y = [k \in Keys |->
        IF t[k] # None /\ \E c \in DOMAIN texts : k = i \o c
        THEN texts[CHOOSE c \in DOMAIN texts : k = i \o c] ELSE t[k]]
  OBVIOUS
<1>4. ASSUME NEW k \in Keys
      PROVE  y[k] \in Values \cup {Unset, None} /\ (y[k] # None <=> t[k] # None)
  <2>1. CASE t[k] # None /\ \E c \in DOMAIN texts : k = i \o c
    <3>1. y[k] = texts[CHOOSE c \in DOMAIN texts : k = i \o c]
      BY <1>3, <2>1
    <3> QED
      BY <1>2, <2>1, <3>1, Strange
  <2>2. CASE ~(t[k] # None /\ \E c \in DOMAIN texts : k = i \o c)
    <3>1. y[k] = t[k]
      BY <1>3, <2>2
    <3> QED
      BY <3>1
  <2> QED
    BY <2>1, <2>2
<1>5. Texted(t, i, texts) = y
  BY <1>3 DEF Texted
<1>6. y \in [Keys -> Values \cup {Unset, None}]
  BY <1>3, <1>4
<1> QED
  BY <1>4, <1>5, <1>6

LEMMA ConstructKeeps ==
  ASSUME NEW m, m \in Memory, NEW i \in Instances, NEW s \in Structures,
         NEW texts \in ComponentTexts
  PROVE  KeepsMemory(m, fun_construct(m, i, s, texts))
<1>1. PICK e : e = [k \in Keys |->
                     IF m.data[k] = None /\ k \in KeysOf(m, i, s) THEN Unset ELSE m.data[k]]
  OBVIOUS
<1>2. /\ e \in [Keys -> Values \cup {Unset, None}]
      /\ \A k \in Keys : e[k] # None <=> m.data[k] # None \/ k \in KeysOf(m, i, s)
  BY <1>1, StructuresTyped, Strange
<1>3. PICK t : t = Texted(e, i, texts)
  OBVIOUS
<1>4. /\ t \in [Keys -> Values \cup {Unset, None}]
      /\ \A k \in Keys : t[k] # None <=> e[k] # None
  BY <1>2, <1>3, TextedIs
<1>5. \A k \in Keys : t[k] # None <=> m.data[k] # None \/ k \in KeysOf(m, i, s)
  BY <1>2, <1>4
<1>6. Instantiable(m, i, s) => KeepsMemory(m, Instantiated(m, i, s, t))
  BY <1>4, <1>5, InstantiatedKeeps
<1>7. fun_construct(m, i, s, texts) = m
        \/ (Instantiable(m, i, s) /\ fun_construct(m, i, s, texts) = Instantiated(m, i, s, t))
  BY <1>1, <1>3 DEF fun_construct
<1> QED
  BY <1>6, <1>7, KeepsItself

LEMMA LoadKeeps ==
  ASSUME NEW m, m \in Memory, NEW i \in Instances, NEW s \in Structures, NEW x \in Values
  PROVE  KeepsMemory(m, load_structure(m, i, s, x))
<1>1. PICK t : t = [k \in Keys |->
                     IF m.data[k] = None /\ k \in KeysOf(m, i, s) THEN x ELSE m.data[k]]
  OBVIOUS
<1>2. /\ t \in [Keys -> Values \cup {Unset, None}]
      /\ \A k \in Keys : t[k] # None <=> m.data[k] # None \/ k \in KeysOf(m, i, s)
  BY <1>1, StructuresTyped, Strange
<1>3. Instantiable(m, i, s) => KeepsMemory(m, Instantiated(m, i, s, t))
  BY <1>2, InstantiatedKeeps
<1> QED
  BY <1>1, <1>3, KeepsItself DEF load_structure

LEMMA ModifyKeeps ==
  ASSUME NEW m, m \in Memory, NEW i \in Instances, NEW texts \in ComponentTexts
  PROVE  KeepsMemory(m, fun_modify(m, i, texts))
<1>1. CASE m.inst[i] = None
  BY <1>1, KeepsItself DEF fun_modify
<1>2. CASE m.inst[i] # None
  <2>1. PICK new, t : new = fun_modify(m, i, texts) /\ t = Texted(m.data, i, texts)
    OBVIOUS
  <2>2. /\ t \in [Keys -> Values \cup {Unset, None}]
        /\ \A k \in Keys : t[k] # None <=> m.data[k] # None
    BY <2>1, StructuresTyped, TextedIs
  <2>3. new = WithData(m, t)
    BY <1>2, <2>1 DEF fun_modify, WithData
  <2>4. /\ new \in Memory /\ Others(m, new)
        /\ HasDefined(new, m.def, m.users, m.structs, m.comp) /\ HasInstances(new, m.inst, m.insts, t)
    BY <2>2, <2>3, StructuredMakes
  <2>5. ASSUME StructuresAgree(m) PROVE StructuresAgree(new)
    <3> USE DEF HasDefined, HasInstances
    <3>1. InstancesAgree(m) /\ DefinedAgree(m) /\ DataAgree(m)
      BY <2>5, StructuresInParts
    <3>2. Instanced(new) = Instanced(m) /\ Defined(new) = Defined(m)
      BY <2>4 DEF Instanced, Defined
    <3>3. InstancesAgree(new) /\ DefinedAgree(new)
      BY <2>4, <3>1, <3>2 DEF InstancesAgree, DefinedAgree
    <3>4. \A j, r : KeysOf(new, j, r) = KeysOf(m, j, r)
      BY <2>4, SameKeys
    <3>5. Instanced(m) \subseteq Instances
      BY DEF Instanced
    <3>6. DataAgree(new)
      BY <2>2, <2>4, <3>1, <3>2, <3>4, <3>5 DEF DataAgree
    <3> QED
      BY <3>3, <3>6, StructuresInParts
  <2> QED
    BY <2>1, <2>4, <2>5, StructuredKeeps
<1> QED
  BY <1>1, <1>2

Removed(m, i, s, f, u, t) ==
  /\ f = [m.inst EXCEPT ![i] = None] /\ u = [m.users EXCEPT ![s] = @ - 1]
  /\ t = [k \in Keys |-> IF k \in KeysOf(m, i, s) THEN None ELSE m.data[k]]

LEMMA RemovedIs ==
  ASSUME NEW m, NEW i, NEW s, s = m.inst[i], s # None, NEW f, NEW u, NEW t,
         Removed(m, i, s, f, u, t)
  PROVE  fun_destruct(m, i) = WithInstances(m, f, u, m.insts - 1, t)
<1>1. fun_destruct(m, i)
        = [m EXCEPT !.inst[i] = None, !.users[s] = @ - 1, !.insts = @ - 1, !.data = t]
  BY DEF fun_destruct, Removed
<1>2. f = [m.inst EXCEPT ![i] = None] /\ u = [m.users EXCEPT ![s] = @ - 1]
  BY DEF Removed
<1> QED
  BY <1>1, <1>2 DEF WithInstances

LEMMA DestructKeeps ==
  ASSUME NEW m, m \in Memory, NEW i \in Instances
  PROVE  CallKeeps(m, fun_destruct(m, i))
<1>1. PICK new, s : new = fun_destruct(m, i) /\ s = m.inst[i]
  OBVIOUS
<1>2. CASE s = None
  BY <1>1, <1>2, KeepsItself, KeepsIsCallKeeps DEF fun_destruct
<1>3. CASE s # None
  <2>1. s \in Structures
    BY <1>1, <1>3, StructuresTyped
  <2>2. PICK f, u, t :
          /\ f = [m.inst EXCEPT ![i] = None] /\ u = [m.users EXCEPT ![s] = @ - 1]
          /\ t = [k \in Keys |-> IF k \in KeysOf(m, i, s) THEN None ELSE m.data[k]]
    OBVIOUS
  <2>3. /\ new \in Memory /\ Others(m, new)
        /\ HasDefined(new, m.def, u, m.structs, m.comp) /\ HasInstances(new, f, m.insts - 1, t)
    <3>1. new = WithInstances(m, f, u, m.insts - 1, t)
      BY <1>1, <1>3, <2>2, RemovedIs DEF Removed
    <3>2. AreInstances(f, u, m.insts - 1, t)
      BY <2>1, <2>2, StructuresTyped DEF AreInstances
    <3> QED
      BY <3>1, <3>2, StructuredMakes
  <2>4. ASSUME StructuresAgree(m), ~Shared_key(m, new) PROVE StructuresAgree(new)
    <3> USE DEF HasDefined, HasInstances
    <3>1. InstancesAgree(m) /\ DefinedAgree(m) /\ DataAgree(m)
      BY <2>4, StructuresInParts
    <3>2. /\ \A j \in Instances : f[j] = IF j = i THEN None ELSE m.inst[j]
          /\ \A r \in Structures : u[r] = IF r = s THEN m.users[s] - 1 ELSE m.users[r]
      BY <2>2, StructuresTyped
    <3>3. Instanced(new) = Instanced(m) \ {i} /\ i \in Instanced(m) /\ Defined(new) = Defined(m)
      BY <1>1, <1>3, <2>3, <3>2 DEF Instanced, Defined
    <3>4. InstancesAgree(new)
      <4>1. new.insts = Cardinality(Instanced(new)) /\ new.insts <= InstLim + 1
        <5>1. Cardinality(Instanced(new)) = Cardinality(Instanced(m)) - 1
          BY <3>3, Finite, FS_RemoveElement
        <5>2. m.insts = Cardinality(Instanced(m)) /\ m.insts <= InstLim + 1 /\ InstLim \in Nat
          BY <3>1, SoftcodeAssumption DEF InstancesAgree
        <5> QED
          BY <2>3, <5>1, <5>2, StructuresTyped
      <4>2. ASSUME NEW r \in Structures PROVE u[r] = Cardinality(UsersOf(f, r))
        <5>1. m.users[r] = Cardinality(UsersOf(m.inst, r))
          BY <3>1 DEF InstancesAgree
        <5>2. CASE r = s
          <6>1. UsersOf(f, r) = UsersOf(m.inst, r) \ {i} /\ i \in UsersOf(m.inst, r)
            BY <1>1, <1>3, <3>2, <5>2 DEF UsersOf
          <6>2. Cardinality(UsersOf(f, r)) = Cardinality(UsersOf(m.inst, r)) - 1
            BY <6>1, Finite, FS_RemoveElement
          <6> QED
            BY <3>2, <5>1, <5>2, <6>2
        <5>3. CASE r # s
          <6>1. UsersOf(f, r) = UsersOf(m.inst, r)
            BY <1>1, <3>2, <5>3, Strange DEF UsersOf
          <6> QED
            BY <3>2, <5>1, <5>3, <6>1
        <5> QED
          BY <5>2, <5>3
      <4> QED
        BY <2>3, <4>1, <4>2 DEF InstancesAgree
    <3>5. DefinedAgree(new)
      BY <2>3, <3>1, <3>3 DEF DefinedAgree
    <3>6. DataAgree(new)
      <4>1. \A j, r : KeysOf(new, j, r) = KeysOf(m, j, r)
        BY <2>3, SameKeys
      <4>2. \A j \in Instanced(new) : j \in Instanced(m) /\ j # i /\ new.inst[j] = m.inst[j]
        BY <2>3, <3>2, <3>3 DEF Instanced
      <4>3. \A j \in Instanced(new) : new.inst[j] \in Defined(new)
        BY <3>1, <3>3, <4>2 DEF DataAgree
      <4>4. \A j \in Instanced(new) : KeysOf(m, i, s) \cap KeysOf(m, j, m.inst[j]) = {}
        BY <1>1, <2>4, <3>3, <4>2 DEF Shared_key
      <4>5. ASSUME NEW k \in Keys
            PROVE  t[k] # None <=> \E j \in Instanced(new) : k \in KeysOf(new, j, new.inst[j])
        <5>1. m.data[k] # None <=> \E j \in Instanced(m) : k \in KeysOf(m, j, m.inst[j])
          BY <3>1 DEF DataAgree
        <5>2. \A j \in Instanced(new) : KeysOf(new, j, new.inst[j]) = KeysOf(m, j, m.inst[j])
          BY <4>1, <4>2
        <5>3. t[k] = IF k \in KeysOf(m, i, s) THEN None ELSE m.data[k]
          BY <2>2
        <5>4. CASE k \in KeysOf(m, i, s)
          BY <4>4, <5>2, <5>3, <5>4
        <5>5. CASE k \notin KeysOf(m, i, s)
          <6>1. (\E j \in Instanced(m) : k \in KeysOf(m, j, m.inst[j]))
                  <=> \E j \in Instanced(new) : k \in KeysOf(m, j, m.inst[j])
            BY <1>1, <3>3, <5>5
          <6> QED
            BY <5>1, <5>2, <5>3, <5>5, <6>1
        <5> QED
          BY <5>4, <5>5
      <4> QED
        BY <2>3, <4>3, <4>5 DEF DataAgree
    <3> QED
      BY <3>4, <3>5, <3>6, StructuresInParts
  <2>5. CASE Shared_key(m, new)
    BY <1>1, <2>3, <2>5 DEF CallKeeps
  <2>6. CASE ~Shared_key(m, new)
    BY <1>1, <2>3, <2>4, <2>6, StructuredKeeps, KeepsIsCallKeeps
  <2> QED
    BY <2>5, <2>6
<1> QED
  BY <1>2, <1>3

LEMMA StructureCallsKeep ==
  ASSUME NEW m, m \in Memory, NEW new \in StructureCalls(m)
  PROVE  CallKeeps(m, new)
<1>1. CASE \E s \in Structures, comps \in (SUBSET Components) \ {{}} : new = fun_structure(m, s, comps)
  BY <1>1, StructureKeeps, KeepsIsCallKeeps
<1>2. CASE \E s \in Structures : new = fun_unstructure(m, s)
  BY <1>2, UnstructureKeeps, KeepsIsCallKeeps
<1>3. CASE \E i \in Instances, s \in Structures, texts \in ComponentTexts :
             new = fun_construct(m, i, s, texts)
  BY <1>3, ConstructKeeps, KeepsIsCallKeeps
<1>4. CASE \E i \in Instances, s \in Structures, x \in Values : new = load_structure(m, i, s, x)
  BY <1>4, LoadKeeps, KeepsIsCallKeeps
<1>5. CASE \E i \in Instances, texts \in ComponentTexts : new = fun_modify(m, i, texts)
  BY <1>5, ModifyKeeps, KeepsIsCallKeeps
<1>6. CASE \E i \in Instances : new = fun_destruct(m, i)
  BY <1>6, DestructKeeps
<1> QED
  BY <1>1, <1>2, <1>3, <1>4, <1>5, <1>6 DEF StructureCalls, ComponentTexts

LEMMA CallsKeep ==
  ASSUME NEW m, m \in Memory, NEW new \in Calls(m)
  PROVE  CallKeeps(m, new)
<1>1. \/ new \in StackCalls(m) \/ new \in VariableCalls(m)
      \/ new \in StructureCalls(m) \/ new \in GridCalls(m)
  BY DEF Calls
<1> QED
  BY <1>1, StackCallsKeep, VariableCallsKeep, StructureCallsKeep, GridCallsKeep, KeepsIsCallKeeps

-----------------------------------------------------------------------------
(***************************************************************************)
(* What is left when an object is destroyed, and what the next one of its  *)
(* number finds.                                                           *)
(***************************************************************************)
LEMMA ClearedTyped ==
  ASSUME NEW m, m \in Memory, NEW kept \in BOOLEAN
  PROVE  Cleared(m, kept) \in Memory
<1>1. PICK e : e = xvars_clr(stack_clr(m))
  OBVIOUS
<1>2. e \in Memory
  <2>1. stack_clr(m) \in Memory
    BY StackClrKeeps DEF KeepsMemory
  <2> QED
    BY <1>1, <2>1, XvarsClrKeeps DEF KeepsMemory
<1>3. PICK i, t, d, u, c :
        /\ i = [j \in Instances |-> None] /\ d = [s \in Structures |-> {}]
        /\ u = [s \in Structures |-> 0]
        /\ t = [k \in Keys |->
                  IF k \in UNION {KeysOf(e, j, e.inst[j]) : j \in {l \in Instances : e.inst[l] # None}}
                     /\ ~kept THEN None ELSE e.data[k]]
        /\ c = [k \in DOMAIN e.comp |->
                  IF k[2] \notin e.def[k[1]] THEN e.comp[k] ELSE IF kept THEN Freed ELSE None]
  OBVIOUS
<1>4. /\ i \in [Instances -> Structures \cup {None}] /\ d \in [Structures -> SUBSET Components]
      /\ u \in [Structures -> Int] /\ t \in [Keys -> Values \cup {Unset, None}]
      /\ c \in [Structures \X Components -> {None, Own, Freed}]
  BY <1>2, <1>3, StructuresTyped
<1>5. Cleared(m, kept)
        = [e EXCEPT !.inst = i, !.data = t, !.def = d, !.users = u, !.comp = c]
  BY <1>1, <1>3 DEF Cleared, structure_clr
<1> HIDE <1>3
<1> QED
  BY <1>2, <1>4, <1>5 DEF Memory

LEMMA CountedTyped ==
  ASSUME NEW m, m \in Memory, NEW a \in Int, NEW b \in Int, NEW c \in Int, NEW d \in Int
  PROVE  [m EXCEPT !.stacks = a, !.vars = b, !.structs = c, !.insts = d] \in Memory
BY DEF Memory

LEMMA ResetTyped ==
  ASSUME NEW m, m \in Memory
  PROVE  Reset(m) \in Memory
<1>1. 0 \in Int
  OBVIOUS
<1> QED
  BY <1>1, CountedTyped DEF Reset

LEMMA BlankTyped == Blank \in Memory
<1>1. <<>> \in Seq(Values) /\ 0 \in Int
  OBVIOUS
<1>2. PICK v, d, u, c, i, t :
        /\ v = [w \in Variables |-> Unset] /\ d = [s \in Structures |-> {}]
        /\ u = [s \in Structures |-> 0] /\ c = [k \in Structures \X Components |-> None]
        /\ i = [j \in Instances |-> None] /\ t = [k \in Keys |-> None]
  OBVIOUS
<1>3. /\ v \in [Variables -> Values \cup {Unset}] /\ d \in [Structures -> SUBSET Components]
      /\ u \in [Structures -> Int] /\ c \in [Structures \X Components -> {None, Own, Freed}]
      /\ i \in [Instances -> Structures \cup {None}] /\ t \in [Keys -> Values \cup {Unset, None}]
  BY <1>2
<1>4. Blank = [stack |-> <<>>, stacks |-> 0, var |-> v, vars |-> 0, def |-> d, users |-> u,
               structs |-> 0, comp |-> c, inst |-> i, insts |-> 0, data |-> t, grid |-> None]
  BY <1>2 DEF Blank
<1> HIDE <1>2
<1> QED
  BY <1>1, <1>3, <1>4 DEF Memory

LEMMA SameFields ==
  ASSUME NEW a \in Memory, NEW b \in Memory, SameStack(a, b), SameVariables(a, b),
         SameStructures(a, b), a.grid = b.grid
  PROVE  a = b
<1> DEFINE Fields(m) ==
      [stack |-> m.stack, stacks |-> m.stacks, var |-> m.var, vars |-> m.vars, def |-> m.def,
       users |-> m.users, structs |-> m.structs, comp |-> m.comp, inst |-> m.inst,
       insts |-> m.insts, data |-> m.data, grid |-> m.grid]
<1>1. ASSUME NEW m \in Memory PROVE m = Fields(m)
  BY DEF Memory
<1>2. a = Fields(a) /\ b = Fields(b)
  BY <1>1
<1>3. Fields(a) = Fields(b)
  BY DEF SameStack, SameVariables, SameStructures
<1> HIDE DEF Fields
<1> QED
  BY <1>2, <1>3

LEMMA BlankIs ==
  /\ Blank.stack = <<>> /\ Blank.stacks = 0 /\ Blank.var = [v \in Variables |-> Unset]
  /\ Blank.vars = 0 /\ Blank.def = [s \in Structures |-> {}]
  /\ Blank.users = [s \in Structures |-> 0] /\ Blank.structs = 0
  /\ Blank.comp = [k \in Structures \X Components |-> None]
  /\ Blank.inst = [i \in Instances |-> None] /\ Blank.insts = 0
  /\ Blank.data = [k \in Keys |-> None] /\ Blank.grid = None
BY DEF Blank

LEMMA BlankAgrees == Agrees(Blank)
<1>1. Cardinality({}) = 0 /\ StructLim \in Nat /\ InstLim \in Nat
  BY FS_EmptySet, SoftcodeAssumption
<1>2. Defined(Blank) = {} /\ Instanced(Blank) = {}
  BY BlankIs DEF Defined, Instanced
<1>3. \A s \in Structures : UsersOf(Blank.inst, s) = {}
  BY BlankIs, Strange DEF UsersOf
<1>4. StackAgrees(Blank)
  BY BlankIs DEF StackAgrees
<1>5. VariablesAgree(Blank)
  <2>1. SetOf(Blank.var) = {}
    BY BlankIs DEF SetOf
  <2> QED
    BY <1>1, <2>1, BlankIs DEF VariablesAgree
<1>6. InstancesAgree(Blank)
  <2>1. \A s \in Structures : Blank.users[s] = 0
    BY BlankIs
  <2>2. Blank.insts = 0
    BY BlankIs
  <2>3. \A s \in Structures : Blank.users[s] = Cardinality(UsersOf(Blank.inst, s))
    BY <1>1, <1>3, <2>1
  <2> QED
    BY <1>1, <1>2, <2>2, <2>3 DEF InstancesAgree
<1>7. DefinedAgree(Blank)
  <2>1. \A k \in Structures \X Components : Blank.comp[k] = None /\ k[2] \notin Blank.def[k[1]]
    BY BlankIs
  <2>2. DOMAIN Blank.comp = Structures \X Components
    BY BlankIs
  <2> QED
    BY <1>1, <1>2, <2>1, <2>2, BlankIs DEF DefinedAgree
<1>8. DataAgree(Blank)
  BY <1>2, BlankIs DEF DataAgree
<1> QED
  BY <1>4, <1>5, <1>6, <1>7, <1>8, BlankIs, Strange, AgreesInParts, StructuresInParts

(* The next object of the number finds nothing.                            *)
LEMMA ResetAgrees ==
  ASSUME NEW m, Forgotten(m)
  PROVE  Agrees(Reset(m))
BY BlankAgrees DEF Forgotten, Reset

(* What is left, where there are no structures and no grid.                *)
LEMMA ClearedIs ==
  ASSUME NEW m, m \in Memory, NEW kept \in BOOLEAN, NEW e, e = Cleared(m, kept)
  PROVE  /\ e \in Memory
         /\ e.stack = <<>> /\ e.stacks = 0 /\ e.var = [v \in Variables |-> Unset] /\ e.vars = 0
         /\ e.def = [s \in Structures |-> {}] /\ e.users = [s \in Structures |-> 0]
         /\ e.inst = [i \in Instances |-> None]
         /\ \A k \in Keys : e.data[k] = None \/ e.data[k] = m.data[k]
         /\ \A k \in Structures \X Components :
              k[2] \notin m.def[k[1]] => e.comp[k] = m.comp[k]
         /\ e.grid = m.grid
<1>1. PICK a : a = xvars_clr(stack_clr(m))
  OBVIOUS
<1>2. /\ a.stack = <<>> /\ a.stacks = 0 /\ a.var = [v \in Variables |-> Unset] /\ a.vars = 0
      /\ a.def = m.def /\ a.comp = m.comp /\ a.inst = m.inst /\ a.data = m.data /\ a.grid = m.grid
  <2>1. PICK b : b = stack_clr(m)
    OBVIOUS
  <2>2. b \in Memory
    BY <2>1, StackClrKeeps DEF KeepsMemory
  <2>3. /\ b.stack = <<>> /\ b.stacks = 0
        /\ b.def = m.def /\ b.comp = m.comp /\ b.inst = m.inst /\ b.data = m.data /\ b.grid = m.grid
    BY <2>1 DEF stack_clr, Memory
  <2>4. a = [b EXCEPT !.var = [v \in Variables |-> Unset], !.vars = 0]
    BY <1>1, <2>1 DEF xvars_clr
  <2> QED
    BY <2>2, <2>3, <2>4 DEF Memory
<1>3. a \in Memory
  <2>1. stack_clr(m) \in Memory
    BY StackClrKeeps DEF KeepsMemory
  <2> QED
    BY <1>1, <2>1, XvarsClrKeeps DEF KeepsMemory
<1>4. PICK i, t, d, u, c :
        /\ i = [j \in Instances |-> None] /\ d = [s \in Structures |-> {}]
        /\ u = [s \in Structures |-> 0]
        /\ t = [k \in Keys |->
                  IF k \in UNION {KeysOf(a, j, a.inst[j]) : j \in {l \in Instances : a.inst[l] # None}}
                     /\ ~kept THEN None ELSE a.data[k]]
        /\ c = [k \in DOMAIN a.comp |->
                  IF k[2] \notin a.def[k[1]] THEN a.comp[k] ELSE IF kept THEN Freed ELSE None]
  OBVIOUS
<1>5. e = [a EXCEPT !.inst = i, !.data = t, !.def = d, !.users = u, !.comp = c]
  BY <1>1, <1>4 DEF Cleared, structure_clr
<1>6. /\ \A k \in Keys : t[k] = None \/ t[k] = m.data[k]
      /\ \A k \in Structures \X Components : k[2] \notin m.def[k[1]] => c[k] = m.comp[k]
  <2>1. DOMAIN a.comp = Structures \X Components
    BY <1>2, StructuresTyped
  <2> QED
    BY <1>2, <1>4, <2>1
<1>7. /\ e.stack = a.stack /\ e.stacks = a.stacks /\ e.var = a.var /\ e.vars = a.vars
      /\ e.inst = i /\ e.data = t /\ e.def = d /\ e.users = u /\ e.comp = c /\ e.grid = a.grid
  <2> HIDE <1>4
  <2> QED
    BY <1>3, <1>5 DEF Memory
<1>8. e \in Memory
  BY ClearedTyped
<1>9. /\ i = [j \in Instances |-> None] /\ d = [s \in Structures |-> {}]
      /\ u = [s \in Structures |-> 0]
  BY <1>4
<1> QED
  BY <1>2, <1>6, <1>7, <1>8, <1>9

LEMMA ClearedForgotten ==
  ASSUME NEW m, m \in Memory, Agrees(m), m.grid = None, Defined(m) = {}, NEW kept \in BOOLEAN
  PROVE  Forgotten(Cleared(m, kept))
<1>1. PICK e : e = Cleared(m, kept)
  OBVIOUS
<1>2. PICK r : r = [e EXCEPT !.stacks = 0, !.vars = 0, !.structs = 0, !.insts = 0]
  OBVIOUS
<1>3. e \in Memory
  BY <1>1, ClearedIs
<1>4. r \in Memory
  <2>1. 0 \in Int
    OBVIOUS
  <2> QED
    BY <1>2, <1>3, <2>1, CountedTyped
<1>5. /\ r.stack = e.stack /\ r.stacks = 0 /\ r.var = e.var /\ r.vars = 0 /\ r.def = e.def
      /\ r.users = e.users /\ r.structs = 0 /\ r.comp = e.comp /\ r.inst = e.inst /\ r.insts = 0
      /\ r.data = e.data /\ r.grid = e.grid
  BY <1>2, <1>3 DEF Memory
<1>6. DefinedAgree(m) /\ DataAgree(m)
  BY AgreesInParts, StructuresInParts
<1>7. Instanced(m) = {} /\ \A s \in Structures : m.def[s] = {}
  BY <1>6 DEF DataAgree, Defined
<1>8. e.comp = [k \in Structures \X Components |-> None]
  <2>1. e.comp \in [Structures \X Components -> {None, Own, Freed}]
    BY <1>3, StructuresTyped
  <2>2. ASSUME NEW k \in Structures \X Components PROVE e.comp[k] = None
    <3>1. k \in DOMAIN m.comp /\ k[2] \notin m.def[k[1]]
      BY <1>7, StructuresTyped
    <3>2. m.comp[k] = None
      BY <1>6, <3>1 DEF DefinedAgree
    <3> QED
      BY <1>1, <3>1, <3>2, ClearedIs
  <2> QED
    BY <2>1, <2>2
<1>9. e.data = [k \in Keys |-> None]
  <2>1. e.data \in [Keys -> Values \cup {Unset, None}]
    BY <1>3, StructuresTyped
  <2>2. \A k \in Keys : m.data[k] = None
    BY <1>6, <1>7 DEF DataAgree
  <2>3. \A k \in Keys : e.data[k] = None
    BY <1>1, <2>2, ClearedIs
  <2> QED
    BY <2>1, <2>3
<1>10. /\ e.stack = <<>> /\ e.var = [v \in Variables |-> Unset] /\ e.grid = None
       /\ e.def = [s \in Structures |-> {}] /\ e.users = [s \in Structures |-> 0]
       /\ e.inst = [i \in Instances |-> None]
  <2>1. e.grid = m.grid
    BY <1>1, ClearedIs
  <2>2. e.stack = <<>> /\ e.var = [v \in Variables |-> Unset]
    BY <1>1, ClearedIs
  <2>3. /\ e.def = [s \in Structures |-> {}] /\ e.users = [s \in Structures |-> 0]
        /\ e.inst = [i \in Instances |-> None]
    BY <1>1, ClearedIs
  <2> QED
    BY <2>1, <2>2, <2>3
<1>11. SameStack(r, Blank) /\ SameVariables(r, Blank) /\ SameStructures(r, Blank) /\ r.grid = Blank.grid
  BY <1>5, <1>8, <1>9, <1>10, BlankIs DEF SameStack, SameVariables, SameStructures
<1>12. r = Blank
  BY <1>4, <1>11, BlankTyped, SameFields
<1> QED
  BY <1>1, <1>2, <1>12 DEF Forgotten

-----------------------------------------------------------------------------
(***************************************************************************)
(* What commands leave: objects, with God a player who is not going.  What *)
(* is in pockets and quotas does not matter here: T is any set.            *)
(***************************************************************************)
ObjectOf(T) ==
  [type : Types \cup {"GARBAGE"}, owner : Numbers, going : BOOLEAN,
   linked : BOOLEAN, coins : T, quota : T, rquota : T]
Shaped(d) == \E T : d \in [Numbers -> ObjectOf(T)]
GodStays(d) == IsPlayer(d, God) /\ ~d[God].going
Stands(d) == Shaped(d) /\ GodStays(d)

LEMMA GodIsNumber == God \in Numbers /\ N \in Nat
BY AccountsAssumption

LEMMA ShapedFields ==
  ASSUME NEW d, Shaped(d), NEW n \in Numbers
  PROVE  /\ d[n].type \in Types \cup {"GARBAGE"} /\ d[n].owner \in Numbers
         /\ d[n].going \in BOOLEAN /\ d[n].linked \in BOOLEAN
BY DEF Shaped, ObjectOf

LEMMA MoreOf ==
  ASSUME NEW T, NEW U, T \subseteq U, NEW o \in ObjectOf(T)
  PROVE  o \in ObjectOf(U)
BY DEF ObjectOf

(* An object can take another's place.                                     *)
LEMMA PutStands ==
  ASSUME NEW d, Stands(d), NEW x \in Numbers, NEW U, NEW o \in ObjectOf(U),
         x = God => o.type \in {"PLAYER", "ROBOT"} /\ ~o.going
  PROVE  Stands([d EXCEPT ![x] = o])
<1>1. PICK T : d \in [Numbers -> ObjectOf(T)]
  BY DEF Stands, Shaped
<1>2. PICK e : e = [d EXCEPT ![x] = o]
  OBVIOUS
<1>3. e \in [Numbers -> ObjectOf(T \cup U)]
  <2>1. o \in ObjectOf(T \cup U) /\ \A n \in Numbers : d[n] \in ObjectOf(T \cup U)
    BY <1>1, MoreOf
  <2> QED
    BY <1>1, <1>2, <2>1
<1>4. GodStays(e)
  <2>1. e[God] = IF God = x THEN o ELSE d[God]
    BY <1>1, <1>2, GodIsNumber
  <2> QED
    BY <2>1 DEF Stands, GodStays, IsPlayer
<1> QED
  BY <1>2, <1>3, <1>4 DEF Stands, Shaped

(* An object with something else in its pockets, with another owner or     *)
(* with a link is still the object it was.                                 *)
LEMMA ChangedObject ==
  ASSUME NEW T, NEW o \in ObjectOf(T)
  PROVE  /\ \A y : /\ [o EXCEPT !.coins = y] \in ObjectOf(T \cup {y})
                   /\ [o EXCEPT !.quota = y] \in ObjectOf(T \cup {y})
                   /\ [o EXCEPT !.rquota = y] \in ObjectOf(T \cup {y})
         /\ \A y \in Numbers : [o EXCEPT !.owner = y] \in ObjectOf(T)
         /\ \A y \in BOOLEAN : /\ [o EXCEPT !.linked = y] \in ObjectOf(T)
                               /\ [o EXCEPT !.going = y] \in ObjectOf(T)
         /\ \A y \in Types : [o EXCEPT !.type = y] \in ObjectOf(T)
BY DEF ObjectOf

LEMMA UnchangedFields ==
  ASSUME NEW T, NEW o \in ObjectOf(T), NEW y
  PROVE  /\ [o EXCEPT !.coins = y].type = o.type /\ [o EXCEPT !.coins = y].going = o.going
         /\ [o EXCEPT !.quota = y].type = o.type /\ [o EXCEPT !.quota = y].going = o.going
         /\ [o EXCEPT !.rquota = y].type = o.type /\ [o EXCEPT !.rquota = y].going = o.going
         /\ [o EXCEPT !.owner = y].type = o.type /\ [o EXCEPT !.owner = y].going = o.going
         /\ [o EXCEPT !.linked = y].type = o.type /\ [o EXCEPT !.linked = y].going = o.going
         /\ [o EXCEPT !.going = y].type = o.type
         /\ [o EXCEPT !.type = y].going = o.going
BY DEF ObjectOf

LEMMA FieldStands ==
  ASSUME NEW d, Stands(d), NEW x \in Numbers
  PROVE  /\ \A y : /\ Stands([d EXCEPT ![x].coins = y]) /\ Stands([d EXCEPT ![x].quota = y])
                   /\ Stands([d EXCEPT ![x].rquota = y])
         /\ \A y \in Numbers : Stands([d EXCEPT ![x].owner = y])
         /\ \A y \in BOOLEAN : Stands([d EXCEPT ![x].linked = y])
         /\ \A y \in BOOLEAN : x # God \/ ~y => Stands([d EXCEPT ![x].going = y])
         /\ \A y \in Types : x # God => Stands([d EXCEPT ![x].type = y])
<1>1. PICK T : d \in [Numbers -> ObjectOf(T)]
  BY DEF Stands, Shaped
<1>2. d[x] \in ObjectOf(T)
  BY <1>1
<1>3. x = God => d[x].type \in {"PLAYER", "ROBOT"} /\ ~d[x].going
  BY DEF Stands, GodStays, IsPlayer
<1>4. ASSUME NEW U, NEW o \in ObjectOf(U), x = God => o.type = d[x].type /\ o.going = d[x].going
      PROVE  Stands([d EXCEPT ![x] = o])
  BY <1>3, <1>4, PutStands
<1>5. ASSUME NEW y
      PROVE  /\ Stands([d EXCEPT ![x].coins = y]) /\ Stands([d EXCEPT ![x].quota = y])
             /\ Stands([d EXCEPT ![x].rquota = y])
  BY <1>2, <1>4, ChangedObject, UnchangedFields
<1>6. \A y \in Numbers : Stands([d EXCEPT ![x].owner = y])
  BY <1>2, <1>4, ChangedObject, UnchangedFields
<1>7. \A y \in BOOLEAN : Stands([d EXCEPT ![x].linked = y])
  BY <1>2, <1>4, ChangedObject, UnchangedFields
<1>8. ASSUME NEW y \in BOOLEAN, x # God \/ ~y PROVE Stands([d EXCEPT ![x].going = y])
  <2>1. PICK o : o = [d[x] EXCEPT !.going = y]
    OBVIOUS
  <2>2. o \in ObjectOf(T) /\ o.type = d[x].type
    BY <1>2, <2>1, ChangedObject, UnchangedFields
  <2>3. o.going = y
    BY <1>2, <2>1 DEF ObjectOf
  <2>4. Stands([d EXCEPT ![x] = o])
    BY <1>3, <1>8, <2>2, <2>3, PutStands
  <2> QED
    BY <2>1, <2>4
<1>9. \A y \in Types : x # God => Stands([d EXCEPT ![x].type = y])
  BY <1>2, <1>4, ChangedObject
<1> QED
  BY <1>5, <1>6, <1>7, <1>8, <1>9

LEMMA OwnerIsNumber ==
  ASSUME NEW d, Stands(d), NEW n \in Numbers
  PROVE  d[n].owner \in Numbers
BY ShapedFields DEF Stands

LEMMA PayforStands ==
  ASSUME NEW d, Stands(d), NEW who \in Numbers, NEW cost
  PROVE  Stands(payfor(d, who, cost)) /\ Stands(giveto(d, who, cost)) /\ Stands(add_quota(d, who, cost))
<1>1. PICK o \in Numbers : o = d[who].owner
  BY OwnerIsNumber
<1>2. /\ Stands([d EXCEPT ![o].coins = @ - cost]) /\ Stands([d EXCEPT ![o].coins = @ + cost])
      /\ Stands([d EXCEPT ![o].rquota = @ + cost])
  BY FieldStands
<1>3. payfor(d, who, cost) \in {d, [d EXCEPT ![o].coins = @ - cost]}
  BY <1>1 DEF payfor
<1>4. giveto(d, who, cost) \in {d, [d EXCEPT ![o].coins = @ + cost]}
  BY <1>1 DEF giveto
<1>5. add_quota(d, who, cost) \in {d, [d EXCEPT ![o].rquota = @ + cost]}
  BY <1>1 DEF add_quota
<1> QED
  BY <1>2, <1>3, <1>4, <1>5

LEMMA PayfeesStands ==
  ASSUME NEW d, Stands(d), NEW who \in Numbers, NEW cost, NEW quota
  PROVE  Stands(payfees(d, who, cost, quota))
BY PayforStands DEF payfees

LEMMA NextNumber ==
  ASSUME NEW d, Freelist(d) # {}
  PROVE  Next_number(d) \in Numbers /\ ~Good(d, Next_number(d))
<1>1. PICK S : S = Freelist(d)
  OBVIOUS
<1>2. S \subseteq Numbers /\ \A n \in S : ~Good(d, n)
  BY <1>1 DEF Freelist
<1>3. S \in SUBSET Nat
  BY <1>2 DEF Numbers
<1>4. \E n \in S : \A k \in S : n <= k
  BY <1>1, <1>3, LeastNumber
<1>5. Min(S) \in S
  BY <1>4 DEF Min
<1> QED
  BY <1>1, <1>2, <1>5 DEF Next_number

LEMMA NextIsNotGod ==
  ASSUME NEW d, Stands(d), Freelist(d) # {}
  PROVE  Next_number(d) \in Numbers \ {God}
BY NextNumber DEF Stands, GodStays, IsPlayer, Good

LEMMA CreateStands ==
  ASSUME NEW d, Stands(d), Freelist(d) # {}, NEW creator, NEW type \in Types, NEW asked,
         creator \in Numbers \/ (creator = Nobody /\ type = "PLAYER")
  PROVE  Stands(create_obj(d, creator, type, asked))
<1>1. PICK n \in Numbers \ {God} : n = Next_number(d)
  BY NextIsNotGod
<1>2. PICK paid : paid = IF creator = Nobody THEN d
                         ELSE payfees(d, creator, CostOf(type, asked), QuotaFor(type))
  OBVIOUS
<1>3. Stands(paid)
  BY <1>2, PayfeesStands
<1>4. PICK own, coins, rquota, owner :
        /\ own = CASE type = "PLAYER" -> StartQuota [] type = "ROBOT" -> Quota["PLAYER"] [] OTHER -> 0
        /\ coins = CASE type = "THING" -> OBJECT_ENDOWMENT(Clamp(asked))
                     [] type = "PLAYER" -> PayStart [] OTHER -> 0
        /\ rquota = IF type = "PLAYER" THEN own - Quota["PLAYER"] ELSE own
        /\ owner = IF type = "PLAYER" THEN n ELSE d[creator].owner
  OBVIOUS
<1>5. PICK born : born = [type |-> type, going |-> FALSE, linked |-> FALSE, owner |-> owner,
                          coins |-> coins, quota |-> own, rquota |-> rquota]
  OBVIOUS
<1>6. create_obj(d, creator, type, asked) = [paid EXCEPT ![n] = born]
  BY <1>1, <1>2, <1>4, <1>5 DEF create_obj
<1>7. owner \in Numbers
  BY <1>1, <1>4, OwnerIsNumber
<1>8. born \in ObjectOf({coins, own, rquota})
  BY <1>5, <1>7 DEF ObjectOf, Types
<1>9. n \in Numbers /\ n # God
  BY <1>1
<1>10. Stands([paid EXCEPT ![n] = born])
  BY <1>3, <1>8, <1>9, PutStands
<1> QED
  BY <1>6, <1>10

LEMMA OpenedStands ==
  ASSUME NEW d, Stands(d), NEW p \in Numbers, NEW linkto
  PROVE  Stands(Opened(d, p, linkto))
<1>1. CASE ~CanCreate(d, p, "EXIT", 0)
  BY <1>1 DEF Opened
<1>2. CASE CanCreate(d, p, "EXIT", 0)
  <2>1. PICK made : made = create_obj(d, p, "EXIT", 0)
    OBVIOUS
  <2>2. Freelist(d) # {} /\ "EXIT" \in Types
    BY <1>2 DEF CanCreate, Types
  <2>3. Stands(made)
    BY <2>1, <2>2, CreateStands
  <2>4. PICK n \in Numbers : n = Next_number(d)
    BY <2>2, NextIsNotGod
  <2>5. Stands([payfor(made, p, LinkCost) EXCEPT ![n].linked = TRUE])
    BY <2>3, PayforStands, FieldStands
  <2>6. Opened(d, p, linkto) \in {made, [payfor(made, p, LinkCost) EXCEPT ![n].linked = TRUE]}
    BY <1>2, <2>1, <2>4 DEF Opened
  <2> QED
    BY <2>3, <2>5, <2>6
<1> QED
  BY <1>1, <1>2

LEMMA LinkedStands ==
  ASSUME NEW d, Stands(d), NEW p \in Numbers, NEW x \in Numbers
  PROVE  Stands(Linked(d, p, x))
<1>1. PICK paid : paid = payfees(d, p, LinkFee(d, p, x).cost, LinkFee(d, p, x).quota)
  OBVIOUS
<1>2. PICK moved : moved = payfees(paid, d[x].owner, -Price["EXIT"], -Quota["EXIT"])
  OBVIOUS
<1>3. Stands(paid) /\ Stands(moved)
  BY <1>1, <1>2, PayfeesStands, OwnerIsNumber
<1>4. PICK o \in Numbers : o = d[p].owner
  BY OwnerIsNumber
<1>5. Stands([paid EXCEPT ![x].linked = TRUE])
  BY <1>3, FieldStands
<1>6. Stands([moved EXCEPT ![x].owner = o, ![x].linked = TRUE])
  <2>1. PICK e : e = [moved EXCEPT ![x].owner = o]
    OBVIOUS
  <2>2. Stands(e)
    BY <1>3, <2>1, FieldStands
  <2>3. Stands([e EXCEPT ![x].linked = TRUE])
    BY <2>2, FieldStands
  <2> QED
    BY <2>1, <2>3
<1>7. Linked(d, p, x)
        \in {[paid EXCEPT ![x].linked = TRUE], [moved EXCEPT ![x].owner = o, ![x].linked = TRUE]}
  BY <1>1, <1>2, <1>4 DEF Linked
<1> QED
  BY <1>5, <1>6, <1>7

LEMMA ClonedStands ==
  ASSUME NEW d, Stands(d), NEW p \in Numbers, NEW x \in Numbers, NEW preserve, NEW asked,
         NEW linkable, CanClone(d, p, x, preserve, asked)
  PROVE  Stands(Cloned(d, p, x, preserve, asked, linkable))
<1>1. Freelist(d) # {} /\ d[x].type \in Types
  BY ShapedFields DEF CanClone, CanCreate, Good, Stands
<1>2. PICK n \in Numbers \ {God} : n = Next_number(d)
  BY <1>1, NextIsNotGod
<1>3. PICK cost, owner : cost = CloneCost(d, x, asked) /\ owner = CloneOwner(d, p, x, preserve)
  OBVIOUS
<1>4. owner \in Numbers
  BY <1>3, OwnerIsNumber DEF CloneOwner
<1>5. PICK made : made = [create_obj(d, owner, d[x].type, cost) EXCEPT ![n].going = d[x].going]
  OBVIOUS
<1>6. Stands(made)
  <2>1. Stands(create_obj(d, owner, d[x].type, cost))
    BY <1>1, <1>4, CreateStands
  <2>2. d[x].going \in BOOLEAN
    BY ShapedFields DEF Stands
  <2> QED
    BY <1>2, <1>5, <2>1, <2>2, FieldStands
<1>7. Stands([made EXCEPT ![n].coins = OBJECT_ENDOWMENT(cost)]) /\ Stands(Linked(made, p, n))
  BY <1>2, <1>6, FieldStands, LinkedStands
<1>8. Cloned(d, p, x, preserve, asked, linkable)
        \in {made, [made EXCEPT ![n].coins = OBJECT_ENDOWMENT(cost)], Linked(made, p, n)}
  BY <1>2, <1>3, <1>5 DEF Cloned
<1> QED
  BY <1>6, <1>7, <1>8

LEMMA QuotaStands ==
  ASSUME NEW d, Stands(d), NEW who \in Numbers
  PROVE  /\ \A value, remaining : Stands(adjust_quota(d, who, value, remaining))
         /\ \A total : Stands(mung_quotas_fix(d, who, total))
<1>1. ASSUME NEW y, NEW z PROVE Stands([d EXCEPT ![who].rquota = y, ![who].quota = z])
  <2>1. PICK e : e = [d EXCEPT ![who].rquota = y]
    OBVIOUS
  <2>2. Stands(e)
    BY <2>1, FieldStands
  <2>3. Stands([e EXCEPT ![who].quota = z])
    BY <2>2, FieldStands
  <2> QED
    BY <2>1, <2>3
<1>2. ASSUME NEW y, NEW z PROVE Stands([d EXCEPT ![who].quota = y, ![who].rquota = z])
  <2>1. PICK e : e = [d EXCEPT ![who].quota = y]
    OBVIOUS
  <2>2. Stands(e)
    BY <2>1, FieldStands
  <2>3. Stands([e EXCEPT ![who].rquota = z])
    BY <2>2, FieldStands
  <2> QED
    BY <2>1, <2>3
<1>3. ASSUME NEW value, NEW remaining PROVE Stands(adjust_quota(d, who, value, remaining))
  <2>1. PICK T : d \in [Numbers -> ObjectOf(T)]
    BY DEF Stands, Shaped
  <2>2. PICK q, r : /\ q = d[who].quota + value - d[who].rquota
                    /\ r = d[who].rquota + value - d[who].quota
    OBVIOUS
  <2>3. PICK e : e = [d EXCEPT ![who].rquota = value]
    OBVIOUS
  <2>4. PICK f : f = [d EXCEPT ![who].quota = value]
    OBVIOUS
  <2>5. e[who].quota = d[who].quota /\ f[who].rquota = d[who].rquota
    BY <2>1, <2>3, <2>4 DEF ObjectOf
  <2>6. [e EXCEPT ![who].quota = @ + value - d[who].rquota] = [e EXCEPT ![who].quota = q]
    BY <2>2, <2>5
  <2>7. [f EXCEPT ![who].rquota = @ + value - d[who].quota] = [f EXCEPT ![who].rquota = r]
    BY <2>2, <2>5
  <2>8. adjust_quota(d, who, value, remaining)
          \in {[e EXCEPT ![who].quota = q], [f EXCEPT ![who].rquota = r]}
    BY <2>3, <2>4, <2>6, <2>7 DEF adjust_quota
  <2> QED
    BY <1>1, <1>2, <2>3, <2>4, <2>8
<1>4. ASSUME NEW total PROVE Stands(mung_quotas_fix(d, who, total))
  <2>1. PICK used : used = count_objquota(d, who)
    OBVIOUS
  <2>2. PICK y, z : y = d[who].rquota + used /\ z = IF d[who].quota > used THEN d[who].quota - used ELSE 0
    OBVIOUS
  <2>3. mung_quotas_fix(d, who, total) \in {[d EXCEPT ![who].rquota = y], [d EXCEPT ![who].quota = z]}
    BY <2>1, <2>2 DEF mung_quotas_fix
  <2>4. Stands([d EXCEPT ![who].rquota = y]) /\ Stands([d EXCEPT ![who].quota = z])
    BY FieldStands
  <2> QED
    BY <2>3, <2>4
<1> QED
  BY <1>3, <1>4

LEMMA ChownStands ==
  ASSUME NEW d, Stands(d), NEW p \in Numbers, NEW x \in Numbers, NEW owner \in Numbers
  PROVE  Stands(do_chown(d, p, x, owner))
<1>1. PICK paid : paid = payfees(d, owner, ChownFee(d, x), Quota[d[x].type])
  OBVIOUS
<1>2. PICK back : back = payfees(paid, d[x].owner, -ChownFee(d, x), -Quota[d[x].type])
  OBVIOUS
<1>3. Stands(back)
  BY <1>1, <1>2, PayfeesStands, OwnerIsNumber
<1>4. PICK o : o = IF p = God THEN owner ELSE d[owner].owner
  OBVIOUS
<1>5. o \in Numbers
  BY <1>4, OwnerIsNumber
<1>6. do_chown(d, p, x, owner) = [back EXCEPT ![x].owner = o]
  BY <1>1, <1>2, <1>4 DEF do_chown
<1>7. Stands([back EXCEPT ![x].owner = o])
  BY <1>3, <1>5, FieldStands
<1> QED
  BY <1>6, <1>7

(* Objects that all keep their types and whether they are going            *)
Alike(o, e, U) == e \in ObjectOf(U) /\ e.type = o.type /\ e.going = o.going

LEMMA AlikeObjects ==
  ASSUME NEW T, NEW o, o \in ObjectOf(T), NEW U, T \subseteq U
  PROVE  /\ Alike(o, o, U)
         /\ \A y \in U : Alike(o, [o EXCEPT !.coins = y], U)
         /\ \A y \in Numbers : Alike(o, [o EXCEPT !.owner = y], U)
         /\ \A y \in BOOLEAN : Alike(o, [o EXCEPT !.linked = y], U)
<1>1. o \in ObjectOf(U)
  BY MoreOf
<1> QED
  BY <1>1 DEF Alike, ObjectOf

LEMMA AllStand ==
  ASSUME NEW d, Stands(d), NEW U, NEW e, e = [n \in Numbers |-> e[n]],
         \A n \in Numbers : Alike(d[n], e[n], U)
  PROVE  Stands(e)
<1>1. e \in [Numbers -> ObjectOf(U)]
  BY DEF Alike
<1>2. e[God].type = d[God].type /\ e[God].going = d[God].going
  BY GodIsNumber DEF Alike
<1> QED
  BY <1>1, <1>2 DEF Stands, Shaped, GodStays, IsPlayer

LEMMA ChownAllStands ==
  ASSUME NEW d, Stands(d), NEW from \in Numbers, NEW to \in Numbers
  PROVE  Stands(chown_all(d, from, to))
<1>1. PICK T : d \in [Numbers -> ObjectOf(T)]
  BY DEF Stands, Shaped
<1>2. PICK f \in Numbers : f = Holder(d, from)
  BY OwnerIsNumber DEF Holder
<1>3. PICK t \in Numbers : t = Holder(d, to)
  BY OwnerIsNumber DEF Holder
<1>4. PICK moved : moved = {i \in Objects(d, f) \ {f} : ~(d[i].type = "THING" /\ d[i].going)}
  OBVIOUS
<1>5. PICK given : given = [i \in Numbers |->
                             IF i \notin moved THEN d[i]
                             ELSE [d[i] EXCEPT !.owner = IF IsPlayer(d, i) THEN i ELSE t]]
  OBVIOUS
<1>6. ASSUME NEW i \in Numbers PROVE Alike(d[i], given[i], T)
  <2>1. d[i] \in ObjectOf(T)
    BY <1>1
  <2>2. PICK o \in Numbers : o = IF IsPlayer(d, i) THEN i ELSE t
    OBVIOUS
  <2>3. given[i] = d[i] \/ given[i] = [d[i] EXCEPT !.owner = o]
    BY <1>5, <2>2
  <2>4. Alike(d[i], d[i], T) /\ Alike(d[i], [d[i] EXCEPT !.owner = o], T)
    BY <2>1, AlikeObjects
  <2> QED
    BY <2>3, <2>4
<1>7. Stands(given)
  BY <1>5, <1>6, AllStand
<1>8. PICK q : q = QuotaOf(d, moved)
  OBVIOUS
<1>9. Stands(add_quota(add_quota(given, t, -q), f, q))
  BY <1>7, PayforStands
<1>10. chown_all(d, from, to) \in {d, add_quota(add_quota(given, t, -q), f, q)}
  BY <1>2, <1>3, <1>4, <1>5, <1>8 DEF chown_all
<1> QED
  BY <1>9, <1>10

LEMMA DestroyedStands ==
  ASSUME NEW d, Stands(d), NEW n \in Numbers, n # God
  PROVE  Stands(destroy_obj(d, n)) /\ Stands(Destroyed(d, n))
<1>1. ASSUME NEW e, Stands(e) PROVE Stands(destroy_obj(e, n))
  <2>1. PICK o \in Numbers : o = e[n].owner
    BY <1>1, OwnerIsNumber
  <2>2. PICK back : back = IF IsPlayer(e, o) /\ o # n
                           THEN payfees(e, o, -Deposit(e, n), -Quota[e[n].type]) ELSE e
    OBVIOUS
  <2>3. Stands(back)
    BY <1>1, <2>2, PayfeesStands
  <2>4. Garbage \in ObjectOf({0})
    BY GodIsNumber DEF Garbage, ObjectOf
  <2>5. destroy_obj(e, n) = [back EXCEPT ![n] = Garbage]
    BY <2>1, <2>2 DEF destroy_obj
  <2>6. Stands([back EXCEPT ![n] = Garbage])
    BY <2>3, <2>4, PutStands
  <2> QED
    BY <2>5, <2>6
<1>2. Stands(destroy_player(d, n))
  BY <1>1, ChownAllStands, GodIsNumber DEF destroy_player
<1> QED
  BY <1>1, <1>2 DEF Destroyed

LEMMA ToadStands ==
  ASSUME NEW d, Stands(d), NEW victim \in Numbers, victim # God, NEW to \in Numbers, NEW chown
  PROVE  Stands(do_toad(d, victim, to, chown))
<1>1. PICK left : left = IF chown THEN [chown_all(d, victim, to) EXCEPT ![victim].owner = to] ELSE d
  OBVIOUS
<1>2. Stands(left)
  <2>1. Stands([chown_all(d, victim, to) EXCEPT ![victim].owner = to])
    BY ChownAllStands, FieldStands
  <2> QED
    BY <1>1, <2>1
<1>3. PICK a : a = [left EXCEPT ![victim].type = "THING"]
  OBVIOUS
<1>4. PICK b : b = [a EXCEPT ![victim].coins = 1]
  OBVIOUS
<1>5. PICK c : c = [b EXCEPT ![victim].going = FALSE]
  OBVIOUS
<1>6. Stands(a)
  BY <1>2, <1>3, FieldStands DEF Types
<1>7. Stands(b)
  BY <1>4, <1>6, FieldStands
<1>8. Stands(c)
  BY <1>5, <1>7, FieldStands
<1>9. Stands([c EXCEPT ![victim].linked = FALSE])
  BY <1>8, FieldStands
<1>10. do_toad(d, victim, to, chown) = [c EXCEPT ![victim].linked = FALSE]
  BY <1>1, <1>3, <1>4, <1>5 DEF do_toad
<1> QED
  BY <1>9, <1>10

LEMMA PocketsStand ==
  ASSUME NEW d, Stands(d), NEW p \in Numbers, NEW x \in Numbers
  PROVE  /\ \A amount, price : Stands(give_money(d, p, x, amount, price))
         /\ \A cost : Stands(Killed(d, p, x, cost, PayLimit))
<1>1. ASSUME NEW amount, NEW price PROVE Stands(give_money(d, p, x, amount, price))
  <2>1. PICK given, cost : /\ given = payfor(d, p, amount)
                           /\ cost = IF d[x].type = "THING" THEN price ELSE amount
    OBVIOUS
  <2>2. Stands(giveto(given, p, amount)) /\ Stands(giveto(giveto(given, p, amount - cost), x, cost))
    BY <2>1, PayforStands
  <2>3. give_money(d, p, x, amount, price)
          \in {giveto(given, p, amount), giveto(giveto(given, p, amount - cost), x, cost)}
    BY <2>1 DEF give_money
  <2> QED
    BY <2>2, <2>3
<1>2. ASSUME NEW cost PROVE Stands(Killed(d, p, x, cost, PayLimit))
  <2>1. PICK paid : paid = payfor(d, p, cost)
    OBVIOUS
  <2>2. Stands(paid) /\ Stands(giveto(paid, d[x].owner, cost \div 2))
    BY <2>1, PayforStands, OwnerIsNumber
  <2>3. Killed(d, p, x, cost, PayLimit) \in {giveto(paid, d[x].owner, cost \div 2), paid}
    BY <2>1 DEF Killed
  <2> QED
    BY <2>2, <2>3
<1> QED
  BY <1>1, <1>2

LEMMA PoorStands ==
  ASSUME NEW d, Stands(d), NEW limit
  PROVE  Stands(do_poor(d, limit))
<1>1. PICK T : d \in [Numbers -> ObjectOf(T)]
  BY DEF Stands, Shaped
<1>2. PICK U : U = T \cup {limit}
  OBVIOUS
<1>3. PICK e : e = do_poor(d, limit)
  OBVIOUS
<1>4. ASSUME NEW n \in Numbers PROVE Alike(d[n], e[n], U)
  <2>1. d[n] \in ObjectOf(T) /\ T \subseteq U /\ limit \in U
    BY <1>1, <1>2
  <2>2. e[n] = d[n] \/ e[n] = [d[n] EXCEPT !.coins = limit]
    BY <1>3 DEF do_poor
  <2>3. Alike(d[n], d[n], U) /\ Alike(d[n], [d[n] EXCEPT !.coins = limit], U)
    BY <2>1, AlikeObjects
  <2> QED
    BY <2>2, <2>3
<1>5. e = [n \in Numbers |-> e[n]]
  BY <1>3 DEF do_poor
<1> QED
  BY <1>3, <1>4, <1>5, AllStand

LEMMA CheckedStands ==
  ASSUME NEW d, Stands(d)
  PROVE  Stands(make_freelist(d)) /\ Stands(check_owners(d))
<1>1. PICK T : d \in [Numbers -> ObjectOf(T)]
  BY DEF Stands, Shaped
<1>2. PICK a, b : a = make_freelist(d) /\ b = check_owners(d)
  OBVIOUS
<1>3. ASSUME NEW n \in Numbers PROVE Alike(d[n], a[n], T) /\ Alike(d[n], b[n], T)
  <2>1. d[n] \in ObjectOf(T)
    BY <1>1
  <2>2. a[n] = d[n] \/ a[n] = [d[n] EXCEPT !.linked = TRUE]
    BY <1>2 DEF make_freelist
  <2>3. b[n] = d[n] \/ b[n] = [d[n] EXCEPT !.owner = God]
    BY <1>2 DEF check_owners
  <2>4. /\ Alike(d[n], d[n], T) /\ Alike(d[n], [d[n] EXCEPT !.linked = TRUE], T)
        /\ Alike(d[n], [d[n] EXCEPT !.owner = God], T)
    BY <2>1, GodIsNumber, AlikeObjects
  <2> QED
    BY <2>2, <2>3, <2>4
<1>4. a = [n \in Numbers |-> a[n]] /\ b = [n \in Numbers |-> b[n]]
  BY <1>2 DEF make_freelist, check_owners
<1>5. Stands(a)
  BY <1>3, <1>4, AllStand
<1>6. Stands(b)
  BY <1>3, <1>4, AllStand
<1> QED
  BY <1>2, <1>5, <1>6

(* What is going, destroyed one number after the other up to n.            *)
Purged_at(e, i) == IF Good(e, i) /\ e[i].going THEN Destroyed(e, i) ELSE e
Purging(d, g, n) == g = [i \in 0..n |-> IF i = 0 THEN d ELSE Purged_at(g[i - 1], i)]

LEMMA PurgingGoesOn ==
  ASSUME NEW d, NEW n \in Nat, NEW g, Purging(d, g, n)
  PROVE  \E h : Purging(d, h, n + 1)
<1>1. PICK x : x = Purged_at(g[n], n + 1)
  OBVIOUS
<1>2. PICK h : h = [i \in 0..n + 1 |-> IF i = n + 1 THEN x ELSE g[i]]
  OBVIOUS
<1>3. n \in 0..n /\ n + 1 \in 0..n + 1 /\ n + 1 \notin 0..n /\ n + 1 # 0
  OBVIOUS
<1>4. h[n + 1] = x /\ \A i \in 0..n : h[i] = g[i]
  BY <1>2, <1>3
<1>5. \A i \in 0..n : g[i] = IF i = 0 THEN d ELSE Purged_at(g[i - 1], i)
  BY DEF Purging
<1>6. ASSUME NEW i \in 0..n + 1 PROVE h[i] = IF i = 0 THEN d ELSE Purged_at(h[i - 1], i)
  <2>1. CASE i = n + 1
    <3>1. i - 1 = n
      BY <1>3, <2>1
    <3>2. h[i - 1] = g[n]
      BY <1>3, <1>4, <3>1
    <3> QED
      BY <1>1, <1>3, <1>4, <2>1, <3>2
  <2>2. CASE i # n + 1
    <3>1. i \in 0..n
      BY <2>2
    <3>2. CASE i = 0
      BY <1>4, <1>5, <3>1, <3>2
    <3>3. CASE i # 0
      <4>1. i - 1 \in 0..n
        BY <3>1, <3>3
      <4>2. h[i] = g[i] /\ h[i - 1] = g[i - 1]
        BY <1>4, <3>1, <4>1
      <4> QED
        BY <1>5, <3>1, <3>3, <4>2
    <3> QED
      BY <3>2, <3>3
  <2> QED
    BY <2>1, <2>2
<1>7. h = [i \in 0..n + 1 |-> h[i]]
  BY <1>2
<1> QED
  BY <1>6, <1>7 DEF Purging

LEMMA PurgingEnds ==
  ASSUME NEW d
  PROVE  \E g : Purging(d, g, N)
<1>0. N \in Nat /\ N \in 0..N
  BY GodIsNumber
<1> DEFINE Q == {n \in 0..N : \E g : Purging(d, g, n)}
<1>1. 0 \in Q
  <2>1. PICK g : g = [i \in 0..0 |-> d]
    OBVIOUS
  <2>2. Purging(d, g, 0)
    BY <2>1 DEF Purging
  <2> QED
    BY <1>0, <2>2
<1>2. \A n \in 0..N - 1 : n \in Q => n + 1 \in Q
  <2> SUFFICES ASSUME NEW n \in 0..N - 1, n \in Q PROVE n + 1 \in Q
    OBVIOUS
  <2>1. n \in Nat /\ n + 1 \in 0..N
    BY <1>0
  <2> QED
    BY <2>1, PurgingGoesOn
<1> HIDE DEF Q
<1>3. \A n \in 0..N : n \in Q
  BY <1>0, <1>1, <1>2, CountingInduction, Zenon
<1> QED
  BY <1>0, <1>3 DEF Q

LEMMA PurgedAtStands ==
  ASSUME NEW e, Stands(e), NEW i \in Numbers
  PROVE  Stands(Purged_at(e, i))
<1>1. CASE i = God
  BY <1>1 DEF Purged_at, Stands, GodStays
<1>2. CASE i # God
  BY <1>2, DestroyedStands DEF Purged_at
<1> QED
  BY <1>1, <1>2

LEMMA PurgingStands ==
  ASSUME NEW d, Stands(d), NEW g, Purging(d, g, N)
  PROVE  Stands(g[N])
<1>0. N \in Nat /\ N \in 0..N
  BY GodIsNumber
<1>1. \A i \in 0..N : g[i] = IF i = 0 THEN d ELSE Purged_at(g[i - 1], i)
  BY DEF Purging
<1> DEFINE Q == {n \in 0..N : Stands(g[n])}
<1>2. 0 \in Q
  BY <1>0, <1>1
<1>3. \A n \in 0..N - 1 : n \in Q => n + 1 \in Q
  <2> SUFFICES ASSUME NEW n \in 0..N - 1, n \in Q PROVE n + 1 \in Q
    OBVIOUS
  <2>1. n + 1 \in Numbers /\ n + 1 \in 0..N /\ n + 1 # 0 /\ (n + 1) - 1 = n
    BY <1>0 DEF Numbers
  <2>2. g[n + 1] = Purged_at(g[n], n + 1)
    BY <1>1, <2>1
  <2> QED
    BY <2>1, <2>2, PurgedAtStands
<1> HIDE DEF Q
<1>4. \A n \in 0..N : n \in Q
  BY <1>0, <1>2, <1>3, CountingInduction, Zenon
<1> QED
  BY <1>0, <1>4 DEF Q

LEMMA DbckStands ==
  ASSUME NEW d, Stands(d)
  PROVE  Stands(do_dbck(d))
<1>1. PICK e : e = check_owners(make_freelist(d))
  OBVIOUS
<1>2. Stands(e)
  BY <1>1, CheckedStands
<1> DEFINE Purges(g) == Purging(e, g, N)
<1>3. purge_going(e) = (CHOOSE g : Purges(g))[N]
  BY DEF purge_going, Purging, Purged_at
<1>4. \E g : Purges(g)
  BY PurgingEnds
<1> HIDE DEF Purges
<1>5. Purges(CHOOSE g : Purges(g))
  BY <1>4
<1> USE DEF Purges
<1>6. Stands(purge_going(e))
  BY <1>2, <1>3, <1>5, PurgingStands
<1> QED
  BY <1>1, <1>6 DEF do_dbck

(* With bounds on purses and quotas these are the objects of Accounts.     *)
LEMMA WithinTyped ==
  ASSUME NEW d, Shaped(d), Within(d)
  PROVE  d \in [Numbers -> Object]
<1>1. PICK T : d \in [Numbers -> ObjectOf(T)]
  BY DEF Shaped
<1>2. ASSUME NEW n \in Numbers PROVE d[n] \in Object
  <2>1. d[n] \in ObjectOf(T)
    BY <1>1
  <2>2. d[n].coins \in Int /\ d[n].quota \in Int /\ d[n].rquota \in Int
    BY AccountsAssumption DEF Within
  <2> QED
    BY <2>1, <2>2 DEF ObjectOf, Object
<1> QED
  BY <1>1, <1>2

(* Of an object that is destroyed nothing but coins and quotas is found    *)
(* elsewhere.                                                              *)
SameTypes(d, e) == e \in [Numbers -> Object] /\ \A k \in Numbers : e[k].type = d[k].type

LEMMA PayTyped ==
  ASSUME NEW d, d \in [Numbers -> Object], NEW who, who \in Numbers, NEW y, y \in Int
  PROVE  /\ SameTypes(d, [d EXCEPT ![who].coins = y])
         /\ SameTypes(d, [d EXCEPT ![who].rquota = y])
BY DEF Object, SameTypes

LEMMA PaidTyped ==
  ASSUME NEW d \in [Numbers -> Object], NEW who \in Numbers, NEW cost \in Int, NEW quota \in Int
  PROVE  SameTypes(d, payfees(d, who, cost, quota))
<1>1. PICK o \in Numbers : o = d[who].owner
  BY DEF Object
<1>2. PICK e : e = add_quota(d, who, -quota)
  OBVIOUS
<1>3. SameTypes(d, e)
  <2>1. PICK y \in Int : y = d[o].rquota + -quota
    BY <1>1 DEF Object
  <2>2. e = d \/ e = [d EXCEPT ![o].rquota = y]
    BY <1>1, <1>2, <2>1 DEF add_quota
  <2>3. SameTypes(d, [d EXCEPT ![o].rquota = y])
    BY PayTyped
  <2>4. SameTypes(d, d)
    BY DEF SameTypes
  <2> QED
    BY <2>2, <2>3, <2>4
<1>4. PICK p \in Numbers : p = e[who].owner
  BY <1>3 DEF Object, SameTypes
<1>5. PICK y \in Int : y = e[p].coins - cost
  BY <1>3 DEF Object, SameTypes
<1>6. payfor(e, who, cost) = e \/ payfor(e, who, cost) = [e EXCEPT ![p].coins = y]
  BY <1>4, <1>5 DEF payfor
<1>7. e \in [Numbers -> Object]
  BY <1>3 DEF SameTypes
<1>8. SameTypes(e, [e EXCEPT ![p].coins = y])
  BY <1>7, PayTyped
<1> QED
  BY <1>2, <1>3, <1>6, <1>8 DEF payfees, SameTypes

LEMMA GarbageTyped == Garbage \in Object /\ Garbage.type = "GARBAGE"
BY GodIsNumber DEF Garbage, Object

LEMMA ThingDestroyed ==
  ASSUME NEW d \in [Numbers -> Object], NEW n \in Numbers, d[n].type = "THING"
  PROVE  /\ destroy_obj(d, n) \in [Numbers -> Object] /\ ~Good(destroy_obj(d, n), n)
         /\ \A k \in Numbers \ {n} : Good(destroy_obj(d, n), k) = Good(d, k)
<1>1. PICK o \in Numbers : o = d[n].owner
  BY DEF Object
<1>2. PICK cost \in Int : cost = -Deposit(d, n)
  <2>1. Deposit(d, n) = (d[n].coins - SacAdjust) * SacFactor
    BY DEF Deposit, OBJECT_DEPOSIT
  <2>2. d[n].coins \in Int /\ SacAdjust \in Int /\ SacFactor \in Int
    BY AccountsAssumption DEF Object
  <2>3. d[n].coins - SacAdjust \in Int
    BY <2>2
  <2>4. Deposit(d, n) \in Int
    BY <2>1, <2>2, <2>3
  <2> QED
    BY <2>4
<1>3. PICK quota \in Int : quota = -Quota[d[n].type]
  BY AccountsAssumption DEF Types
<1>4. PICK back : back = IF IsPlayer(d, o) /\ o # n THEN payfees(d, o, cost, quota) ELSE d
  OBVIOUS
<1>5. back \in [Numbers -> Object] /\ \A k \in Numbers : back[k].type = d[k].type
  BY <1>4, PaidTyped DEF SameTypes
<1>6. destroy_obj(d, n) = [back EXCEPT ![n] = Garbage]
  BY <1>1, <1>2, <1>3, <1>4 DEF destroy_obj
<1>7. PICK e : e = [back EXCEPT ![n] = Garbage]
  OBVIOUS
<1>8. e \in [Numbers -> Object]
  BY <1>5, <1>7, GarbageTyped
<1>9. e[n] = Garbage /\ \A k \in Numbers \ {n} : e[k] = back[k]
  BY <1>5, <1>7
<1> QED
  BY <1>5, <1>6, <1>7, <1>8, <1>9, GarbageTyped DEF Good

-----------------------------------------------------------------------------
(***************************************************************************)
(* The invariant, and what MemoryKept says of a step for the number n.     *)
(***************************************************************************)
Inv == db \in [Numbers -> Object] /\ GodStays(db) /\ memory \in [Coders -> Memory]

Remembers(n) ==
  (memory'[n] # memory[n] \/ Good(db', n) # Good(db, n)) /\ Sound(memory[n], Good(db, n)) =>
    \/ Sound(memory'[n], Good(db', n))
    \/ Miscounts(memory[n], memory'[n]) \/ Emptied_cell(memory[n], memory'[n])
    \/ Shared_key(memory[n], memory'[n]) \/ Undone(n)
All_remember == \A n \in Coders : Remembers(n)
Kept_step == Inv' /\ All_remember

LEMMA ObjectsStand ==
  ASSUME NEW d \in [Numbers -> Object], GodStays(d)
  PROVE  Stands(d)
<1>1. Object = ObjectOf(Int)
  BY DEF Object, ObjectOf
<1> QED
  BY <1>1 DEF Stands, Shaped

LEMMA CodersAreNumbers == Coders \subseteq Numbers
BY SoftcodeAssumption

LEMMA InitKeeps == Init => Inv
<1> SUFFICES ASSUME Init PROVE Inv
  OBVIOUS
<1>1. PICK g \in Games : db = g.db /\ memory = [n \in Coders |-> Blank]
  BY DEF Init
<1>2. memory \in [Coders -> Memory]
  BY <1>1, BlankTyped
<1> QED
  BY <1>1, <1>2, GamesAssumption DEF Inv, GodStays

(* An object that is gone                                                  *)
LEMMA GoneRemembers ==
  ASSUME Inv, NEW n \in Coders, Good(db, n), ~Good(db', n), NEW last \in BOOLEAN,
         ~Undone(n) => memory'[n] = Cleared(memory[n], last)
  PROVE  Remembers(n)
<1> SUFFICES ASSUME ~Undone(n), Agrees(memory[n]) PROVE Forgotten(memory'[n])
  BY DEF Remembers, Sound
<1>1. n \in Objs
  BY CodersAreNumbers DEF Objs
<1>2. memory[n].grid = None /\ Defined(memory[n]) = {}
  BY <1>1 DEF Undone
<1>3. memory[n] \in Memory
  BY DEF Inv
<1>4. Forgotten(Cleared(memory[n], last))
  BY <1>2, <1>3, ClearedForgotten
<1> QED
  BY <1>4

LEMMA BecameKeeps ==
  ASSUME Inv, NEW d, Stands(d), Became(d)
  PROVE  Kept_step
<1>1. PICK kept \in SUBSET Died(d) : db' = d /\ Within(d) /\ memory' = Remembered(d, kept)
  BY DEF Became
<1>2. ASSUME NEW n \in Coders
      PROVE  memory'[n] = IF n \in Died(d) THEN Cleared(memory[n], n \in kept)
                          ELSE IF n \notin Objs /\ Good(d, n) THEN Reset(memory[n])
                          ELSE memory[n]
  BY <1>1 DEF Remembered
<1>3. ASSUME NEW n \in Coders
      PROVE  memory[n] \in Memory /\ (n \in Objs <=> Good(db, n)) /\ (n \in kept) \in BOOLEAN
             /\ (n \in Died(d) <=> Good(db, n) /\ ~Good(d, n))
  BY CodersAreNumbers DEF Inv, Objs, Died
<1>4. memory' \in [Coders -> Memory]
  <2>1. ASSUME NEW n \in Coders PROVE memory'[n] \in Memory
    BY <1>2, <1>3, ClearedTyped, ResetTyped
  <2>2. memory' = [n \in Coders |-> memory'[n]]
    BY <1>1 DEF Remembered
  <2> QED
    BY <2>1, <2>2
<1>5. ASSUME NEW n \in Coders PROVE Remembers(n)
  <2>1. CASE n \in Died(d)
    <3>1. Good(db, n) /\ ~Good(db', n)
      BY <1>1, <1>3, <2>1
    <3>2. PICK last \in BOOLEAN : memory'[n] = Cleared(memory[n], last)
      BY <1>2, <1>3, <2>1
    <3> QED
      BY <3>1, <3>2, GoneRemembers
  <2>2. CASE ~Good(db, n) /\ Good(d, n)
    <3>1. memory'[n] = Reset(memory[n])
      BY <1>2, <1>3, <2>2
    <3>2. Forgotten(memory[n]) => Agrees(memory'[n])
      BY <3>1, ResetAgrees
    <3> QED
      BY <1>1, <2>2, <3>2 DEF Remembers, Sound
  <2>3. CASE n \notin Died(d) /\ ~(~Good(db, n) /\ Good(d, n))
    <3>1. memory'[n] = memory[n] /\ Good(db', n) = Good(db, n)
      BY <1>1, <1>2, <1>3, <2>3 DEF Good
    <3> QED
      BY <3>1 DEF Remembers
  <2> QED
    BY <2>1, <2>2, <2>3
<1>6. db' \in [Numbers -> Object] /\ GodStays(db')
  BY <1>1, WithinTyped DEF Stands
<1>7. Inv'
  BY <1>4, <1>6 DEF Inv
<1> QED
  BY <1>5, <1>7 DEF Kept_step, All_remember

LEMMA ObjectsAre ==
  ASSUME Inv
  PROVE  /\ Stands(db) /\ God \in Numbers /\ Actors \subseteq Numbers
         /\ Objs \subseteq Numbers /\ Plrs \subseteq Numbers
         /\ \A x \in Objs : db[x].type \in Types
<1>1. Stands(db)
  BY ObjectsStand DEF Inv
<1>2. \A x \in Objs : db[x].type \in Types
  BY DEF Inv, Objs, Good, Object
<1> QED
  BY <1>1, <1>2, GodIsNumber DEF Actors, Plrs, Objs

(* What a command makes of the database                                    *)
Becomes == \E d : Stands(d) /\ Became(d)

LEMMA BuildingStands ==
  ASSUME Inv, Building
  PROVE  Becomes
<1>1. ASSUME NEW p \in Actors, NEW there \in BOOLEAN, NEW back \in BOOLEAN, Dig(p, there, back)
      PROVE  Becomes
  <2>1. p \in Numbers /\ Stands(db) /\ Freelist(db) # {} /\ "ROOM" \in Types
    BY <1>1, ObjectsAre DEF Dig, CanCreate, Types
  <2>2. PICK room : room = create_obj(db, p, "ROOM", 0)
    OBVIOUS
  <2>3. PICK out : out = IF there THEN Opened(room, p, TRUE) ELSE room
    OBVIOUS
  <2>4. Stands(room)
    BY <2>1, <2>2, CreateStands
  <2>5. Stands(out)
    BY <2>1, <2>3, <2>4, OpenedStands
  <2>6. Stands(IF back THEN Opened(out, p, TRUE) ELSE out)
    BY <2>1, <2>5, OpenedStands
  <2>7. Became(IF back THEN Opened(out, p, TRUE) ELSE out)
    BY <1>1, <2>2, <2>3 DEF Dig
  <2> QED
    BY <2>6, <2>7 DEF Becomes
<1>2. ASSUME NEW p \in Actors, NEW cost \in Costs, Create(p, cost) PROVE Becomes
  <2>1. p \in Numbers /\ Stands(db) /\ Freelist(db) # {} /\ "THING" \in Types
    BY <1>2, ObjectsAre DEF Create, CanCreate, Types
  <2>2. Stands(create_obj(db, p, "THING", cost))
    BY <2>1, CreateStands
  <2> QED
    BY <1>2, <2>2 DEF Create, Becomes
<1>3. ASSUME NEW p \in Actors, NEW linkto \in BOOLEAN, Open(p, linkto) PROVE Becomes
  <2>1. p \in Numbers /\ Stands(db)
    BY ObjectsAre
  <2>2. Stands(Opened(db, p, linkto))
    BY <2>1, OpenedStands
  <2> QED
    BY <1>3, <2>2 DEF Open, Becomes
<1>4. ASSUME NEW p \in Actors, NEW x \in Objs, Link(p, x) PROVE Becomes
  <2>1. p \in Numbers /\ x \in Numbers /\ Stands(db)
    BY ObjectsAre
  <2>2. Stands(Linked(db, p, x))
    BY <2>1, LinkedStands
  <2>3. Stands([db EXCEPT ![x].linked = TRUE])
    BY <2>1, FieldStands
  <2> QED
    BY <1>4, <2>2, <2>3 DEF Link, Becomes
<1>5. ASSUME NEW p \in Actors, NEW x \in Objs, Spare(p, x) PROVE Becomes
  <2>1. x \in Numbers /\ Stands(db)
    BY ObjectsAre
  <2>2. Stands([db EXCEPT ![x].going = FALSE])
    BY <2>1, FieldStands
  <2> QED
    BY <1>5, <2>2 DEF Spare, Becomes
<1>6. ASSUME NEW p \in Actors, NEW x \in Objs, NEW preserve \in BOOLEAN, NEW linkable \in BOOLEAN,
             NEW asked \in Costs \cup {NotAsked}, Clone(p, x, preserve, asked, linkable)
      PROVE  Becomes
  <2>1. p \in Numbers /\ x \in Numbers /\ Stands(db)
    BY ObjectsAre
  <2>2. Stands(Cloned(db, p, x, preserve, asked, linkable))
    BY <1>6, <2>1, ClonedStands DEF Clone
  <2> QED
    BY <1>6, <2>2 DEF Clone, Becomes
<1>7. ASSUME NEW p \in Actors, NEW x \in Objs, NEW instant \in BOOLEAN, Destroy(p, x, instant)
      PROVE  Becomes
  <2>1. x \in Numbers /\ Stands(db) /\ x # God
    BY <1>7, ObjectsAre DEF Destroy
  <2>2. Stands(Destroyed(db, x))
    BY <2>1, DestroyedStands
  <2>3. Stands([db EXCEPT ![x].going = TRUE])
    BY <2>1, FieldStands
  <2>4. Became(Destroyed(db, x)) \/ Became([db EXCEPT ![x].going = TRUE])
    BY <1>7 DEF Destroy
  <2> QED
    BY <2>2, <2>3, <2>4 DEF Becomes
<1>8. ASSUME Check PROVE Becomes
  <2>1. Stands(do_dbck(db))
    BY ObjectsAre, DbckStands
  <2> QED
    BY <1>8, <2>1 DEF Check, Becomes
<1> QED
  BY <1>1, <1>2, <1>3, <1>4, <1>5, <1>6, <1>7, <1>8 DEF Building

LEMMA OwningStands ==
  ASSUME Inv, Owning
  PROVE  Becomes
<1>1. ASSUME NEW p \in Actors, NEW x \in Objs, NEW owner \in Plrs, Chown(p, x, owner) PROVE Becomes
  <2>1. p \in Numbers /\ x \in Numbers /\ owner \in Numbers /\ Stands(db)
    BY ObjectsAre
  <2>2. Stands(do_chown(db, p, x, owner))
    BY <2>1, ChownStands
  <2> QED
    BY <1>1, <2>2 DEF Chown, Becomes
<1>2. ASSUME NEW from \in Objs, NEW to \in Objs, Chownall(from, to) PROVE Becomes
  <2>1. from \in Numbers /\ to \in Numbers /\ Stands(db)
    BY ObjectsAre
  <2>2. Stands(chown_all(db, from, to))
    BY <2>1, ChownAllStands
  <2> QED
    BY <1>2, <2>2 DEF Chownall, Becomes
<1>3. ASSUME NEW victim \in Plrs, NEW to \in Plrs, NEW chown \in BOOLEAN, Toad(victim, to, chown)
      PROVE  Becomes
  <2>1. victim \in Numbers /\ to \in Numbers /\ Stands(db) /\ victim # God
    BY <1>3, ObjectsAre DEF Toad
  <2>2. Stands(do_toad(db, victim, to, chown))
    BY <2>1, ToadStands
  <2> QED
    BY <1>3, <2>2 DEF Toad, Becomes
<1>4. ASSUME NEW who \in Plrs, NEW value \in QuotaValues, NEW remaining \in BOOLEAN,
             SetQuota(who, value, remaining)
      PROVE  Becomes
  <2>1. who \in Numbers /\ Stands(db)
    BY ObjectsAre
  <2>2. Stands(adjust_quota(db, who, value, remaining))
    BY <2>1, QuotaStands
  <2> QED
    BY <1>4, <2>2 DEF SetQuota, Becomes
<1>5. ASSUME NEW who \in Plrs, NEW total \in BOOLEAN, FixQuota(who, total) PROVE Becomes
  <2>1. who \in Numbers /\ Stands(db)
    BY ObjectsAre
  <2>2. Stands(mung_quotas_fix(db, who, total))
    BY <2>1, QuotaStands
  <2> QED
    BY <1>5, <2>2 DEF FixQuota, Becomes
<1>6. ASSUME CreatePlayer PROVE Becomes
  <2>1. Stands(db) /\ Freelist(db) # {} /\ "PLAYER" \in Types
    BY <1>6, ObjectsAre DEF CreatePlayer, Types
  <2>2. Stands(create_obj(db, Nobody, "PLAYER", 0))
    BY <2>1, CreateStands
  <2> QED
    BY <1>6, <2>2 DEF CreatePlayer, Becomes
<1>7. ASSUME Pcreate PROVE Becomes
  <2>1. God \in Numbers /\ Stands(db) /\ Freelist(db) # {} /\ "PLAYER" \in Types
    BY <1>7, ObjectsAre DEF Pcreate, CanCreate, Types
  <2>2. Stands(create_obj(db, God, "PLAYER", 0))
    BY <2>1, CreateStands
  <2> QED
    BY <1>7, <2>2 DEF Pcreate, Becomes
<1>8. ASSUME NEW p \in Actors, Robot(p) PROVE Becomes
  <2>1. p \in Numbers /\ Stands(db) /\ Freelist(db) # {} /\ "ROBOT" \in Types
    BY <1>8, ObjectsAre DEF Robot, CanCreate, Types
  <2>2. Stands(create_obj(db, p, "ROBOT", 0))
    BY <2>1, CreateStands
  <2> QED
    BY <1>8, <2>2 DEF Robot, Becomes
<1> QED
  BY <1>1, <1>2, <1>3, <1>4, <1>5, <1>6, <1>7, <1>8 DEF Owning

LEMMA PayingStands ==
  ASSUME Inv, Paying
  PROVE  Becomes
<1>1. ASSUME NEW p \in Actors, NEW x \in Objs, NEW amount \in Amounts, NEW price \in Costs,
             Give(p, x, amount, price)
      PROVE  Becomes
  <2>1. p \in Numbers /\ x \in Numbers /\ Stands(db)
    BY ObjectsAre
  <2>2. Stands(give_money(db, p, x, amount, price))
    BY <2>1, PocketsStand
  <2> QED
    BY <1>1, <2>2 DEF Give, Becomes
<1>2. ASSUME NEW p \in Actors, NEW x \in Objs, NEW cost \in Costs, NEW success \in BOOLEAN,
             Kill(p, x, cost, success)
      PROVE  Becomes
  <2>1. p \in Numbers /\ x \in Numbers /\ Stands(db)
    BY ObjectsAre
  <2>2. Stands(Killed(db, p, x, cost, PayLimit))
    BY <2>1, PocketsStand
  <2>3. Stands(payfor(db, p, cost))
    BY <2>1, PayforStands
  <2>4. Became(Killed(db, p, x, cost, PayLimit)) \/ Became(payfor(db, p, cost))
    BY <1>2 DEF Kill
  <2> QED
    BY <2>2, <2>3, <2>4 DEF Becomes
<1>3. ASSUME NEW p \in Plrs, NEW coins \in {1, Paycheck}, Earn(p, coins) PROVE Becomes
  <2>1. p \in Numbers /\ Stands(db)
    BY ObjectsAre
  <2>2. Stands(giveto(db, p, coins))
    BY <2>1, PayforStands
  <2> QED
    BY <1>3, <2>2 DEF Earn, Becomes
<1>4. ASSUME NEW limit \in Costs, Poor(limit) PROVE Becomes
  <2>1. Stands(do_poor(db, limit))
    BY ObjectsAre, PoorStands
  <2> QED
    BY <1>4, <2>1 DEF Poor, Becomes
<1> QED
  BY <1>1, <1>2, <1>3, <1>4 DEF Paying

-----------------------------------------------------------------------------
(***************************************************************************)
(* Softcode's steps.                                                       *)
(***************************************************************************)
LEMMA ThingsAre ==
  ASSUME Inv, NEW n \in Things
  PROVE  n \in Numbers /\ n \in Coders /\ db[n].type = "THING" /\ Good(db, n) /\ memory[n] \in Memory
BY DEF Inv, Things, Objs, Good

LEMMA EvaluatedTyped ==
  ASSUME Inv, NEW n \in Coders, NEW new, new \in Memory, Evaluated(n, new)
  PROVE  /\ memory' \in [Coders -> Memory] /\ memory'[n] = new
         /\ \A k \in Coders \ {n} : memory'[k] = memory[k]
BY DEF Inv, Evaluated

(* The thing n does something that leaves the database alone.              *)
LEMMA StaysRemembers ==
  ASSUME Inv, NEW n \in Things, NEW new, CallKeeps(memory[n], new), Evaluated(n, new), UNCHANGED db
  PROVE  Kept_step
<1>1. n \in Coders /\ Good(db, n) /\ Good(db', n)
  BY ThingsAre
<1>2. /\ memory' \in [Coders -> Memory] /\ memory'[n] = new
      /\ \A k \in Coders \ {n} : memory'[k] = memory[k]
  BY <1>1, EvaluatedTyped DEF CallKeeps
<1>3. Inv'
  BY <1>2 DEF Inv, GodStays, IsPlayer
<1>4. Remembers(n)
  BY <1>1, <1>2 DEF CallKeeps, Remembers, Sound
<1>5. ASSUME NEW k \in Coders \ {n} PROVE Remembers(k)
  BY <1>2 DEF Remembers
<1> QED
  BY <1>3, <1>4, <1>5 DEF Kept_step, All_remember

(* The thing n does its last.                                              *)
LEMMA LastRemembers ==
  ASSUME Inv, NEW n \in Things, NEW new, new \in Memory, Evaluated(n, new), db' = destroy_obj(db, n)
  PROVE  Kept_step
<1>1. n \in Numbers /\ n \in Coders /\ db[n].type = "THING" /\ Good(db, n)
  BY ThingsAre
<1>2. /\ memory' \in [Coders -> Memory] /\ memory'[n] = new
      /\ \A k \in Coders \ {n} : memory'[k] = memory[k]
  BY <1>1, EvaluatedTyped
<1>3. db \in [Numbers -> Object] /\ Stands(db) /\ n # God
  BY <1>1, ObjectsStand DEF Inv, GodStays, IsPlayer
<1>4. /\ db' \in [Numbers -> Object] /\ ~Good(db', n)
      /\ \A k \in Numbers \ {n} : Good(db', k) = Good(db, k)
  BY <1>1, <1>3, ThingDestroyed
<1>5. GodStays(db')
  BY <1>1, <1>3, DestroyedStands DEF Stands
<1>6. Inv'
  BY <1>2, <1>4, <1>5 DEF Inv
<1>7. n \in Objs
  BY <1>1 DEF Objs
<1>8. ~Undone(n) => memory'[n] = Cleared(memory[n], TRUE)
  BY <1>4, <1>7 DEF Undone
<1>9. Remembers(n)
  BY <1>1, <1>4, <1>8, GoneRemembers
<1>10. ASSUME NEW k \in Coders \ {n} PROVE Remembers(k)
  BY <1>2, <1>4, CodersAreNumbers DEF Remembers
<1> QED
  BY <1>6, <1>9, <1>10 DEF Kept_step, All_remember

LEMMA ListedTexts ==
  ASSUME NEW names \in Lists, NEW values \in TextsOf(DOMAIN names)
  PROVE  names \in Seq(Variables) /\ HasTexts(names, values)
BY ListedNames DEF TextsOf, Texts, HasTexts

LEMMA SoftlyKeeps ==
  ASSUME Inv, Softly
  PROVE  Kept_step
<1>1. ASSUME NEW n \in Things, Evaluate(n) PROVE Kept_step
  <2>1. PICK new \in Calls(memory[n]) : Evaluated(n, new) /\ UNCHANGED db
    BY <1>1 DEF Evaluate
  <2>2. CallKeeps(memory[n], new)
    BY ThingsAre, CallsKeep
  <2> QED
    BY <2>1, <2>2, StaysRemembers
<1>2. ASSUME NEW n \in Things, EvaluateLast(n) PROVE Kept_step
  <2>1. PICK kept \in BOOLEAN : \E new \in Calls(Cleared(memory[n], kept)) : Evaluated(n, new)
    BY <1>2 DEF EvaluateLast
  <2>2. PICK new \in Calls(Cleared(memory[n], kept)) : Evaluated(n, new)
    BY <2>1
  <2>3. Cleared(memory[n], kept) \in Memory
    BY ThingsAre, ClearedTyped
  <2>4. new \in Memory
    BY <2>3, CallsKeep DEF CallKeeps
  <2>5. db' = destroy_obj(db, n)
    BY <1>2 DEF EvaluateLast
  <2> QED
    BY <2>2, <2>4, <2>5, LastRemembers
<1>3. ASSUME NEW n \in Things, NEW names \in Lists, NEW capitals,
             NEW values \in TextsOf(DOMAIN names), Let(n, names, values, capitals)
      PROVE  Kept_step
  <2>1. PICK new \in fun_let(memory[n], names, values, capitals) \cup Meanwhile(memory[n]) :
          Evaluated(n, new) /\ UNCHANGED db
    BY <1>3 DEF Let
  <2>2. HasTexts(names, values) /\ memory[n] \in Memory
    BY ListedTexts, ThingsAre
  <2>3. KeepsMemory(memory[n], new)
    BY <2>1, <2>2, LetKeeps, MeanwhileKeeps
  <2>4. CallKeeps(memory[n], new)
    BY <2>2, <2>3, KeepsIsCallKeeps
  <2> QED
    BY <2>1, <2>4, StaysRemembers
<1>4. ASSUME NEW n \in Things, NEW names \in Lists, NEW capitals,
             NEW values \in TextsOf(DOMAIN names), LetLast(n, names, values, capitals)
      PROVE  Kept_step
  <2>1. PICK m : m = SetAll(memory[n], names, values)
    OBVIOUS
  <2>2. PICK kept \in BOOLEAN :
          /\ db' = destroy_obj(db, n)
          /\ Evaluated(n, SetAll(Cleared(m, kept), names, Kept(memory[n], names, capitals)))
    BY <1>4, <2>1 DEF LetLast
  <2>3. names \in Seq(Variables) /\ HasTexts(names, values) /\ memory[n] \in Memory
    BY ListedTexts, ThingsAre
  <2>4. m \in Memory
    BY <2>1, <2>3, SetAllKeeps DEF KeepsMemory
  <2>5. Cleared(m, kept) \in Memory
    BY <2>4, ClearedTyped
  <2>6. HasTexts(names, Kept(memory[n], names, capitals))
    BY <2>3, KeptTyped
  <2>7. SetAll(Cleared(m, kept), names, Kept(memory[n], names, capitals)) \in Memory
    BY <2>5, <2>6, SetAllKeeps DEF KeepsMemory
  <2> QED
    BY <2>2, <2>7, LastRemembers
<1> QED
  BY <1>1, <1>2, <1>3, <1>4 DEF Softly

-----------------------------------------------------------------------------
LEMMA StepKeeps ==
  ASSUME Inv, Next
  PROVE  Kept_step
<1>1. ASSUME Becomes PROVE Kept_step
  BY <1>1, BecameKeeps DEF Becomes
<1> QED
  BY <1>1, BuildingStands, OwningStands, PayingStands, SoftlyKeeps DEF Next

LEMMA StutterKeeps ==
  ASSUME Inv, UNCHANGED vars
  PROVE  Inv'
BY DEF Inv, vars, GodStays, IsPlayer

LEMMA InvSays ==
  ASSUME Inv
  PROVE  TypeOK /\ LetRestores
<1>1. TypeOK
  BY DEF Inv, TypeOK, GodStays, IsPlayer, Good
<1>2. ASSUME NEW n \in Things, NEW names \in Lists, NEW capitals \in SUBSET DOMAIN names,
             NEW values \in TextsOf(DOMAIN names)
      PROVE  Restores(memory[n], names, values, capitals)
  BY ListedTexts, ThingsAre, LetGivesBack
<1> QED
  BY <1>1, <1>2 DEF LetRestores

(* MemoryKept: whatever softcode does, in whatever order and to whatever   *)
(* objects, what is kept for an object agrees with what is counted, and    *)
(* what is kept for a number that is let go is not found by the next one   *)
(* (but for what Possessions names); and let() restores variables.         *)
THEOREM SoftcodeRemembers == Spec => MemoryKept
<1>1. Inv /\ [Next]_vars => Inv'
  BY StepKeeps, StutterKeeps DEF Kept_step, All_remember
<1>2. Inv => TypeOK /\ LetRestores
  BY InvSays
<1>3. Inv /\ [Next]_vars => [All_remember]_<<db, memory>>
  <2>1. ASSUME Inv, Next PROVE All_remember
    BY <2>1, StepKeeps DEF Kept_step, All_remember
  <2>2. ASSUME UNCHANGED vars PROVE UNCHANGED <<db, memory>>
    BY <2>2 DEF vars
  <2> QED
    BY <2>1, <2>2
<1>4. Spec => [](TypeOK /\ LetRestores) /\ [][All_remember]_<<db, memory>>
  BY <1>1, <1>2, <1>3, InitKeeps, PTL DEF Spec
<1> QED
  BY <1>4 DEF MemoryKept, All_remember, Remembers
=============================================================================
