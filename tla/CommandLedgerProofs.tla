------------------------ MODULE CommandLedgerProofs ------------------------
(***************************************************************************)
(* Proofs about the ledger: its types, that limits hold, and that no       *)
(* deposit is paid back twice, for any players, PIDs, limits and prices.   *)
(***************************************************************************)
EXTENDS CommandLedger, FiniteSetTheorems, TLAPS

-----------------------------------------------------------------------------
(* Sets of commands. *)

(* What a player holds is a set of PIDs, so it can be counted. *)
LEMMA HeldFinite ==
  ASSUME TypeOK, NEW o, NEW D
  PROVE  /\ IsFiniteSet(Held(o)) /\ Cardinality(Held(o)) \in Nat
         /\ IsFiniteSet(Held(o) \cap D) /\ Cardinality(Held(o) \cap D) \in Nat
<1>1. Held(o) \subseteq Pids
  BY DEF Held, TypeOK
<1>2. IsFiniteSet(Pids)
  BY LedgerAssumption
<1>3. IsFiniteSet(Held(o)) /\ IsFiniteSet(Held(o) \cap D)
  BY <1>1, <1>2, FS_Subset
<1> QED
  BY <1>3, FS_CardinalityType

(* What dropping D leaves of what a player holds. *)
LEMMA DropHeld ==
  ASSUME TypeOK, NEW D, Drop(D), NEW o
  PROVE  /\ Held(o)' = Held(o) \ D
         /\ Cardinality(Held(o)') = Cardinality(Held(o)) - Cardinality(Held(o) \cap D)
         /\ Cardinality(Held(o)') \in Nat
<1>1. Held(o)' = Held(o) \ D
  BY DEF Held, Drop
<1>2. IsFiniteSet(Held(o))
  BY HeldFinite
<1>3. Cardinality(Held(o) \ D) = Cardinality(Held(o)) - Cardinality(Held(o) \cap D)
  BY <1>2, FS_Difference
<1>4. IsFiniteSet(Held(o) \ D)
  BY <1>2, FS_Difference
<1>5. Cardinality(Held(o) \ D) \in Nat
  BY <1>4, FS_CardinalityType
<1> QED
  BY <1>1, <1>3, <1>5

(* Dropping commands keeps the type of payer. *)
LEMMA DropTypes ==
  ASSUME TypeOK, NEW D, Drop(D)
  PROVE  DOMAIN payer' \subseteq Pids /\ payer' \in [DOMAIN payer' -> Players]
BY DEF TypeOK, Drop

(* What queueing p adds to what a player holds. *)
LEMMA SubmitHeld ==
  ASSUME TypeOK, NEW o \in Players, NEW p \in Pids, NEW fee \in Fees,
         Submit(o, p, fee), NEW q \in Players
  PROVE  Cardinality(Held(q)') =
           IF q = o THEN Cardinality(Held(q)) + 1 ELSE Cardinality(Held(q))
<1>1. CASE q = o
  <2>1. Held(q)' = Held(q) \cup {p} /\ p \notin Held(q)
    BY <1>1 DEF Held, Submit
  <2> QED
    BY <1>1, <2>1, HeldFinite, FS_AddElement
<1>2. CASE q # o
  <2>1. Held(q)' = Held(q)
    BY <1>2 DEF Held, Submit
  <2> QED
    BY <1>2, <2>1
<1> QED
  BY <1>1, <1>2

(* The arithmetic of deposits. *)
LEMMA OneMore ==
  ASSUME NEW c \in Int, NEW m \in Int
  PROVE  c * (m + 1) = c * m + c
BY SMT

LEMMA SomeLess ==
  ASSUME NEW c \in Int, NEW m \in Int, NEW n \in Int
  PROVE  c * (m - n) + c * n = c * m
BY SMT

LEMMA Products ==
  ASSUME NEW c \in Nat, NEW m \in Nat
  PROVE  c * m \in Nat
BY SMT

-----------------------------------------------------------------------------
(* Types. *)

(* The variables of the ledger keep their types. *)
THEOREM LedgerTyping == Spec => []TypeOK
<1>1. Init => TypeOK
  BY LedgerAssumption DEF Init, TypeOK
<1>2. ASSUME TypeOK, [Next]_vars PROVE TypeOK'
  <2>1. ASSUME NEW o \in Players, NEW p \in Pids, NEW fee \in Fees, Submit(o, p, fee)
        PROVE  TypeOK'
    BY <1>2, <2>1, LedgerAssumption DEF TypeOK, Submit, Charge
  <2>2. ASSUME NEW o \in Players, NEW fee \in Fees, Lose(o, fee)
        PROVE  TypeOK'
    BY <1>2, <2>2, LedgerAssumption DEF TypeOK, Lose, Charge
  <2>3. ASSUME NEW o \in Players, NEW fee \in Fees, Penalty(o, fee)
        PROVE  TypeOK'
    <3>1. DOMAIN payer' \subseteq Pids /\ payer' \in [DOMAIN payer' -> Players]
      BY <1>2, <2>3, DropTypes DEF Penalty
    <3>2. Cost * Cardinality(Held(o)) \in Nat
      BY <1>2, HeldFinite, Products, LedgerAssumption
    <3>3. fee \in Int
      BY LedgerAssumption
    <3>4. purse' \in [Players -> Int]
      BY <1>2, <2>3, <3>2, <3>3 DEF TypeOK, Penalty
    <3> QED
      BY <1>2, <2>3, <3>1, <3>4 DEF TypeOK, Penalty
  <2>4. ASSUME NEW D \in SUBSET Pids, Settle(D)
        PROVE  TypeOK'
    <3>1. DOMAIN payer' \subseteq Pids /\ payer' \in [DOMAIN payer' -> Players]
      BY <1>2, <2>4, DropTypes DEF Settle
    <3>2. \A o \in Players : Cardinality(Held(o) \cap D) \in Nat /\ Deposits(o, D) \in Nat
      BY <1>2, HeldFinite, Products, LedgerAssumption DEF Deposits
    <3>3. counter' \in [Players -> Int]
      BY <1>2, <2>4, <3>2 DEF TypeOK, Settle
    <3>4. ASSUME NEW o \in Players PROVE purse[o] + Deposits(o, D) \in Int
      <4>1. purse[o] \in Int
        BY <1>2 DEF TypeOK
      <4>2. Deposits(o, D) \in Nat
        BY <3>2
      <4> QED
        BY <4>1, <4>2
    <3>5. purse' \in [Players -> Int]
      BY <2>4, <3>4 DEF Settle
    <3> QED
      BY <3>1, <3>3, <3>5 DEF TypeOK
  <2>5. ASSUME NEW O \in SUBSET Players, Clear(O)
        PROVE  TypeOK'
    <3> DEFINE D == {p \in DOMAIN payer : payer[p] \in O}
    <3>1. DOMAIN payer' \subseteq Pids /\ payer' \in [DOMAIN payer' -> Players]
      BY <1>2, <2>5, DropTypes DEF Clear
    <3>2. \A o \in Players : Deposits(o, D) \in Nat
      BY <1>2, HeldFinite, Products, LedgerAssumption DEF Deposits
    <3> QED
      BY <1>2, <2>5, <3>1, <3>2 DEF TypeOK, Clear
  <2>6. ASSUME NEW p \in Pids, Forfeit(p)
        PROVE  TypeOK'
    BY <1>2, <2>6, DropTypes DEF TypeOK, Forfeit
  <2>7. CASE UNCHANGED vars
    BY <1>2, <2>7 DEF TypeOK, vars
  <2> QED
    BY <1>2, <2>1, <2>2, <2>3, <2>4, <2>5, <2>6, <2>7 DEF Next
<1> QED
  BY <1>1, <1>2, PTL DEF Spec

-----------------------------------------------------------------------------
(* Limits and deposits. *)

(* The books of a player q: QuotaHolds and DepositsCovered for q alone.    *)
(* Together with the types they are inductive.                             *)
Balanced(q) ==
  /\ Cardinality(Held(q)) <= counter[q] /\ counter[q] <= Limit[q]
  /\ purse[q] >= 0
  /\ purse[q] + Cost * Cardinality(Held(q)) <= Funds[q]

(* The books of everybody are balanced to start with. *)
LEMMA InitBalanced == ASSUME Init, NEW q \in Players PROVE Balanced(q)
<1>1. Held(q) = {}
  BY DEF Init, Held
<1>2. Cardinality(Held(q)) = 0
  BY <1>1, FS_EmptySet
<1> QED
  BY <1>2, LedgerAssumption DEF Init, Balanced

(* Queueing a command, with and without a PID for it. *)
LEMMA ChargeBalanced ==
  ASSUME TypeOK, NEW q \in Players, Balanced(q),
         NEW o \in Players, NEW fee \in Fees, Charge(o, fee),
         Cardinality(Held(q)') \in
           {Cardinality(Held(q)),
            IF q = o THEN Cardinality(Held(q)) + 1 ELSE Cardinality(Held(q))}
  PROVE  Balanced(q)'
<1> DEFINE n == Cardinality(Held(q))
<1>1. n \in Nat /\ Cost \in Nat /\ fee \in Nat /\ fee >= Cost
  BY HeldFinite, LedgerAssumption
<1>2. counter[q] \in Int /\ purse[q] \in Int /\ Limit[q] \in Int /\ Funds[q] \in Int
  BY LedgerAssumption DEF TypeOK
<1>3. Cost * n \in Nat /\ Cost * (n + 1) = Cost * n + Cost
  BY <1>1, Products, OneMore
<1>4. CASE q = o
  <2>1. counter'[q] = counter[q] + 1 /\ purse'[q] = purse[q] - fee
    BY <1>4 DEF Charge, TypeOK
  <2>2. counter[q] < Limit[q] /\ purse[q] >= fee
    BY <1>4 DEF Charge
  <2>3. CASE Cardinality(Held(q)') = n
    BY <1>1, <1>2, <1>3, <2>1, <2>2, <2>3 DEF Balanced
  <2>4. CASE Cardinality(Held(q)') = n + 1
    BY <1>1, <1>2, <1>3, <2>1, <2>2, <2>4 DEF Balanced
  <2> QED
    BY <1>4, <2>3, <2>4
<1>5. CASE q # o
  BY <1>5 DEF Charge, Balanced, TypeOK
<1> QED
  BY <1>4, <1>5

(* Dropping commands, at the price of their deposits or for less. *)
LEMMA DropBalanced ==
  ASSUME TypeOK, NEW q \in Players, Balanced(q), NEW D, Drop(D),
         counter'[q] \in Int, purse'[q] \in Int,
         counter'[q] <= counter[q],
         \/ counter'[q] >= counter[q] - Cardinality(Held(q) \cap D)
         \/ Held(q) \subseteq D /\ counter'[q] = 0,
         purse'[q] >= 0,
         purse'[q] <= purse[q] + Deposits(q, D)
  PROVE  Balanced(q)'
<1> DEFINE n == Cardinality(Held(q))
           k == Cardinality(Held(q) \cap D)
<1>1. n \in Nat /\ k \in Nat /\ Cost \in Nat
  BY HeldFinite, LedgerAssumption
<1>2. counter[q] \in Int /\ purse[q] \in Int /\ Limit[q] \in Int /\ Funds[q] \in Int
  BY LedgerAssumption DEF TypeOK
<1>3. Cardinality(Held(q)') = n - k
  BY DropHeld
<1>4. Cost * (n - k) + Cost * k = Cost * n /\ Cost * (n - k) \in Int /\ Cost * k \in Nat
  BY <1>1, SomeLess, Products
<1>5. Deposits(q, D) = Cost * k
  BY DEF Deposits
<1>6. n - k <= counter'[q]
  <2>1. CASE Held(q) \subseteq D /\ counter'[q] = 0
    <3>1. Held(q) \cap D = Held(q)
      BY <2>1
    <3>2. k = n
      BY <3>1
    <3> HIDE DEF n, k
    <3> QED
      BY <1>1, <2>1, <3>2
  <2>2. CASE counter'[q] >= counter[q] - k
    BY <1>1, <1>2, <2>2 DEF Balanced
  <2> QED
    BY <2>1, <2>2
<1>7. counter'[q] <= Limit[q]
  BY <1>2 DEF Balanced
<1>8. purse'[q] + Cost * (n - k) <= Funds[q]
  BY <1>1, <1>2, <1>4, <1>5 DEF Balanced
<1> QED
  BY <1>3, <1>6, <1>7, <1>8 DEF Balanced

(* Starting or cancelling the commands D. *)
LEMMA SettleBalanced ==
  ASSUME TypeOK, NEW q \in Players, Balanced(q), NEW D \in SUBSET Pids, Settle(D)
  PROVE  Balanced(q)'
<1>1. Drop(D)
  BY DEF Settle
<1>2. /\ counter'[q] = counter[q] - Cardinality(Held(q) \cap D)
      /\ purse'[q] = purse[q] + Deposits(q, D)
  BY DEF Settle
<1>3. Cardinality(Held(q) \cap D) \in Nat /\ Deposits(q, D) \in Nat
  BY HeldFinite, Products, LedgerAssumption DEF Deposits
<1>4. counter[q] \in Int /\ purse[q] \in Int /\ purse[q] >= 0
  BY DEF TypeOK, Balanced
<1>5. /\ counter'[q] \in Int /\ purse'[q] \in Int
      /\ counter'[q] <= counter[q] /\ purse'[q] >= 0
      /\ counter'[q] >= counter[q] - Cardinality(Held(q) \cap D)
      /\ purse'[q] <= purse[q] + Deposits(q, D)
  BY <1>2, <1>3, <1>4
<1> QED
  BY <1>1, <1>5, DropBalanced

(* Cancelling everything of the players O. *)
LEMMA ClearBalanced ==
  ASSUME TypeOK, NEW q \in Players, Balanced(q), NEW O \in SUBSET Players, Clear(O)
  PROVE  Balanced(q)'
<1> DEFINE D == {p \in DOMAIN payer : payer[p] \in O}
<1>1. Drop(D)
  BY DEF Clear
<1>2. /\ counter'[q] = (IF q \in O THEN 0 ELSE counter[q])
      /\ purse'[q] = purse[q] + Deposits(q, D)
  BY DEF Clear
<1>3. /\ Cardinality(Held(q)) \in Nat /\ Cardinality(Held(q) \cap D) \in Nat
      /\ Deposits(q, D) \in Nat
  BY HeldFinite, Products, LedgerAssumption DEF Deposits
<1>4. /\ counter[q] \in Int /\ purse[q] \in Int /\ purse[q] >= 0
      /\ Cardinality(Held(q)) <= counter[q]
  BY DEF TypeOK, Balanced
<1>5. q \in O => Held(q) \subseteq D
  BY DEF Held
<1> HIDE DEF D
<1>6. /\ counter'[q] \in Int /\ purse'[q] \in Int
      /\ counter'[q] <= counter[q] /\ purse'[q] >= 0
      /\ purse'[q] <= purse[q] + Deposits(q, D)
  BY <1>2, <1>3, <1>4
<1>7. \/ counter'[q] >= counter[q] - Cardinality(Held(q) \cap D)
      \/ Held(q) \subseteq D /\ counter'[q] = 0
  BY <1>2, <1>3, <1>4, <1>5
<1> QED
  BY <1>1, <1>6, <1>7, DropBalanced

(* The penalty of a player o that queues one command too many. *)
LEMMA PenaltyBalanced ==
  ASSUME TypeOK, NEW q \in Players, Balanced(q),
         NEW o \in Players, NEW fee \in Fees, Penalty(o, fee)
  PROVE  Balanced(q)'
<1>1. Drop(Held(o))
  BY DEF Penalty
<1>2. /\ Cardinality(Held(q)) \in Nat /\ Cardinality(Held(q) \cap Held(o)) \in Nat
      /\ Cost * Cardinality(Held(q)) \in Nat /\ Deposits(q, Held(o)) \in Nat
  BY HeldFinite, Products, LedgerAssumption DEF Deposits
<1>3. fee \in Nat
  BY LedgerAssumption
<1>4. /\ counter[q] \in Int /\ purse[q] \in Int /\ purse[q] >= 0
      /\ Cardinality(Held(q)) <= counter[q]
  BY DEF TypeOK, Balanced
<1>5. /\ counter'[q] \in Int /\ purse'[q] \in Int
      /\ counter'[q] <= counter[q] /\ purse'[q] >= 0
      /\ \/ counter'[q] >= counter[q] - Cardinality(Held(q) \cap Held(o))
         \/ Held(q) \subseteq Held(o) /\ counter'[q] = 0
      /\ purse'[q] <= purse[q] + Deposits(q, Held(o))
  <2>1. CASE q = o
    <3>1. /\ counter'[q] = 0 /\ purse[q] >= fee
          /\ purse'[q] = purse[q] - fee + Cost * Cardinality(Held(q))
      BY <2>1 DEF Penalty, TypeOK
    <3>2. Held(q) \subseteq Held(o) /\ Held(q) \cap Held(o) = Held(q)
      BY <2>1
    <3>3. Deposits(q, Held(o)) = Cost * Cardinality(Held(q))
      BY <3>2 DEF Deposits
    <3> QED
      BY <1>2, <1>3, <1>4, <3>1, <3>2, <3>3
  <2>2. CASE q # o
    <3>1. counter'[q] = counter[q] /\ purse'[q] = purse[q]
      BY <2>2 DEF Penalty, TypeOK
    <3> QED
      BY <1>2, <1>4, <3>1
  <2> QED
    BY <2>1, <2>2
<1> QED
  BY <1>1, <1>5, DropBalanced

(* Dropping a command without settling it. *)
LEMMA ForfeitBalanced ==
  ASSUME TypeOK, NEW q \in Players, Balanced(q), NEW p \in Pids, Forfeit(p)
  PROVE  Balanced(q)'
<1>1. Drop({p}) /\ counter'[q] = counter[q] /\ purse'[q] = purse[q]
  BY DEF Forfeit
<1>2. Cardinality(Held(q) \cap {p}) \in Nat /\ Deposits(q, {p}) \in Nat
  BY HeldFinite, Products, LedgerAssumption DEF Deposits
<1>3. counter[q] \in Int /\ purse[q] \in Int /\ purse[q] >= 0
  BY DEF TypeOK, Balanced
<1>4. /\ counter'[q] >= counter[q] - Cardinality(Held(q) \cap {p})
      /\ purse'[q] <= purse[q] + Deposits(q, {p})
      /\ counter'[q] <= counter[q] /\ purse'[q] >= 0
      /\ counter'[q] \in Int /\ purse'[q] \in Int
  BY <1>1, <1>2, <1>3
<1> QED
  BY <1>1, <1>4, DropBalanced

(* Every step keeps the books balanced. *)
LEMMA NextBalanced ==
  ASSUME TypeOK, NEW q \in Players, Balanced(q), [Next]_vars
  PROVE  Balanced(q)'
<1>1. ASSUME NEW o \in Players, NEW p \in Pids, NEW fee \in Fees, Submit(o, p, fee)
      PROVE  Balanced(q)'
  <2>1. Charge(o, fee)
    BY <1>1 DEF Submit
  <2>2. Cardinality(Held(q)') =
          IF q = o THEN Cardinality(Held(q)) + 1 ELSE Cardinality(Held(q))
    BY <1>1, SubmitHeld
  <2> QED
    BY <2>1, <2>2, ChargeBalanced
<1>2. ASSUME NEW o \in Players, NEW fee \in Fees, Lose(o, fee)
      PROVE  Balanced(q)'
  <2>1. Charge(o, fee) /\ Held(q)' = Held(q)
    BY <1>2 DEF Lose, Held
  <2> QED
    BY <2>1, ChargeBalanced
<1>3. ASSUME NEW o \in Players, NEW fee \in Fees, Penalty(o, fee)
      PROVE  Balanced(q)'
  BY <1>3, PenaltyBalanced
<1>4. ASSUME NEW D \in SUBSET Pids, Settle(D)
      PROVE  Balanced(q)'
  BY <1>4, SettleBalanced
<1>5. ASSUME NEW O \in SUBSET Players, Clear(O)
      PROVE  Balanced(q)'
  BY <1>5, ClearBalanced
<1>6. ASSUME NEW p \in Pids, Forfeit(p)
      PROVE  Balanced(q)'
  BY <1>6, ForfeitBalanced
<1>7. CASE UNCHANGED vars
  BY <1>7 DEF vars, Balanced, Held
<1> QED
  BY <1>1, <1>2, <1>3, <1>4, <1>5, <1>6, <1>7 DEF Next

(* All books are balanced, always. *)
LEMMA AlwaysBalanced == Spec => [](\A q \in Players : Balanced(q))
<1> DEFINE AllBalanced == \A q \in Players : Balanced(q)
<1>1. Init => AllBalanced
  BY InitBalanced
<1>2. TypeOK /\ AllBalanced /\ [Next]_vars => AllBalanced'
  BY NextBalanced
<1>3. Spec => []TypeOK
  BY LedgerTyping
<1> HIDE DEF AllBalanced
<1>4. Spec => []AllBalanced
  BY <1>1, <1>2, <1>3, PTL DEF Spec
<1> QED
  BY <1>4 DEF AllBalanced

(* No player has more commands queued than it is charged with, or is       *)
(* charged with more than its limit.                                       *)
THEOREM LimitsHold == Spec => []QuotaHolds
<1>1. (\A q \in Players : Balanced(q)) => QuotaHolds
  BY DEF Balanced, QuotaHolds
<1> QED
  BY <1>1, AlwaysBalanced, PTL

(* Nobody is in debt, and no deposit is paid back twice. *)
THEOREM NothingPaidTwice == Spec => []DepositsCovered
<1>1. (\A q \in Players : Balanced(q)) => DepositsCovered
  BY DEF Balanced, DepositsCovered
<1> QED
  BY <1>1, AlwaysBalanced, PTL
=============================================================================
