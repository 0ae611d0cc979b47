---------------------------- MODULE CommandLedger ----------------------------
(***************************************************************************)
(* What the command queue owes the players, whatever lists it keeps: a     *)
(* command is paid for when it is queued, counts against its owner's limit *)
(* until it starts or is cancelled, and its deposit never comes back       *)
(* twice.  It may be lost, and stay in the counter: when there is no PID   *)
(* for the command, or when its object is being destroyed.  CommandQueue   *)
(* implements this as long as no object changes hands (LedgerRefinement).  *)
(***************************************************************************)
EXTENDS Integers, FiniteSets

CONSTANTS
  Players,
  Pids,
  Cost,    (* the deposit of a command                                     *)
  Fees,    (* what queueing may cost: the deposit, or a coin more          *)
  Limit,   (* how many commands each player may have queued                *)
  Funds    (* the coins each player starts with                            *)

ASSUME LedgerAssumption ==
  /\ IsFiniteSet(Pids)
  /\ Cost \in Nat
  /\ Fees \subseteq Nat /\ \A fee \in Fees : fee >= Cost
  /\ Limit \in [Players -> Nat]
  /\ Funds \in [Players -> Nat]

VARIABLES
  payer,    (* who paid for each command that is queued and has not started *)
  counter,  (* how many commands each player is charged with               *)
  purse     (* the coins of each player                                    *)

vars == <<payer, counter, purse>>

Held(o) == {p \in DOMAIN payer : payer[p] = o}
Deposits(o, D) == Cost * Cardinality(Held(o) \cap D)

(* Mutant of Drop: the commands stay, with nobody to pay for them. *)
DropPayer(D) == payer' = [p \in DOMAIN payer |-> IF p \in D THEN 0 ELSE payer[p]]

(* The commands D are queued no more. *)
Drop(D) == payer' = [p \in DOMAIN payer \ D |-> payer[p]]

(* Mutant of Charge: one command more than the limit. *)
ChargeOneMore(o, fee) ==
  /\ counter[o] <= Limit[o]
  /\ purse[o] >= fee
  /\ counter' = [counter EXCEPT ![o] = @ + 1]
  /\ purse' = [purse EXCEPT ![o] = @ - fee]

(* A command of o costs fee and is charged to it. *)
Charge(o, fee) ==
  /\ counter[o] < Limit[o]
  /\ purse[o] >= fee
  /\ counter' = [counter EXCEPT ![o] = @ + 1]
  /\ purse' = [purse EXCEPT ![o] = @ - fee]

(* It is queued as p. *)
Submit(o, p, fee) ==
  /\ Charge(o, fee)
  /\ p \notin DOMAIN payer
  /\ payer' = [q \in DOMAIN payer \cup {p} |-> IF q = p THEN o ELSE payer[q]]

(* There is no PID left for it. *)
Lose(o, fee) ==
  /\ Charge(o, fee)
  /\ UNCHANGED payer

(* Mutant of Settle: the refund comes before the command is out of the queue. *)
SettleEarly(D) ==
  /\ UNCHANGED <<payer, counter>>
  /\ purse' = [o \in Players |-> purse[o] + Deposits(o, D)]

(* The commands D start or are cancelled. *)
Settle(D) ==
  /\ Drop(D)
  /\ counter' = [o \in Players |-> counter[o] - Cardinality(Held(o) \cap D)]
  /\ purse' = [o \in Players |-> purse[o] + Deposits(o, D)]

(* Everything of the players O is cancelled, and their slate wiped clean. *)
Clear(O) ==
  LET D == {p \in DOMAIN payer : payer[p] \in O}
  IN  /\ Drop(D)
      /\ counter' = [o \in Players |-> IF o \in O THEN 0 ELSE counter[o]]
      /\ purse' = [o \in Players |-> purse[o] + Deposits(o, D)]

(* A player at the limit queues one more: the same happens to it, and what *)
(* the refused command cost is gone.                                       *)
Penalty(o, fee) ==
  /\ counter[o] >= Limit[o]
  /\ purse[o] >= fee
  /\ Drop(Held(o))
  /\ counter' = [counter EXCEPT ![o] = 0]
  /\ purse' = [purse EXCEPT ![o] = @ - fee + Cost * Cardinality(Held(o))]

(* The command p of an object that is going is dropped. *)
Forfeit(p) ==
  /\ Drop({p})
  /\ UNCHANGED <<counter, purse>>

Init ==
  /\ payer = [p \in {} |-> p]
  /\ counter = [o \in Players |-> 0]
  /\ purse = Funds

Next ==
  \/ \E o \in Players, p \in Pids, fee \in Fees : Submit(o, p, fee)
  \/ \E o \in Players, fee \in Fees : Lose(o, fee) \/ Penalty(o, fee)
  \/ \E D \in SUBSET Pids : Settle(D)
  \/ \E O \in SUBSET Players : Clear(O)
  \/ \E p \in Pids : Forfeit(p)

Spec == Init /\ [][Next]_vars

-----------------------------------------------------------------------------
(* The types of the variables of the ledger. *)
TypeOK ==
  /\ DOMAIN payer \subseteq Pids
  /\ payer \in [DOMAIN payer -> Players]
  /\ counter \in [Players -> Int]
  /\ purse \in [Players -> Int]

(***************************************************************************)
(* No player has more commands queued than it is charged with, or is       *)
(* charged with more than its limit.                                       *)
(***************************************************************************)
QuotaHolds ==
  \A o \in Players : Cardinality(Held(o)) <= counter[o] /\ counter[o] <= Limit[o]

(***************************************************************************)
(* Nobody is in debt, and a player's coins together with the deposits of   *)
(* its commands never exceed what it started with: no deposit is paid back *)
(* twice.                                                                  *)
(***************************************************************************)
DepositsCovered ==
  \A o \in Players :
    purse[o] >= 0 /\ purse[o] + Cost * Cardinality(Held(o)) <= Funds[o]
=============================================================================
