-------------------------- MODULE LedgerRefinement --------------------------
(***************************************************************************)
(* The command queue implements the ledger.  The ledger's command is an    *)
(* entry that is neither halted nor started, and its payer is the owner of *)
(* the object the entry is queued for.                                     *)
(***************************************************************************)
EXTENDS CommandQueue

Payer == [p \in Live |-> owner[table[p].player]]

Ledger == INSTANCE CommandLedger WITH
  Cost <- WaitCost, Limit <- QueueMax,
  payer <- Payer, counter <- queue, purse <- money

(***************************************************************************)
(* Every step of the queue files, settles or cancels commands the way the  *)
(* ledger does, or does not touch the books.                               *)
(***************************************************************************)
ImplementsLedger == Ledger!Spec
=============================================================================
