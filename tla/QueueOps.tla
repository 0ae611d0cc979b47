------------------------------ MODULE QueueOps ------------------------------
(***************************************************************************)
(* The list surgery the command queue is built from.  cque_*.c keeps its   *)
(* four queues as singly linked lists; here a list is the sequence of the  *)
(* process IDs of its entries.  The operators are written without          *)
(* recursion (unlike SelectSeq of Sequences) so that OperatorLemmas can    *)
(* establish what they do for sequences of every length.                   *)
(***************************************************************************)
EXTENDS Integers, FiniteSets, Sequences, Functions

(* The positions of q whose element belongs to S. *)
Places(q, S) == {i \in DOMAIN q : q[i] \in S}

(* How many elements of the set of positions K stand at i or before it. *)
Rank(K, i) == Cardinality({k \in K : k <= i})

(***************************************************************************)
(* The elements of q that belong to S, in the order q has them: what a     *)
(* trail/point/next traversal leaves when it unlinks every other entry.    *)
(***************************************************************************)
Only(q, S) ==
  LET K == Places(q, S)
  IN  [j \in 1..Cardinality(K) |-> q[CHOOSE i \in K : Rank(K, i) = j]]

(* q with every entry of S unlinked. *)
Without(q, S) == Only(q, Range(q) \ S)

(***************************************************************************)
(* Where an entry due at time t is threaded into q, ordered by due[_]: in  *)
(* front of the first entry due later than t, so behind its equals.        *)
(***************************************************************************)
ThreadAt(q, due, t) ==
  CHOOSE i \in 1..Len(q) + 1 :
    /\ \A j \in 1..i - 1 : due[q[j]] <= t
    /\ i <= Len(q) => due[q[i]] > t

(* q with p linked in at position i. *)
LinkAt(q, i, p) ==
  [j \in 1..Len(q) + 1 |-> IF j < i THEN q[j] ELSE IF j = i THEN p ELSE q[j - 1]]

(* Mutant of Thread: p goes to the end, whenever it is due. *)
ThreadLast(q, due, p) == Append(q, p)

Thread(q, due, p) == LinkAt(q, ThreadAt(q, due, due[p]), p)

(* The first n entries of q, and what follows them. *)
FirstOf(q, n) == [i \in 1..(IF n < Len(q) THEN n ELSE Len(q)) |-> q[i]]

(* Mutant of RipeCount: what is due exactly now is left for later. *)
RipeBefore(q, due, now) ==
  CHOOSE n \in 0..Len(q) :
    /\ \A j \in 1..n : due[q[j]] < now
    /\ n < Len(q) => due[q[n + 1]] >= now

(* The number of entries at the head of q, ordered by due[_], due by now. *)
RipeCount(q, due, now) ==
  CHOOSE n \in 0..Len(q) :
    /\ \A j \in 1..n : due[q[j]] <= now
    /\ n < Len(q) => due[q[n + 1]] > now

Sorted(q, due) == \A i, j \in DOMAIN q : i < j => due[q[i]] <= due[q[j]]
=============================================================================
