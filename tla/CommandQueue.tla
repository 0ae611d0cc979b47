---------------------------- MODULE CommandQueue ----------------------------
(***************************************************************************)
(* The command queue of TinyMUSH: cque.c and cque_entry.c (making, filing  *)
(* and freeing an entry), cque_wait.c (@wait, semaphores), cque_notify.c   *)
(* (@notify, @drain), cque_halt.c (@halt), cque_queue.c (@kick,            *)
(* @timewarp), the executor and the once-a-second promotion of             *)
(* cque_exec.c, together with the counters of player_c.c, the deposits of  *)
(* predicates.c and the operations of other files that reach into the      *)
(* queue (@chown, @chownall, @destroy).                                    *)
(*                                                                         *)
(* The server is one thread.  Its main loop alternates between commands    *)
(* typed by players, the dispatch of the alarm, and cque_do_top, which     *)
(* runs queued commands; a running command may itself perform every        *)
(* operation below, @kick (a nested cque_do_top) included.                 *)
(***************************************************************************)
EXTENDS QueueOps

CONSTANTS
  Players,      (* player objects: each owns itself                        *)
  Things,       (* other objects: each owned by a player                   *)
  Nothing,      (* NOTHING (-1)                                            *)
  Sems,         (* semaphores: pairs <<object, attribute>>                 *)
  MaxPid,       (* mushconf.max_qpid                                       *)
  WaitCost,     (* mushconf.waitcost                                       *)
  MachineCost,  (* whether mushconf.machinecost may add a coin             *)
  QueueMax,     (* QueueMax(): the most commands a player may queue        *)
  FreeOwners,   (* players payfor and giveto let off                       *)
  Funds,        (* the coins each player starts with                       *)
  IntMax,       (* INT_MAX, the latest time a wait can name                *)
  NestLim,      (* mushconf.cmd_nest_lim                                   *)
  StartTime     (* the time the server starts at                           *)

(* What the operations are called with; an empty set switches one off.     *)
CONSTANTS
  Issuers,      (* pairs <<player, cause>> that queue commands             *)
  Delays,       (* seconds of @wait <seconds>                              *)
  Timeouts,     (* seconds of @wait <object>/<seconds>; 0 is no timeout    *)
  NotifyCounts, (* counts of @notify                                       *)
  HaltTargets,  (* pairs <<player, object>> halt_que is called with        *)
  Adjustments,  (* records [mode, val] of @wait/pid                        *)
  Chunks,       (* how many commands the main loop runs at a time          *)
  Kicks,        (* arguments of @kick                                      *)
  Warps,        (* arguments of @timewarp                                  *)
  Chowns,       (* pairs <<thing, new owner>> of @chown                    *)
  ChownAlls,    (* pairs <<old owner, new owner>> of @chownall             *)
  Ops           (* which operations without arguments are on               *)

(* Bounds that keep the model finite.                                      *)
CONSTANTS
  SemBound,     (* a semaphore count stays within -SemBound..SemBound      *)
  DebtBound     (* no @chown takes a counter below -DebtBound              *)

VARIABLES
  table,     (* qpid_htab: PID -> entry (BQUE)                             *)
  qfirst,    (* run queue                                                  *)
  qlfirst,   (* low-priority run queue: commands not caused by a player    *)
  qwait,     (* timed waits, ordered by waittime                           *)
  qsem,      (* semaphore waits, oldest first                              *)
  qpid_top,  (* where the search for a free PID starts                     *)
  queue,     (* pcache: how many commands each player is charged with      *)
  money,     (* pcache: the coins of each player                           *)
  count,     (* the number held in the attribute of each semaphore         *)
  owner,     (* Owner()                                                    *)
  halted,    (* objects with the HALT flag                                 *)
  fate,      (* of each object: "live", "going", "garbage"                 *)
  dequeue,   (* CF_DEQUEUE                                                 *)
  interp,    (* CF_INTERP                                                  *)
  clock,     (* time(NULL)                                                 *)
  now,       (* mushstate.now                                              *)
  frames     (* the active calls of cque_do_top, outermost first           *)

lists == <<qfirst, qlfirst, qwait, qsem>>
entries == <<table, qfirst, qlfirst, qwait, qsem, qpid_top>>
accounts == <<queue, money>>
objects == <<owner, halted, fate>>
flags == <<dequeue, interp>>
times == <<clock, now>>
vars == <<table, qfirst, qlfirst, qwait, qsem, qpid_top, queue, money, count,
          owner, halted, fate, dequeue, interp, clock, now, frames>>

Objects == Players \cup Things
Pids == 1..MaxPid
NoEntry == 0

ASSUME ObjectAssumption ==
  /\ Nothing \notin Objects
  /\ Players \cap Things = {}
  /\ FreeOwners \subseteq Players
  /\ Nothing \notin Sems
  /\ \A s \in Sems : s[1] \in Objects

ASSUME FiniteAssumption == IsFiniteSet(Players)

ASSUME ParameterAssumption ==
  /\ MaxPid \in Nat \ {0}
  /\ WaitCost \in Nat
  /\ MachineCost \in BOOLEAN
  /\ QueueMax \in [Players -> Nat]
  /\ Funds \in [Players -> Nat]
  /\ IntMax \in Nat
  /\ NestLim \in Nat
  /\ StartTime \in Nat

ASSUME InputAssumption ==
  /\ Issuers \subseteq Objects \X Objects
  /\ Delays \subseteq Int
  /\ Timeouts \subseteq Int
  /\ NotifyCounts \subseteq Nat \ {0}
  /\ HaltTargets \subseteq (Players \cup {Nothing}) \X (Objects \cup {Nothing})
  /\ \A t \in HaltTargets : t[2] \in Players => t[1] = Nothing
  /\ Adjustments \subseteq [mode : {"until", "shift", "set"}, val : Int]
  /\ Chunks \subseteq Nat
  /\ Kicks \subseteq Int
  /\ Warps \subseteq Int
  /\ Chowns \subseteq Things \X Players
  /\ ChownAlls \subseteq Players \X Players
  /\ SemBound \in Nat
  /\ DebtBound \in Nat

(***************************************************************************)
(* BQUE, without the text and the registers of the command.  sem is        *)
(* Nothing, or the semaphore object and attribute together.                *)
(***************************************************************************)
Entry == [player : Objects \cup {Nothing}, cause : Objects,
          waittime : Int, sem : Sems \cup {Nothing}]

(***************************************************************************)
(* One active call of cque_do_top.  at = "loop": about to look at the head *)
(* of the run queue; at = "run": inside process_cmdline for the entry pid  *)
(* (NoEntry once a nested call has freed it) on behalf of who.  disabled:  *)
(* called by @kick while CF_DEQUEUE was off.                               *)
(***************************************************************************)
Frame == [at : {"loop", "run"}, pid : Pids \cup {NoEntry},
          who : Objects \cup {Nothing}, left : Int, disabled : BOOLEAN]

-----------------------------------------------------------------------------
(* Reading the queues. *)

Linked == Range(qfirst) \cup Range(qlfirst) \cup Range(qwait) \cup Range(qsem)
Runnable == Range(qfirst) \cup Range(qlfirst)

(* The times the entries of the table tb are due. *)
DueIn(tb) == [p \in DOMAIN tb |-> tb[p].waittime]

(* The entries that are neither halted nor started. *)
Live == {p \in DOMAIN table : table[p].player # Nothing}
LiveOf(o) == {p \in Live : owner[table[p].player] = o}

(***************************************************************************)
(* The four lists share no entry, repeat none, and link only entries that  *)
(* exist: what every traversal of a list in cque_*.c relies on.  Once it   *)
(* is broken, a list leads into freed memory or into another list, and the *)
(* model stops.                                                            *)
(***************************************************************************)
Disjoint(q, r) == Range(q) \cap Range(r) = {}

Intact ==
  /\ IsInjective(qfirst) /\ IsInjective(qlfirst)
  /\ IsInjective(qwait) /\ IsInjective(qsem)
  /\ Disjoint(qfirst, qlfirst) /\ Disjoint(qfirst, qwait) /\ Disjoint(qfirst, qsem)
  /\ Disjoint(qlfirst, qwait) /\ Disjoint(qlfirst, qsem) /\ Disjoint(qwait, qsem)
  /\ Linked \subseteq DOMAIN table

-----------------------------------------------------------------------------
(* Money and counters. *)

(* payfor(): whether the owner of x can pay c, and the purses once it did. *)
CanPay(x, c) == owner[x] \in FreeOwners \/ money[owner[x]] >= c
Debit(m, o, c) == IF o \in FreeOwners THEN m ELSE [m EXCEPT ![o] = @ - c]

(* giveto(): the purses once the deposits of n commands went to o. *)
Refund(m, o, n) == Debit(m, o, -(n * WaitCost))

(* The deposit, with the coin machinecost adds to some commands. *)
Fees == IF MachineCost /\ WaitCost # 0 THEN {WaitCost, WaitCost + 1} ELSE {WaitCost}

(***************************************************************************)
(* The entries D are taken off the books: each owner gets the deposits of  *)
(* its entries back and its counter is lowered by as many.                 *)
(***************************************************************************)
ShareOf(D, o) == Cardinality({p \in D : owner[table[p].player] = o})

SettleEach(D) ==
  /\ money' = [o \in Players |-> Refund(money, o, ShareOf(D, o))[o]]
  /\ queue' = [o \in Players |-> queue[o] - ShareOf(D, o)]

-----------------------------------------------------------------------------
(* Making an entry and filing it. *)

(***************************************************************************)
(* cque_qpid_next: the first free PID from qpid_top on, wrapping around    *)
(***************************************************************************)
PidAfterLast(p) == p + 1   \* Mutant of PidAfter: no wrapping around.
PidAfter(p) == IF p < MaxPid THEN p + 1 ELSE 1
Probe(i) == IF qpid_top + i <= MaxPid THEN qpid_top + i ELSE qpid_top + i - MaxPid
FreePids == Pids \ DOMAIN table
NextPid ==
  CHOOSE p \in FreePids :
    \E i \in 0..MaxPid - 1 :
      /\ p = Probe(i)
      /\ \A j \in 0..i - 1 : Probe(j) \notin FreePids

(* cque_give_que: which list a runnable entry caused by c goes to. *)
ByPlayer(c) == c \in Players

(* The time a wait of d seconds ends, clamped; 0 stands for no time. *)
WaitTime(d) ==
  IF d = 0 THEN 0 ELSE IF d > IntMax - clock THEN IntMax ELSE clock + d

(***************************************************************************)
(* The outcomes of cque_setup_que for a command of x that costs fee, with  *)
(* the semaphore counts at cnt: refused; over the limit, which halts       *)
(* everything the owner has queued; no PID left; or an entry, which        *)
(* cque_wait_que files by its delay d and its semaphore s.                 *)
(***************************************************************************)
Refused(x, fee, cnt) ==
  /\ x \in halted \/ ~CanPay(x, fee)
  /\ count' = cnt
  /\ UNCHANGED <<entries, accounts, halted>>

MayTry(x, fee) == x \notin halted /\ CanPay(x, fee)
OverLimit(x) == queue[owner[x]] + 1 > QueueMax[owner[x]]
Charged(x) == [queue EXCEPT ![owner[x]] = @ + 1]

(* Mutants of HaltEntries: parked entries are unlinked but not freed, and
   freed but not unlinked. *)
HaltUnfreed(H, cnt) ==
  /\ table' = [p \in DOMAIN table |->
                 IF p \in H THEN [table[p] EXCEPT !.player = Nothing] ELSE table[p]]
  /\ qwait' = Without(qwait, H)
  /\ qsem' = Without(qsem, H)
  /\ count' = cnt
  /\ UNCHANGED <<qfirst, qlfirst, qpid_top>>

HaltLinked(H, cnt) ==
  /\ table' = [p \in DOMAIN table \ (H \cap (Range(qwait) \cup Range(qsem))) |-> table[p]]
  /\ count' = cnt
  /\ UNCHANGED <<lists, qpid_top>>

(***************************************************************************)
(* The list surgery of halt_que on the entries H: those on the run queues  *)
(* are marked, those on the wait and semaphore queues unlinked and freed.  *)
(***************************************************************************)
HaltEntries(H, cnt) ==
  /\ table' = [p \in DOMAIN table \ (H \cap (Range(qwait) \cup Range(qsem))) |->
                 IF p \in H THEN [table[p] EXCEPT !.player = Nothing] ELSE table[p]]
  /\ qwait' = Without(qwait, H)
  /\ qsem' = Without(qsem, H)
  /\ count' = [s \in Sems |->
                 cnt[s] - Cardinality({p \in H \cap Range(qsem) : table[p].sem = s})]
  /\ UNCHANGED <<qfirst, qlfirst, qpid_top>>

Runaway(x, fee, cnt) ==
  LET o == owner[x]
      H == LiveOf(o)
  IN  /\ MayTry(x, fee) /\ OverLimit(x)
      /\ HaltEntries(H, cnt)
      /\ money' = Refund(Debit(money, o, fee), o, Cardinality(H))
      /\ queue' = [queue EXCEPT ![o] = 0]
      /\ halted' = halted \cup {x}

TableFull(x, fee, cnt) ==
  /\ MayTry(x, fee) /\ ~OverLimit(x)
  /\ FreePids = {}
  /\ money' = Debit(money, owner[x], fee)
  /\ queue' = Charged(x)
  /\ count' = cnt
  /\ UNCHANGED <<entries, halted>>

(* The list an entry p of the table tb goes to; timed: by its waittime. *)
File(tb, p, timed) ==
  LET e == tb[p]
  IN  IF e.sem # Nothing
        THEN /\ qsem' = Append(qsem, p)
             /\ UNCHANGED <<qfirst, qlfirst, qwait>>
        ELSE IF timed
        THEN /\ qwait' = Thread(qwait, DueIn(tb), p)
             /\ UNCHANGED <<qfirst, qlfirst, qsem>>
        ELSE /\ IF ByPlayer(e.cause)
                  THEN qfirst' = Append(qfirst, p) /\ UNCHANGED qlfirst
                  ELSE qlfirst' = Append(qlfirst, p) /\ UNCHANGED qfirst
             /\ UNCHANGED <<qwait, qsem>>

(* The table with the entry e added, or put back, under PID p. *)
WithEntry(p, e) == [q \in DOMAIN table \cup {p} |-> IF q = p THEN e ELSE table[q]]

Enter(x, c, d, s, fee, cnt) ==
  LET p == NextPid
      timed == d > 0
      e == [player |-> x, cause |-> c, sem |-> s,
            waittime |-> IF s = Nothing /\ ~timed THEN 0 ELSE WaitTime(d)]
  IN  /\ MayTry(x, fee) /\ ~OverLimit(x)
      /\ FreePids # {}
      /\ money' = Debit(money, owner[x], fee)
      /\ queue' = Charged(x)
      /\ count' = cnt
      /\ table' = WithEntry(p, e)
      /\ qpid_top' = PidAfter(p)
      /\ File(WithEntry(p, e), p, timed)
      /\ UNCHANGED halted

(***************************************************************************)
(* cque_wait_que: queue a command of x caused by c, to run after d seconds *)
(* or when the semaphore s lets it, with the semaphore counts at cnt.      *)
(***************************************************************************)
WaitQue(x, c, d, s, cnt) ==
  /\ IF interp
       THEN \E fee \in Fees :
              \/ Refused(x, fee, cnt)
              \/ Runaway(x, fee, cnt)
              \/ TableFull(x, fee, cnt)
              \/ Enter(x, c, d, s, fee, cnt)
       ELSE /\ count' = cnt
            /\ UNCHANGED <<entries, accounts, halted>>
  /\ UNCHANGED <<owner, fate, flags, times, frames>>

-----------------------------------------------------------------------------
(* Who may act: the main loop and the commands players type, when nothing  *)
(* is running; the running command, as long as it is the head of the run   *)
(* queue (process_cmdline stops otherwise) and process_command admits the  *)
(* object it runs on behalf of.                                            *)

Idle == frames = <<>>
Top == frames[Len(frames)]
Outer == [i \in 1..Len(frames) - 1 |-> frames[i]]

MayAct ==
  \/ Idle
  \/ /\ ~Idle /\ Top.at = "run" /\ Top.pid # NoEntry
     /\ qfirst # <<>> /\ Head(qfirst) = Top.pid
     /\ Top.who \notin halted /\ fate[Top.who] = "live"

Exists(x) == fate[x] # "garbage"

(* cque_do_wait with a number of seconds, and every caller of              *)
(* cque_wait_que that queues a command at once (d = 0).                    *)
Wait(x, c, d) ==
  /\ MayAct /\ Exists(x)
  /\ WaitQue(x, c, d, Nothing, count)

(* Mutant of WaitSem: a count of zero after the wait lets it wait. *)
WaitSemAtZero(x, c, s, d) ==
  /\ MayAct /\ Exists(x) /\ Exists(s[1])
  /\ count[s] < SemBound
  /\ LET cnt == [count EXCEPT ![s] = @ + 1]
     IN  IF cnt[s] < 0 THEN WaitQue(x, c, 0, Nothing, cnt)
                       ELSE WaitQue(x, c, d, s, cnt)

(***************************************************************************)
(* cque_do_wait with a semaphore: the count goes up before the command is  *)
(* queued; a count that is still not positive lets it run at once.         *)
(***************************************************************************)
WaitSem(x, c, s, d) ==
  /\ MayAct /\ Exists(x) /\ Exists(s[1])
  /\ count[s] < SemBound
  /\ LET cnt == [count EXCEPT ![s] = @ + 1]
     IN  IF cnt[s] <= 0 THEN WaitQue(x, c, 0, Nothing, cnt)
                        ELSE WaitQue(x, c, d, s, cnt)

(***************************************************************************)
(* cque_do_wait_pid: a new time for the entry p, which is put back on the  *)
(* wait queue whatever list it is on: its one next pointer then makes the  *)
(* list it was on continue in the wait queue.                              *)
(***************************************************************************)
AdjustedTime(old, a) ==
  IF a.mode = "until"
    THEN IF a.val < 0 THEN clock ELSE a.val
    ELSE LET base == IF a.mode = "shift" THEN old ELSE clock
             t == IF a.val > 0 /\ base > IntMax - a.val THEN IntMax ELSE base + a.val
         IN  IF t >= 0 THEN t ELSE IF a.val < 0 THEN clock ELSE IntMax

(* q as far as p, and then what follows p in w. *)
Splice(q, p, w) ==
  IF p \notin Range(q) THEN q
  ELSE LET i == CHOOSE k \in DOMAIN q : q[k] = p
           j == CHOOSE k \in DOMAIN w : w[k] = p
       IN  FirstOf(q, i) \o [k \in 1..Len(w) - j |-> w[j + k]]

WaitPid(p, a) ==
  /\ MayAct
  /\ p \in Live
  /\ table[p].sem # Nothing => table[p].waittime # 0
  /\ LET tb == [table EXCEPT ![p].waittime = AdjustedTime(table[p].waittime, a)]
         w == Thread(Without(qwait, {p}), DueIn(tb), p)
     IN  /\ table' = tb
         /\ IF table[p].sem = Nothing
              THEN /\ qwait' = w
                   /\ qfirst' = Splice(qfirst, p, w)
                   /\ qlfirst' = Splice(qlfirst, p, w)
              ELSE UNCHANGED <<qwait, qfirst, qlfirst>>
  /\ UNCHANGED <<qsem, qpid_top, accounts, count, objects, flags, times, frames>>

-----------------------------------------------------------------------------
(* Semaphores. *)

WaitersOf(s) == {p \in Range(qsem) : table[p].sem = s}

(* The table tb with the entries D freed. *)
Freed(tb, D) == [p \in DOMAIN tb \ D |-> tb[p]]

(* Mutant of Release: cque_give_que does not clear the time. *)
ReleaseUntimely(q) ==
  LET caused == {p \in Range(q) : ByPlayer(table[p].cause)}
  IN  /\ qfirst' = qfirst \o Only(q, caused)
      /\ qlfirst' = qlfirst \o Without(q, caused)
      /\ qsem' = Without(qsem, Range(q))
      /\ UNCHANGED <<table, qwait, qpid_top>>

(***************************************************************************)
(* cque_nfy_que with NFY_NFY (oldest n) or NFY_NFYALL: waiters are made    *)
(* runnable when the count is positive.  Their sem field is not cleared.   *)
(***************************************************************************)
Release(q) ==
  LET caused == {p \in Range(q) : ByPlayer(table[p].cause)}
  IN  /\ table' = [p \in DOMAIN table |->
                     IF p \in Range(q) THEN [table[p] EXCEPT !.waittime = 0] ELSE table[p]]
      /\ qfirst' = qfirst \o Only(q, caused)
      /\ qlfirst' = qlfirst \o Without(q, caused)
      /\ qsem' = Without(qsem, Range(q))
      /\ UNCHANGED <<qwait, qpid_top>>

Awaiting(s) == IF count[s] > 0 THEN Only(qsem, WaitersOf(s)) ELSE <<>>

(* Mutant of Notify: the waiter released is the newest. *)
NotifyNewest(s, n) ==
  LET q == Awaiting(s)
  IN  /\ MayAct /\ Exists(s[1])
      /\ count[s] - n >= -SemBound
      /\ Release(IF q = <<>> THEN q ELSE <<q[Len(q)]>>)
      /\ count' = [count EXCEPT ![s] = @ - n]
      /\ UNCHANGED <<accounts, objects, flags, times, frames>>

Notify(s, n) ==
  /\ MayAct /\ Exists(s[1])
  /\ count[s] - n >= -SemBound
  /\ Release(FirstOf(Awaiting(s), n))
  /\ count' = [count EXCEPT ![s] = @ - n]
  /\ UNCHANGED <<accounts, objects, flags, times, frames>>

NotifyAll(s) ==
  /\ MayAct /\ Exists(s[1])
  /\ Release(Awaiting(s))
  /\ count' = [count EXCEPT ![s] = 0]
  /\ UNCHANGED <<accounts, objects, flags, times, frames>>

(* cque_nfy_que with NFY_DRAIN: the waiters are discarded and refunded.    *)
Drain(s) ==
  LET D == Range(Awaiting(s))
  IN  /\ MayAct /\ Exists(s[1])
      /\ table' = Freed(table, D)
      /\ qsem' = Without(qsem, D)
      /\ SettleEach(D)
      /\ count' = [count EXCEPT ![s] = 0]
      /\ UNCHANGED <<qfirst, qlfirst, qwait, qpid_top, objects, flags, times, frames>>

-----------------------------------------------------------------------------
(* @halt. *)

(* cque_que_want: the entries of player pl and object ob. *)
Wanted(pl, ob) ==
  {p \in Live : /\ pl = Nothing \/ owner[table[p].player] = pl
                /\ ob = Nothing \/ table[p].player = ob}

(* Mutant of SettleWith: one deposit, however many commands were halted. *)
SettleOnce(o, H, clear) ==
  /\ money' = Refund(money, o, IF H = {} THEN 0 ELSE 1)
  /\ queue' = [queue EXCEPT ![o] = IF clear THEN 0 ELSE @ - Cardinality(H)]

(***************************************************************************)
(* The books of halt_que for the entries H of one player o: all deposits   *)
(* go to o; its counter is lowered, or cleared when no object was named.   *)
(***************************************************************************)
SettleWith(o, H, clear) ==
  /\ money' = Refund(money, o, Cardinality(H))
  /\ queue' = [queue EXCEPT ![o] = IF clear THEN 0 ELSE @ - Cardinality(H)]

(* halt_que(NOTHING, NOTHING): every owner is refunded, every counter with
   an entry cleared. *)
SettleAll(H) ==
  /\ money' = [o \in Players |-> Refund(money, o, ShareOf(H, o))[o]]
  /\ queue' = [o \in Players |-> IF ShareOf(H, o) # 0 THEN 0 ELSE queue[o]]

Halt(pl, ob) ==
  LET H == Wanted(pl, ob)
  IN  /\ MayAct
      /\ ob # Nothing => Exists(ob)
      /\ HaltEntries(H, count)
      /\ IF pl = Nothing /\ ob = Nothing
           THEN SettleAll(H)
           ELSE SettleWith(IF pl = Nothing THEN owner[ob] ELSE pl, H, ob = Nothing)
      /\ UNCHANGED <<objects, flags, times, frames>>

(***************************************************************************)
(* cque_do_halt_pid frees the entry p after looking for it on the wait     *)
(* queue, or on the semaphore queue when its sem field is set; an entry    *)
(* of a run queue is freed where it is linked.                             *)
(***************************************************************************)
HaltPid(p) ==
  /\ MayAct
  /\ p \in Live
  /\ IF table[p].sem = Nothing
       THEN /\ qwait' = Without(qwait, {p})
            /\ UNCHANGED <<qsem, count>>
       ELSE /\ qsem' = Without(qsem, {p})
            /\ count' = [count EXCEPT ![table[p].sem] = @ - 1]
            /\ UNCHANGED qwait
  /\ table' = Freed(table, {p})
  /\ SettleEach({p})
  /\ UNCHANGED <<qfirst, qlfirst, qpid_top, objects, flags, times, frames>>

-----------------------------------------------------------------------------
(* The passing of time. *)

(* Mutants of DoSecond: the low-priority queue goes first; it is never
   promoted; semaphore waits do not time out. *)
DoSecondLowFirst(tb, t) ==
  /\ qfirst' = qlfirst \o qfirst
  /\ qlfirst' = <<>>
  /\ table' = tb
  /\ UNCHANGED <<qwait, qsem, qpid_top, count>>

DoSecondHighOnly(tb, t) ==
  LET ripe == FirstOf(qwait, RipeCount(qwait, DueIn(tb), t))
  IN  /\ qfirst' = qfirst \o ripe
      /\ qwait' = Without(qwait, Range(ripe))
      /\ table' = tb
      /\ UNCHANGED <<qlfirst, qsem, qpid_top, count>>

DoSecondNoTimeouts(tb, t) ==
  LET ripe == FirstOf(qwait, RipeCount(qwait, DueIn(tb), t))
  IN  /\ qfirst' = qfirst \o qlfirst \o ripe
      /\ qlfirst' = <<>>
      /\ qwait' = Without(qwait, Range(ripe))
      /\ table' = tb
      /\ UNCHANGED <<qsem, qpid_top, count>>

(***************************************************************************)
(* cque_do_second at time t on the table tb: the low-priority queue moves  *)
(* to the end of the run queue, then the timed waits that are over and the *)
(* semaphore waits that timed out are made runnable.                       *)
(***************************************************************************)
DoSecond(tb, t) ==
  LET ripe == FirstOf(qwait, RipeCount(qwait, DueIn(tb), t))
      late == {p \in Range(qsem) : tb[p].waittime # 0 /\ tb[p].waittime <= t}
      given == ripe \o Only(qsem, late)
      caused == {p \in Range(given) : ByPlayer(tb[p].cause)}
  IN  /\ qfirst' = qfirst \o qlfirst \o Only(given, caused)
      /\ qlfirst' = Without(given, caused)
      /\ qwait' = Without(qwait, Range(ripe))
      /\ qsem' = Without(qsem, late)
      /\ table' = [p \in DOMAIN tb |->
                     IF p \in late
                       THEN [tb[p] EXCEPT !.waittime = 0, !.sem = Nothing]
                       ELSE IF p \in Range(ripe) THEN [tb[p] EXCEPT !.waittime = 0]
                       ELSE tb[p]]
      /\ count' = [s \in Sems |-> count[s] - Cardinality({p \in late : tb[p].sem = s})]
      /\ UNCHANGED qpid_top

Tick ==
  /\ clock < IntMax
  /\ clock' = clock + 1
  /\ UNCHANGED <<entries, accounts, count, objects, flags, now, frames>>

(* dispatch(), when the alarm has gone off; what else it does once in a    *)
(* while (@dbck, @dump, cron) is an operation of its own.                  *)
Dispatch ==
  /\ Idle
  /\ now' = clock
  /\ IF dequeue THEN DoSecond(table, clock) ELSE UNCHANGED <<entries, count>>
  /\ UNCHANGED <<accounts, objects, flags, clock, frames>>

(***************************************************************************)
(* @timewarp: every timed wait is due at -i, every timed semaphore wait    *)
(* i seconds earlier; then cque_do_second, even if CF_DEQUEUE is off.      *)
(***************************************************************************)
Warped(i) ==
  [p \in DOMAIN table |->
     IF p \in Range(qwait) THEN [table[p] EXCEPT !.waittime = -i]
     ELSE IF p \in Range(qsem) /\ table[p].waittime > 0
       THEN [table[p] EXCEPT !.waittime = IF @ - i > 0 THEN @ - i ELSE -1]
     ELSE table[p]]

Warp(i) ==
  /\ MayAct
  /\ DoSecond(Warped(i), now)
  /\ UNCHANGED <<accounts, objects, flags, times, frames>>

-----------------------------------------------------------------------------
(* cque_do_top. *)

Looping(n, off) ==
  [at |-> "loop", pid |-> NoEntry, who |-> Nothing, left |-> n, disabled |-> off]

(* The innermost call goes on to its next command. *)
NextRound == Looping(Top.left - 1, Top.disabled)

Enters(n, off) == frames' = Append(frames, Looping(n, off))

(* The main loop runs a chunk of commands. *)
BeginTop(n) ==
  /\ Idle /\ dequeue
  /\ Enters(n, FALSE)
  /\ UNCHANGED <<entries, accounts, count, objects, flags, times>>

(* @kick runs n commands at once, even if CF_DEQUEUE is off. *)
Kick(n) ==
  /\ MayAct
  /\ Enters(n, ~dequeue)
  /\ dequeue' = TRUE
  /\ UNCHANGED <<entries, accounts, count, objects, interp, times>>

AtLoop == ~Idle /\ Top.at = "loop" /\ Top.left > 0 /\ qfirst # <<>>
HeadEntry == table[Head(qfirst)]

(* Mutant of Startable: a halted object's command is dropped like a halted
   command. *)
StartableUnlessHalted ==
  /\ HeadEntry.player # Nothing /\ fate[HeadEntry.player] = "live"
  /\ HeadEntry.player \notin halted

(* The head is on somebody's behalf: its deposit is paid back. *)
Startable == HeadEntry.player # Nothing /\ fate[HeadEntry.player] = "live"

PaidBack ==
  /\ money' = Refund(money, owner[HeadEntry.player], 1)
  /\ queue' = [queue EXCEPT ![owner[HeadEntry.player]] = @ - 1]

(* process_cmdline is entered: the object may run commands, and the nesting
   limit is not reached. *)
Runs == HeadEntry.player \notin halted /\ Len(frames) <= NestLim

(* The head of the run queue is unlinked and freed; the calls that were
   running it have lost it; the innermost call goes on to the next one. *)
PopHead ==
  LET p == Head(qfirst)
      last == Len(frames)
  IN  /\ qfirst' = Tail(qfirst)
      /\ table' = Freed(table, {p})
      /\ frames' = [i \in 1..last |->
                      IF i = last THEN NextRound
                        ELSE IF frames[i].pid = p THEN [frames[i] EXCEPT !.pid = NoEntry]
                        ELSE frames[i]]
      /\ UNCHANGED <<qlfirst, qwait, qsem, qpid_top>>

(* Mutant of StartEntry: the entry is not marked while it runs. *)
StartUnmarked ==
  /\ AtLoop /\ Startable /\ Runs
  /\ PaidBack
  /\ frames' = Append(Outer, [at |-> "run", pid |-> Head(qfirst), who |-> HeadEntry.player,
                              left |-> Top.left, disabled |-> Top.disabled])
  /\ UNCHANGED <<entries, count, objects, flags, times>>

(* The head starts: from here on it counts as neither queued nor paid for. *)
StartEntry ==
  /\ AtLoop /\ Startable /\ Runs
  /\ PaidBack
  /\ table' = [table EXCEPT ![Head(qfirst)].player = Nothing]
  /\ frames' = Append(Outer, [at |-> "run", pid |-> Head(qfirst), who |-> HeadEntry.player,
                              left |-> Top.left, disabled |-> Top.disabled])
  /\ UNCHANGED <<qfirst, qlfirst, qwait, qsem, qpid_top, count, objects, flags, times>>

(* The head is paid back but not run: halted object, or nesting limit. *)
PassOver ==
  /\ AtLoop /\ Startable /\ ~Runs
  /\ PaidBack
  /\ PopHead
  /\ UNCHANGED <<count, objects, flags, times>>

(* The head was halted, or its object is going or gone: it is dropped. *)
Discard ==
  /\ AtLoop /\ ~Startable
  /\ PopHead
  /\ UNCHANGED <<accounts, count, objects, flags, times>>

(* process_cmdline returns; whatever is the head of the run queue now is
   taken for the entry that was run. *)
EndEntry ==
  /\ ~Idle /\ Top.at = "run"
  /\ IF qfirst # <<>>
       THEN PopHead
       ELSE /\ frames' = Append(Outer, NextRound)
            /\ UNCHANGED entries
  /\ UNCHANGED <<accounts, count, objects, flags, times>>

EndTop ==
  /\ ~Idle /\ Top.at = "loop"
  /\ Top.left <= 0 \/ qfirst = <<>>
  /\ frames' = Outer
  /\ dequeue' = (dequeue /\ ~Top.disabled)
  /\ UNCHANGED <<entries, accounts, count, objects, interp, times>>

-----------------------------------------------------------------------------
(* Operations of other files. *)

(* @set <x>=HALT and @set <x>=!HALT. *)
SetHalt(x) ==
  /\ MayAct /\ Exists(x)
  /\ halted' = (IF x \in halted THEN halted \ {x} ELSE halted \cup {x})
  /\ UNCHANGED <<entries, accounts, count, owner, fate, flags, times, frames>>

(***************************************************************************)
(* do_chown: the thing changes hands, is set HALT, and only then is        *)
(* halt_que called: the new owner gets the books of what the old one paid. *)
(***************************************************************************)
Chown(t, o) ==
  LET H == Wanted(Nothing, t)
  IN  /\ MayAct /\ Exists(t)
      /\ queue[o] - Cardinality(H) >= -DebtBound
      /\ owner' = [owner EXCEPT ![t] = o]
      /\ halted' = halted \cup {t}
      /\ HaltEntries(H, count)
      /\ SettleWith(o, H, FALSE)
      /\ UNCHANGED <<fate, flags, times, frames>>

(* chown_all: everything from owns, but what is going, becomes the property
   of to; all of it is set HALT and the queue is left alone. *)
ChownAll(from, to) ==
  LET mine == {t \in Things : owner[t] = from /\ Exists(t)}
  IN  /\ MayAct
      /\ owner' = [t \in Objects |->
                     IF t \in mine /\ fate[t] = "live" THEN to ELSE owner[t]]
      /\ halted' = halted \cup mine
      /\ UNCHANGED <<entries, accounts, count, fate, flags, times, frames>>

(* @destroy: the thing is set GOING. *)
MarkGoing(t) ==
  /\ MayAct
  /\ fate[t] = "live"
  /\ fate' = [fate EXCEPT ![t] = "going"]
  /\ UNCHANGED <<entries, accounts, count, owner, halted, flags, times, frames>>

(* Mutant of Purge: the semaphores of the thing are not drained. *)
PurgeUndrained(t) ==
  LET H == Wanted(Nothing, t)
  IN  /\ MayAct
      /\ Exists(t)
      /\ HaltEntries(H, count)
      /\ SettleWith(owner[t], H, FALSE)
      /\ fate' = [fate EXCEPT ![t] = "garbage"]
      /\ halted' = halted \ {t}
      /\ UNCHANGED <<owner, flags, times, frames>>

(* @set <thing>=!GOING, before it is purged. *)
Spare(t) ==
  /\ MayAct
  /\ fate[t] = "going"
  /\ fate' = [fate EXCEPT ![t] = "live"]
  /\ UNCHANGED <<entries, accounts, count, owner, halted, flags, times, frames>>

(***************************************************************************)
(* destroy_obj, called by @destroy/instant or, for a thing that is going,  *)
(* by the database check: its commands are halted, what waits on any of    *)
(* its semaphores is drained, and its attributes and flags are gone.       *)
(***************************************************************************)
Purge(t) ==
  LET H == Wanted(Nothing, t)
      D == {p \in Range(qsem) \ H : table[p].sem[1] = t}
      gone == D \cup (H \cap (Range(qwait) \cup Range(qsem)))
  IN  /\ MayAct
      /\ Exists(t)
      /\ table' = [p \in DOMAIN table \ gone |->
                     IF p \in H THEN [table[p] EXCEPT !.player = Nothing] ELSE table[p]]
      /\ qwait' = Without(qwait, H)
      /\ qsem' = Without(qsem, H \cup D)
      /\ SettleEach(H \cup D)
      /\ count' = [s \in Sems |->
                     IF s[1] = t THEN 0
                     ELSE count[s] - Cardinality({p \in H \cap Range(qsem) : table[p].sem = s})]
      /\ fate' = [fate EXCEPT ![t] = "garbage"]
      /\ halted' = halted \ {t}
      /\ UNCHANGED <<qfirst, qlfirst, qpid_top, owner, flags, times, frames>>

(* do_global: @enable and @disable of a control flag. *)
SwitchDequeue ==
  /\ MayAct
  /\ dequeue' = ~dequeue
  /\ UNCHANGED <<entries, accounts, count, objects, interp, times, frames>>

SwitchInterp ==
  /\ MayAct
  /\ interp' = ~interp
  /\ UNCHANGED <<entries, accounts, count, objects, dequeue, times, frames>>

-----------------------------------------------------------------------------
Init ==
  /\ table = <<>>
  /\ qfirst = <<>> /\ qlfirst = <<>> /\ qwait = <<>> /\ qsem = <<>>
  /\ qpid_top = 1
  /\ queue = [o \in Players |-> 0]
  /\ money = Funds
  /\ count = [s \in Sems |-> 0]
  /\ owner \in {f \in [Objects -> Players] : \A o \in Players : f[o] = o}
  /\ halted = {}
  /\ fate = [x \in Objects |-> "live"]
  /\ dequeue = TRUE /\ interp = TRUE
  /\ clock = StartTime /\ now = StartTime
  /\ frames = <<>>

(* Operations that make, move or remove entries. *)
QueueOperation ==
  \/ \E i \in Issuers, d \in Delays : Wait(i[1], i[2], d)
  \/ \E i \in Issuers, s \in Sems, d \in Timeouts : WaitSem(i[1], i[2], s, d)
  \/ \E s \in Sems, n \in NotifyCounts : Notify(s, n)
  \/ "notifyall" \in Ops /\ \E s \in Sems : NotifyAll(s)
  \/ "drain" \in Ops /\ \E s \in Sems : Drain(s)
  \/ \E t \in HaltTargets : Halt(t[1], t[2])
  \/ "haltpid" \in Ops /\ \E p \in Pids : HaltPid(p)
  \/ \E p \in Pids, a \in Adjustments : WaitPid(p, a)
  \/ \E i \in Warps : Warp(i)

(* The executor. *)
Execution ==
  \/ \E n \in Chunks : BeginTop(n)
  \/ \E n \in Kicks : Kick(n)
  \/ StartEntry \/ PassOver \/ Discard \/ EndEntry \/ EndTop

(* Everything else that concerns the queue. *)
Surroundings ==
  \/ Tick \/ Dispatch
  \/ "sethalt" \in Ops /\ \E i \in Issuers : SetHalt(i[1])
  \/ \E c \in Chowns : Chown(c[1], c[2])
  \/ \E c \in ChownAlls : ChownAll(c[1], c[2])
  \/ "destroy" \in Ops /\ \E t \in Things : MarkGoing(t) \/ Spare(t) \/ Purge(t)
  \/ "dequeue" \in Ops /\ SwitchDequeue
  \/ "interp" \in Ops /\ SwitchInterp

Next == Intact /\ (QueueOperation \/ Execution \/ Surroundings)

Spec == Init /\ [][Next]_vars

(***************************************************************************)
(* The main loop dispatches the alarm and calls cque_do_top in every round *)
(* for ever, and a command is finite: the round comes to both however      *)
(* often a player's command comes in between, and each call ends.          *)
(***************************************************************************)
Fairness ==
  /\ WF_vars(Intact /\ Tick)
  /\ SF_vars(Intact /\ Dispatch)
  /\ SF_vars(Intact /\ \E n \in Chunks : BeginTop(n))
  /\ WF_vars(Intact /\ (StartEntry \/ PassOver \/ Discard))
  /\ WF_vars(Intact /\ EndEntry)
  /\ WF_vars(Intact /\ EndTop)

FairSpec == Spec /\ Fairness

-----------------------------------------------------------------------------
EntriesOK ==
  /\ DOMAIN table \subseteq Pids
  /\ table \in [DOMAIN table -> Entry]
  /\ qfirst \in Seq(Pids) /\ qlfirst \in Seq(Pids)
  /\ qwait \in Seq(Pids) /\ qsem \in Seq(Pids)
  /\ qpid_top \in Pids

BooksOK ==
  /\ queue \in [Players -> Int]
  /\ money \in [Players -> Int]
  /\ count \in [Sems -> Int]

WorldOK ==
  /\ owner \in [Objects -> Players]
  /\ halted \subseteq Objects
  /\ fate \in [Objects -> {"live", "going", "garbage"}]
  /\ dequeue \in BOOLEAN /\ interp \in BOOLEAN
  /\ clock \in Nat /\ now \in Nat
  /\ frames \in Seq(Frame)

(* The types of the variables: every list holds PIDs, every PID in use has *)
(* a well-formed entry, the books are kept for every player and semaphore. *)
TypeOK == EntriesOK /\ BooksOK /\ WorldOK

(***************************************************************************)
(* No entry is lost: while the lists are intact, everything the PID table  *)
(* holds is on one of them, so it is eventually run, woken or halted, and  *)
(* its PID, its deposit and its place in the counter come back.            *)
(***************************************************************************)
Registered == Intact => DOMAIN table \subseteq Linked

(***************************************************************************)
(* The fields of an entry agree with the list it is on.  @halt/pid and     *)
(* @wait/pid have only the fields to tell the list from; the executor and  *)
(* @drain take it that what is parked has not been halted; what may be run *)
(* has no time left over that @wait/pid would take for a timeout.          *)
(***************************************************************************)
PlacesAgree ==
  Intact =>
    /\ \A p \in Range(qwait) : table[p].sem = Nothing /\ table[p].player # Nothing
    /\ \A p \in Range(qsem) : table[p].sem # Nothing /\ table[p].player # Nothing
    /\ \A p \in Runnable : table[p].waittime = 0

(***************************************************************************)
(* cque_do_second stops at the first timed wait that is not over, so the   *)
(* list has to be in the order of the times, through re-threading by       *)
(* @wait/pid and rewriting by @timewarp.                                   *)
(***************************************************************************)
WaitSorted == Intact => Sorted(qwait, DueIn(table))

(***************************************************************************)
(* A semaphore that has waiters has a positive count, and one that covers  *)
(* them all: otherwise @notify would find the count spent and leave a      *)
(* waiter that nothing releases any more.                                  *)
(***************************************************************************)
SemCoversWaiters ==
  Intact => \A s \in Sems :
    Cardinality(WaitersOf(s)) <= IF count[s] > 0 THEN count[s] ELSE 0

(***************************************************************************)
(* An entry that is being run stays the head of the run queue, halted to   *)
(* everybody else, until the call that runs it ends or a nested call frees *)
(* it: that is how process_cmdline knows it may go on.                     *)
(***************************************************************************)
RunningIsHead ==
  Intact => \A i \in DOMAIN frames :
    frames[i].pid # NoEntry =>
      /\ qfirst # <<>> /\ Head(qfirst) = frames[i].pid
      /\ table[frames[i].pid].player = Nothing

(***************************************************************************)
(* Whatever changes hands and whatever is destroyed, no coin is made: what *)
(* all players have and what is held in deposit for queued commands is     *)
(* never more than all of them started with.                               *)
(***************************************************************************)
NoCoinsMade ==
  FreeOwners = {} =>
    SumFunction(money) + WaitCost * Cardinality(Live) <= SumFunction(Funds)

(***************************************************************************)
(* Nothing is queued for an object that is gone, nor waits on a semaphore  *)
(* of one: its number may be given to a new object at any time.            *)
(***************************************************************************)
NoneForGarbage ==
  Intact =>
    /\ \A p \in Live : Exists(table[p].player)
    /\ \A p \in Range(qsem) : Exists(table[p].sem[1])

(***************************************************************************)
(* Only @halt/pid and @wait/pid break the lists, and only for an entry     *)
(* that is on a run queue at the time.                                     *)
(***************************************************************************)
OnlyPidOpsBreak ==
  [][Intact /\ ~Intact' =>
       \E p \in Runnable : p \notin DOMAIN table' \/ p \in Range(qwait')]_vars

(***************************************************************************)
(* Nothing that is due when the alarm is dispatched stays parked.          *)
(***************************************************************************)
DispatchWakesAllDue ==
  [][now' # now /\ dequeue =>
       /\ \A p \in Range(qwait') : table'[p].waittime > now'
       /\ \A p \in Range(qsem') : table'[p].waittime > now' \/ table'[p].waittime = 0]_vars

(***************************************************************************)
(* Nobody jumps the run queue: a step takes at most its head away, the     *)
(* alarm not even that, and adds at most to its end.                       *)
(***************************************************************************)
RunQueueIsFifo ==
  [][Intact' =>
       \E k \in 0..1 :
         /\ k <= Len(qfirst) /\ (now' # now => k = 0)
         /\ Len(qfirst) - k <= Len(qfirst')
         /\ \A i \in 1..Len(qfirst) - k : qfirst'[i] = qfirst[i + k]]_vars

(***************************************************************************)
(* Waiters without a timeout are released oldest first: none is made       *)
(* runnable past an older one that waits on the same semaphore.            *)
(***************************************************************************)
Untimed(p) == table[p].waittime = 0
SemIsFifo ==
  [][\A i, j \in DOMAIN qsem :
       /\ i < j /\ table[qsem[i]].sem = table[qsem[j]].sem /\ Untimed(qsem[j])
       /\ qsem[j] \in Range(qfirst') \cup Range(qlfirst')
       => qsem[i] \notin Range(qsem')]_vars

(***************************************************************************)
(* What cque_do_top removes from the run queue it has dealt with: started  *)
(* it, found it halted, paid it back, or found its object going.           *)
(***************************************************************************)
OnlyProcessedRemoved ==
  [][\A p \in Runnable \ Range(qfirst') :
       /\ p \in DOMAIN table /\ p \notin DOMAIN table'
       /\ table[p].player # Nothing /\ fate[table[p].player] = "live"
       => queue'[owner[table[p].player]] = queue[owner[table[p].player]] - 1]_vars

(***************************************************************************)
(* Everything that may run is dealt with in the end: promoted from the     *)
(* low-priority queue, and started or dropped from the head of the other.  *)
(***************************************************************************)
EveryCommandLeaves == \A p \in Pids : p \in Runnable ~> p \notin Runnable

(***************************************************************************)
(* No timed wait is for ever, on either queue.                             *)
(***************************************************************************)
TimedWait(p) ==
  \/ p \in Range(qwait)
  \/ p \in Range(qsem) /\ table[p].waittime # 0
EveryWaitEnds == \A p \in Pids : TimedWait(p) ~> ~TimedWait(p)

=============================================================================
