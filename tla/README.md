# TinyMUSH: specifications, model checking and proofs

TLA+ modules about the parts of TinyMUSH whose correctness depends on the order
in which things happen: the command queue, what is charged and paid back, the
checkpoints, connections, movement and destruction of objects, the database
check, mail, channels, and what softcode keeps. Paths below are relative to
`src/src/netmush/` unless they start with `docs/` (`src/src/docs/`) or
`modules/` (`src/src/modules/`).

1. [Inventory](#1-inventory)
2. [Modules and how they correspond to the code](#2-modules-and-how-they-correspond-to-the-code)
3. [Runs](#3-runs)
4. [Disagreements found](#4-disagreements-found)
5. [Fairness](#5-fairness)
6. [Proofs](#6-proofs)
7. [Abstractions, and what is not modelled](#7-abstractions-and-what-is-not-modelled)
8. [Plan](#8-plan)

## 1. Inventory

The server is one process with one thread, but for the resolver's.
`bsd_main_event_loop` (bsd.c) alternates between input of players, `dispatch`
(timer.c), which the alarm triggers once a second, and `cque_do_top`
(cque_exec.c), which runs a chunk of queued commands. Four things make this hard
in spite of the single thread: commands run other operations of the server from
inside (a queued command may `@kick` the queue that is running it, an attribute
run in the middle of a move may move the same thing), loops go over lists that
what they call changes, signal handlers act wherever they interrupt, and
children made by `fork` write to the same database.

| component | state | operations | interacts with | hard | correct if |
|---|---|---|---|---|---|
| command queue (`cque*.c`) | PID table `qpid_htab`; lists `qfirst`, `qlfirst`, `qwait`, `qsemfirst`; `qpid_top` | make, file, wait, notify, drain, halt, re-time, warp, kick, promote, run | deposits and counters; attributes (semaphores); flags HALT and GOING | lists shared by all operations, entries freed by several, nested runs | no entry lost or freed while linked; order kept; everything runnable runs |
| deposits and limits (`player_c.c`, `predicates.c`, `quota.c`) | counter, coins and quota of each player | `payfor`, `giveto`, `payfees`, `add_quota`, `a_Queue`, `QueueMax` | queue, ownership | settled by owner at the time of the refund | limits hold, nothing paid back twice |
| ownership and destruction (`set.c`, `walkdb.c`, `create.c`, `object*.c`) | owner, flags, freelist | `@chown`, `@chownall`, `@destroy`, `create_obj`, `destroy_obj`, `@clone`, `@robot`, `@toad` | queue, storage, lists, modules | numbers are reused | nothing is left of what is destroyed |
| database check (`object_check.c`) | marks | `@dbck`, hourly | movement, storage | repairs while it walks | the lists agree afterwards |
| clock (`timer.c`) | `mushstate.now`, counters, crontab | `dispatch`, `@timewarp`, `@cron` | queue, checkpoints | one-shot alarm | what is due happens |
| main loop (`bsd.c`) | descriptors, flags set by signals | select, read, dispatch, run | everything | what select found may be stale | everybody gets a turn |
| checkpoints (`game.c`, `bsd_signals.c`, `predicates_eval.c`) | `dumping`, `dumper`, `shutdown_flag`, `fork_dump` | `@dump`, automatic dump, SIGCHLD, `@shutdown`, `@restart`, backup, signals | storage | a child and the server write at once; handlers; crashes | what was saved stays saved; what is stopped is saved |
| storage (`db_*.c`) | object blocks and attribute records; `mod_al_id`, `mod_alist` | `atr_add_raw`, `atr_clr`, `al_*`, `db_write`, `db_read` | checkpoints | some written through, some at dumps, one list cached | disk agrees with memory up to what is marked |
| network (`bsd_*.c`, `netcommon.c`, `mguests.c`, `predicates_prog.c`) | descriptors, hash chains, programs, input, quotas | connect, login, guests, time out, boot, program, resolve | main loop, modules | loops over descriptors that what they run closes; late answers | the books agree; no line waits for ever |
| movement and contents (`move.c`, `predicates.c`, `wiz.c`) | location, contents, exits, next | move, enter, leave, drop, sweep, destroy | attributes that move things again | linked lists in object fields | each object is in one list, its place's |
| stacks and structures (`funvars*.c`) | hash tables and counts per object | `push`, `setx`, `construct`, `gridset`, ... | destruction | limits, partial failure | counts agree with what is kept |
| modules (`modules/comsys`, `modules/mail`) | texts, messages, aliases, channels | their own commands, hooks of the server | destruction, connections, restarts | the same fact is kept several times | the records agree |
| evaluation, locks, matching, display, speech, tables of commands, flags and powers, containers, other modules | registers, tables | pure, or sequential containers | | | |

`PROJECT.json` lists all components with their status, and under `hazards` the
places in the code where something can go wrong that a test would hardly reach,
each with the properties that watch over it, or the reason why none does.

## 2. Modules and how they correspond to the code

```
QueueOps              sequences as linked lists         <- OperatorLemmas
  CommandQueue        the queue, its books, its world   <- CommandQueueProofs
    LedgerRefinement  CommandQueue => CommandLedger     <- CommandQueueProofs
      MCCommandQueue
CommandLedger         deposits and limits, abstractly   <- CommandLedgerProofs
  MCCommandLedger
AttributeStore        attributes and the cached list
  Checkpoint          memory, database, dumps           <- CheckpointProofs
    MCCheckpoint
ObjectLists           contents, exits, homes
  Movement            moves that run attributes         <- MovementProofs
    MCMovement
  DatabaseCheck       @dbck after a crash
    MCDatabaseCheck
Descriptors           connections and their books
  Connections         the main loop and its clients     <- ConnectionsProofs
    MCConnections
Mail, Comsys          two modules, as operators
  Modules             the hooks that call them          <- ModulesProofs
    MCModules
Accounts              fees and quotas of objects
Softcode              stacks, structures, grids
  Possessions         commands that build, pay, destroy <- PossessionsProofs
    MCPossessions
```

An action is a whole handler, with every call it makes that changes state. Where
a handler runs other commands in its middle, what is left to do is part of the
state and the rest of the handler another action.

**QueueOps.** A list of `BQUE`s linked by `next` is a sequence of PIDs. The
operators are the list surgery of the code: `Thread`/`ThreadAt`/`LinkAt` insert
behind everything that is due earlier (cque_wait.c:127-135), `Without` unlinks,
`Only` selects, `FirstOf` takes the first so many, `RipeCount` is where
`cque_do_second` stops.

**CommandQueue.** One variable per global: `table` is `qpid_htab`, `qfirst`,
`qlfirst`, `qwait`, `qsem` the lists, `queue` and `money` what `PCACHE` caches,
`count` the number in the attribute of each semaphore, `owner`, `halted`, `fate`
what the queue looks at in objects, `dequeue` and `interp` the flags CF_DEQUEUE
and CF_INTERP. `clock` is `time(NULL)` and `now` is `mushstate.now`, which
differ: the one moves on, the other is set by `dispatch`. `frames` is the C
stack as far as it matters: the active calls of `cque_do_top`, what entry each is
running and how many it has left.

`Wait` and `WaitSem` are `cque_do_wait` with all of `cque_wait_que` and
`cque_setup_que`: refused, over the limit (`Runaway`, which halts everything of
the owner), no PID left (`TableFull`), or filed. `Notify`, `NotifyAll`, `Drain`,
`Halt`, `HaltPid`, `WaitPid`, `Warp`, `Kick` are the commands of those names.
`Dispatch` is the alarm with all of `cque_do_second`. `cque_do_top` is the one
handler that is not atomic, because commands run inside it: `BeginTop`/`Kick` push
a frame, `StartEntry` pays the deposit back and marks the entry, between
`StartEntry` and `EndEntry` the command may do all of the above (`MayAct`: as
long as process_cmdline still finds its entry at the head), `EndEntry` removes the
head, whatever that is by then, `PassOver` and `Discard` are the entries that are
not run, `EndTop` returns.

`@wait/pid` of an entry that is on a run queue merges two lists, and `@halt/pid`
of one frees it where it is linked. What the program does next is not defined, so
`Next` has the conjunct `Intact` and the model stops there; the run Waits turns
the deadlock check off for this reason only. `Splice` models the surgery exactly
up to that point.

**CommandLedger** says what the queue promises about money and limits without
any list: a command is charged, is `Held`, and is settled, cleared or forfeited.
**LedgerRefinement** maps the queue to it: the payer of an entry that is neither
halted nor started is the owner of its object.

**AttributeStore** has the operators of db_attributes.c on a record: attributes
are written at once, the list of the attributes of an object (A_LIST) is written
when another object is changed or `al_store` is called.

**Checkpoint.** `fate` and `ver` are the objects in memory, `disk` their records,
`store.dirty` the DIRTY flags, `writers` the processes that are inside `db_write`
each with the image of the memory it was forked from (the server itself included,
for dumps without a child). `Stage` clears the flags of a block, `PutBlock` puts
it, `PassBlock` passes over a clean block and deletes an empty one; between any
two of these the server and other children act. `Forked` is the second half of
`fork_and_dump`, after `fork` returns: the child may be done and reaped before.
`Reap` is the SIGCHLD handler, `Crash` whatever kills the process. `server` tells
where the server is: up, between `fork` and its return, in a dump of its own, or
down; `next` what follows a dump of its own. A signal finds it at any of these
points, but not in its own handler (`handling`: `sigaction` masks the signal it
calls a handler for and no other), so that SIGTERM may come in the middle of a dump,
of that of SIGUSR1, or while a child writes. `exposed` is no state of the program: it
remembers what a stop may lose, from the moment it begins (`Exposed`): the block the
server's own dump has cleared and not put (`Dropped`), and what is newer in memory
than in a child that has yet to put it (`Overtaken`).

**ObjectLists** is a database as a record of the code's fields, and on it what
`insert_first`, `remove_first`, `reverse_list`, `move_object`, `can_set_home`,
`new_home` and `destroy_obj` do. **Movement** is a stack of frames, one for each
call of move.c, create.c and object.c that is under way; a loop over a list is a
frame with the object it goes on with, read when the code reads it. Attributes
run in the frames `leaving` and `arrived`, where any command may be given.
**DatabaseCheck** is object_check.c on a database that a crash has torn: some
blocks are older than others.

**Descriptors** is the list of descriptors, the hash chains, flags, programs and
guests, as a record, and the functions of netcommon.c and bsd_connection.c on
it. **Connections** is a turn of the main loop: quotas, typed commands (the loop
over descriptors holds the next one, as `DESC_SAFEITER_ALL` does), dispatch,
select, queued commands, an answer of the resolver, a new connection, input and
output.

**Mail** and **Comsys** are the two modules as operators on a record each, and
**Modules** the hooks of the server that call both (connect, disconnect, create,
destroy, restart) with the commands of players in between.

**Accounts** is who owns what, and coins and quota as `payfees`, `add_quota`,
`divest` and the purge move them. **Softcode** is the hash tables of funvars.c
with the counts kept beside them. **Possessions** is the commands: building,
cloning, giving, `@chown`, `@destroy`, `@pcreate`, `@robot`, `@toad`, the purge,
and calls of functions.

## 3. Runs

| run | module | properties | shows | bounds and why they are enough |
|---|---|---|---|---|
| Semaphores | MCCommandQueue | `TypeOK` `PlacesAgree` `SemCoversWaiters` `NoCoinsMade` `NoneForGarbage` `SemIsFifo` `OnlyProcessedRemoved` | waiters are covered by the count of their semaphore and released in order; fields of an entry agree with its list; what changes hands or is destroyed with commands queued makes no coins and leaves nothing behind | one semaphore, two issuers, two PIDs, timeouts that end now or in a second: two waiters are enough for one to pass the other, and both ways of leaving collide |
| Waits | MCCommandQueue | `Registered` `RunningIsHead` `WaitSorted` `OnlyPidOpsBreak` `DispatchWakesAllDue` `ImplementsLedger` | the wait queue is in order however it is re-timed and warped, the alarm wakes everything due, only operations on one PID break a list, and every step is one of the ledger | delays that are re-timed into the past, to the end of the range (`IntMax`, so that the clamp bites), by a shift or at once; limit, purse and PID table all run out; @kick nested to `NestLim` |
| Liveness | MCCommandQueue | `RunQueueIsFifo` `EveryCommandLeaves` `EveryWaitEnds` | everything runnable is dealt with, in order, every timed wait ends | see section 5 |
| CommandLedger | MCCommandLedger | `TypeOK` `QuotaHolds` `DepositsCovered` | the ledger keeps its promises | three PIDs, a deposit of two, limits of one and two; the same is proved for all values |
| Checkpoints | MCCheckpoint | `SavedOrDirty` `StoppedIsSaved` `DumpsInv` `ChangesReachDisk` `OnlyLostListsOrphan` `DiskNeverGoesBack` | what is not marked is saved, what was stopped is saved but for what the stop exposed, `dumping` is true, changes get to disk, lists and attributes agree, no block goes back | three objects in two blocks, `MaxVer` changes each (one is enough: a block is dirty, too, when another object of it changes or its attributes do), one child at a time, every command and signal on, also in the middle of any dump, children killed at any point; one child is enough to outlive a stop, which is the only time two write structures |
| Movements | MCMovement | `MovementInv` `OnlyPutBackBreaks` `CommandsEnd` | lists of contents and exits agree with what they list in the middle of a move, a divestiture or a sweep, and every command ends | one command is run by an attribute during another (`MaxHooked`), which is what makes a loop's next object stale; `ops` of each game says which commands are given in it |
| Repairs | MCDatabaseCheck | `RepairInv` `CheckPutsInOrder` `CheckEnds` | a database torn by a crash in the middle of a dump is in order after a check, and numbers are free only when nothing refers to them; the check ends unless contents run in a ring or lead to one another in one | every mixture of the blocks of two databases, where any two objects may be in different blocks: 2230 databases, in 16 of which the check does not end (8 with a ring, 8 with lists that lead to one another) |
| Connections | MCConnections | `ConnectionsInv` `LinesAreTaken` `IdleLeave` | chains, flags and programs agree, no line waits for ever, nobody idle stays | two sockets, four players of whom one is a guest's slot and one is created; `MaxOpens` clients come and `MaxTyped` lines are sent besides those that the games start with |
| Modules | MCModules | `MailInv` `ChannelsInv` `TextsGivenBack` `SafeStays` | mail shows what was sent and is given back; the four records of who is on a channel agree | `Budgets`: three mail commands or four on channels or one of each, with connections, destruction, re-creation and restarts at any time; `Slots` texts |
| Possessions | MCPossessions | `BooksKept` `MemoryKept` | quota and coins are neither made nor lost but where it is said; what softcode keeps for an object agrees with its counts and goes with it | `N` objects, God and two players among them; `MaxCoins`, `MaxQuota`, `MaxOverdraft` and `MaxDrift` end counts nobody bounds; `Coders` call functions |
| EveryCheck | MCDatabaseCheck | `EveryCheckEnds` | violation, see section 4 | as Repairs |
| MailArrives | MCModules | `MailArrives` | violation, see section 4 | |

Three passing runs turn the deadlock check off: Waits because the model stops at
a broken list, Modules and Possessions because budgets, purses and quotas run
out. Other names of bounds: `MaxPid` is a parameter of the program (`max_qpid`);
`IntMax` stands for INT_MAX and also ends time, at most two seconds after the
start, which is as long as the longest delay; `StackLimit` in Repairs stands for the
size of the C stack; `MaxGood` ends the creating of objects there; `SemBound` and
`DebtBound` cut off counts nobody bounds.

The properties in words stand above their definitions. Every property of a
passing run has a mutant of the code (listed in `PROJECT.json`, defined next to
what it replaces) that TLC finds to violate it: off by one at the limit, a
refund before the entry is unlinked, promotion in the wrong order, a DIRTY flag
that is not set, SIGCHLD before fork returns, a channel that is left by one alias
only, and so on.

## 4. Disagreements found

With a run:

- **MailArrives** (modules/mail/mail.c:677): after the only message of a player
  is retracted, the hash table keeps an entry without a list, `nhashadd` fails
  for the next one and `send_mail` ignores that. docs/help.txt:13737.
- **EveryCheckEnds** (object_check.c:1008): contents that run in a ring are walked for
  ever, since a marked member whose location is right is gone past; and two lists
  each of which leads to a member of the other recurse until the stack is gone
  (object_check.c:878). object_check.c:846 and 850 say that places already visited are
  skipped and that the chain ends at a member that has been checked. A crash in the
  middle of a dump can leave both, and the server checks when it starts: it does not
  come up. `CheckEnds` says that every other check ends.

Without a run of their own, met while modelling:

- Queue. `@wait/pid` of a command on a run queue merges lists (cque_wait.c:293)
  and `@halt/pid` of one frees it without unlinking (cque_halt.c:349, against
  cque_entry.c:38); that these are the only ways to break a list is
  `OnlyPidOpsBreak`. After a queued `@kick` the outer `cque_do_top` removes an entry
  that has not been run (cque_exec.c:527). A semaphore wait that is refused stays
  in the count (cque_wait.c:464, docs/help.txt:6519): `SemCoversWaiters` says what
  remains true. `@timewarp/queue` gives all timed waits the same time
  (cque_queue.c:448, docs/wizhelp.txt:1259).
- Checkpoints. SIGTERM, a "graceful shutdown with full database dump"
  (bsd_signals.c:101), dumps from inside its handler (bsd_signals.c:109). In the middle
  of a dump of the server's own that loses the block whose flags are cleared and which
  is not put. With a child dumping, what the child has still to put may come after the
  dump of the handler, and likewise after the last dump of the main loop on SIGQUIT
  (game.c:3870-3890). `StoppedIsSaved` excepts exactly these, as `exposed`; without the
  exception TLC finds both. An object destroyed alone in its block is back after a restart (db_flatfile.c:2250). The
  automatic dump does not look at `dumping` (timer.c:574), without `Patient`
  `DiskNeverGoesBack` fails.
- Movement. `@teleport` of an exit to where it already is puts it before itself
  and loses those before it (wiz.c:193-197, docs/help.txt:16082); the sweep of a
  sticky dropto and divestiture go on with an object that attributes have moved
  (move.c:284, 303). A thing that is destroyed is moved to nowhere first
  (object.c:748), which runs its A_MOVE: if that teleports it back, it is made
  garbage while it is on the list of a room, and what came after it is lost. The
  attempt to prove `MovementInv` with instant destruction shows it; the run
  Movements does not give both commands in one game.
- Database check. "Owner is set GOING. Set to GOD." sets the same owner again
  (object_check.c:554). Marks set while attributes run truncate live lists.
- Network. `handle_prog` frees a program when the player types a line, and queues
  nothing (predicates_prog.c:78), where docs/help.txt:3039 says that the program's
  attribute is run with the line. `create` admits one player too many (netcommon.c:2504-2530); bits of
  select are used for descriptors made since (bsd.c:328-357); an address in letters
  leaves `inet_pton`'s result unread (bsd.c:275-305); lines typed ahead and programs
  are lost by `@restart`.
- Possessions. `@quota/fix` saves to another attribute (quota.c:279-302); an empty
  `gridset` leaves a pointer to the cell it frees (funvars_grids.c:225); grids
  survive their object (object.c:422); `structure_clr` uses a name it has freed
  (funvars_struct_ops.c:525, 601); `let()` uses uninitialised values for an empty
  list (funvars_xvars.c:547); `@pcreate` charges the creator `start_quota`
  (create.c:1222); `@toad` charges nobody; a clone of what is GOING is GOING
  (create.c:1097).
- Mail and channels. `@mail/reply` passes the sender's number for a message's
  (mail.c:1166, 3550); mail a destroyed player had in other folders is the next
  player's of that number (docs/help.txt:13871); a text whose alias is gone is
  never given back. A channel that is not loud does not hear of a disconnection
  (comsys.c:1105-1131).

## 5. Fairness

The server is one thread that goes round its main loop for ever, and no command
runs for ever (`cmd_nest_lim`, `func_invk_lim`, and the limits on loops). So:

- *Queue (Liveness)*: weak fairness of the steps inside `cque_do_top` and of `Tick`:
  once entered, a call goes on. Strong fairness of `Dispatch` and `BeginTop`: they
  are enabled only between commands, and typed commands come in between, but every
  round of the loop comes to both.
- *Checkpoint*: weak fairness of each process inside `db_write`, of a child that is
  finished being reaped, of `fork` returning and of the server's own dump ending;
  strong fairness of `AutoDump`, which `dispatch` comes to when its interval is over,
  however often somebody makes a dump in between. Children may be killed;
  `ChangesReachDisk` assumes that this does not go on for ever.
- *Movement, DatabaseCheck*: weak fairness of going on (`Proceed`, `CheckStep`): a
  command, or a check, is run to its end before the next is looked at.
- *Connections*: weak fairness of the loop; strong fairness of a time slice and of the
  idle interval, which are over again and again while the loop goes round.
- *CommandLedger, Modules, Possessions*: none; only safety is claimed.

Nobody is obliged to type anything: no fairness of commands is assumed. The
Liveness run leaves out what may postpone a wait or an execution for ever in the
real program too: `@disable dequeueing`, `@wait/pid` again and again, and a `@kick`
that queues the next.

## 6. Proofs

`tlapm` checks all theorems from the assumptions on constants that stand, named,
in the modules and that TLC evaluates in every run. They hold for any number of
players, objects, PIDs, semaphores, blocks, processes and channels; what must be
finite is said so in the assumptions, because in the code it is.

### The lists of the command queue

*OperatorLemmas*, which all modules of proofs share: what the list operators return,
keep and bound; induction over finite sets and over numbers, stated for sets instead
of predicates so that the provers can use it; and what follows about sums.

*CommandQueueProofs*. `Typing` (`[]TypeOK`) and `NoneForgotten` (`[]Registered`).
Neither is inductive alone: an operation keeps all entries listed only if the
lists were disjoint and without repetition when it took them apart. The inductive
invariant is `Sound` (types, `Intact`, `Complete`), which every operation but the
two on PIDs preserves. Once the lists are broken there is no step
(`BrokenStays`), which is why the invariants read "while the lists are intact":
nothing is claimed about a program that follows a dangling pointer.
`ListsStayIntact` says that without `@halt/pid` and `@wait/pid` they stay intact.

Second part: what each action does to entries, lists and counts is first summed
up as one of a few *kinds of steps* (an entry is filed, entries move from one list
to another, the head is taken, ...), and each theorem is proved once for each kind,
not once for each operation.
The chain is `TypeOK`, `Registered`, then
`FieldsAgree` (`PlacesAgree`: flags and times of an entry agree with its list),
and on top of these, each needing the ones before:

- `WaitsInOrder` (`WaitSorted`): the wait queue is ordered by time. It needs
  `PlacesAgree`, since an entry that is re-timed is known by its fields.
- `RunningStaysHead` (`RunningIsHead`): what is being run, by any of the nested
  calls, is the head of the run queue and halted to everybody else.
- `GarbageHasNoCommands` (`NoneForGarbage`).
- `CountsCoverWaiters` (`SemCoversWaiters`): by counting, the waiters that leave
  are never fewer than what is taken off the count.

From these the action properties: `ListsBreakOnlySo`, `AlarmWakesAllDue`,
`NobodyJumpsTheQueue`, `OldestWaiterFirst`, and `RemovedMeansProcessed`, whose
hypothesis is that nobody uses `@kick`: with it the property is false (section 4,
cque_exec.c:527), and the run Semaphores leaves it out for the same reason.

### Its books

*CommandLedgerProofs*: `LedgerTyping`, `LimitsHold`, `NothingPaidTwice`. The
invariant is `Balanced(q)` for each player: held commands are at most the counter,
the counter at most the limit, coins plus deposits of held commands at most what
the player started with; inductive together and only together.

*CommandQueueProofs*, third part. `QueueImplementsLedger` is the refinement: initial states map to
initial states, every step to a step or a stutter, with `PlacesAgree`,
`RunningIsHead` and `Registered` as invariants. Its hypotheses are those under which
TLC checks it too: nothing changes hands (`Chowns = ChownAlls = {}`) and nobody is
let off paying (`FreeOwners = {}`). Where things do change hands the ledger is not
implemented: a deposit is paid back to whoever owns the object by then. So
`QueueKeepsLimits` carries the ledger's theorems over to the queue under the same
hypotheses, and `QueueMakesNoCoins` says, with no hypothesis, what is true also
when things change hands or are destroyed: coins and deposits of all together
never grow. The sums are over sets that are only known to be finite;
the inductions they need are in *OperatorLemmas*.

### Checkpoints

*CheckpointProofs*. `CheckpointTyping` and `ListsStayTrue` (`OnlyLostListsOrphan`)
need no assumption. The rest assumes `Patient`, as the run does: that the child of a
dump is done before the next automatic dump is due (timer.c:574 does not look). It
does not keep the server from stopping in any way at any time, and what such a stop
may lose is the set `exposed`, which the theorems name. They are
`DumpingTellsTheTruth` (`DumpsInv`), `CleanMeansSaved` (`SavedOrDirty`),
`OrderlyStopSaves` (`StoppedIsSaved`), `DumpsOnlyAdvance` (`DiskNeverGoesBack`).
The inductive invariant is `Typed /\ Sound`, whose parts are

- `Processes` and `Flags`: who may be inside `db_write`, one child at most and beside
  it the server only when it stops, and that `dumping` and `dumper` tell so: else two
  processes could put the same block;
- `Risks`: nothing is exposed but by a server that stops, and whatever a child may yet
  put that is older than memory is. This is inductive because memory does not change
  any more once the server stops, and because a child puts no block that it had not to
  put before (`WritesSame`, `StepWrites`);
- `Versions` and `Newer`: what a process was forked with is not newer than memory and
  not older than the disk, unless exposed: else a put would go back;
- `Progress`: what the server has still to put in a dump of its own is what was dirty
  when it began: else a cleared flag would mean nothing;
- `ListWritten`: the cached attribute list and the one on disk.

`purge_going` goes over all objects; its recursion is dealt with by induction on the
number of objects done.

### Connections

*ConnectionsProofs*. `ConnectionsAgree` (`[]ConnectionsInv`) for any number of
sockets, players, guests and sites and any list of descriptors to start with in
which things agree (`ConnectionsAssumption`: a server starts with none, or with what
a restart has kept). Its three parts are inductive only together. `Agree` needs
`LoopHasWork`: a command is taken from the descriptor the loop is at, which commands
run before may have closed; what the loop holds of a freed one is modelled as any
other or none (`Reached`), so that the proof is about a loop that may skip
descriptors, not about one that happens to find the right one. And `LoopHasWork`
needs `Agree`: that `select` listens only if a descriptor is free is known by the
length of the list, which has each open one once.

Each function of netcommon.c, bsd_connection.c, predicates_prog.c and mguests.c has
a lemma that it *yields* (`Yields`): things agree after it and it has opened no
connection, which is why the client `select` has seen can still be accepted after
queued commands have run. There are four kinds:

- it leaves alone all that has to agree (`Calm`: quotas, ages, names, input);
- one connection goes from the list, or stays at the login screen, and with the last
  of a player the CONNECTED flag and the program (`Goes`, `GoesDeparts`);
- one connection gets a player who has none or some already, and with some the
  program that reads them (`Comes`, `ComesYields`);
- all connections of a player get or lose a program (`Programs`). That there is a
  number left for a new one is the pigeonhole principle: programs and players who
  have one correspond (`ProgramToSpare`).

The loops of `boot_off` and `check_idle` are recursive functions, about which
*OperatorLemmas* says that the function exists (`StepsExist`); the lemmas go by
induction over how much of the chain, or the list, is done.

### Channels

*ModulesProofs*: `ChannelsStayTrue` (`[]ChannelsInv`): aliases, lists of aliases,
who is on a channel and how many agree; who is connected hears; nobody who is
gone is left. The inductive invariant `Switches` adds the types and that God
exists (who creates the channels' first owner). Each function of comsys.c has a
lemma that it keeps `Sound(s, e, up)`, where `e` are the objects that exist and
`up` those who are connected. The core is `LeaveSound`: who loses some aliases
and is removed from *exactly* the channels for which none is left leaves the
records in agreement; `channel_clr`, `do_cboot` and `do_delcom` are instances, and
the shortcut of `remove_from_channel` (if there is one left, empty the list without
looking who it is) is right because of the count.

### Mail

*ModulesProofs*, second part. `MailStaysTrue` (`[]MailInv`): a message shows what was sent, and its
slot counts it. Neither `MailReadsTrue` nor `CountsCover` is inductive alone: a text
may only go when no message shows it, which the count must say, and a slot may only
be used again when it has no text, hence no count, hence no message. The inductive
invariant is `MailBooks` (both, types, and an alias that names nobody twice) with
the `Switches` of the channels, which say who exists, and `Bounds`.

The messages that show a slot are counted as a set of places (`Showing`), and three
lemmas say what becomes of that number: `LeftBoxShows` (deletion takes exactly what
is deleted, by a bijection between what is left before and after), `SentBoxShows`
(sending adds at most as many as there are addressees, less for those whose list
nhashadd refuses), `AddKeepsBooks` (a new text is shown by nobody). Every function of
mail.c is then one of four kinds: it leaves messages as they are (drafts, aliases,
folders), marks them (`Touched`), sends (`Better`), or deletes (`DeletesWell`,
`Purges`), and each kind is proved once. That God is told of every member of an alias
who is gone is a recursion (`Told`); its value is established by induction, with one
slot less at each step, which is why the bound on slots (`MailCommands`) asks for
more than there are players.

From what every step does (`WellDone`) also `MailGivesBack` (`TextsGivenBack`) and
`MailThatIsSafeStays` (`SafeStays`), which quantify over pairs of states and need the
invariant in the first of them: a count that did not cover its messages could be cut
off at 0 and give back too little.

### Movement

*MovementProofs*: `MovesKeepLists` (`[]MovementInv`) and `OnlyPuttingBackBreaks`
(`OnlyPutBackBreaks`), for any objects, homes, droptos, and depth of attributes.
`ContentsAgree` is about a walk along `next`, which every move changes. The proofs
are about `Threaded(next, head, S)` instead, which does not walk: every member of
`S` but the head has exactly one predecessor in `S`, the last one leads to NOTHING,
and some rank rises along `next`. `ContentsThreaded` and `ExitsThreaded` say that
the two are the same, by induction over how far one has walked; three lemmas say
what putting first, taking off and turning round do to what is threaded; and
`ObjectMoves`, `ExitMoves`, `ExitTeleports` and `ContentsReversed` what the functions
of ObjectLists do to all lists of the database at once: `next` is one field, and
that no list but those of the two places notices needs that lists are disjoint,
which they are because a thing has one location.

The inductive invariant is `MoveBooks`: lists agree (`Settled`, with places where
places must be), and each frame of the stack holds what the code relies on when it
comes back to it (`Fits`): something that can be moved, a place, a member of some
list. It says nothing of *which* list a loop is in: attributes may have moved what
the loop goes on with, and `move_object` takes a thing out of where it is by then.

Hypotheses:

- `StartsSettled`: the game starts in order, which is what the database check of a
  start is for.
- `Spares`: `@destroy/instant` is not among the commands of the game. With it the
  invariant is false (section 4, object.c:748): the thing's own A_MOVE may bring it
  back into a room before it is made garbage. The run Movements has instant
  destruction only in a game whose attributes do not move things, and there lists
  are right again afterwards; that is model-checked only.

### What softcode keeps

*PossessionsProofs*: `SoftcodeRemembers` (`MemoryKept`), for any objects, values,
names of variables, structures, components and instances, limits, prices, and any
games in which God is a player who is not GOING. Every number has a `Memory`, and
`Agrees` says in four parts that hardly meet (the stack, the variables, the
structures with their instances, the grid) that what is counted is what is there.
For each function of funvars_stacks.c, funvars_xvars.c, funvars_struct_core.c,
funvars_struct_ops.c and funvars_grids.c there is a lemma that it keeps types and
agreement (`CallsKeep`), or is one of the three cases the property names. What takes
most work:

- `DestructKeeps`: the keys of an instance are its name and the component's put
  together, so `i.b` with `a` and `i` with `b.a` meet. That data is there exactly for
  the keys of instances survives a `destruct` only if no other instance has a key of
  these (`Shared_key`), and survives `construct` because `hashadd` leaves an entry
  that is there as it is.
- `LetGivesBack`: `let()` gives the variables it names their values back whatever its
  body does to them, even if a name is given twice. The loop that sets them is a
  recursive function; by induction over the names done, a variable that was given
  back stays so, or there are as many variables as there may be (`SettingRestores`).
- `ClearedForgotten`: of an object that has no structures and no grid `destroy_obj`
  leaves nothing but its counts, and `create_obj` sets those to 0 (`ResetAgrees`).

An object that is destroyed while it evaluates a function or with structures or a
grid is an exception of the property (`Undone`), and of no lemma: types are kept
there too. The invariant is `Inv`: types, and that God is a player who is not GOING,
which every command that builds, chowns, destroys, turns to things or pays has to keep
(`Stands`): God cannot be destroyed, purged or turned to a toad. `@dbck` purges one
number after the other, which is an induction over numbers (`PurgingStands`). Clearing
an `xvars` list that names a variable twice miscounts as well as one that names a
variable which is not there; the attempt to prove `ClearXvarsKeeps` showed it, and
`Miscounts` says so since.

### Only model-checked

Liveness (`EveryCommandLeaves`, `EveryWaitEnds`, `ChangesReachDisk`, `CommandsEnd`,
`CheckEnds`, `LinesAreTaken`, `IdleLeave`) is out of the prover's reach. Not proved:

- movement in games in which things are destroyed on the spot, where the lists do
  break (see "Movement" above);
- `RepairInv` and `CheckPutsInOrder` of DatabaseCheck. They depend on where the check
  starts: a number already going when it begins, at the head of broken contents, or an
  attribute that moves things while the check walks the lists, needs hypotheses about
  the torn database that only the run's starts are known to satisfy;
- `BooksKept` of Possessions. It is not true for every value of the constants: with a
  negative quota, or a start with a thing that holds fewer coins than `SacAdjust` (so
  that its deposit is negative), TLC finds books that do not balance when a player is
  destroyed at once. A proof needs assumptions on both, and then the sums of every
  command.

## 7. Abstractions, and what is not modelled

Command queue
- Text and registers of commands are left out, and with them what a command does
  other than to the queue: while an entry runs, any operation may happen.
- Permission checks are left out: whoever may do something does it.
- `machinecost` is a coin more or not, each time.
- Only players are free of charge (`FreeOwners`); the Wizard flag of things is not
  looked at. Players are not destroyed.
- `@dbck` inside `dispatch` is the separate action `Purge`.
- A pointer kept across a nested run to an entry that was freed is `NoEntry`, even if
  the allocator would give the same address to a new one.
- Numbers of destroyed objects are not given out again; `NoneForGarbage` says that
  nothing is left that a new object of that number could inherit.
- The queue is not saved over restarts, and the model is one life of the server.

Checkpoint
- A structure is a version number, which counts changes. References between objects
  are left out here; DatabaseCheck has them.
- The order of the freelist, `db_top`, the TM3 header and attribute numbers are left
  out; everything belongs to God, who pays and is paid, so that creating and
  destroying always change an attribute of another object.
- Contents of attributes are left out, their presence is not.
- The lock of the database file, which GDBM needs, is left out: LMDB, the default,
  does without.
- `Patient` (assumption): the child of a dump is done before the next automatic dump is
  due, before `fork_dump` is changed, and before somebody starts the server again. It
  may be at work when the server stops.
- A put is one step: what LMDB does if a signal comes inside it is left out, and so is
  `mushstate.panicking`, which a second signal while handling SIGTERM turns into the
  end of the process (`Crash`).
- After a crash nothing in memory is kept. The panic dump, flatfiles and backups as
  files, restart.db, a failing `execl` and a failing put are not modelled.

Movement, database check: locks, followers, paying for exits, zones, parents,
owners, forward lists; what KILL gives away.

Connections: the bytes of input and output and their buffers at the limit, WHO,
access lists beyond a ban, passwords.

Modules: `@toad`, which boots a player and makes it a thing without the hooks of
destruction: that nobody destroyed is on a channel, or owns one, is claimed of players
who are destroyed as players. Also locks and charges of channels, titles, gags of messages; mail subjects,
aliases of several owners, statistics; `sanitize_comsys`.

Possessions: the cases of `Miscounts`, `Emptied_cell`, `Shared_key` and `Undone` are
excepted by name, because there the counts do go wrong (section 4, and the hazards at
funvars_struct_ops.c:525, funvars_xvars.c:231 and 528): `MemoryKept` says that there
are no others. `let()` that is given too few or too many values has no body and puts
nothing back, also what evaluating the values has set (funvars_xvars.c:496-515): it is
modelled, and `Restores` is about a `let()` that comes to its body. Not modelled are
quotas by type, registers, regular expressions, functions that only
read.

Not modelled: the components with that status in `PROJECT.json`, each with its
reason; evaluation, matching, locks and display change no state that outlives a
command, and containers are taken for functions.

## 8. Plan

1. Proofs about DatabaseCheck (each pass as a loop with what it has put in order so
   far) and about the books of Possessions (sums of deposits).
2. The clock: counters of `dispatch`, `@cron`, each switch of `@timewarp`.
3. Checkpoint, further: panic dump, failing puts, overlapping dumps, references
   between objects across a crash.
