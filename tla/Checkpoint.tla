----------------------------- MODULE Checkpoint -----------------------------
(***************************************************************************)
(* What is in memory, what is in the database, and how the one gets into   *)
(* the other.  Attributes are written through (AttributeStore).  Object    *)
(* structures are written by db_write, in blocks, when the database is     *)
(* dumped: by the server itself or, with fork_dump, by a child that works  *)
(* on a copy of the memory while the server goes on.  game.c (dumps,       *)
(* shutdown, start), bsd_signals.c (SIGCHLD, SIGQUIT, SIGTERM),            *)
(* predicates_eval.c (@restart), timer.c (the automatic dump), object.c    *)
(* (destroying, the database check) and db_flatfile.c (db_write, db_read). *)
(***************************************************************************)
EXTENDS AttributeStore, FiniteSets

CONSTANTS
  Top,         (* mushstate.db_top: objects are numbered from 0            *)
  BlockSize,   (* OBJECT_BLOCK_SIZE: objects per record of the database    *)
  God,         (* the owner of everything, who pays for what is created    *)
  Permanent,   (* objects that are never destroyed                         *)
  Attrs,       (* names of attributes                                      *)
  Money,       (* A_MONEY, which every object has                          *)
  Children,    (* process IDs of forked processes                          *)
  Server,      (* the process ID of the server                             *)
  NoProcess    (* 0                                                        *)

(* What the operations are called with, and the assumption on operators.   *)
CONSTANTS
  ForkDumps,   (* the values of mushconf.fork_dump to start with           *)
  Patient,     (* whether the child of a dump is done before the next dump *)
               (* is due, fork_dump is changed, and the server is started  *)
  Changed,     (* objects whose structure is changed                       *)
  Noted,       (* pairs <<object, attribute>> that are set and cleared     *)
  Ops          (* which other operations are on                            *)

(* Bounds that keep the model finite.                                      *)
CONSTANT
  MaxVer       (* how often the structure of an object may change          *)

VARIABLES
  fate,        (* of each object in memory: "live", "going", "garbage"     *)
  ver,         (* the version of its structure in memory                   *)
  store,       (* attributes, their lists, and the DIRTY flags             *)
  disk,        (* object records of the database: a version, or Missing    *)
  server,      (* "up", "forking", "dumping", "down"                       *)
  next,        (* what follows the dump the server itself makes            *)
  writers,     (* processes inside db_write, or about to write a list      *)
  forked,      (* what fork() returns to a server that is "forking"        *)
  dumping,     (* mushstate.dumping                                        *)
  dumper,      (* mushstate.dumper                                         *)
  fork_dump,   (* mushconf.fork_dump                                       *)
  stopping,    (* mushstate.shutdown_flag                                  *)
  handling,    (* signals in whose handlers the server is                  *)
  ended,       (* how the server went down, if it is: "saved", "crashed"   *)
  exposed      (* observed only: what the stop that goes on may lose       *)

memory == <<fate, ver, store>>
dumps == <<next, forked, dumping, dumper, fork_dump, handling, exposed>>
vars == <<fate, ver, store, disk, server, next, writers, forked, dumping,
          dumper, fork_dump, stopping, handling, ended, exposed>>

Objects == 0..Top - 1
Missing == -1
Skipped == -1

ASSUME ObjectAssumption ==
  /\ Top \in Nat \ {0} /\ BlockSize \in Nat \ {0}
  /\ God \in Permanent /\ Permanent \subseteq Objects
  /\ Nothing \notin Objects
  /\ Money \in Attrs
  /\ MaxVer \in Nat

ASSUME ProcessAssumption ==
  /\ IsFiniteSet(Children)
  /\ NoProcess \notin Children /\ Server \notin Children \cup {NoProcess}
  /\ ForkDumps \subseteq BOOLEAN /\ Patient \in BOOLEAN

ASSUME InputAssumption ==
  /\ Changed \subseteq Objects
  /\ Noted \subseteq Objects \X Attrs

(* The records of the database hold BlockSize objects each. *)
BlockOf(o) == o \div BlockSize
LastBlock == Top \div BlockSize
BlockObjects(b) == {o \in Objects : BlockOf(o) = b}

(***************************************************************************)
(* A process that writes: the structures it has in its memory (Skipped for *)
(* what is GOING), the DIRTY flags in a child's memory, the block that is  *)
(* next, and whether its flags have been cleared but it has not been put;  *)
(* and the attribute list it has in memory.  A backup and a flatfile write *)
(* no block at all.                                                        *)
(***************************************************************************)
Writer == [kind : {"dump", "backup"}, image : [Objects -> Nat \cup {Skipped}],
           dirty : SUBSET Objects, block : 0..LastBlock + 1, staged : BOOLEAN,
           id : Objects \cup {Nothing}, list : SUBSET Attrs]

Running == DOMAIN writers
DumpChildren == {p \in Running \ {Server} : writers[p].kind = "dump"}
Finished(p) ==
  /\ writers[p].block = LastBlock + 1 /\ ~writers[p].staged
  /\ writers[p].id = Nothing

(* Whether what follows has to wait until no child dumps.                  *)
InTime == Patient => DumpChildren = {}

Image == [o \in Objects |-> IF fate[o] = "live" THEN ver[o] ELSE Skipped]

(* A process that starts to write all blocks, and one that writes none,    *)
(* with the store at S.                                                    *)
Dumper(S) ==
  [kind |-> "dump", image |-> Image, dirty |-> S.dirty, block |-> 0,
   staged |-> FALSE, id |-> S.mod_al_id, list |-> S.mod_alist]
FileWriter(k, S) ==
  [Dumper(S) EXCEPT !.kind = k, !.image = [o \in Objects |-> Skipped],
                    !.dirty = {}, !.block = LastBlock + 1]

With(p, w) == [q \in Running \cup {p} |-> IF q = p THEN w ELSE writers[q]]
Less(p) == [q \in Running \ {p} |-> writers[q]]

-----------------------------------------------------------------------------
(* What commands do to objects.  Commands run while the server is up. *)

Touch(o) == [store EXCEPT !.dirty = @ \cup {o}]
Unchanged == UNCHANGED <<disk, server, writers, dumps, stopping, ended>>

(* Mutant of Change: the object is not marked. *)
ChangeUnmarked(o) ==
  /\ server = "up"
  /\ fate[o] = "live" /\ ver[o] < MaxVer
  /\ ver' = [ver EXCEPT ![o] = @ + 1]
  /\ UNCHANGED <<fate, store>> /\ Unchanged

(* Any of s_Location, s_Flags, s_Owner, ... *)
Change(o) ==
  /\ server = "up"
  /\ fate[o] = "live" /\ ver[o] < MaxVer
  /\ ver' = [ver EXCEPT ![o] = @ + 1]
  /\ store' = Touch(o)
  /\ UNCHANGED fate /\ Unchanged

SetAttr(o, a) ==
  /\ server = "up"
  /\ fate[o] = "live"
  /\ store' = AtrAddRaw(store, o, a)
  /\ UNCHANGED <<fate, ver>> /\ Unchanged

ClearAttr(o, a) ==
  /\ server = "up"
  /\ fate[o] = "live"
  /\ store' = AtrClr(store, o, a)
  /\ UNCHANGED <<fate, ver>> /\ Unchanged

(* create_obj, for a number that is garbage: its owner pays for it. *)
Create(o) ==
  LET paid == AtrAddRaw(store, God, Money)
      blank == AtrFree(paid, o)
  IN  /\ server = "up"
      /\ fate[o] = "garbage" /\ ver[o] < MaxVer
      /\ fate' = [fate EXCEPT ![o] = "live"]
      /\ ver' = [ver EXCEPT ![o] = @ + 1]
      /\ store' = AtrAddRaw(blank, o, Money)
      /\ Unchanged

(* destroy_obj: the deposit goes back to the owner, the attributes go.     *)
Destroyed(S, o) ==
  AtrAddRaw(AtrFree(AtrAddRaw(S, God, Money), o), o, Money)

(* @destroy/instant *)
Destroy(o) ==
  /\ server = "up"
  /\ o \notin Permanent /\ fate[o] # "garbage"
  /\ fate' = [fate EXCEPT ![o] = "garbage"]
  /\ store' = Destroyed(store, o)
  /\ UNCHANGED ver /\ Unchanged

(* @destroy *)
MarkGoing(o) ==
  /\ server = "up"
  /\ o \notin Permanent /\ fate[o] = "live"
  /\ fate' = [fate EXCEPT ![o] = "going"]
  /\ store' = Touch(o)
  /\ UNCHANGED ver /\ Unchanged

(* purge_going, in the order of the numbers. *)
Purged ==
  LET upTo[n \in 0..Top] ==
        IF n = 0 THEN store
        ELSE IF fate[n - 1] = "going" THEN Destroyed(upTo[n - 1], n - 1)
        ELSE upTo[n - 1]
  IN  upTo[Top]

Swept == [o \in Objects |-> IF fate[o] = "going" THEN "garbage" ELSE fate[o]]

(* do_dbck, as far as it destroys what is going. *)
Check ==
  /\ server = "up"
  /\ fate' = Swept
  /\ store' = Purged
  /\ UNCHANGED ver /\ Unchanged

-----------------------------------------------------------------------------
(* db_write. *)

Ready(p) ==
  /\ p \in Running /\ writers[p].id = Nothing
  /\ writers[p].block <= LastBlock
InBlock(p) ==
  {o \in BlockObjects(writers[p].block) : writers[p].image[o] # Skipped}
Stale(p) == InBlock(p) \cap writers[p].dirty

(* s_Clean for what is dirty in the block, in the memory of the process *)
Stage(p) ==
  /\ Ready(p) /\ ~writers[p].staged
  /\ Stale(p) # {}
  /\ writers' = [writers EXCEPT ![p].staged = TRUE, ![p].dirty = @ \ Stale(p)]
  /\ store' = IF p = Server THEN [store EXCEPT !.dirty = @ \ Stale(p)] ELSE store
  /\ UNCHANGED <<fate, ver, disk, server, dumps, stopping, ended>>

(* ... and the block is put, with everything in it that is not going. *)
PutBlock(p) ==
  /\ Ready(p) /\ writers[p].staged
  /\ disk' = [o \in Objects |->
                IF BlockOf(o) = writers[p].block THEN writers[p].image[o] ELSE disk[o]]
  /\ writers' = [writers EXCEPT ![p].staged = FALSE, ![p].block = @ + 1]
  /\ UNCHANGED <<memory, server, dumps, stopping, ended>>

(* A block with nothing dirty in it stays as it is; one with nothing in it *)
(* is deleted.                                                             *)
PassBlock(p) ==
  /\ Ready(p) /\ ~writers[p].staged
  /\ Stale(p) = {}
  /\ disk' = [o \in Objects |->
                IF InBlock(p) = {} /\ BlockOf(o) = writers[p].block THEN Missing
                ELSE disk[o]]
  /\ writers' = [writers EXCEPT ![p].block = @ + 1]
  /\ UNCHANGED <<memory, server, dumps, stopping, ended>>

(* al_store in a child: the list it has in memory is written. *)
StoreList(p) ==
  /\ p \in Running /\ writers[p].id # Nothing
  /\ store' = [store EXCEPT !.listed[writers[p].id] = writers[p].list]
  /\ writers' = [writers EXCEPT ![p].id = Nothing]
  /\ UNCHANGED <<fate, ver, disk, server, dumps, stopping, ended>>

-----------------------------------------------------------------------------
(* Dumps. *)

(***************************************************************************)
(* What the server exposes when it begins to stop: what a child will yet   *)
(* put, or delete with its block, other than it is in memory, and what is  *)
(* in a block whose flags the dump that is interrupted has cleared and     *)
(* which it has not put.                                                   *)
(***************************************************************************)
WillWrite(p, b) ==
  LET kept == {o \in BlockObjects(b) : writers[p].image[o] # Skipped}
  IN  /\ b >= writers[p].block
      /\ \/ kept = {}
         \/ kept \cap writers[p].dirty # {}
         \/ b = writers[p].block /\ writers[p].staged

Overtaken(p) ==
  {o \in Objects : fate[o] = "live" /\ WillWrite(p, BlockOf(o)) /\ writers[p].image[o] # ver[o]}

Dropped ==
  {o \in Objects : /\ Server \in Running /\ writers[Server].staged
                   /\ BlockOf(o) = writers[Server].block}

Exposed == Dropped \cup UNION {Overtaken(p) : p \in DumpChildren}

(* The server makes a dump itself, and does f afterwards. *)
DumpHere(S, f) ==
  /\ store' = AlStore(S)
  /\ writers' = With(Server, Dumper(AlStore(S)))
  /\ server' = "dumping" /\ next' = f
  /\ exposed' = IF f = "stop" THEN exposed \cup Exposed ELSE exposed

(* fork_and_dump, as far as the server gets before fork() returns, if a    *)
(* child is to do w.                                                       *)
ForkAndDump(w) ==
  /\ dumping' = TRUE
  /\ IF fork_dump
       THEN \E c \in Children \ Running :
              /\ store' = AlStore(store)
              /\ writers' = With(c, w)
              /\ forked' = c
              /\ server' = "forking"
              /\ UNCHANGED <<next, dumper, exposed>>
       ELSE /\ DumpHere(store, "resume")
            /\ dumper' = NoProcess
            /\ UNCHANGED forked
  /\ UNCHANGED <<fate, ver, disk, fork_dump, stopping, handling, ended>>

(* do_dump *)
Dump ==
  /\ server = "up"
  /\ ~dumping
  /\ ForkAndDump(Dumper(AlStore(store)))

DumpFlatfile ==
  /\ server = "up"
  /\ ~dumping /\ fork_dump
  /\ ForkAndDump(FileWriter("dump", AlStore(store)))

(* dispatch, when dump_counter has passed: SIGHUP sees to that. *)
AutoDump ==
  /\ server = "up"
  /\ InTime
  /\ ForkAndDump(Dumper(AlStore(store)))

(* fork() fails. *)
ForkFails ==
  /\ server = "up"
  /\ ~dumping /\ fork_dump
  /\ store' = AlStore(store)
  /\ dumping' = FALSE /\ dumper' = NoProcess
  /\ UNCHANGED <<fate, ver, disk, server, next, writers, forked, fork_dump, stopping,
                 handling, ended, exposed>>

(* Mutant of Forked: it is not looked whether the child is still there. *)
ForkedBlindly ==
  /\ server = "forking"
  /\ server' = "up"
  /\ dumper' = forked
  /\ forked' = NoProcess
  /\ UNCHANGED <<memory, disk, next, writers, dumping, fork_dump, stopping,
                 handling, ended, exposed>>

(* @dump/text, SIGUSR2, and @dump/flatfile without a child: of what is    *)
(* modelled they only write the list.                                     *)
SaveList ==
  /\ server = "up"
  /\ ~dumping
  /\ store' = AlStore(store)
  /\ UNCHANGED <<fate, ver, disk, server, writers, dumps, stopping, ended>>

(* fork() has returned: a child that has been reaped already is no dumper. *)
Forked ==
  /\ server = "forking"
  /\ server' = "up"
  /\ IF forked \in Running
       THEN dumper' = forked /\ UNCHANGED dumping
       ELSE dumper' = NoProcess /\ dumping' = FALSE
  /\ forked' = NoProcess
  /\ UNCHANGED <<memory, disk, next, writers, fork_dump, stopping, handling, ended, exposed>>

(* A child exits, or dies before it is done, and SIGCHLD is handled. *)
Reap(p) ==
  /\ p \in Running \ {Server}
  /\ Finished(p) \/ "kill" \in Ops
  /\ writers' = Less(p)
  /\ IF server # "down" /\ fork_dump /\ dumping /\ p = dumper
       THEN dumping' = FALSE /\ dumper' = NoProcess
       ELSE UNCHANGED <<dumping, dumper>>
  /\ UNCHANGED <<memory, disk, server, next, forked, fork_dump, stopping, handling,
                 ended, exposed>>

(* SIGINT: a live backup, by a child that writes its attribute list and    *)
(* files of its own.                                                       *)
Backup ==
  /\ server = "up"
  /\ ~dumping
  /\ \E c \in Children \ Running :
       writers' = With(c, FileWriter("backup", store))
  /\ UNCHANGED <<memory, disk, server, dumps, stopping, ended>>

(* @admin fork_dump=... *)
SwitchFork ==
  /\ server = "up"
  /\ InTime
  /\ fork_dump' = ~fork_dump
  /\ UNCHANGED <<memory, disk, server, next, writers, forked, dumping, dumper,
                 stopping, handling, ended, exposed>>

-----------------------------------------------------------------------------
(* Stopping and starting. *)

(* Mutant of Shutdown: it does not wait for a dump that is running. *)
ShutdownAnyway ==
  /\ server = "up"
  /\ fate' = Swept
  /\ DumpHere(Purged, "flag")
  /\ dumping' = TRUE
  /\ UNCHANGED <<ver, disk, forked, dumper, fork_dump, stopping, handling, ended>>

(* @shutdown: the database is checked and dumped, and the main loop told   *)
(* to end.                                                                 *)
Shutdown ==
  /\ server = "up"
  /\ ~dumping
  /\ fate' = Swept
  /\ DumpHere(Purged, "flag")
  /\ dumping' = TRUE
  /\ UNCHANGED <<ver, disk, forked, dumper, fork_dump, stopping, handling, ended>>

(* SIGQUIT *)
Quit ==
  /\ server = "up"
  /\ stopping' = TRUE
  /\ UNCHANGED <<memory, disk, server, writers, dumps, ended>>

(* Mutant of Leave: a dump that is running is taken to do for the last.    *)
LeaveToChild ==
  /\ server = "up"
  /\ stopping
  /\ IF dumping
       THEN /\ server' = "down" /\ ended' = "saved"
            /\ store' = AlStore(store)
            /\ exposed' = Exposed
            /\ UNCHANGED <<writers, next, dumping, stopping>>
       ELSE /\ DumpHere(store, "stop")
            /\ dumping' = TRUE
            /\ UNCHANGED <<stopping, ended>>
  /\ UNCHANGED <<fate, ver, disk, forked, dumper, fork_dump, handling>>

(* The main loop has ended: dump_database, whoever else dumps, and the end. *)
Leave ==
  /\ server = "up"
  /\ stopping
  /\ DumpHere(store, "stop")
  /\ dumping' = TRUE
  /\ UNCHANGED <<fate, ver, disk, forked, dumper, fork_dump, stopping, handling, ended>>

(* do_restart: the same, by a new process. *)
do_restart ==
  /\ ~dumping
  /\ fate' = Swept
  /\ DumpHere(Purged, "stop")
  /\ UNCHANGED <<ver, disk, forked, dumping, dumper, fork_dump, stopping, ended>>

(* @restart *)
Restart == server = "up" /\ do_restart /\ UNCHANGED handling

(* A signal finds the server wherever it is, but not in its own handler.   *)
Caught(signal) ==
  /\ server # "down"
  /\ signal \notin handling
  /\ handling' = handling \cup {signal}

(* SIGUSR1 *)
RestartNow == Caught("SIGUSR1") /\ do_restart

(* SIGTERM: a dump from inside the handler. *)
Terminate ==
  /\ Caught("SIGTERM")
  /\ DumpHere(store, "stop")
  /\ UNCHANGED <<fate, ver, disk, forked, dumping, dumper, fork_dump, stopping, ended>>

(* The dump the server made itself is complete. *)
EndDump ==
  /\ server = "dumping" /\ Finished(Server)
  /\ writers' = Less(Server)
  /\ server' = IF next = "stop" THEN "down" ELSE "up"
  /\ ended' = IF next = "stop" THEN "saved" ELSE ended
  /\ stopping' = (next = "flag" \/ (next = "resume" /\ stopping))
  /\ dumping' = FALSE
  /\ next' = "resume" /\ handling' = {}
  /\ UNCHANGED <<memory, disk, forked, dumper, fork_dump, exposed>>

(* The server process dies, with what it had in memory; its children do not. *)
Crash ==
  /\ server # "down"
  /\ server' = "down"
  /\ ended' = "crashed"
  /\ writers' = Less(Server)
  /\ fate' = [o \in Objects |-> "garbage"] /\ ver' = [o \in Objects |-> 0]
  /\ store' = [store EXCEPT !.dirty = {}, !.mod_al_id = Nothing, !.mod_alist = {}]
  /\ next' = "resume" /\ forked' = NoProcess
  /\ dumping' = FALSE /\ dumper' = NoProcess
  /\ stopping' = FALSE /\ handling' = {}
  /\ UNCHANGED <<disk, fork_dump, exposed>>

(* Mutant of Start: gaps are not filled with objects of their own. *)
StartUnfilled ==
  /\ server = "down"
  /\ InTime
  /\ fate' = [o \in Objects |-> IF disk[o] = Missing THEN "garbage" ELSE "live"]
  /\ ver' = disk
  /\ store' = [store EXCEPT !.dirty = {o \in Objects : disk[o] = Missing},
                            !.mod_al_id = Nothing, !.mod_alist = {}]
  /\ server' = "up"
  /\ fork_dump' \in ForkDumps
  /\ next' = "resume" /\ forked' = NoProcess
  /\ dumping' = FALSE /\ dumper' = NoProcess
  /\ stopping' = FALSE
  /\ ended' = "saved" /\ exposed' = {}
  /\ UNCHANGED <<disk, writers, handling>>

(* main: db_read, and the gaps are filled with garbage. *)
Start ==
  /\ server = "down"
  /\ InTime
  /\ fate' = [o \in Objects |-> IF disk[o] = Missing THEN "garbage" ELSE "live"]
  /\ ver' = [o \in Objects |-> IF disk[o] = Missing THEN 0 ELSE disk[o]]
  /\ store' = [store EXCEPT !.dirty = {o \in Objects : disk[o] = Missing},
                            !.mod_al_id = Nothing, !.mod_alist = {}]
  /\ server' = "up"
  /\ fork_dump' \in ForkDumps
  /\ next' = "resume" /\ forked' = NoProcess
  /\ dumping' = FALSE /\ dumper' = NoProcess
  /\ stopping' = FALSE
  /\ ended' = "saved" /\ exposed' = {}
  /\ UNCHANGED <<disk, writers, handling>>

-----------------------------------------------------------------------------
(* Objects, attributes and their lists start out as they were loaded.      *)
Init ==
  /\ fate = [o \in Objects |-> IF o \in Permanent THEN "live" ELSE "garbage"]
  /\ ver = [o \in Objects |-> 0]
  /\ disk = [o \in Objects |-> IF o \in Permanent THEN 0 ELSE Missing]
  /\ store = [stored |-> [o \in Objects |-> IF o \in Permanent THEN {Money} ELSE {}],
              listed |-> [o \in Objects |-> IF o \in Permanent THEN {Money} ELSE {}],
              mod_al_id |-> Nothing, mod_alist |-> {},
              dirty |-> Objects \ Permanent]
  /\ server = "up" /\ next = "resume"
  /\ writers = <<>>
  /\ forked = NoProcess /\ dumping = FALSE /\ dumper = NoProcess
  /\ fork_dump \in ForkDumps
  /\ stopping = FALSE /\ handling = {}
  /\ ended = "saved" /\ exposed = {}

Commands ==
  \/ \E o \in Changed : Change(o)
  \/ \E n \in Noted : SetAttr(n[1], n[2]) \/ ClearAttr(n[1], n[2])
  \/ \E o \in Objects : Create(o) \/ Destroy(o) \/ MarkGoing(o)
  \/ Check

Writing ==
  \E p \in Running : Stage(p) \/ PutBlock(p) \/ PassBlock(p) \/ StoreList(p)

Dumping ==
  \/ Dump \/ AutoDump \/ SaveList \/ Forked \/ EndDump
  \/ "flatfile" \in Ops /\ DumpFlatfile
  \/ "nofork" \in Ops /\ ForkFails
  \/ "backup" \in Ops /\ Backup
  \/ "switch" \in Ops /\ SwitchFork
  \/ \E p \in Running : Reap(p)

Stopping ==
  \/ "shutdown" \in Ops /\ Shutdown
  \/ "quit" \in Ops /\ Quit
  \/ "restart" \in Ops /\ (Restart \/ RestartNow)
  \/ "term" \in Ops /\ Terminate
  \/ "crash" \in Ops /\ Crash
  \/ Leave \/ Start

Next == Commands \/ Writing \/ Dumping \/ Stopping

Spec == Init /\ [][Next]_vars

(***************************************************************************)
(* The server and its children are scheduled, and the main loop comes to   *)
(* dispatch, which dumps when it is time, however often somebody dumps in  *)
(* between.                                                                *)
(***************************************************************************)
Steps(p) == Stage(p) \/ PutBlock(p) \/ PassBlock(p) \/ StoreList(p)

Fairness ==
  /\ \A p \in Children \cup {Server} : WF_vars(p \in Running /\ Steps(p))
  /\ \A p \in Children : WF_vars(p \in Running /\ Finished(p) /\ Reap(p))
  /\ WF_vars(Forked) /\ WF_vars(EndDump)
  /\ SF_vars(AutoDump)

FairSpec == Spec /\ Fairness

-----------------------------------------------------------------------------
(* The types of the variables. *)
TypeOK ==
  /\ fate \in [Objects -> {"live", "going", "garbage"}]
  /\ ver \in [Objects -> 0..MaxVer]
  /\ store \in [stored : [Objects -> SUBSET Attrs], listed : [Objects -> SUBSET Attrs],
                mod_al_id : Objects \cup {Nothing}, mod_alist : SUBSET Attrs,
                dirty : SUBSET Objects]
  /\ disk \in [Objects -> 0..MaxVer \cup {Missing}]
  /\ server \in {"up", "forking", "dumping", "down"}
  /\ next \in {"resume", "flag", "stop"}
  /\ Running \subseteq Children \cup {Server}
  /\ writers \in [Running -> Writer]
  /\ {forked, dumper} \subseteq Children \cup {NoProcess}
  /\ dumping \in BOOLEAN /\ fork_dump \in BOOLEAN /\ stopping \in BOOLEAN
  /\ handling \subseteq {"SIGUSR1", "SIGTERM"}
  /\ ended \in {"saved", "crashed"} /\ exposed \subseteq Objects

(***************************************************************************)
(* Between two dumps of its own, what the server takes for saved is saved: *)
(* a structure without the DIRTY flag is in the database as it is in       *)
(* memory, so that db_write may leave the block alone.                     *)
(***************************************************************************)
SavedOrDirty ==
  server \in {"up", "forking"} =>
    \A o \in Objects \ store.dirty : fate[o] = "live" => disk[o] = ver[o]

(***************************************************************************)
(* After @shutdown, @restart, SIGQUIT, SIGTERM or SIGUSR1 the database     *)
(* holds every object as it was last in memory, whatever a child still     *)
(* writes and wherever a signal finds the server, but for what the stop    *)
(* itself exposed: what has changed since a child was forked that yet has  *)
(* to put its block, and the one block a dump of the server's own was at.  *)
(* bsd_signals.c:101 calls it a full dump, which for these it is not.      *)
(***************************************************************************)
StoppedIsSaved ==
  server = "down" /\ ended = "saved" =>
    \A o \in Objects \ exposed : fate[o] = "live" => disk[o] = ver[o]

(***************************************************************************)
(* mushstate.dumping says whether a dump is running, also when the child   *)
(* is faster than fork() or dies early: commands that ask to try again     *)
(* later would otherwise be refused for ever, or let in too early.         *)
(***************************************************************************)
DumpingIsTrue == server = "up" => (dumping <=> DumpChildren # {})

(***************************************************************************)
(* The types, and a flag that tells the truth (bsd_signals.c: sighandler;  *)
(* game.c: fork_and_dump).                                                 *)
(***************************************************************************)
DumpsInv == TypeOK /\ DumpingIsTrue

(***************************************************************************)
(* The list of an object names its attributes; nothing but a crash, and    *)
(* the child of a live backup when it writes the list it has a copy of,    *)
(* make the two differ.  An attribute no list names stays in the database  *)
(* when the object is destroyed, for the next object of that number.       *)
(***************************************************************************)
OnlyLostListsOrphan ==
  [][\A o \in Objects :
       /\ store.stored[o] = ListOf(store, o)
       /\ store'.stored[o] # ListOf(store', o)
       => \/ server' = "down" /\ ended' = "crashed"
          \/ \E p \in Running \cap DOMAIN writers' : writers'[p].id # writers[p].id]_vars

(***************************************************************************)
(* No dump, of a child or of the server, puts a structure back to what it  *)
(* was before another dump, if a dump is over before the next one is due   *)
(* (Patient); a child that goes on while the server stops puts back what   *)
(* the stop exposed and nothing else.                                      *)
(***************************************************************************)
DiskNeverGoesBack ==
  [][\A o \in Objects \ exposed :
       disk[o] # Missing /\ disk'[o] # Missing => disk[o] <= disk'[o]]_vars

(***************************************************************************)
(* A change gets into the database, unless the object or the server is     *)
(* gone before, as long as not every child dies while it writes.           *)
(***************************************************************************)
Dies(p) == p \notin DOMAIN writers' /\ ~Finished(p)
ChangesReachDisk ==
  <>[][\A p \in Running : ~Dies(p)]_vars =>
    \A o \in Changed, v \in 1..MaxVer :
      server = "up" /\ fate[o] = "live" /\ ver[o] >= v
        ~> disk[o] >= v \/ fate[o] # "live" \/ server = "down"
=============================================================================
