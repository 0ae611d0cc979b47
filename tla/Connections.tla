---------------------------- MODULE Connections ----------------------------
(***************************************************************************)
(* The main loop of the server (bsd_main_event_loop) and its clients.      *)
(* Each turn runs commands typed (process_commands), looks at the clock    *)
(* (dispatch), asks the system which sockets are ready (select), runs      *)
(* queued commands (cque_do_top), takes an answer of the resolver's thread *)
(* and a new connection, and then reads from and writes to the sockets     *)
(* that were ready when it asked.                                          *)
(*                                                                         *)
(* Clients act when the server is about to look at their sockets: what they *)
(* do at other times it does not notice before, but for a line that comes  *)
(* while it reads (Send).                                                  *)
(***************************************************************************)
EXTENDS Descriptors

CONSTANTS
  Typed,       (* the lines clients send                                   *)
  Ordered,     (* the commands queued entries run                          *)
  Banned,      (* sites that are forbidden                                 *)
  Named,       (* sites whose name the resolver finds                      *)
  Start        (* what the server may start with                           *)

CONSTANTS MaxOpens, MaxTyped  (* bounds: clients that come, lines they send *)

ASSUME ConnectionsAssumption ==
  /\ Typed \cup Ordered \subseteq Lines
  /\ Banned \cup Named \subseteq Sites
  /\ \A s \in Start : s \in Net /\ Agree(s)
  /\ {MaxOpens, MaxTyped} \subseteq Nat

VARIABLES
  net,         (* the connections and what belongs to them                 *)
  pc,          (* where in its turn the loop is                            *)
  at, next,    (* the descriptor it is at and the one it goes on with      *)
  busy,        (* nprocessed > 0                                           *)
  bits,        (* what select has found                                    *)
  wire,        (* what is on its way from a client, and whether it has left *)
  waiting,     (* clients not accepted yet                                 *)
  dns,         (* the resolver's requests and answers                      *)
  opens, typed (* clients that have come and lines sent                    *)

loop == <<pc, at, next, busy, bits>>
arrivals == <<waiting, opens, typed>>
clients == <<wire, arrivals>>
vars == <<net, loop, clients, dns>>

NoSocket == 0
Silence == [lines |-> <<>>, gone |-> FALSE]
NoBits == [input |-> {}, output |-> {}, listen |-> FALSE, found |-> FALSE]
Stations == {"quotas", "commands", "dispatch", "select", "queue", "accept", "serve"}

TypeOK ==
  /\ net \in Net
  /\ pc \in Stations
  /\ {at, next} \subseteq Sockets \cup {NoSocket}
  /\ busy \in BOOLEAN
  /\ bits \in [input : SUBSET Sockets, output : SUBSET Sockets,
               listen : BOOLEAN, found : BOOLEAN]
  /\ wire \in [Sockets -> [lines : Seq(Lines), gone : BOOLEAN]]
  /\ dns \in [asked : Seq(Sites), answered : Seq(Sites)]
  /\ {waiting, opens} \subseteq 0..MaxOpens /\ typed \in 0..MaxTyped

Init ==
  /\ net \in Start
  /\ pc = "quotas" /\ at = NoSocket /\ next = NoSocket /\ busy = FALSE
  /\ bits = NoBits
  /\ wire = [f \in Sockets |-> Silence]
  /\ dns = [asked |-> <<>>, answered |-> <<>>]
  /\ waiting = 0 /\ opens = 0 /\ typed = 0

First(s) == IF s.list = <<>> THEN NoSocket ELSE Head(s.list)
Position(s, f) == CHOOSE i \in DOMAIN s.list : s.list[i] = f
After(s, f) ==
  IF f = NoSocket THEN NoSocket
  ELSE IF Position(s, f) = Len(s.list) THEN NoSocket ELSE s.list[Position(s, f) + 1]

(* A loop over the descriptors from f on comes to the next one it has work *)
(* for.  Where f has been freed the loop still reads it: its memory shows  *)
(* no input, and may name any other as the next, or none.                  *)
Reached(s, f, work) ==
  IF f = NoSocket THEN {NoSocket}
  ELSE IF ~s.conn[f].open THEN (Range(s.list) \cap work) \cup {NoSocket}
  ELSE LET left == {i \in Position(s, f)..Len(s.list) : s.list[i] \in work}
       IN {IF left = {} THEN NoSocket ELSE s.list[Min(left)]}

(* It begins with the first, saves the one after each, and goes on there.  *)
MoveTo(s, f, work) ==
  \E g \in Reached(s, f, work) : at' = g /\ next' = After(s, g)
Begin(s, place, work) == pc' = place /\ MoveTo(s, First(s), work)
GoOn(s, work) == UNCHANGED pc /\ MoveTo(s, next, work)
Leave(place) == pc' = place /\ at' = NoSocket /\ next' = NoSocket

(* The server's data is s now.  Nothing is on its way to closed sockets.   *)
Becomes(s) ==
  /\ net' = s
  /\ wire' = [f \in Sockets |-> IF net'.conn[f].open THEN wire[f] ELSE Silence]
----------------------------------------------------------------------------
(***************************************************************************)
(* Commands typed.                                                         *)
(***************************************************************************)
Commanding(s) == {f \in Sockets : s.conn[f].quota > 0 /\ s.conn[f].input # <<>>}

(* Mutants of UpdateQuotas: no limit, and none for who has used it up.      *)
UpdateQuotasUnlimited(slice) ==
  /\ pc = "quotas"
  /\ LET more(c) == IF c.open /\ slice THEN [c EXCEPT !.quota = @ + 1] ELSE c
     IN Becomes([net EXCEPT !.conn = [f \in Sockets |-> more(net.conn[f])]])
  /\ Begin(net', "commands", Commanding(net'))
  /\ UNCHANGED <<busy, bits, arrivals, dns>>
UpdateQuotasLeft(slice) ==
  /\ pc = "quotas"
  /\ LET more(c) == IF c.quota > 0 /\ slice /\ c.quota < QuotaMax
                    THEN [c EXCEPT !.quota = @ + 1] ELSE c
     IN Becomes([net EXCEPT !.conn = [f \in Sockets |-> more(net.conn[f])]])
  /\ Begin(net', "commands", Commanding(net'))
  /\ UNCHANGED <<busy, bits, arrivals, dns>>

(* update_quotas, when a time slice is over (slice) or not.                *)
UpdateQuotas(slice) ==
  /\ pc = "quotas"
  /\ LET more(c) == IF c.open /\ slice /\ c.quota < QuotaMax
                    THEN [c EXCEPT !.quota = @ + 1] ELSE c
     IN Becomes([net EXCEPT !.conn = [f \in Sockets |-> more(net.conn[f])]])
  /\ Begin(net', "commands", Commanding(net'))
  /\ UNCHANGED <<busy, bits, arrivals, dns>>

Line == Head(net.conn[at].input)

(* The line at hand is taken from its queue; it is not yet run.            *)
Taken ==
  [net EXCEPT !.conn[at].input = Tail(@), !.conn[at].quota = @ - 1,
              !.conn[at].age = IF Line.verb = "IDLE" \/ net.conn[at].player = Nobody
                               THEN @ ELSE 0]
Ran(s, f, l) ==
  IF l.verb = "IDLE" THEN s
  ELSE IF s.conn[f].program # 0 THEN handle_prog(s, f, l)
  ELSE IF l.piped THEN s
  ELSE do_command(s, f, l)

(* The restart is asked for.                                               *)
Restarts ==
  /\ net.conn[at].player = God /\ Line.verb = "@restart"
  /\ Line.piped <=> net.conn[at].program # 0

Command ==
  /\ pc = "commands" /\ at # NoSocket /\ ~Restarts
  /\ Becomes(Ran(Taken, at, Line))
  /\ GoOn(net', Commanding(net'))
  /\ busy' = TRUE
  /\ UNCHANGED <<bits, arrivals, dns>>

(* The program is replaced by a new one, which starts its loop.            *)
Restart ==
  /\ pc = "commands" /\ at # NoSocket /\ Restarts
  /\ Becomes(Restarted(Taken))
  /\ Leave("quotas")
  /\ busy' = FALSE
  /\ dns' = [asked |-> <<>>, answered |-> <<>>]
  /\ UNCHANGED <<bits, arrivals>>

(* Another pass over the list, until one has run nothing.                  *)
EndPass ==
  /\ pc = "commands" /\ at = NoSocket
  /\ IF busy THEN Begin(net, "commands", Commanding(net)) ELSE Leave("dispatch")
  /\ busy' = FALSE
  /\ UNCHANGED <<net, bits, clients, dns>>
----------------------------------------------------------------------------
(***************************************************************************)
(* The clock and select.                                                   *)
(***************************************************************************)
Older(c) == IF c.open /\ c.age <= Timeout THEN [c EXCEPT !.age = @ + 1] ELSE c

(* dispatch, when idle_interval is over (due) or not.                      *)
Dispatch(due) ==
  /\ pc = "dispatch"
  /\ Becomes(IF due
             THEN check_idle([net EXCEPT !.conn = [f \in Sockets |-> Older(net.conn[f])]])
             ELSE net)
  /\ pc' = "select"
  /\ UNCHANGED <<at, next, busy, bits, arrivals, dns>>

Readable(f) == net.conn[f].open /\ (wire[f].lines # <<>> \/ wire[f].gone)

(* A socket is watched for input only when none is left over, the listening *)
(* one only when a descriptor is free.  Those whose client has left are    *)
(* found with something to write or not; that others can be written to     *)
(* matters only to answers of the resolver (other).  An interruption by    *)
(* the alarm is a turn that finds nothing and runs nothing queued.         *)
Select ==
  /\ pc = "select"
  /\ \E output \in SUBSET {f \in Sockets : net.conn[f].open /\ wire[f].gone},
        other \in {FALSE, dns.answered # <<>>} :
       LET input == {f \in Sockets : Readable(f) /\ net.conn[f].input = <<>>}
           listen == waiting > 0 /\ Len(net.list) < Cardinality(Sockets)
       IN bits' = [input |-> input, output |-> output, listen |-> listen,
                   found |-> input # {} \/ output # {} \/ listen \/ other]
  /\ pc' = "queue"
  /\ UNCHANGED <<net, at, next, busy, clients, dns>>

(* cque_do_top: a command of a player whose attribute was queued.          *)
RunQueued ==
  /\ pc = "queue" /\ net.queue # <<>>
  /\ LET p == Head(net.queue).player
         popped == [net EXCEPT !.queue = Tail(@)]
     IN IF p \notin net.exists THEN Becomes(popped)
        ELSE \E l \in Ordered : Becomes(process_command(popped, p, l))
  /\ UNCHANGED <<loop, arrivals, dns>>

QueueDone ==
  /\ pc = "queue"
  /\ Leave(IF bits.found THEN "accept" ELSE "quotas")
  /\ bits' = IF bits.found THEN bits ELSE NoBits
  /\ UNCHANGED <<net, busy, clients, dns>>
----------------------------------------------------------------------------
(***************************************************************************)
(* The resolver, new connections, input and output.                        *)
(***************************************************************************)
(* An answer goes to every connection with its address.  Where the address *)
(* is in letters inet_pton writes nothing, and what was there before is    *)
(* compared: what the last address read was, or anything at first.         *)
Answer(s, site, junk) ==
  LET unnamed(k) == {j \in 1..k : s.conn[s.list[j]].name = 0}
      read(k) == IF unnamed(k) = {} THEN junk ELSE s.conn[s.list[Max(unnamed(k))]].site
      given == {s.list[k] : k \in {i \in DOMAIN s.list : read(i) = site}}
  IN [s EXCEPT !.conn = [f \in Sockets |->
        IF f \in given THEN [s.conn[f] EXCEPT !.name = site] ELSE s.conn[f]]]

Answered ==
  IF dns.answered = <<>> THEN {net}
  ELSE {Answer(net, Head(dns.answered), junk) : junk \in Sites \cup {0}}

LaterAnswers == IF dns.answered = <<>> THEN <<>> ELSE Tail(dns.answered)

(* One answer is taken, if there is one, and one client accepted, who gets *)
(* the lowest descriptor that is free (bsd_conn_new).                      *)
Accept ==
  /\ pc = "accept"
  /\ \E s \in Answered :
       IF ~bits.listen
       THEN /\ Becomes(s) /\ Begin(net', "serve", bits.input \cup bits.output)
            /\ dns' = [dns EXCEPT !.answered = LaterAnswers]
            /\ UNCHANGED waiting
       ELSE \E site \in Sites :
              LET f == Min({g \in Sockets : ~s.conn[g].open})
                  t == IF site \in Banned THEN s ELSE Initialize(s, f, site)
                  asked == IF site \in Banned THEN <<>> ELSE <<site>>
              IN /\ Becomes(t) /\ Begin(net', "serve", bits.input \cup bits.output)
                 /\ dns' = [asked |-> dns.asked \o asked, answered |-> LaterAnswers]
                 /\ waiting' = waiting - 1
  /\ UNCHANGED <<busy, bits, opens, typed>>

(* A socket is read if it was readable when select looked, whoever has it  *)
(* now.  The end of its input, or nothing to read, closes it; so does      *)
(* output that fails.                                                      *)
Serve ==
  /\ pc = "serve" /\ at # NoSocket
  /\ LET read == at \in bits.input
         undark == IF ~read \/ ~net.conn[at].autodark THEN net
                   ELSE [net EXCEPT !.conn[at].autodark = FALSE,
                                    !.dark = @ \ {net.conn[at].player}]
         input == [undark EXCEPT !.conn[at].input = @ \o wire[at].lines]
         fails == at \in bits.output /\ wire[at].gone
         s == IF read /\ wire[at].lines = <<>> THEN Shutdown(undark, at, "sockdied")
              ELSE IF fails THEN Shutdown(IF read THEN input ELSE undark, at, "sockdied")
              ELSE IF read THEN input ELSE undark
     IN /\ net' = s
        /\ wire' = [wire EXCEPT ![at] = IF ~net'.conn[at].open THEN Silence
                                        ELSE IF read THEN [@ EXCEPT !.lines = <<>>] ELSE @]
        /\ GoOn(net', bits.input \cup bits.output)
  /\ UNCHANGED <<busy, bits, arrivals, dns>>

Served ==
  /\ pc = "serve" /\ at = NoSocket
  /\ Leave("quotas")
  /\ bits' = NoBits
  /\ UNCHANGED <<net, busy, clients, dns>>

(* The resolver's thread answers where there is a name.                    *)
Resolve ==
  /\ pc = "select" /\ dns.asked # <<>>
  /\ dns' = [asked |-> Tail(dns.asked),
             answered |-> dns.answered \o
                          (IF Head(dns.asked) \in Named THEN <<Head(dns.asked)>> ELSE <<>>)]
  /\ UNCHANGED <<net, loop, clients>>
----------------------------------------------------------------------------
Come ==
  /\ pc = "select" /\ opens < MaxOpens
  /\ opens' = opens + 1 /\ waiting' = waiting + 1
  /\ UNCHANGED <<net, loop, wire, typed, dns>>

(* While the server reads, a line makes a difference where it expects one  *)
(* and there is none: where the descriptor is another connection's now.    *)
Send(f, l) ==
  /\ \/ pc = "select"
     \/ pc = "serve" /\ f \in bits.input /\ wire[f].lines = <<>>
  /\ typed < MaxTyped
  /\ net.conn[f].open /\ ~wire[f].gone
  /\ wire' = [wire EXCEPT ![f].lines = Append(@, l)]
  /\ typed' = typed + 1
  /\ UNCHANGED <<net, loop, waiting, opens, dns>>

HangUp(f) ==
  /\ pc = "select"
  /\ net.conn[f].open /\ ~wire[f].gone
  /\ wire' = [wire EXCEPT ![f].gone = TRUE]
  /\ UNCHANGED <<net, loop, arrivals, dns>>

Turn ==
  \/ Command \/ Restart \/ EndPass
  \/ Select \/ RunQueued \/ QueueDone
  \/ Accept \/ Serve \/ Served
Server == Turn \/ \E b \in BOOLEAN : UpdateQuotas(b) \/ Dispatch(b)
Clients == Come \/ \E f \in Sockets : HangUp(f) \/ \E l \in Typed : Send(f, l)
Next == Server \/ Clients \/ Resolve

(* The server goes on; time slices and idle intervals come to their end.   *)
Fairness ==
  /\ WF_vars(Server)
  /\ SF_vars(UpdateQuotas(TRUE))
  /\ SF_vars(Dispatch(TRUE))
Spec == Init /\ [][Next]_vars /\ Fairness
----------------------------------------------------------------------------
(* The loop is at a descriptor that is open and has work for it, whatever *)
(* the commands it has run have closed; and a client is accepted only where *)
(* one waits and a descriptor is free for it (process_commands, bsd_main_   *)
(* event_loop, bsd_conn_new).                                              *)
LoopHasWork ==
  /\ pc = "commands" /\ at # NoSocket => at \in Commanding(net)
  /\ pc = "serve" /\ at # NoSocket => net.conn[at].open
  /\ pc \in {"queue", "accept"} /\ bits.listen =>
       waiting > 0 /\ \E f \in Sockets : ~net.conn[f].open
  /\ waiting <= opens

(* The invariant: types; the list, chains and programs agree (desc_addhash, *)
(* _bsd_conn_shutdown, do_prog, do_restart); and the loop is where there is *)
(* work (process_commands).                                                *)
ConnectionsInv == TypeOK /\ Agree(net) /\ LoopHasWork

(* What a client sends is read, and run or dropped with its connection,    *)
(* however many lines it sends at once: quotas come back, and input left   *)
(* over is run before more is read (process_commands, update_quotas).      *)
Pending(f) == wire[f].lines # <<>> \/ net.conn[f].input # <<>>
LinesAreTaken == \A f \in Sockets : []<>~Pending(f)

(* Who types nothing more, the wizard excepted, does not stay: neither at  *)
(* the login screen nor connected (check_idle; bound: MaxTyped).           *)
Stays(f) == net.conn[f].open /\ net.conn[f].player # God
IdleLeave == \A f \in Sockets : []<>~Stays(f)
=============================================================================
