--------------------------- MODULE ConnectionsProofs ---------------------------
(***************************************************************************)
(* Theorems about Connections, for any number of sockets, players, sites   *)
(* and guests: what the server keeps twice of connections always agrees,   *)
(* and its loop never works for a connection that is gone.  Each function  *)
(* of Descriptors is shown to keep the data in agreement; those that leave *)
(* the parts that have to agree alone need no more than their types.       *)
(***************************************************************************)
EXTENDS Connections, OperatorLemmas

-----------------------------------------------------------------------------
(***************************************************************************)
(* Lists.                                                                  *)
(***************************************************************************)
LEMMA EmptyRange ==
  ASSUME NEW T, NEW q \in Seq(T)
  PROVE  q = <<>> <=> Range(q) = {}
<1>1. Len(q) \in Nat /\ DOMAIN q = 1..Len(q) /\ (q = <<>> <=> Len(q) = 0)
  BY EmptySeq
<1>2. Range(q) = {} <=> 1..Len(q) = {}
  BY <1>1 DEF Range
<1>3. 1..Len(q) = {} <=> Len(q) = 0
  <2>1. Len(q) # 0 => 1 \in 1..Len(q)
    BY <1>1
  <2>2. Len(q) = 0 => 1..Len(q) = {}
    OBVIOUS
  <2> QED
    BY <2>1, <2>2
<1> QED
  BY <1>1, <1>2, <1>3

LEMMA InFront ==
  ASSUME NEW T, NEW q \in Seq(T), NEW x \in T
  PROVE  /\ <<x>> \o q \in Seq(T) /\ <<x>> \o q # <<>>
         /\ Range(<<x>> \o q) = {x} \cup Range(q)
         /\ IsInjective(q) /\ x \notin Range(q) => IsInjective(<<x>> \o q)
<1>1. <<x>> \in Seq(T) /\ Range(<<x>>) = {x} /\ IsInjective(<<x>>)
  <2>1. <<x>> \in Seq(T) /\ DOMAIN <<x>> = {1} /\ <<x>>[1] = x
    OBVIOUS
  <2> QED
    BY <2>1 DEF Range, IsInjective
<1>2. /\ <<x>> \o q \in Seq(T)
      /\ Range(<<x>> \o q) = {x} \cup Range(q)
      /\ IsInjective(q) /\ x \notin Range(q) => IsInjective(<<x>> \o q)
  <2> DEFINE one == <<x>>
  <2>1. one \in Seq(T) /\ Range(one) = {x} /\ IsInjective(one)
    BY <1>1
  <2>2. x \notin Range(q) => {x} \cap Range(q) = {}
    OBVIOUS
  <2> HIDE DEF one
  <2>3. /\ one \o q \in Seq(T)
        /\ Range(one \o q) = {x} \cup Range(q)
        /\ IsInjective(q) /\ {x} \cap Range(q) = {} => IsInjective(one \o q)
    BY <2>1, ConcatRange
  <2> QED
    BY <2>2, <2>3 DEF one
<1>3. <<x>> \o q # <<>>
  BY <1>2, EmptyRange
<1> QED
  BY <1>2, <1>3

(* One is the last of a list that holds it once.                           *)
LEMMA LastOne ==
  ASSUME NEW T, NEW q \in Seq(T), IsInjective(q), NEW x \in Range(q)
  PROVE  Len(q) < 2 <=> Without(q, {x}) = <<>>
<1>1. Len(q) \in Nat /\ DOMAIN q = 1..Len(q) /\ Range(q) = {q[i] : i \in 1..Len(q)}
  BY DEF Range
<1>2. Without(q, {x}) = <<>> <=> Range(q) \ {x} = {}
  BY WithoutProperties, EmptyRange
<1>3. PICK i \in 1..Len(q) : x = q[i]
  BY <1>1
<1>4. ASSUME Len(q) < 2 PROVE Range(q) \ {x} = {}
  <2>1. \A j \in 1..Len(q) : j = i
    BY <1>1, <1>4
  <2> QED
    BY <1>1, <1>3, <2>1
<1>5. ASSUME ~(Len(q) < 2) PROVE Range(q) \ {x} # {}
  <2>1. PICK j \in 1..Len(q) : j # i
    <3>1. 1 \in 1..Len(q) /\ 2 \in 1..Len(q) /\ 1 # 2
      BY <1>1, <1>5
    <3> QED
      BY <3>1
  <2>2. q[j] # x /\ q[j] \in Range(q)
    BY <1>1, <1>3, <2>1 DEF IsInjective
  <2> QED
    BY <2>2
<1> QED
  BY <1>2, <1>4, <1>5

LEMMA Backwards ==
  ASSUME NEW T, NEW q \in Seq(T)
  PROVE  /\ Reverse(q) \in Seq(T)
         /\ Range(Reverse(q)) = Range(q)
         /\ IsInjective(q) => IsInjective(Reverse(q))
<1> DEFINE n == Len(q)
           r == [i \in 1..n |-> q[(n - i) + 1]]
<1>1. n \in Nat /\ DOMAIN q = 1..n /\ Reverse(q) = r
  BY DEF Reverse
<1>2. \A i \in 1..n : (n - i) + 1 \in 1..n /\ (n - ((n - i) + 1)) + 1 = i
  BY <1>1
<1>3. DOMAIN r = 1..n /\ \A i \in 1..n : r[i] = q[(n - i) + 1]
  OBVIOUS
<1>4. r \in Seq(T)
  BY <1>1, <1>2
<1> HIDE DEF r, n
<1>5. Range(r) = Range(q)
  <2>1. \A i \in 1..n : r[i] \in Range(q) /\ q[i] \in Range(r)
    <3>1. \A i \in 1..n : r[i] = q[(n - i) + 1] /\ q[i] = r[(n - i) + 1]
      BY <1>2, <1>3
    <3> QED
      BY <1>1, <1>2, <1>3, <3>1 DEF Range
  <2> QED
    BY <1>1, <1>3, <2>1 DEF Range
<1>6. IsInjective(q) => IsInjective(r)
  <2> SUFFICES ASSUME IsInjective(q), NEW i \in 1..n, NEW j \in 1..n, r[i] = r[j]
               PROVE  i = j
    BY <1>3 DEF IsInjective
  <2>1. (n - i) + 1 = (n - j) + 1
    BY <1>1, <1>2, <1>3 DEF IsInjective
  <2> QED
    BY <1>1, <2>1
<1> QED
  BY <1>1, <1>4, <1>5, <1>6

LEMMA MinIsIn ==
  ASSUME NEW S \in SUBSET Nat, S # {}
  PROVE  Min(S) \in S
<1>1. \E n \in S : \A k \in S : n <= k
  BY LeastNumber
<1> QED
  BY <1>1 DEF Min

-----------------------------------------------------------------------------
(***************************************************************************)
(* What the functions of Descriptors are to establish.                     *)
(***************************************************************************)
Sound(s) == s \in Net /\ Agree(s)

(* No connection is opened between s and t. *)
NoneOpened(s, t) == \A f \in Sockets : t.conn[f].open => s.conn[f].open

Yields(s, t) == Sound(t) /\ NoneOpened(s, t)

(* The connection f is its player's no more; the others are left alone.    *)
Departs(s, t, f) ==
  /\ Yields(s, t)
  /\ t.exists = s.exists /\ t.conn[f].player = Nobody
  /\ \A g \in Sockets \ {f} : t.conn[g] = s.conn[g]

(* Nothing that has to agree changes, but that there may be more players.  *)
Calm(s, t) ==
  /\ t \in Net
  /\ t.list = s.list /\ t.hash = s.hash /\ t.connected = s.connected
  /\ t.programs = s.programs /\ t.progcmd = s.progcmd
  /\ s.exists \subseteq t.exists
  /\ \A f \in Sockets :
       /\ t.conn[f].open = s.conn[f].open
       /\ t.conn[f].player = s.conn[f].player
       /\ t.conn[f].program = s.conn[f].program
       /\ ~s.conn[f].open => t.conn[f].input = s.conn[f].input

LEMMA CalmYields ==
  ASSUME NEW s, Sound(s), NEW t, Calm(s, t)
  PROVE  Yields(s, t)
<1> USE DEF Sound, Calm
<1>1. ListAgrees(t)
  BY DEF Agree, ListAgrees
<1>2. ChainsAgree(t)
  <2>1. \A p \in Players : {f \in Sockets : t.conn[f].player = p} = {f \in Sockets : s.conn[f].player = p}
    OBVIOUS
  <2> QED
    BY <2>1 DEF Agree, ChainsAgree
<1>3. ProgramsShared(t)
  <2>1. {t.conn[f].program : f \in Sockets} = {s.conn[f].program : f \in Sockets}
    OBVIOUS
  <2> QED
    BY <2>1 DEF Agree, ProgramsShared
<1> QED
  BY <1>1, <1>2, <1>3 DEF Agree, Yields, NoneOpened

LEMMA YieldsOn ==
  ASSUME NEW s, NEW t, NEW u, Yields(s, t), Yields(t, u)
  PROVE  Yields(s, u)
BY DEF Yields, NoneOpened

LEMMA StaysSound == \A s : Sound(s) => Yields(s, s)
BY DEF Yields, NoneOpened

(* The types of the parts of a net.                                        *)
LEMMA Parts ==
  ASSUME NEW s \in Net
  PROVE  /\ s.list \in Seq(Sockets) /\ s.conn \in [Sockets -> Connection]
         /\ s.hash \in [Players -> Seq(Sockets)] /\ s.connected \in SUBSET Players
         /\ s.dark \in SUBSET Players /\ s.exists \in SUBSET Players
         /\ s.logins \in BOOLEAN /\ s.programs \in SUBSET (1..Cardinality(Players))
         /\ s.progcmd \in SUBSET Players
         /\ s.queue \in Seq([what : {"connect", "disconnect", "program"}, player : Players])
BY DEF Net

LEMMA Fields ==
  ASSUME NEW c \in Connection
  PROVE  /\ c.open \in BOOLEAN /\ c.player \in Players \cup {Nobody} /\ c.retries \in 0..RetryLimit
         /\ c.quota \in 0..QuotaMax /\ c.input \in Seq(Lines) /\ c.age \in 0..Timeout + 1
         /\ c.program \in 0..Cardinality(Players) /\ c.autodark \in BOOLEAN
         /\ c.site \in Sites \cup {0} /\ c.name \in Sites \cup {0}
BY DEF Connection

LEMMA ClosedFields ==
  /\ Closed \in Connection
  /\ ~Closed.open /\ Closed.player = Nobody /\ Closed.program = 0 /\ Closed.input = <<>>
<1>1. Cardinality(Players) \in Nat
  BY DescriptorsAssumption, FS_CardinalityType
<1> QED
  BY <1>1, DescriptorsAssumption DEF Closed, Connection, Nobody

(* Somebody's connection has a player, nobody's program is none.           *)
LEMMA NobodyIsNone ==
  /\ Nobody \notin Players
  /\ \A s : Sound(s) =>
       \A f \in Sockets : s.conn[f].player = Nobody => s.conn[f].program = 0
<1>1. Nobody \notin Players
  BY DescriptorsAssumption DEF Nobody
<1> QED
  BY <1>1, Parts DEF Sound, Agree, ProgramsShared

-----------------------------------------------------------------------------
(***************************************************************************)
(* Shutting down.                                                          *)
(***************************************************************************)
LEMMA QueueTyped ==
  ASSUME NEW s \in Net, NEW p \in Players, NEW what \in {"connect", "disconnect", "program"}
  PROVE  announce_connattr(s.queue, p, what)
           \in Seq([what : {"connect", "disconnect", "program"}, player : Players])
<1> DEFINE entry == [what |-> what, player |-> p]
           E == [what : {"connect", "disconnect", "program"}, player : Players]
<1>1. entry \in E /\ s.queue \in Seq(E)
  BY Parts
<1> HIDE DEF entry, E
<1>2. Append(s.queue, entry) \in Seq(E)
  BY <1>1
<1> QED
  BY <1>1, <1>2 DEF announce_connattr, entry, E

(* The connection f of player p has left the chain, in t.                  *)
Unchained(s, t, f, p) ==
  LET rest == Without(s.hash[p], {f}) IN
  /\ t \in Net
  /\ t.list = s.list /\ t.exists = s.exists
  /\ t.programs = s.programs /\ t.progcmd = s.progcmd
  /\ t.hash = [s.hash EXCEPT ![p] = rest]
  /\ t.connected = IF rest = <<>> THEN s.connected \ {p} ELSE s.connected
  /\ \A g \in Sockets \ {f} : t.conn[g] = s.conn[g]
  /\ t.conn[f].open = s.conn[f].open /\ t.conn[f].player = p
  /\ t.conn[f].program = s.conn[f].program

LEMMA DisconnectUnchains ==
  ASSUME NEW s, Sound(s), NEW f \in Sockets, IsConnected(s, f)
  PROVE  Unchained(s, announce_disconnect(s, f), f, s.conn[f].player)
<1> DEFINE p == s.conn[f].player
           rest == Without(s.hash[p], {f})
           last == Len(s.hash[p]) < 2
           queue == announce_connattr(s.queue, p, "disconnect")
           hash == [s.hash EXCEPT ![p] = rest]
           conn == [s.conn EXCEPT ![f] = [@ EXCEPT !.autodark = FALSE]]
           connected == s.connected \ {p}
           dark == (IF s.conn[f].autodark THEN s.dark \ {p} ELSE s.dark)
                     \cup ({p} \cap Range(Guests))
           t == announce_disconnect(s, f)
<1>1. s \in Net /\ p \in Players /\ s.conn[f] \in Connection
  BY Fields, Parts DEF Sound, IsConnected
<1>2. last <=> rest = <<>>
  <2>1. s.hash[p] \in Seq(Sockets) /\ IsInjective(s.hash[p]) /\ f \in Range(s.hash[p])
    BY <1>1, Parts DEF Sound, Agree, ChainsAgree
  <2> QED
    BY <2>1, LastOne
<1>3. rest \in Seq(Sockets)
  BY <1>1, Parts, WithoutProperties
<1>4. hash \in [Players -> Seq(Sockets)]
  BY <1>1, <1>3, Parts
<1>5. /\ conn \in [Sockets -> Connection]
      /\ \A g \in Sockets \ {f} : conn[g] = s.conn[g]
      /\ conn[f].open = s.conn[f].open /\ conn[f].player = p /\ conn[f].program = s.conn[f].program
  <2> DEFINE c == [s.conn[f] EXCEPT !.autodark = FALSE]
  <2>1. /\ c \in Connection /\ c.open = s.conn[f].open /\ c.player = p
        /\ c.program = s.conn[f].program
    BY <1>1 DEF Connection
  <2>2. conn = [s.conn EXCEPT ![f] = c]
    OBVIOUS
  <2> HIDE DEF c, conn, p
  <2> QED
    BY <1>1, <2>1, <2>2, Parts
<1>6. queue \in Seq([what : {"connect", "disconnect", "program"}, player : Players])
  BY <1>1, QueueTyped
<1>7. connected \in SUBSET Players /\ dark \in SUBSET Players
  BY <1>1, Parts
<1>8. t = IF ~last THEN [s EXCEPT !.hash = hash, !.queue = queue]
          ELSE [s EXCEPT !.hash = hash, !.queue = queue, !.connected = connected,
                         !.conn = conn, !.dark = dark]
  <2>1. desc_delhash(s, f) = [s EXCEPT !.hash = hash]
    BY <1>1 DEF desc_delhash, Net
  <2> QED
    BY <1>1, <2>1 DEF announce_disconnect, Net
<1> HIDE DEF hash, queue, connected, conn, dark, t, rest, p, last
<1>9. CASE ~last
  <2>1. t = [s EXCEPT !.hash = hash, !.queue = queue]
    BY <1>8, <1>9
  <2>2. t \in Net
    BY <1>1, <1>4, <1>6, <2>1 DEF Net
  <2>3. /\ t.list = s.list /\ t.exists = s.exists /\ t.conn = s.conn
        /\ t.programs = s.programs /\ t.progcmd = s.progcmd
        /\ t.hash = hash /\ t.connected = s.connected
    BY <1>1, <2>1 DEF Net
  <2> QED
    BY <1>2, <1>9, <2>2, <2>3 DEF Unchained, hash, rest, p, t
<1>10. CASE last
  <2>1. t = [s EXCEPT !.hash = hash, !.queue = queue, !.connected = connected,
                      !.conn = conn, !.dark = dark]
    BY <1>8, <1>10
  <2>2. t \in Net
    BY <1>1, <1>4, <1>5, <1>6, <1>7, <2>1 DEF Net
  <2>3. /\ t.list = s.list /\ t.exists = s.exists /\ t.conn = conn
        /\ t.programs = s.programs /\ t.progcmd = s.progcmd
        /\ t.hash = hash /\ t.connected = connected
    BY <1>1, <2>1 DEF Net
  <2> QED
    BY <1>2, <1>5, <1>10, <2>2, <2>3 DEF Unchained, hash, rest, p, t, connected
<1> QED
  BY <1>9, <1>10

(* The connection f of player p, or of nobody, is gone in t: from the chain *)
(* and, unless it is kept for another player, from the list; and with the  *)
(* last of a player the program.                                           *)
Goes(s, t, f) ==
  LET p == s.conn[f].player
      rest == Without(s.hash[p], {f})
      read == s.conn[f].program
  IN
  /\ t \in Net /\ t.exists = s.exists
  /\ t.hash = IF p = Nobody THEN s.hash ELSE [s.hash EXCEPT ![p] = rest]
  /\ t.connected = IF p # Nobody /\ rest = <<>> THEN s.connected \ {p} ELSE s.connected
  /\ t.programs = IF read # 0 /\ rest = <<>> THEN s.programs \ {read} ELSE s.programs
  /\ t.progcmd = IF read # 0 /\ rest = <<>> THEN s.progcmd \ {p} ELSE s.progcmd
  /\ \A g \in Sockets \ {f} : t.conn[g] = s.conn[g]
  /\ t.conn[f].player = Nobody /\ t.conn[f].program = 0
  /\ \/ t.conn[f].open = s.conn[f].open /\ t.list = s.list /\ s.conn[f].open
     \/ ~t.conn[f].open /\ t.conn[f].input = <<>> /\ t.list = Without(s.list, {f})

LEMMA GoesDeparts ==
  ASSUME NEW s, Sound(s), NEW f \in Sockets, NEW t, Goes(s, t, f)
  PROVE  Departs(s, t, f)
<1> DEFINE p == s.conn[f].player
           rest == Without(s.hash[p], {f})
           read == s.conn[f].program
<1>0. /\ s \in Net /\ t \in Net /\ ListAgrees(s) /\ ChainsAgree(s) /\ ProgramsShared(s)
      /\ Nobody \notin Players
  BY NobodyIsNone DEF Sound, Agree, Goes
<1>1. /\ \A g \in Sockets \ {f} : t.conn[g] = s.conn[g]
      /\ t.conn[f].player = Nobody /\ t.conn[f].program = 0
      /\ t.exists = s.exists
  BY DEF Goes
<1>2. /\ s.list \in Seq(Sockets)
      /\ \A q \in Players : s.hash[q] \in Seq(Sockets)
      /\ \A g \in Sockets : s.conn[g].player \in Players \cup {Nobody}
  BY <1>0, Parts, Fields
<1>3. NoneOpened(s, t)
  BY <1>1 DEF NoneOpened, Goes
<1>4. ListAgrees(t)
  <2>1. CASE t.conn[f].open = s.conn[f].open /\ t.list = s.list /\ s.conn[f].open
    BY <1>0, <1>1, <2>1 DEF ListAgrees
  <2>2. CASE ~t.conn[f].open /\ t.conn[f].input = <<>> /\ t.list = Without(s.list, {f})
    <3>1. IsInjective(t.list) /\ Range(t.list) = Range(s.list) \ {f}
      BY <1>0, <1>2, <2>2, WithoutProperties DEF ListAgrees
    <3>2. Range(t.list) = {g \in Sockets : t.conn[g].open}
      BY <1>0, <1>1, <2>2, <3>1 DEF ListAgrees
    <3> QED
      BY <1>0, <1>1, <2>2, <3>1, <3>2 DEF ListAgrees
  <2> QED
    BY <2>1, <2>2 DEF Goes
<1>5. p # Nobody => /\ p \in Players /\ f \in Range(s.hash[p])
                    /\ IsInjective(rest) /\ Range(rest) = Range(s.hash[p]) \ {f}
  BY <1>0, <1>2, WithoutProperties DEF ChainsAgree
<1>6. ChainsAgree(t)
  <2> SUFFICES ASSUME NEW q \in Players
               PROVE  /\ IsInjective(t.hash[q])
                      /\ Range(t.hash[q]) = {g \in Sockets : t.conn[g].player = q}
                      /\ q \in t.connected <=> t.hash[q] # <<>>
                      /\ q \in t.connected => q \in t.exists
    BY DEF ChainsAgree
  <2>1. /\ IsInjective(s.hash[q])
        /\ Range(s.hash[q]) = {g \in Sockets : s.conn[g].player = q}
        /\ q \in s.connected <=> s.hash[q] # <<>>
        /\ q \in s.connected => q \in s.exists
    BY <1>0 DEF ChainsAgree
  <2>2. s.hash \in [Players -> Seq(Sockets)]
    BY <1>0, Parts
  <2>3. CASE q # p
    <3>1. t.hash[q] = s.hash[q] /\ (q \in t.connected <=> q \in s.connected)
      BY <2>2, <2>3 DEF Goes
    <3>2. {g \in Sockets : t.conn[g].player = q} = {g \in Sockets : s.conn[g].player = q}
      BY <1>0, <1>1, <2>3
    <3> QED
      BY <1>1, <2>1, <3>1, <3>2
  <2>4. CASE q = p
    <3>1. p # Nobody /\ p \in Players
      BY <1>0, <2>4
    <3>2. t.hash[q] = rest
      BY <2>2, <2>4, <3>1 DEF Goes
    <3>3. t.connected = IF rest = <<>> THEN s.connected \ {p} ELSE s.connected
      BY <3>1 DEF Goes
    <3>4. {g \in Sockets : t.conn[g].player = q} = {g \in Sockets : s.conn[g].player = q} \ {f}
      BY <1>0, <1>1, <2>4
    <3>5. IsInjective(rest) /\ Range(rest) = {g \in Sockets : t.conn[g].player = q}
      BY <1>5, <2>1, <2>4, <3>1, <3>4
    <3>6. q \in t.connected <=> t.hash[q] # <<>>
      <4>1. s.hash[q] # <<>>
        BY <1>2, <1>5, <2>4, <3>1, EmptyRange
      <4> HIDE DEF rest
      <4> QED
        BY <2>1, <2>4, <3>2, <3>3, <4>1
    <3>7. q \in t.connected => q \in t.exists
      BY <1>1, <2>1, <3>3
    <3> HIDE DEF rest
    <3> QED
      BY <3>2, <3>5, <3>6, <3>7
  <2> QED
    BY <2>3, <2>4
<1>7. ProgramsShared(t)
  <2>1. /\ \A g \in Sockets : s.conn[g].program # 0 =>
             s.conn[g].program \in s.programs /\ s.conn[g].player \in s.progcmd
        /\ \A g, h \in Sockets : s.conn[g].program # 0 =>
             (s.conn[g].program = s.conn[h].program <=> s.conn[g].player = s.conn[h].player)
        /\ s.programs \subseteq {s.conn[g].program : g \in Sockets}
    BY <1>0 DEF ProgramsShared
  <2>2. \A g \in Sockets : t.conn[g].program # 0 => g # f /\ t.conn[g] = s.conn[g]
    BY <1>1
  <2>3. read # 0 => p # Nobody
    BY NobodyIsNone
  <2>4. CASE read # 0 /\ rest = <<>>
    <3>1. t.programs = s.programs \ {read} /\ t.progcmd = s.progcmd \ {p}
      BY <2>4 DEF Goes
    <3>2. {g \in Sockets : s.conn[g].player = p} = {f}
      <4>1. Range(rest) = {}
        BY <1>2, <1>5, <2>3, <2>4, WithoutProperties, EmptyRange
      <4>2. Range(s.hash[p]) = {g \in Sockets : s.conn[g].player = p}
        BY <1>0, <1>5, <2>3, <2>4 DEF ChainsAgree
      <4> QED
        BY <1>5, <2>3, <2>4, <4>1, <4>2
    <3>3. \A g \in Sockets : t.conn[g].program # 0 =>
             t.conn[g].program \in t.programs /\ t.conn[g].player \in t.progcmd
      BY <2>1, <2>2, <2>4, <3>1, <3>2
    <3>4. t.programs \subseteq {t.conn[g].program : g \in Sockets}
      <4> SUFFICES ASSUME NEW i \in s.programs \ {read} PROVE i \in {t.conn[g].program : g \in Sockets}
        BY <3>1
      <4>1. PICK g \in Sockets : i = s.conn[g].program
        BY <2>1
      <4>2. g # f
        BY <4>1
      <4> QED
        BY <1>1, <4>1, <4>2
    <3>5. \A g, h \in Sockets : t.conn[g].program # 0 =>
             (t.conn[g].program = t.conn[h].program <=> t.conn[g].player = t.conn[h].player)
      <4> SUFFICES ASSUME NEW g \in Sockets, NEW h \in Sockets, t.conn[g].program # 0
                   PROVE  t.conn[g].program = t.conn[h].program <=> t.conn[g].player = t.conn[h].player
        OBVIOUS
      <4>1. g # f /\ t.conn[g] = s.conn[g] /\ s.conn[g].player # Nobody
        BY <2>2, NobodyIsNone
      <4>2. CASE h = f
        BY <1>1, <4>1, <4>2
      <4>3. CASE h # f
        BY <1>1, <2>1, <4>1, <4>3
      <4> QED
        BY <4>2, <4>3
    <3> QED
      BY <3>3, <3>4, <3>5 DEF ProgramsShared
  <2>5. CASE ~(read # 0 /\ rest = <<>>)
    <3>1. t.programs = s.programs /\ t.progcmd = s.progcmd
      BY <2>5 DEF Goes
    <3>3. \A g \in Sockets : t.conn[g].program # 0 =>
             t.conn[g].program \in t.programs /\ t.conn[g].player \in t.progcmd
      BY <2>1, <2>2, <3>1
    <3>4. t.programs \subseteq {t.conn[g].program : g \in Sockets}
      <4> SUFFICES ASSUME NEW i \in s.programs PROVE i \in {t.conn[g].program : g \in Sockets}
        BY <3>1
      <4>1. PICK g \in Sockets : i = s.conn[g].program
        BY <2>1
      <4>2. CASE g # f
        BY <1>1, <4>1, <4>2
      <4>3. CASE g = f
        <5>1. i # 0 /\ i = read
          <6>1. i \in 1..Cardinality(Players)
            BY <1>0, Parts
          <6> QED
            BY <4>1, <4>3, <6>1
        <5>2. rest # <<>> /\ p # Nobody
          BY <2>3, <2>5, <5>1
        <5>3. rest \in Seq(Sockets)
          BY <1>2, <1>5, <5>2, WithoutProperties
        <5>4. PICK h \in Range(rest) : TRUE
          BY <5>2, <5>3, EmptyRange
        <5>5. h \in Sockets /\ s.conn[h].player = p /\ h # f
          <6>1. Range(s.hash[p]) = {g2 \in Sockets : s.conn[g2].player = p}
            BY <1>0, <1>5, <5>2 DEF ChainsAgree
          <6> QED
            BY <1>5, <5>2, <5>4, <6>1
        <5>6. s.conn[h].program = i
          BY <2>1, <5>1, <5>5
        <5> QED
          BY <1>1, <5>5, <5>6
      <4> QED
        BY <4>2, <4>3
    <3>5. \A g, h \in Sockets : t.conn[g].program # 0 =>
             (t.conn[g].program = t.conn[h].program <=> t.conn[g].player = t.conn[h].player)
      <4> SUFFICES ASSUME NEW g \in Sockets, NEW h \in Sockets, t.conn[g].program # 0
                   PROVE  t.conn[g].program = t.conn[h].program <=> t.conn[g].player = t.conn[h].player
        OBVIOUS
      <4>1. g # f /\ t.conn[g] = s.conn[g] /\ s.conn[g].player # Nobody
        BY <2>2, NobodyIsNone
      <4>2. CASE h = f
        BY <1>1, <4>1, <4>2
      <4>3. CASE h # f
        BY <1>1, <2>1, <4>1, <4>3
      <4> QED
        BY <4>2, <4>3
    <3> QED
      BY <3>3, <3>4, <3>5 DEF ProgramsShared
  <2> QED
    BY <2>4, <2>5
<1> QED
  BY <1>0, <1>1, <1>3, <1>4, <1>6, <1>7 DEF Departs, Yields, Sound, Agree

LEMMA ShutdownDeparts ==
  ASSUME NEW s, Sound(s), NEW f \in Sockets, NEW reason
  PROVE  Departs(s, Shutdown(s, f, reason), f)
<1> DEFINE p == s.conn[f].player
           rest == Without(s.hash[p], {f})
           read == s.conn[f].program
           left == IF IsConnected(s, f) THEN announce_disconnect(s, f) ELSE s
           last == read # 0 /\ left.hash[p] = <<>>
           done == IF last THEN FreeProgram(left, p, read) ELSE left
           kept == [done.conn[f] EXCEPT !.player = Nobody, !.retries = RetryLimit,
                                        !.age = 0, !.quota = QuotaMax, !.program = 0]
           t == Shutdown(s, f, reason)
<1>0. s \in Net /\ (read # 0 => p # Nobody) /\ p \in Players \cup {Nobody} /\ Nobody \notin Players
  BY NobodyIsNone, Parts, Fields DEF Sound
<1>1. /\ left \in Net /\ left.list = s.list /\ left.exists = s.exists
      /\ left.programs = s.programs /\ left.progcmd = s.progcmd
      /\ left.hash = IF p = Nobody THEN s.hash ELSE [s.hash EXCEPT ![p] = rest]
      /\ left.connected = IF p # Nobody /\ rest = <<>> THEN s.connected \ {p} ELSE s.connected
      /\ \A g \in Sockets \ {f} : left.conn[g] = s.conn[g]
      /\ left.conn[f].open = s.conn[f].open
  <2>1. CASE IsConnected(s, f)
    <3>1. Unchained(s, left, f, p) /\ p # Nobody
      BY <2>1, DisconnectUnchains DEF IsConnected
    <3> HIDE DEF left, p
    <3> QED
      BY <3>1 DEF Unchained, rest
  <2>2. CASE ~IsConnected(s, f)
    BY <1>0, <2>2 DEF IsConnected
  <2> QED
    BY <2>1, <2>2
<1>2. last <=> read # 0 /\ rest = <<>>
  <2>1. read # 0 => left.hash = [s.hash EXCEPT ![p] = rest] /\ p \in DOMAIN s.hash
    BY <1>0, <1>1, Parts
  <2> HIDE DEF left, rest, p
  <2> QED
    BY <2>1
<1> HIDE DEF left
<1>3. /\ done \in Net /\ done.list = s.list /\ done.exists = s.exists
      /\ done.hash = left.hash /\ done.connected = left.connected /\ done.conn = left.conn
      /\ done.programs = IF last THEN s.programs \ {read} ELSE s.programs
      /\ done.progcmd = IF last THEN s.progcmd \ {p} ELSE s.progcmd
  <2>1. CASE last
    <3> DEFINE programs == left.programs \ {read}
               progcmd == left.progcmd \ {p}
    <3>1. done = [left EXCEPT !.programs = programs, !.progcmd = progcmd]
      BY <2>1 DEF FreeProgram
    <3>2. programs \in SUBSET (1..Cardinality(Players)) /\ progcmd \in SUBSET Players
      BY <1>1, Parts
    <3>3. programs = s.programs \ {read} /\ progcmd = s.progcmd \ {p}
      BY <1>1
    <3> HIDE DEF programs, progcmd, done, last, p, read
    <3>4. done \in Net
      BY <1>1, <3>1, <3>2 DEF Net
    <3> QED
      BY <1>1, <2>1, <3>1, <3>3, <3>4 DEF Net
  <2>2. CASE ~last
    <3>1. done = left
      BY <2>2
    <3> HIDE DEF done, last, p, read
    <3> QED
      BY <1>1, <2>2, <3>1
  <2> QED
    BY <2>1, <2>2
<1>4. t = IF reason = "LOGOUT" /\ IsConnected(s, f)
          THEN [done EXCEPT !.conn = [@ EXCEPT ![f] = kept]]
          ELSE [done EXCEPT !.list = Without(@, {f}), !.conn = [@ EXCEPT ![f] = Closed]]
  BY DEF Shutdown, left
<1> HIDE DEF t, done, last
<1>5. CASE reason = "LOGOUT" /\ IsConnected(s, f)
  <2> DEFINE conn == [done.conn EXCEPT ![f] = kept]
  <2>1. t = [done EXCEPT !.conn = conn]
    BY <1>4, <1>5
  <2>2. done.conn[f] \in Connection
    BY <1>3, Parts
  <2>3. /\ kept \in Connection /\ kept.player = Nobody /\ kept.program = 0
        /\ kept.open = done.conn[f].open
    <3>1. PICK c \in Connection : c = done.conn[f]
      BY <2>2
    <3>2. kept = [c EXCEPT !.player = Nobody, !.retries = RetryLimit, !.age = 0,
                           !.quota = QuotaMax, !.program = 0]
      BY <3>1
    <3>3. /\ RetryLimit \in 0..RetryLimit /\ 0 \in 0..Timeout + 1 /\ QuotaMax \in 0..QuotaMax
          /\ 0 \in 0..Cardinality(Players) /\ Nobody \in Players \cup {Nobody}
      <4>1. Cardinality(Players) \in Nat /\ RetryLimit \in Nat /\ QuotaMax \in Nat /\ Timeout \in Nat
        BY DescriptorsAssumption, FS_CardinalityType
      <4> QED
        BY <4>1
    <3> HIDE DEF kept
    <3>4. kept \in Connection
      BY <3>2, <3>3 DEF Connection
    <3>5. kept.player = Nobody /\ kept.program = 0 /\ kept.open = c.open
      BY <3>2 DEF Connection
    <3> QED
      BY <3>1, <3>4, <3>5
  <2> HIDE DEF kept
  <2>4. /\ conn \in [Sockets -> Connection] /\ conn[f] = kept
        /\ \A g \in Sockets \ {f} : conn[g] = done.conn[g]
    BY <1>3, <2>3, Parts
  <2> HIDE DEF conn
  <2>5. t \in Net
    BY <1>3, <2>1, <2>4 DEF Net
  <2>6. /\ t.conn = conn /\ t.list = done.list /\ t.exists = done.exists
        /\ t.hash = done.hash /\ t.connected = done.connected
        /\ t.programs = done.programs /\ t.progcmd = done.progcmd
    BY <1>3, <2>1 DEF Net
  <2>7. s.conn[f].open
    BY <1>0, <1>5 DEF Sound, Agree, ListAgrees, IsConnected
  <2>8. Goes(s, t, f)
    BY <1>1, <1>2, <1>3, <2>3, <2>4, <2>5, <2>6, <2>7 DEF Goes, rest, read, p
  <2> QED
    BY <2>8, GoesDeparts DEF t
<1>6. CASE ~(reason = "LOGOUT" /\ IsConnected(s, f))
  <2> DEFINE conn == [done.conn EXCEPT ![f] = Closed]
             list == Without(done.list, {f})
  <2>1. t = [done EXCEPT !.list = list, !.conn = conn]
    BY <1>4, <1>6
  <2>2. list \in Seq(Sockets) /\ list = Without(s.list, {f})
    BY <1>3, Parts, WithoutProperties
  <2>3. /\ conn \in [Sockets -> Connection] /\ conn[f] = Closed
        /\ \A g \in Sockets \ {f} : conn[g] = done.conn[g]
    BY <1>3, ClosedFields, Parts
  <2> HIDE DEF conn, list
  <2>4. t \in Net
    BY <1>3, <2>1, <2>2, <2>3 DEF Net
  <2>5. /\ t.conn = conn /\ t.list = list /\ t.exists = done.exists
        /\ t.hash = done.hash /\ t.connected = done.connected
        /\ t.programs = done.programs /\ t.progcmd = done.progcmd
    BY <1>3, <2>1 DEF Net
  <2>6. Goes(s, t, f)
    BY <1>1, <1>2, <1>3, <2>2, <2>3, <2>4, <2>5, ClosedFields DEF Goes, rest, read, p
  <2> QED
    BY <2>6, GoesDeparts DEF t
<1> QED
  BY <1>5, <1>6

-----------------------------------------------------------------------------
(***************************************************************************)
(* Loops that shut down: boot_off and check_idle.                          *)
(***************************************************************************)
SoundNets == {s \in Net : Agree(s)}

LEMMA SoundIsIn == \A s : Sound(s) <=> s \in SoundNets
BY DEF Sound, SoundNets

(* The function the recursion of boot_off chooses.                         *)
BootedBy(s, list, g, n) == IF n = 0 THEN s ELSE Shutdown(g[n - 1], list[n], "boot")
BootsAll(s, list, g) == g = [n \in 0..Len(list) |-> BootedBy(s, list, g, n)]
Booting(s, list) == CHOOSE g : BootsAll(s, list, g)

LEMMA BootUnfolds == \A s, p : boot_off(s, p) = Booting(s, s.hash[p])[Len(s.hash[p])]
BY DEF boot_off, Booting, BootsAll, BootedBy

LEMMA BootingExists ==
  ASSUME NEW s, Sound(s), NEW list \in Seq(Sockets)
  PROVE  \A n \in 0..Len(list) :
           Booting(s, list)[n] = BootedBy(s, list, Booting(s, list), n)
<1> DEFINE N == Len(list)
           F == [n \in 1..N |-> [t \in SoundNets |-> Shutdown(t, list[n], "boot")]]
<1>1. N \in Nat /\ \A n \in 1..N : list[n] \in Sockets
  OBVIOUS
<1>2. \A n \in 1..N : \A t \in SoundNets : Shutdown(t, list[n], "boot") \in SoundNets
  BY <1>1, ShutdownDeparts, SoundIsIn DEF Departs, Yields
<1>3. F \in [1..N -> [SoundNets -> SoundNets]]
  BY <1>2
<1>4. \A n \in 1..N : \A t \in SoundNets : F[n][t] = Shutdown(t, list[n], "boot")
  OBVIOUS
<1> HIDE DEF F, N
<1>5. PICK h \in [0..N -> SoundNets] : h[0] = s /\ \A n \in 1..N : h[n] = F[n][h[n - 1]]
  <2>1. s \in SoundNets /\ N \in Nat
    BY <1>1, SoundIsIn
  <2> QED
    BY <1>3, <2>1, StepsExist
<1>6. ASSUME NEW n \in 0..N PROVE h[n] = BootedBy(s, list, h, n)
  <2>1. CASE n = 0
    BY <1>5, <2>1 DEF BootedBy
  <2>2. CASE n # 0
    <3>1. n \in 1..N /\ n - 1 \in 0..N
      BY <1>1, <2>2
    <3> QED
      BY <1>4, <1>5, <2>2, <3>1 DEF BootedBy
  <2> QED
    BY <2>1, <2>2
<1>7. h = [n \in 0..N |-> BootedBy(s, list, h, n)]
  BY <1>5, <1>6
<1>8. BootsAll(s, list, Booting(s, list))
  BY <1>7 DEF Booting, BootsAll, N
<1> DEFINE g == Booting(s, list)
<1>9. g = [n \in 0..N |-> BootedBy(s, list, g, n)]
  BY <1>8 DEF BootsAll, N
<1> HIDE DEF g
<1> QED
  BY <1>9 DEF g, N

(* Nobody is left of the player who is booted.                             *)
LEMMA BootYields ==
  ASSUME NEW s, Sound(s), NEW p \in Players
  PROVE  /\ Yields(s, boot_off(s, p))
         /\ boot_off(s, p).exists = s.exists
         /\ \A f \in Sockets : boot_off(s, p).conn[f].player # p
         /\ s.hash[p] = <<>> => boot_off(s, p) = s
<1> DEFINE list == s.hash[p]
           N == Len(list)
           g == Booting(s, list)
           Kept(n) == \A f \in Sockets : g[n].conn[f].player = p => \E k \in n + 1..N : f = list[k]
           Q == {n \in 0..N : Yields(s, g[n]) /\ g[n].exists = s.exists /\ Kept(n)}
<1>1. list \in Seq(Sockets) /\ N \in Nat /\ \A n \in 1..N : list[n] \in Sockets
  BY Parts DEF Sound
<1>2. \A n \in 0..N : g[n] = BootedBy(s, list, g, n)
  BY <1>1, BootingExists
<1>3. boot_off(s, p) = g[N]
  BY BootUnfolds
<1> HIDE DEF g
<1>4. g[0] = s
  BY <1>1, <1>2 DEF BootedBy
<1>5. 0 \in Q
  <2>1. Range(list) = {f \in Sockets : s.conn[f].player = p}
    BY DEF Sound, Agree, ChainsAgree
  <2>2. Range(list) = {list[k] : k \in 1..N}
    BY <1>1 DEF Range
  <2> HIDE DEF list, N
  <2> QED
    BY <1>1, <1>4, <2>1, <2>2, StaysSound
<1>6. ASSUME NEW n \in 0..N - 1, n \in Q PROVE n + 1 \in Q
  <2>1. n \in Nat /\ n + 1 \in 0..N /\ n + 1 # 0 /\ (n + 1) - 1 = n /\ n + 1 \in 1..N
    BY <1>1
  <2>2. g[n + 1] = Shutdown(g[n], list[n + 1], "boot")
    BY <1>2, <2>1 DEF BootedBy
  <2>3. Yields(s, g[n]) /\ g[n].exists = s.exists /\ Kept(n)
    BY <1>6
  <2>4. Departs(g[n], g[n + 1], list[n + 1])
    BY <1>1, <2>1, <2>2, <2>3, ShutdownDeparts DEF Yields
  <2>5. Yields(s, g[n + 1]) /\ g[n + 1].exists = s.exists
    BY <2>3, <2>4, YieldsOn DEF Departs
  <2>6. ASSUME NEW f \in Sockets, g[n + 1].conn[f].player = p
        PROVE  \E k \in (n + 1) + 1..N : f = list[k]
    <3>1. f # list[n + 1]
      BY <2>4, <2>6, NobodyIsNone DEF Departs
    <3>2. g[n].conn[f].player = p
      BY <2>4, <2>6, <3>1 DEF Departs
    <3>3. PICK k \in n + 1..N : f = list[k]
      BY <2>3, <3>2
    <3>4. k \in (n + 1) + 1..N
      BY <1>1, <2>1, <3>1, <3>3
    <3> QED
      BY <3>3, <3>4
  <2> QED
    BY <2>1, <2>5, <2>6
<1>7. N \in Q
  <2>1. N \in 0..N
    BY <1>1
  <2>2. \A n \in 0..N : n \in Q
    <3> HIDE DEF Q, N
    <3> QED
      BY <1>1, <1>5, <1>6, CountingInduction
  <2> QED
    BY <2>1, <2>2
<1>8. \A f \in Sockets : g[N].conn[f].player # p
  <2>1. N + 1..N = {}
    BY <1>1
  <2>2. Kept(N)
    BY <1>7
  <2> QED
    BY <2>1, <2>2
<1>9. s.hash[p] = <<>> => g[N] = s
  <2>1. s.hash[p] = <<>> => N = 0
    OBVIOUS
  <2> QED
    BY <1>4, <2>1
<1> QED
  BY <1>3, <1>7, <1>8, <1>9

(* The same for check_idle.                                                *)
CheckedBy(s, list, g, n) == IF n = 0 THEN s ELSE CheckIdle(g[n - 1], list[n])
ChecksAll(s, list, g) == g = [n \in 0..Len(list) |-> CheckedBy(s, list, g, n)]
Checking(s, list) == CHOOSE g : ChecksAll(s, list, g)

LEMMA CheckUnfolds == \A s : check_idle(s) = Checking(s, s.list)[Len(s.list)]
BY DEF check_idle, Checking, ChecksAll, CheckedBy

LEMMA CheckOneYields ==
  ASSUME NEW s, Sound(s), NEW f \in Sockets
  PROVE  Yields(s, CheckIdle(s, f))
<1> DEFINE c == s.conn[f]
           t == CheckIdle(s, f)
           dark == s.dark \cup {God}
           now == [c EXCEPT !.autodark = TRUE]
           conn == [s.conn EXCEPT ![f] = now]
<1>1. CASE c.age <= Timeout \/ (c.player = God /\ God \in s.dark)
  <2>1. t = s
    BY <1>1 DEF CheckIdle
  <2> QED
    BY <2>1, StaysSound
<1>2. CASE ~(c.age <= Timeout) /\ c.player # God
  <2>1. t = Shutdown(s, f, "timeout")
    BY <1>2 DEF CheckIdle
  <2> QED
    BY <2>1, ShutdownDeparts DEF Departs
<1>3. CASE ~(c.age <= Timeout) /\ c.player = God /\ God \notin s.dark
  <2>1. t = [s EXCEPT !.dark = dark, !.conn = conn]
    BY <1>3 DEF CheckIdle
  <2>2. s \in Net /\ c \in Connection /\ dark \in SUBSET Players
    BY DescriptorsAssumption, Parts DEF Sound
  <2>3. /\ now \in Connection /\ now.open = c.open /\ now.player = c.player
        /\ now.program = c.program /\ now.input = c.input
    BY <2>2 DEF Connection
  <2> HIDE DEF now, dark, t
  <2>4. /\ conn \in [Sockets -> Connection] /\ conn[f] = now
        /\ \A g \in Sockets \ {f} : conn[g] = s.conn[g]
    BY <2>2, <2>3, Parts
  <2> HIDE DEF conn
  <2>5. t \in Net
    BY <2>1, <2>2, <2>4 DEF Net
  <2>6. /\ t.conn = conn /\ t.list = s.list /\ t.hash = s.hash /\ t.connected = s.connected
        /\ t.programs = s.programs /\ t.progcmd = s.progcmd /\ t.exists = s.exists
    BY <2>1, <2>2 DEF Net
  <2>7. Calm(s, t)
    BY <2>3, <2>4, <2>5, <2>6 DEF Calm, c
  <2> QED
    BY <2>7, CalmYields DEF t
<1> QED
  BY <1>1, <1>2, <1>3

LEMMA CheckYields ==
  ASSUME NEW s, Sound(s)
  PROVE  Yields(s, check_idle(s))
<1> DEFINE list == s.list
           N == Len(list)
           F == [n \in 1..N |-> [t \in SoundNets |-> CheckIdle(t, list[n])]]
<1>1. list \in Seq(Sockets) /\ N \in Nat /\ \A n \in 1..N : list[n] \in Sockets
  BY Parts DEF Sound
<1>2. \A n \in 1..N : \A t \in SoundNets : CheckIdle(t, list[n]) \in SoundNets
  BY <1>1, CheckOneYields, SoundIsIn DEF Yields
<1>3. F \in [1..N -> [SoundNets -> SoundNets]]
  BY <1>2
<1>4. \A n \in 1..N : \A t \in SoundNets : F[n][t] = CheckIdle(t, list[n])
  OBVIOUS
<1> HIDE DEF F, N
<1>5. PICK h \in [0..N -> SoundNets] : h[0] = s /\ \A n \in 1..N : h[n] = F[n][h[n - 1]]
  <2>1. s \in SoundNets /\ N \in Nat
    BY <1>1, SoundIsIn
  <2> QED
    BY <1>3, <2>1, StepsExist
<1>6. ASSUME NEW n \in 0..N PROVE h[n] = CheckedBy(s, list, h, n)
  <2>1. CASE n = 0
    BY <1>5, <2>1 DEF CheckedBy
  <2>2. CASE n # 0
    <3>1. n \in 1..N /\ n - 1 \in 0..N
      BY <1>1, <2>2
    <3> QED
      BY <1>4, <1>5, <2>2, <3>1 DEF CheckedBy
  <2> QED
    BY <2>1, <2>2
<1>7. h = [n \in 0..N |-> CheckedBy(s, list, h, n)]
  BY <1>5, <1>6
<1>8. ChecksAll(s, list, Checking(s, list))
  BY <1>7 DEF Checking, ChecksAll, N
<1> DEFINE g == Checking(s, list)
           Q == {n \in 0..N : Yields(s, g[n])}
<1>9. \A n \in 0..N : g[n] = CheckedBy(s, list, g, n)
  <2>1. g = [n \in 0..N |-> CheckedBy(s, list, g, n)]
    BY <1>8 DEF ChecksAll, N
  <2> HIDE DEF g
  <2> QED
    BY <2>1
<1>10. check_idle(s) = g[N]
  BY CheckUnfolds DEF N
<1> HIDE DEF g
<1>11. 0 \in Q
  BY <1>1, <1>9, StaysSound DEF CheckedBy
<1>12. ASSUME NEW n \in 0..N - 1, n \in Q PROVE n + 1 \in Q
  <2>1. n \in Nat /\ n + 1 \in 0..N /\ n + 1 # 0 /\ (n + 1) - 1 = n /\ n + 1 \in 1..N
    BY <1>1
  <2>2. g[n + 1] = CheckIdle(g[n], list[n + 1]) /\ Yields(s, g[n])
    BY <1>9, <1>12, <2>1 DEF CheckedBy
  <2>3. Yields(g[n], g[n + 1])
    BY <1>1, <2>1, <2>2, CheckOneYields DEF Yields
  <2> QED
    BY <2>1, <2>2, <2>3, YieldsOn
<1>13. \A n \in 0..N : n \in Q
  <2> HIDE DEF Q
  <2> QED
    BY <1>1, <1>11, <1>12, CountingInduction
<1>14. N \in 0..N
  BY <1>1
<1> QED
  BY <1>10, <1>13, <1>14

-----------------------------------------------------------------------------
(***************************************************************************)
(* The login screen.                                                       *)
(***************************************************************************)
LEMMA DestroyYields ==
  ASSUME NEW s, Sound(s), NEW p \in Players
  PROVE  /\ Yields(s, destroy_player(s, p))
         /\ s.hash[p] = <<>> => destroy_player(s, p).conn = s.conn
<1> DEFINE u == boot_off(s, p)
           t == destroy_player(s, p)
           exists == u.exists \ {p}
           progcmd == u.progcmd \ {p}
           dark == u.dark \ {p}
<1>1. /\ Sound(u) /\ Yields(s, u) /\ \A f \in Sockets : u.conn[f].player # p
      /\ s.hash[p] = <<>> => u = s
  BY BootYields DEF Yields
<1>2. t = [u EXCEPT !.exists = exists, !.progcmd = progcmd, !.dark = dark]
  BY DEF destroy_player
<1> HIDE DEF u, t
<1>3. exists \in SUBSET Players /\ progcmd \in SUBSET Players /\ dark \in SUBSET Players
  BY <1>1, Parts DEF Sound
<1>4. t \in Net
  <2> HIDE DEF exists, progcmd, dark
  <2> QED
    BY <1>1, <1>2, <1>3 DEF Net, Sound
<1>5. /\ t.conn = u.conn /\ t.list = u.list /\ t.hash = u.hash /\ t.connected = u.connected
      /\ t.programs = u.programs /\ t.progcmd = progcmd /\ t.exists = exists
  <2> HIDE DEF exists, progcmd, dark
  <2> QED
    BY <1>1, <1>2 DEF Net, Sound
<1>6. p \notin u.connected
  <2>1. Range(u.hash[p]) = {} /\ u.hash[p] \in Seq(Sockets)
    BY <1>1, Parts DEF Sound, Agree, ChainsAgree
  <2>2. u.hash[p] = <<>>
    BY <2>1, EmptyRange
  <2> QED
    BY <1>1, <2>2 DEF Sound, Agree, ChainsAgree
<1>7. ListAgrees(t)
  BY <1>1, <1>5 DEF Sound, Agree, ListAgrees
<1>8. ChainsAgree(t)
  BY <1>1, <1>5, <1>6 DEF Sound, Agree, ChainsAgree
<1>9. ProgramsShared(t)
  BY <1>1, <1>5 DEF Sound, Agree, ProgramsShared
<1>10. Yields(u, t)
  BY <1>4, <1>5, <1>7, <1>8, <1>9 DEF Yields, Sound, Agree, NoneOpened
<1> QED
  BY <1>1, <1>5, <1>10, YieldsOn DEF t, u

(* An exists that grows.                                                   *)
LEMMA CreatedYields ==
  ASSUME NEW s, Sound(s), NEW p \in Players
  PROVE  LET t == [s EXCEPT !.exists = @ \cup {p}] IN
         Yields(s, t) /\ t.conn = s.conn /\ p \in t.exists
<1> DEFINE t == [s EXCEPT !.exists = @ \cup {p}]
           exists == s.exists \cup {p}
<1>1. s \in Net /\ exists \in SUBSET Players /\ s.exists \subseteq exists /\ p \in exists
  BY Parts DEF Sound
<1>2. t = [s EXCEPT !.exists = exists]
  OBVIOUS
<1> HIDE DEF exists, t
<1>3. t \in Net
  BY <1>1, <1>2 DEF Net
<1>4. /\ t.conn = s.conn /\ t.list = s.list /\ t.hash = s.hash /\ t.connected = s.connected
      /\ t.programs = s.programs /\ t.progcmd = s.progcmd /\ t.exists = exists
  BY <1>1, <1>2 DEF Net
<1>5. Calm(s, t)
  BY <1>1, <1>3, <1>4 DEF Calm
<1> QED
  BY <1>1, <1>4, <1>5, CalmYields DEF t

LEMMA GuestYields ==
  ASSUME NEW s, Sound(s), NEW g \in Players, s.hash[g] = <<>>
  PROVE  /\ Yields(s, MakeGuest(s, g)) /\ MakeGuest(s, g).conn = s.conn
         /\ g \in MakeGuest(s, g).exists
<1>1. Yields(s, destroy_player(s, g)) /\ destroy_player(s, g).conn = s.conn
  BY DestroyYields
<1> DEFINE u == destroy_player(s, g)
<1> HIDE DEF u
<1>2. Sound(u)
  BY <1>1 DEF Yields, u
<1>3. MakeGuest(s, g) = [u EXCEPT !.exists = @ \cup {g}]
  BY DEF MakeGuest, u
<1>4. Yields(u, MakeGuest(s, g)) /\ MakeGuest(s, g).conn = u.conn /\ g \in MakeGuest(s, g).exists
  BY <1>2, <1>3, CreatedYields
<1> QED
  BY <1>1, <1>4, YieldsOn DEF u

(* The connection f, which was nobody's, is one of player p in t, and      *)
(* reads for the program that p's other connections read for.              *)
Comes(s, t, f, p) ==
  /\ t \in Net
  /\ t.list = s.list /\ t.exists = s.exists
  /\ t.programs = s.programs /\ t.progcmd = s.progcmd
  /\ t.hash = [s.hash EXCEPT ![p] = <<f>> \o s.hash[p]]
  /\ t.connected = s.connected \cup {p}
  /\ \A g \in Sockets \ {f} : t.conn[g] = s.conn[g]
  /\ t.conn[f].open = s.conn[f].open /\ t.conn[f].player = p
  /\ \A g \in Sockets : s.conn[g].player = p => t.conn[f].program = s.conn[g].program
  /\ t.conn[f].program # 0 => \E g \in Sockets : s.conn[g].player = p

LEMMA ComesYields ==
  ASSUME NEW s, Sound(s), NEW f \in Sockets, s.conn[f].open, s.conn[f].player = Nobody,
         NEW p \in Players, p \in s.exists, NEW t, Comes(s, t, f, p)
  PROVE  Yields(s, t)
<1>0. /\ s \in Net /\ t \in Net /\ ListAgrees(s) /\ ChainsAgree(s) /\ ProgramsShared(s)
      /\ Nobody \notin Players /\ p # Nobody /\ s.conn[f].program = 0
  BY NobodyIsNone DEF Sound, Agree, Comes
<1>1. /\ \A g \in Sockets \ {f} : t.conn[g] = s.conn[g]
      /\ t.conn[f].open = s.conn[f].open /\ t.conn[f].player = p
      /\ \A g \in Sockets : s.conn[g].player = p => t.conn[f].program = s.conn[g].program
      /\ t.conn[f].program # 0 => \E g \in Sockets : s.conn[g].player = p
      /\ t.list = s.list /\ t.exists = s.exists
      /\ t.programs = s.programs /\ t.progcmd = s.progcmd
  BY DEF Comes
<1>2. NoneOpened(s, t)
  BY <1>1 DEF NoneOpened
<1>3. ListAgrees(t)
  <2>1. \A g \in Sockets : t.conn[g].open = s.conn[g].open
    BY <1>1
  <2>2. t.list = s.list /\ ListAgrees(s)
    BY <1>0, <1>1
  <2>3. \A g \in Sockets : ~s.conn[g].open => t.conn[g] = s.conn[g]
    BY <1>1
  <2> QED
    BY <2>1, <2>2, <2>3 DEF ListAgrees
<1>4. ChainsAgree(t)
  <2> SUFFICES ASSUME NEW q \in Players
               PROVE  /\ IsInjective(t.hash[q])
                      /\ Range(t.hash[q]) = {g \in Sockets : t.conn[g].player = q}
                      /\ q \in t.connected <=> t.hash[q] # <<>>
                      /\ q \in t.connected => q \in t.exists
    BY DEF ChainsAgree
  <2>1. /\ IsInjective(s.hash[q])
        /\ Range(s.hash[q]) = {g \in Sockets : s.conn[g].player = q}
        /\ q \in s.connected <=> s.hash[q] # <<>>
        /\ q \in s.connected => q \in s.exists
    BY <1>0 DEF ChainsAgree
  <2>2. /\ s.hash \in [Players -> Seq(Sockets)]
        /\ t.hash = [s.hash EXCEPT ![p] = <<f>> \o s.hash[p]]
        /\ t.connected = s.connected \cup {p}
    BY <1>0, Parts DEF Comes
  <2>3. CASE q # p
    <3>1. t.hash[q] = s.hash[q] /\ (q \in t.connected <=> q \in s.connected)
      BY <2>2, <2>3
    <3>2. {g \in Sockets : t.conn[g].player = q} = {g \in Sockets : s.conn[g].player = q}
      BY <1>0, <1>1, <2>3
    <3> QED
      BY <1>1, <2>1, <3>1, <3>2
  <2>4. CASE q = p
    <3>1. f \notin Range(s.hash[q])
      BY <1>0, <2>1, <2>4
    <3>2. /\ t.hash[q] # <<>> /\ IsInjective(t.hash[q])
          /\ Range(t.hash[q]) = {f} \cup Range(s.hash[q])
      <4>1. t.hash[q] = <<f>> \o s.hash[q] /\ s.hash[q] \in Seq(Sockets)
        BY <2>2, <2>4
      <4> QED
        BY <2>1, <3>1, <4>1, InFront
    <3>3. {g \in Sockets : t.conn[g].player = q} = {f} \cup {g \in Sockets : s.conn[g].player = q}
      BY <1>0, <1>1, <2>4
    <3> QED
      BY <1>1, <2>1, <2>2, <2>4, <3>2, <3>3
  <2> QED
    BY <2>3, <2>4
<1>5. ProgramsShared(t)
  <2>1. /\ \A g \in Sockets : s.conn[g].program # 0 =>
             s.conn[g].program \in s.programs /\ s.conn[g].player \in s.progcmd
        /\ \A g, h \in Sockets : s.conn[g].program # 0 =>
             (s.conn[g].program = s.conn[h].program <=> s.conn[g].player = s.conn[h].player)
        /\ s.programs \subseteq {s.conn[g].program : g \in Sockets}
    BY <1>0 DEF ProgramsShared
  <2>2. t.conn[f].program # 0 =>
          \E g \in Sockets \ {f} : s.conn[g].player = p /\ s.conn[g].program = t.conn[f].program
    BY <1>0, <1>1
  <2>3. \A g \in Sockets : t.conn[g].program # 0 =>
          t.conn[g].program \in t.programs /\ t.conn[g].player \in t.progcmd
    BY <1>1, <2>1, <2>2
  <2>4. t.programs \subseteq {t.conn[g].program : g \in Sockets}
    <3> SUFFICES ASSUME NEW i \in s.programs PROVE i \in {t.conn[g].program : g \in Sockets}
      BY <1>1
    <3>1. PICK g \in Sockets : i = s.conn[g].program
      BY <2>1
    <3>2. i # 0
      <4>1. i \in 1..Cardinality(Players)
        BY <1>0, Parts
      <4> QED
        BY <4>1
    <3>3. g # f
      BY <1>0, <3>1, <3>2
    <3> QED
      BY <1>1, <3>1, <3>3
  <2>5. ASSUME NEW g \in Sockets, NEW h \in Sockets, t.conn[g].program # 0
        PROVE  t.conn[g].program = t.conn[h].program <=> t.conn[g].player = t.conn[h].player
    <3>1. CASE g # f /\ h # f
      BY <1>1, <2>1, <2>5, <3>1
    <3>2. CASE g = f /\ h # f
      <4>1. PICK k \in Sockets \ {f} : s.conn[k].player = p /\ s.conn[k].program = t.conn[f].program
        BY <2>2, <2>5, <3>2
      <4> QED
        BY <1>1, <2>1, <2>5, <3>2, <4>1
    <3>3. CASE g # f /\ h = f
      <4>1. s.conn[g].program # 0 /\ t.conn[g] = s.conn[g]
        BY <1>1, <2>5, <3>3
      <4>2. CASE s.conn[g].player = p
        BY <1>1, <3>3, <4>1, <4>2
      <4>3. CASE s.conn[g].player # p
        <5>1. SUFFICES ASSUME t.conn[f].program = s.conn[g].program PROVE FALSE
          BY <1>1, <3>3, <4>1, <4>3
        <5>2. PICK k \in Sockets \ {f} : s.conn[k].player = p /\ s.conn[k].program = t.conn[f].program
          BY <2>2, <4>1, <5>1
        <5> QED
          BY <2>1, <4>1, <4>3, <5>1, <5>2
      <4> QED
        BY <4>2, <4>3
    <3>4. CASE g = f /\ h = f
      BY <3>4
    <3> QED
      BY <3>1, <3>2, <3>3, <3>4
  <2> QED
    BY <2>3, <2>4, <2>5 DEF ProgramsShared
<1> QED
  BY <1>0, <1>2, <1>3, <1>4, <1>5 DEF Yields, Sound, Agree

(* The connection f reads for the program read in j, as s else.            *)
Reads(s, j, f, read) ==
  /\ j \in Net
  /\ j.list = s.list /\ j.exists = s.exists /\ j.hash = s.hash /\ j.connected = s.connected
  /\ j.programs = s.programs /\ j.progcmd = s.progcmd
  /\ \A g \in Sockets \ {f} : j.conn[g] = s.conn[g]
  /\ j.conn[f].open = s.conn[f].open /\ j.conn[f].program = read

LEMMA LoginComes ==
  ASSUME NEW s, NEW f \in Sockets, NEW p \in Players, NEW read, NEW j, Reads(s, j, f, read),
         \A g \in Sockets : s.conn[g].player = p => read = s.conn[g].program,
         read # 0 => \E g \in Sockets : s.conn[g].player = p
  PROVE  Comes(s, Login(j, f, p), f, p)
<1> DEFINE now == [j.conn[f] EXCEPT !.player = p, !.age = 0]
           conn == [j.conn EXCEPT ![f] = now]
           hash == [j.hash EXCEPT ![p] = <<f>> \o j.hash[p]]
           connected == j.connected \cup {p}
           queue == announce_connattr(j.queue, p, "connect")
           u == [j EXCEPT !.conn[f].player = p, !.conn[f].age = 0]
           t == Login(j, f, p)
<1>1. j \in Net
  BY DEF Reads
<1>2. /\ now \in Connection /\ now.player = p /\ now.open = j.conn[f].open
      /\ now.program = j.conn[f].program
  <2>1. PICK c \in Connection : c = j.conn[f]
    BY <1>1, Parts
  <2>2. 0 \in 0..Timeout + 1
    BY DescriptorsAssumption
  <2>3. now = [c EXCEPT !.player = p, !.age = 0]
    BY <2>1
  <2> HIDE DEF now
  <2>4. now \in Connection
    BY <2>2, <2>3 DEF Connection
  <2>5. now.player = p /\ now.open = c.open /\ now.program = c.program
    BY <2>3 DEF Connection
  <2> QED
    BY <2>1, <2>4, <2>5
<1>3. u = [j EXCEPT !.conn = conn]
  BY <1>1, Parts DEF Net
<1> HIDE DEF now
<1>4. /\ conn \in [Sockets -> Connection] /\ conn[f] = now
      /\ \A g \in Sockets \ {f} : conn[g] = j.conn[g]
  BY <1>1, <1>2, Parts
<1> HIDE DEF conn, u
<1>5. u.conn = conn /\ u.hash = j.hash /\ u.connected = j.connected /\ u.queue = j.queue
  BY <1>1, <1>3 DEF Net
<1>6. u.conn[f].player = p
  BY <1>2, <1>4, <1>5
<1>7. t = [u EXCEPT !.hash = hash, !.connected = connected, !.queue = queue]
  <2>1. t = announce_connect(u, f)
    BY DEF Login, u
  <2>2. desc_addhash(u, f) = [u EXCEPT !.hash = hash]
    BY <1>5, <1>6 DEF desc_addhash
  <2>3. u \in Net
    BY <1>1, <1>3, <1>4 DEF Net
  <2> HIDE DEF hash
  <2> QED
    BY <1>5, <1>6, <2>1, <2>2, <2>3 DEF announce_connect, Net
<1>8. /\ hash \in [Players -> Seq(Sockets)] /\ connected \in SUBSET Players
      /\ queue \in Seq([what : {"connect", "disconnect", "program"}, player : Players])
  <2>1. <<f>> \o j.hash[p] \in Seq(Sockets)
    BY <1>1, Parts, InFront
  <2> QED
    BY <1>1, <2>1, Parts, QueueTyped
<1> HIDE DEF hash, connected, queue, t
<1>9. t = [j EXCEPT !.conn = conn, !.hash = hash, !.connected = connected, !.queue = queue]
  BY <1>1, <1>3, <1>7 DEF Net
<1>10. t \in Net
  BY <1>1, <1>4, <1>8, <1>9 DEF Net
<1>11. /\ t.list = j.list /\ t.exists = j.exists /\ t.programs = j.programs
       /\ t.progcmd = j.progcmd /\ t.hash = hash /\ t.connected = connected /\ t.conn = conn
  BY <1>1, <1>9 DEF Net
<1>12. hash = [s.hash EXCEPT ![p] = <<f>> \o s.hash[p]] /\ connected = s.connected \cup {p}
  BY DEF hash, connected, Reads
<1>13. \A g \in Sockets \ {f} : t.conn[g] = s.conn[g]
  BY <1>4, <1>11 DEF Reads
<1>14. t.conn[f].open = s.conn[f].open /\ t.conn[f].player = p /\ t.conn[f].program = read
  BY <1>2, <1>4, <1>11 DEF Reads
<1>15. /\ t.list = s.list /\ t.exists = s.exists /\ t.programs = s.programs
       /\ t.progcmd = s.progcmd
  BY <1>11 DEF Reads
<1>16. Comes(s, t, f, p)
  BY <1>10, <1>11, <1>12, <1>13, <1>14, <1>15 DEF Comes
<1> QED
  BY <1>16 DEF t

LEMMA LoginYields ==
  ASSUME NEW s, Sound(s), NEW f \in Sockets, s.conn[f].open, s.conn[f].player = Nobody,
         NEW p \in Players, p \in s.exists,
         \A g \in Sockets : s.conn[g].player = p => s.conn[g].program = 0
  PROVE  Yields(s, Login(s, f, p))
<1>1. s.conn[f].program = 0 /\ s \in Net
  BY NobodyIsNone DEF Sound
<1>2. Reads(s, s, f, 0)
  BY <1>1 DEF Reads
<1>3. Comes(s, Login(s, f, p), f, p)
  BY <1>2, LoginComes
<1> QED
  BY <1>3, ComesYields

LEMMA AdmitYields ==
  ASSUME NEW s, Sound(s), NEW f \in Sockets, s.conn[f].open, s.conn[f].player = Nobody,
         NEW p \in Players, p \in s.exists
  PROVE  Yields(s, Admit(s, f, p))
<1> DEFINE reading == {s.conn[g].program : g \in Range(s.hash[p])} \ {0}
           read == CHOOSE prog \in reading : TRUE
           joined == IF reading = {} THEN s ELSE [s EXCEPT !.conn[f].program = read]
<1>1. s \in Net /\ s.conn[f].program = 0 /\ ProgramsShared(s)
  BY NobodyIsNone DEF Sound, Agree
<1>2. Range(s.hash[p]) = {g \in Sockets : s.conn[g].player = p}
  BY DEF Sound, Agree, ChainsAgree
<1>3. Admit(s, f, p) = IF p = God \/ (s.logins /\ ~(Cardinality(ConnectedOnes(s)) >= MaxPlayers))
                       THEN Login(joined, f, p) ELSE Shutdown(s, f, "full")
  BY DEF Admit
<1>4. Yields(s, Shutdown(s, f, "full"))
  BY ShutdownDeparts DEF Departs
<1>5. Yields(s, Login(joined, f, p))
  <2>1. CASE reading = {}
    <3>1. joined = s
      BY <2>1
    <3>2. \A g \in Sockets : s.conn[g].player = p => s.conn[g].program = 0
      BY <1>2, <2>1
    <3> HIDE DEF joined, reading
    <3> QED
      BY <3>1, <3>2, LoginYields
  <2>2. CASE reading # {}
    <3>1. read \in reading
      BY <2>2
    <3>2. PICK g \in Sockets : s.conn[g].player = p /\ s.conn[g].program = read
      BY <1>2, <3>1
    <3>3. read # 0 /\ read \in 0..Cardinality(Players)
      <4>1. s.conn[g].program \in 0..Cardinality(Players)
        BY <1>1, Parts, Fields
      <4>2. read # 0
        BY <3>1
      <4> HIDE DEF read
      <4> QED
        BY <3>2, <4>1, <4>2
    <3>4. \A h \in Sockets : s.conn[h].player = p => read = s.conn[h].program
      BY <1>1, <3>2, <3>3 DEF ProgramsShared
    <3> HIDE DEF read, reading
    <3> DEFINE now == [s.conn[f] EXCEPT !.program = read]
               conn == [s.conn EXCEPT ![f] = now]
    <3>5. joined = [s EXCEPT !.conn = conn]
      BY <1>1, <2>2, Parts DEF Net
    <3>6. now \in Connection /\ now.program = read /\ now.open = s.conn[f].open
      <4>1. PICK c \in Connection : c = s.conn[f]
        BY <1>1, Parts
      <4>2. now = [c EXCEPT !.program = read]
        BY <4>1
      <4> HIDE DEF now
      <4> QED
        BY <3>3, <4>1, <4>2 DEF Connection
    <3> HIDE DEF now, joined
    <3>7. /\ conn \in [Sockets -> Connection] /\ conn[f] = now
          /\ \A h \in Sockets \ {f} : conn[h] = s.conn[h]
      BY <1>1, <3>6, Parts
    <3> HIDE DEF conn
    <3>8. joined \in Net
      BY <1>1, <3>5, <3>7 DEF Net
    <3>9. /\ joined.conn = conn /\ joined.list = s.list /\ joined.exists = s.exists
          /\ joined.hash = s.hash /\ joined.connected = s.connected
          /\ joined.programs = s.programs /\ joined.progcmd = s.progcmd
      BY <1>1, <3>5 DEF Net
    <3>10. Reads(s, joined, f, read)
      BY <3>6, <3>7, <3>8, <3>9 DEF Reads
    <3>11. Comes(s, Login(joined, f, p), f, p)
      BY <3>2, <3>4, <3>10, LoginComes
    <3> QED
      BY <3>11, ComesYields
  <2> QED
    BY <2>1, <2>2
<1> HIDE DEF joined
<1> QED
  BY <1>3, <1>4, <1>5

LEMMA RefuseYields ==
  ASSUME NEW s, Sound(s), NEW f \in Sockets
  PROVE  Yields(s, Refuse(s, f))
<1> DEFINE now == [s.conn[f] EXCEPT !.retries = @ - 1]
           conn == [s.conn EXCEPT ![f] = now]
           t == [s EXCEPT !.conn = conn]
<1>1. CASE s.conn[f].retries <= 1
  BY <1>1, ShutdownDeparts DEF Refuse, Departs
<1>2. CASE ~(s.conn[f].retries <= 1)
  <2>1. s \in Net
    BY DEF Sound
  <2>2. Refuse(s, f) = t
    BY <1>2, <2>1, Parts DEF Refuse, Net
  <2>3. /\ now \in Connection /\ now.open = s.conn[f].open /\ now.player = s.conn[f].player
        /\ now.program = s.conn[f].program /\ now.input = s.conn[f].input
    <3>1. PICK c \in Connection : c = s.conn[f]
      BY <2>1, Parts
    <3>2. c.retries - 1 \in 0..RetryLimit
      BY <1>2, <3>1, Fields, DescriptorsAssumption
    <3>3. now = [c EXCEPT !.retries = c.retries - 1]
      BY <3>1 DEF Connection
    <3> HIDE DEF now
    <3> QED
      BY <3>1, <3>2, <3>3 DEF Connection
  <2> HIDE DEF now
  <2>4. /\ conn \in [Sockets -> Connection] /\ conn[f] = now
        /\ \A g \in Sockets \ {f} : conn[g] = s.conn[g]
    BY <2>1, <2>3, Parts
  <2> HIDE DEF conn
  <2>5. t \in Net
    BY <2>1, <2>4 DEF Net
  <2>6. /\ t.conn = conn /\ t.list = s.list /\ t.hash = s.hash /\ t.connected = s.connected
        /\ t.programs = s.programs /\ t.progcmd = s.progcmd /\ t.exists = s.exists
    BY <2>1 DEF Net
  <2> HIDE DEF t
  <2>7. Calm(s, t)
    BY <2>3, <2>4, <2>5, <2>6 DEF Calm
  <2> QED
    BY <2>2, <2>7, CalmYields
<1> QED
  BY <1>1, <1>2

LEMMA CreateYields ==
  ASSUME NEW s, Sound(s), NEW f \in Sockets, s.conn[f].open, s.conn[f].player = Nobody,
         NEW p \in Players
  PROVE  Yields(s, Create(s, f, p))
<1> DEFINE u == [s EXCEPT !.exists = @ \cup {p}]
<1>1. Yields(s, u) /\ u.conn = s.conn /\ p \in u.exists
  BY CreatedYields
<1>2. Create(s, f, p) = IF ~s.logins \/ Cardinality(ConnectedOnes(s)) > MaxPlayers
                        THEN Shutdown(s, f, "full")
                        ELSE IF p \in s.exists THEN s ELSE Login(u, f, p)
  BY DEF Create
<1> HIDE DEF u
<1>3. Yields(s, s) /\ Yields(s, Shutdown(s, f, "full"))
  BY StaysSound, ShutdownDeparts DEF Departs
<1>4. ASSUME p \notin s.exists PROVE Yields(s, Login(u, f, p))
  <2>1. s.hash[p] = <<>> /\ {g \in Sockets : s.conn[g].player = p} = {}
    <3>1. /\ p \in s.connected <=> s.hash[p] # <<>>
          /\ p \in s.connected => p \in s.exists
          /\ Range(s.hash[p]) = {g \in Sockets : s.conn[g].player = p}
      BY DEF Sound, Agree, ChainsAgree
    <3>2. s.hash[p] \in Seq(Sockets)
      BY Parts DEF Sound
    <3> QED
      BY <1>4, <3>1, <3>2, EmptyRange
  <2>2. Sound(u) /\ \A g \in Sockets : u.conn[g].player = p => u.conn[g].program = 0
    BY <1>1, <2>1 DEF Yields
  <2>3. Yields(u, Login(u, f, p))
    BY <1>1, <2>2, LoginYields
  <2> QED
    BY <1>1, <2>3, YieldsOn
<1> QED
  BY <1>2, <1>3, <1>4

LEMMA ConnectYields ==
  ASSUME NEW s, Sound(s), NEW f \in Sockets, s.conn[f].open, s.conn[f].player = Nobody,
         NEW l \in Lines
  PROVE  Yields(s, check_connect(s, f, l))
<1>0. l.who \in Players
  BY DEF Lines
<1>1. CASE l.verb = "connect guest" /\ s.logins
  <2>1. CASE FreeSlots(s) = {}
    BY <1>1, <2>1, StaysSound DEF check_connect
  <2>2. CASE FreeSlots(s) # {}
    <3> DEFINE g == Guests[Min(FreeSlots(s))]
    <3>1. check_connect(s, f, l) = Admit(MakeGuest(s, g), f, g)
      BY <1>1, <2>2 DEF check_connect
    <3>2. Min(FreeSlots(s)) \in FreeSlots(s)
      <4>1. FreeSlots(s) \in SUBSET Nat
        BY DescriptorsAssumption DEF FreeSlots
      <4> QED
        BY <2>2, <4>1, MinIsIn
    <3>3. g \in Players /\ (g \notin s.exists \/ g \notin s.connected)
      BY <3>2, DescriptorsAssumption DEF FreeSlots
    <3> HIDE DEF g
    <3>4. s.hash[g] = <<>>
      BY <3>3 DEF Sound, Agree, ChainsAgree
    <3> DEFINE u == MakeGuest(s, g)
    <3>5. Yields(s, u) /\ u.conn = s.conn /\ g \in u.exists
      BY <3>3, <3>4, GuestYields
    <3> HIDE DEF u
    <3>6. Yields(u, Admit(u, f, g))
      BY <3>3, <3>5, AdmitYields DEF Yields
    <3> QED
      BY <3>1, <3>5, <3>6, YieldsOn DEF u
  <2> QED
    BY <2>1, <2>2
<1>2. CASE l.verb = "connect guest" /\ ~s.logins
  BY <1>2, RefuseYields DEF check_connect
<1>3. CASE l.verb = "connect"
  <2>1. check_connect(s, f, l) =
          IF l.good /\ l.who \in s.exists THEN Admit(s, f, l.who) ELSE Refuse(s, f)
    BY <1>3 DEF check_connect
  <2>2. l.who \in s.exists => Yields(s, Admit(s, f, l.who))
    BY <1>0, AdmitYields
  <2> QED
    BY <2>1, <2>2, RefuseYields
<1>4. CASE l.verb = "create"
  BY <1>0, <1>4, CreateYields DEF check_connect
<1>5. CASE l.verb \notin {"connect", "connect guest", "create"}
  BY <1>5, StaysSound DEF check_connect
<1> QED
  BY <1>1, <1>2, <1>3, <1>4, <1>5

-----------------------------------------------------------------------------
(***************************************************************************)
(* Programs.                                                               *)
(***************************************************************************)
LEMMA SetProgramParts ==
  ASSUME NEW s, Sound(s), NEW p \in Players, NEW prog \in 0..Cardinality(Players)
  PROVE  LET conn == [f \in Sockets |-> IF f \in Range(s.hash[p])
                                        THEN [s.conn[f] EXCEPT !.program = prog]
                                        ELSE s.conn[f]]
         IN /\ conn \in [Sockets -> Connection]
            /\ \A f \in Sockets :
                 /\ conn[f].open = s.conn[f].open /\ conn[f].player = s.conn[f].player
                 /\ conn[f].input = s.conn[f].input
                 /\ conn[f].program = IF s.conn[f].player = p THEN prog ELSE s.conn[f].program
<1> DEFINE conn == [f \in Sockets |-> IF f \in Range(s.hash[p])
                                      THEN [s.conn[f] EXCEPT !.program = prog]
                                      ELSE s.conn[f]]
<1>1. s \in Net /\ Range(s.hash[p]) = {f \in Sockets : s.conn[f].player = p}
  BY DEF Sound, Agree, ChainsAgree
<1>2. ASSUME NEW c \in Connection
      PROVE  LET now == [c EXCEPT !.program = prog] IN
             /\ now \in Connection /\ now.open = c.open /\ now.player = c.player
             /\ now.input = c.input /\ now.program = prog
  BY DEF Connection
<1>3. \A f \in Sockets : s.conn[f] \in Connection
  BY <1>1, Parts
<1>4. ASSUME NEW f \in Sockets
      PROVE  /\ conn[f] \in Connection
             /\ conn[f].open = s.conn[f].open /\ conn[f].player = s.conn[f].player
             /\ conn[f].input = s.conn[f].input
             /\ conn[f].program = IF s.conn[f].player = p THEN prog ELSE s.conn[f].program
  <2>1. CASE s.conn[f].player = p
    <3>1. conn[f] = [s.conn[f] EXCEPT !.program = prog]
      BY <1>1, <2>1
    <3> HIDE DEF conn
    <3> QED
      BY <1>2, <1>3, <2>1, <3>1
  <2>2. CASE s.conn[f].player # p
    <3>1. conn[f] = s.conn[f]
      BY <1>1, <2>2
    <3> HIDE DEF conn
    <3> QED
      BY <1>3, <2>2, <3>1
  <2> QED
    BY <2>1, <2>2
<1>5. conn = [f \in Sockets |-> conn[f]]
  OBVIOUS
<1> HIDE DEF conn
<1>6. conn \in [Sockets -> Connection]
  BY <1>4, <1>5
<1> QED
  BY <1>4, <1>6 DEF conn

(* In t the connections of p, and no others, read for prog.                *)
Programs(s, t, p, prog) ==
  /\ t \in Net
  /\ t.list = s.list /\ t.hash = s.hash /\ t.connected = s.connected /\ t.exists = s.exists
  /\ \A f \in Sockets :
       /\ t.conn[f].open = s.conn[f].open /\ t.conn[f].player = s.conn[f].player
       /\ t.conn[f].input = s.conn[f].input
       /\ t.conn[f].program = IF s.conn[f].player = p THEN prog ELSE s.conn[f].program

(* Nothing but what programs there are differs between s and u.            *)
SameConnections(s, u) ==
  /\ u \in Net
  /\ u.list = s.list /\ u.conn = s.conn /\ u.hash = s.hash
  /\ u.connected = s.connected /\ u.exists = s.exists

LEMMA SetProgramPrograms ==
  ASSUME NEW s, Sound(s), NEW u, SameConnections(s, u),
         NEW p \in Players, NEW prog \in 0..Cardinality(Players)
  PROVE  /\ Programs(s, SetProgram(u, p, prog), p, prog)
         /\ SetProgram(u, p, prog).programs = u.programs
         /\ SetProgram(u, p, prog).progcmd = u.progcmd
<1> DEFINE conn == [f \in Sockets |-> IF f \in Range(s.hash[p])
                                      THEN [s.conn[f] EXCEPT !.program = prog]
                                      ELSE s.conn[f]]
           t == SetProgram(u, p, prog)
<1>1. t = [u EXCEPT !.conn = conn]
  BY DEF SetProgram, SameConnections
<1>2. /\ conn \in [Sockets -> Connection]
      /\ \A f \in Sockets :
           /\ conn[f].open = s.conn[f].open /\ conn[f].player = s.conn[f].player
           /\ conn[f].input = s.conn[f].input
           /\ conn[f].program = IF s.conn[f].player = p THEN prog ELSE s.conn[f].program
  BY SetProgramParts
<1> HIDE DEF conn, t
<1>3. u \in Net
  BY DEF SameConnections
<1>4. t \in Net
  BY <1>1, <1>2, <1>3 DEF Net
<1>5. /\ t.list = u.list /\ t.hash = u.hash /\ t.connected = u.connected
      /\ t.exists = u.exists /\ t.conn = conn
      /\ t.programs = u.programs /\ t.progcmd = u.progcmd
  BY <1>1, <1>3 DEF Net
<1>6. Programs(s, t, p, prog)
  BY <1>2, <1>4, <1>5 DEF Programs, SameConnections
<1> QED
  BY <1>5, <1>6 DEF t

LEMMA ProgramsYields ==
  ASSUME NEW s, Sound(s), NEW p \in Players, NEW prog, NEW t, Programs(s, t, p, prog),
         ProgramsShared(t)
  PROVE  Yields(s, t)
<1> USE DEF Programs
<1>1. ListAgrees(t)
  <2>1. \A f \in Sockets : s.conn[f].player = p => s.conn[f].open
    <3>1. p # Nobody
      BY NobodyIsNone
    <3> QED
      BY <3>1 DEF Sound, Agree, ListAgrees
  <2> QED
    BY <2>1 DEF Sound, Agree, ListAgrees
<1>2. ChainsAgree(t)
  <2>1. \A q \in Players : {f \in Sockets : t.conn[f].player = q} = {f \in Sockets : s.conn[f].player = q}
    OBVIOUS
  <2> QED
    BY <2>1 DEF Sound, Agree, ChainsAgree
<1> QED
  BY <1>1, <1>2 DEF Yields, Sound, Agree, NoneOpened

(* There are no more programs than players who have one: where a player    *)
(* has none, another can be made.                                          *)
LEMMA ProgramToSpare ==
  ASSUME NEW s, Sound(s), NEW p \in Players, ~Programmed(s, p)
  PROVE  \E i \in 1..Cardinality(Players) : i \notin s.programs
<1> DEFINE n == Cardinality(Players)
<1>1. n \in Nat /\ IsFiniteSet(Players) /\ IsFiniteSet(1..n) /\ Cardinality(1..n) = n
  <2>1. IsFiniteSet(Players)
    BY DescriptorsAssumption
  <2>2. n \in Nat
    BY <2>1, FS_CardinalityType
  <2> HIDE DEF n
  <2>3. IsFiniteSet(1..n) /\ Cardinality(1..n) = IF 1 > n THEN 0 ELSE n - 1 + 1
    BY <2>2, FS_Interval
  <2> QED
    BY <2>1, <2>2, <2>3
<1>2. SUFFICES ASSUME s.programs = 1..n PROVE FALSE
  BY Parts DEF Sound
<1>3. IsFiniteSet(Players \ {p}) /\ Cardinality(Players \ {p}) = n - 1
  BY <1>1, FS_RemoveElement
<1>4. /\ \A i \in 1..n : \E f \in Sockets : s.conn[f].program = i
      /\ \A f \in Sockets : s.conn[f].program # 0 => s.conn[f].player \in Players
      /\ \A f, g \in Sockets : s.conn[f].program # 0 /\ s.conn[f].player = s.conn[g].player
           => s.conn[f].program = s.conn[g].program
      /\ \A f \in Sockets : s.conn[f].player = p => s.conn[f].program = 0
  <2>1. ProgramsShared(s) /\ Range(s.hash[p]) = {f \in Sockets : s.conn[f].player = p}
    BY DEF Sound, Agree, ChainsAgree
  <2>2. s.progcmd \in SUBSET Players
    BY Parts DEF Sound
  <2> QED
    BY <1>2, <2>1, <2>2 DEF ProgramsShared, Programmed
<1> DEFINE reader(i) == CHOOSE f \in Sockets : s.conn[f].program = i
           m == [i \in 1..n |-> s.conn[reader(i)].player]
<1>5. \A i \in 1..n : reader(i) \in Sockets /\ s.conn[reader(i)].program = i /\ i # 0
  BY <1>1, <1>4
<1> HIDE DEF reader
<1>6. \A i \in 1..n : s.conn[reader(i)].player \in Players \ {p}
  BY <1>4, <1>5
<1>7. m \in [1..n -> Players \ {p}]
  BY <1>6
<1>8. \A i, j \in 1..n : m[i] = m[j] => i = j
  BY <1>4, <1>5
<1> HIDE DEF m, n
<1>9. Cardinality(Players \ {p}) < Cardinality(1..n)
  BY <1>1, <1>3
<1>10. \E i, j \in 1..n : i # j /\ m[i] = m[j]
  BY <1>1, <1>3, <1>7, <1>9, FS_PigeonHole
<1> QED
  BY <1>8, <1>10

LEMMA ProgYields ==
  ASSUME NEW s, Sound(s), NEW p \in Players
  PROVE  Yields(s, do_prog(s, p))
<1> DEFINE new == CHOOSE i \in 1..Cardinality(Players) : i \notin s.programs
           programs == s.programs \cup {new}
           progcmd == s.progcmd \cup {p}
           u == [s EXCEPT !.programs = programs, !.progcmd = progcmd]
           t == SetProgram(u, p, new)
<1>1. do_prog(s, p) = IF p \notin s.connected \/ Programmed(s, p) THEN s ELSE t
  BY DEF do_prog
<1>2. CASE p \notin s.connected \/ Programmed(s, p)
  BY <1>1, <1>2, StaysSound
<1>3. CASE p \in s.connected /\ ~Programmed(s, p)
  <2>1. new \in 1..Cardinality(Players) /\ new \notin s.programs
    BY <1>3, ProgramToSpare
  <2> HIDE DEF new
  <2>2. new # 0 /\ new \in 0..Cardinality(Players)
    <3>1. Cardinality(Players) \in Nat
      BY DescriptorsAssumption, FS_CardinalityType
    <3> QED
      BY <2>1, <3>1
  <2>3. programs \in SUBSET (1..Cardinality(Players)) /\ progcmd \in SUBSET Players
    BY <2>1, Parts DEF Sound
  <2>4. Programs(s, t, p, new) /\ t.programs = programs /\ t.progcmd = progcmd
    <3>1. SameConnections(s, u) /\ u.programs = programs /\ u.progcmd = progcmd
      <4> HIDE DEF programs, progcmd
      <4>1. s \in Net
        BY DEF Sound
      <4>2. u \in Net
        BY <2>3, <4>1 DEF Net
      <4> QED
        BY <4>1, <4>2 DEF Net, SameConnections
    <3> HIDE DEF u
    <3> QED
      BY <2>2, <3>1, SetProgramPrograms
  <2> HIDE DEF t
  <2>5. PICK f \in Sockets : s.conn[f].player = p
    <3>1. s.hash[p] # <<>> /\ Range(s.hash[p]) = {f \in Sockets : s.conn[f].player = p}
      BY <1>3 DEF Sound, Agree, ChainsAgree
    <3>2. s.hash[p] \in Seq(Sockets)
      BY Parts DEF Sound
    <3> QED
      BY <3>1, <3>2, EmptyRange
  <2>6. /\ \A g \in Sockets : s.conn[g].program # 0 =>
             s.conn[g].program \in s.programs /\ s.conn[g].player \in s.progcmd
        /\ \A g, h \in Sockets : s.conn[g].program # 0 =>
             (s.conn[g].program = s.conn[h].program <=> s.conn[g].player = s.conn[h].player)
        /\ s.programs \subseteq {s.conn[g].program : g \in Sockets}
    BY DEF Sound, Agree, ProgramsShared
  <2>7. \A g \in Sockets :
          /\ t.conn[g].player = s.conn[g].player
          /\ t.conn[g].program = IF s.conn[g].player = p THEN new ELSE s.conn[g].program
    BY <2>4 DEF Programs
  <2>8. \A g \in Sockets : s.conn[g].player = p => s.conn[g].program = 0
    <3>1. Range(s.hash[p]) = {g \in Sockets : s.conn[g].player = p}
      BY DEF Sound, Agree, ChainsAgree
    <3> QED
      BY <1>3, <3>1 DEF Programmed
  <2>9. ProgramsShared(t)
    <3>1. \A g \in Sockets : t.conn[g].program # 0 =>
            t.conn[g].program \in t.programs /\ t.conn[g].player \in t.progcmd
      BY <2>4, <2>6, <2>7
    <3>2. t.programs \subseteq {t.conn[g].program : g \in Sockets}
      <4> SUFFICES ASSUME NEW i \in programs PROVE i \in {t.conn[g].program : g \in Sockets}
        BY <2>4
      <4>1. CASE i = new
        BY <2>5, <2>7, <4>1
      <4>2. CASE i \in s.programs
        <5>1. PICK g \in Sockets : i = s.conn[g].program
          BY <2>6, <4>2
        <5>2. i # 0
          <6>1. i \in 1..Cardinality(Players)
            BY <4>2, Parts DEF Sound
          <6> QED
            BY <6>1
        <5> QED
          BY <2>7, <2>8, <5>1, <5>2
      <4> QED
        BY <4>1, <4>2
    <3>3. ASSUME NEW g \in Sockets, NEW h \in Sockets, t.conn[g].program # 0
          PROVE  t.conn[g].program = t.conn[h].program <=> t.conn[g].player = t.conn[h].player
      <4>1. CASE s.conn[g].player = p /\ s.conn[h].player = p
        BY <2>7, <4>1
      <4>2. CASE s.conn[g].player = p /\ s.conn[h].player # p
        BY <2>1, <2>2, <2>6, <2>7, <4>2
      <4>3. CASE s.conn[g].player # p /\ s.conn[h].player = p
        BY <2>1, <2>6, <2>7, <3>3, <4>3
      <4>4. CASE s.conn[g].player # p /\ s.conn[h].player # p
        BY <2>6, <2>7, <3>3, <4>4
      <4> QED
        BY <4>1, <4>2, <4>3, <4>4
    <3> QED
      BY <3>1, <3>2, <3>3 DEF ProgramsShared
  <2>10. Yields(s, t)
    BY <2>4, <2>9, ProgramsYields
  <2> QED
    BY <1>1, <1>3, <2>10
<1> QED
  BY <1>2, <1>3

LEMMA EndProgramYields ==
  ASSUME NEW s, Sound(s), NEW p \in Players
  PROVE  Yields(s, EndProgram(s, p))
<1> DEFINE prog == s.conn[Head(s.hash[p])].program
           programs == s.programs \ {prog}
           progcmd == s.progcmd \ {p}
           u == [s EXCEPT !.programs = programs, !.progcmd = progcmd]
           t == SetProgram(u, p, 0)
<1>1. EndProgram(s, p) = IF s.hash[p] = <<>> \/ prog = 0 THEN s ELSE t
  <2>1. FreeProgram(s, p, prog) = [s EXCEPT !.programs = programs, !.progcmd = progcmd]
    BY DEF FreeProgram
  <2> QED
    BY <2>1 DEF EndProgram
<1>2. CASE s.hash[p] = <<>> \/ prog = 0
  BY <1>1, <1>2, StaysSound
<1>3. CASE s.hash[p] # <<>> /\ prog # 0
  <2>1. PICK f \in Sockets : f = Head(s.hash[p]) /\ s.conn[f].player = p /\ s.conn[f].program = prog
    <3>1. s.hash[p] \in Seq(Sockets)
      BY Parts DEF Sound
    <3>2. Head(s.hash[p]) \in Range(s.hash[p])
      <4>1. Head(s.hash[p]) = s.hash[p][1] /\ 1 \in DOMAIN s.hash[p]
        BY <1>3, <3>1
      <4> QED
        BY <4>1 DEF Range
    <3>3. Range(s.hash[p]) = {f \in Sockets : s.conn[f].player = p}
      BY DEF Sound, Agree, ChainsAgree
    <3> QED
      BY <3>2, <3>3
  <2> HIDE DEF prog
  <2>2. programs \in SUBSET (1..Cardinality(Players)) /\ progcmd \in SUBSET Players
    BY Parts DEF Sound
  <2>3. Programs(s, t, p, 0) /\ t.programs = programs /\ t.progcmd = progcmd
    <3>1. 0 \in 0..Cardinality(Players)
      BY DescriptorsAssumption, FS_CardinalityType
    <3>2. SameConnections(s, u) /\ u.programs = programs /\ u.progcmd = progcmd
      <4> HIDE DEF programs, progcmd
      <4>1. s \in Net
        BY DEF Sound
      <4>2. u \in Net
        BY <2>2, <4>1 DEF Net
      <4> QED
        BY <4>1, <4>2 DEF Net, SameConnections
    <3> HIDE DEF u
    <3> QED
      BY <3>1, <3>2, SetProgramPrograms
  <2> HIDE DEF t
  <2>4. /\ \A g \in Sockets : s.conn[g].program # 0 =>
             s.conn[g].program \in s.programs /\ s.conn[g].player \in s.progcmd
        /\ \A g, h \in Sockets : s.conn[g].program # 0 =>
             (s.conn[g].program = s.conn[h].program <=> s.conn[g].player = s.conn[h].player)
        /\ s.programs \subseteq {s.conn[g].program : g \in Sockets}
    BY DEF Sound, Agree, ProgramsShared
  <2>5. \A g \in Sockets :
          /\ t.conn[g].player = s.conn[g].player
          /\ t.conn[g].program = IF s.conn[g].player = p THEN 0 ELSE s.conn[g].program
    BY <2>3 DEF Programs
  <2>6. \A g \in Sockets : s.conn[g].program = prog <=> s.conn[g].player = p
    BY <1>3, <2>1, <2>4
  <2>7. ProgramsShared(t)
    <3>1. \A g \in Sockets : t.conn[g].program # 0 =>
            t.conn[g].program \in t.programs /\ t.conn[g].player \in t.progcmd
      BY <2>3, <2>4, <2>5, <2>6
    <3>2. t.programs \subseteq {t.conn[g].program : g \in Sockets}
      <4> SUFFICES ASSUME NEW i \in programs PROVE i \in {t.conn[g].program : g \in Sockets}
        BY <2>3
      <4>1. PICK g \in Sockets : i = s.conn[g].program
        BY <2>4
      <4>2. s.conn[g].player # p
        BY <2>6, <4>1
      <4> QED
        BY <2>5, <4>1, <4>2
    <3>3. \A g, h \in Sockets : t.conn[g].program # 0 =>
            (t.conn[g].program = t.conn[h].program <=> t.conn[g].player = t.conn[h].player)
      BY <2>4, <2>5
    <3> QED
      BY <3>1, <3>2, <3>3 DEF ProgramsShared
  <2>8. Yields(s, t)
    BY <2>3, <2>7, ProgramsYields
  <2> QED
    BY <1>1, <1>3, <2>8
<1> QED
  BY <1>2, <1>3

-----------------------------------------------------------------------------
(***************************************************************************)
(* Commands.                                                               *)
(***************************************************************************)
LEMMA LastUsedIsIn ==
  ASSUME NEW s, Sound(s), NEW p \in Players, s.hash[p] # <<>>
  PROVE  LastUsed(s, p) \in Sockets
<1> DEFINE chain == s.hash[p]
           age(i) == s.conn[chain[i]].age
           ages == {age(i) : i \in DOMAIN chain}
           recent == {i \in DOMAIN chain :
                        \A j \in DOMAIN chain : s.conn[chain[i]].age <= s.conn[chain[j]].age}
<1>1. /\ chain \in Seq(Sockets) /\ Len(chain) \in Nat /\ DOMAIN chain = 1..Len(chain)
      /\ chain # <<>>
  BY Parts DEF Sound
<1>2. \A i \in DOMAIN chain : chain[i] \in Sockets
  BY <1>1
<1>3. \A i \in DOMAIN chain : age(i) \in Nat
  <2>1. Timeout + 1 \in Nat
    BY DescriptorsAssumption
  <2>2. \A f \in Sockets : s.conn[f].age \in 0..Timeout + 1
    BY Parts, Fields DEF Sound
  <2> QED
    BY <1>2, <2>1, <2>2
<1>4. ages \in SUBSET Nat /\ 1 \in DOMAIN chain
  BY <1>1, <1>3
<1>5. PICK n \in ages : \A k \in ages : n <= k
  <2>1. age(1) \in ages
    BY <1>4
  <2> HIDE DEF ages
  <2> QED
    BY <1>4, <2>1, LeastNumber
<1>6. PICK i \in DOMAIN chain : n = age(i)
  BY <1>5
<1>7. i \in recent
  BY <1>5, <1>6
<1>8. recent \in SUBSET Nat
  BY <1>1
<1>9. Min(recent) \in recent
  <2> HIDE DEF recent
  <2> QED
    BY <1>7, <1>8, MinIsIn
<1>10. chain[Min(recent)] \in Sockets
  BY <1>2, <1>9
<1> QED
  BY <1>10 DEF LastUsed

LEMMA CommandYields ==
  ASSUME NEW s, Sound(s), NEW p \in Players, NEW l \in Lines
  PROVE  Yields(s, process_command(s, p, l))
<1> DEFINE t == process_command(s, p, l)
<1>0. l.who \in Players
  BY DEF Lines
<1>1. CASE l.verb \in {"QUIT", "LOGOUT"}
  <2>1. CASE s.hash[p] # <<>>
    <3> DEFINE f == LastUsed(s, p)
    <3>1. f \in Sockets
      BY <2>1, LastUsedIsIn
    <3>2. t = Shutdown(s, f, l.verb)
      BY <1>1, <2>1 DEF process_command
    <3> HIDE DEF f, t
    <3> QED
      BY <3>1, <3>2, ShutdownDeparts DEF t, Departs
  <2>2. CASE s.hash[p] = <<>>
    <3>1. t = s
      BY <1>1, <2>2 DEF process_command
    <3> QED
      BY <3>1, StaysSound
  <2> QED
    BY <2>1, <2>2
<1>2. CASE l.verb = "@boot"
  <2>1. t = s \/ t = boot_off(s, l.who)
    BY <1>2 DEF process_command
  <2> QED
    BY <1>0, <2>1, BootYields, StaysSound
<1>3. CASE l.verb = "@destroy"
  <2>1. t = s \/ t = destroy_player(s, l.who)
    BY <1>3 DEF process_command
  <2> QED
    BY <1>0, <2>1, DestroyYields, StaysSound
<1>4. CASE l.verb = "@program"
  <2>1. t = s \/ t = do_prog(s, l.who)
    BY <1>4 DEF process_command
  <2> QED
    BY <1>0, <2>1, ProgYields, StaysSound
<1>5. CASE l.verb = "@quitprogram"
  <2>1. t = s \/ t = EndProgram(s, l.who)
    BY <1>5 DEF process_command
  <2> QED
    BY <1>0, <2>1, EndProgramYields, StaysSound
<1>6. CASE l.verb = "@logins"
  <2> DEFINE u == [s EXCEPT !.logins = ~@]
  <2>1. t = s \/ t = u
    BY <1>6 DEF process_command
  <2>2. Calm(s, u)
    <3>1. s \in Net
      BY DEF Sound
    <3>2. u \in Net
      BY <3>1 DEF Net
    <3> QED
      BY <3>1, <3>2 DEF Net, Calm
  <2> HIDE DEF u
  <2>3. Yields(s, u)
    BY <2>2, CalmYields
  <2> QED
    BY <2>1, <2>3, StaysSound
<1>7. CASE l.verb \notin {"QUIT", "LOGOUT", "@boot", "@destroy", "@program", "@quitprogram", "@logins"}
  <2>1. t = s
    BY <1>7 DEF process_command
  <2> QED
    BY <2>1, StaysSound
<1> QED
  BY <1>1, <1>2, <1>3, <1>4, <1>5, <1>6, <1>7

LEMMA DoCommandYields ==
  ASSUME NEW s, Sound(s), NEW f \in Sockets, s.conn[f].open, NEW l \in Lines
  PROVE  Yields(s, do_command(s, f, l))
<1> DEFINE p == s.conn[f].player
<1>1. p \in Players \cup {Nobody}
  BY Parts, Fields DEF Sound
<1>2. CASE p # Nobody
  <2>1. do_command(s, f, l) = process_command(s, p, l)
    BY <1>2 DEF do_command, IsConnected
  <2> HIDE DEF p
  <2>2. p \in Players
    BY <1>1, <1>2
  <2> QED
    BY <2>1, <2>2, CommandYields
<1>3. CASE p = Nobody /\ l.verb \in {"QUIT", "LOGOUT"}
  <2>1. do_command(s, f, l) = Shutdown(s, f, l.verb)
    BY <1>3 DEF do_command, IsConnected
  <2> QED
    BY <2>1, ShutdownDeparts DEF Departs
<1>4. CASE p = Nobody /\ l.verb \notin {"QUIT", "LOGOUT"}
  <2>1. do_command(s, f, l) = check_connect(s, f, l)
    BY <1>4 DEF do_command, IsConnected
  <2> QED
    BY <1>4, <2>1, ConnectYields
<1> QED
  BY <1>2, <1>3, <1>4

(* A line typed on an open connection.                                     *)
LEMMA RanYields ==
  ASSUME NEW s, Sound(s), NEW f \in Sockets, s.conn[f].open, NEW l \in Lines
  PROVE  Yields(s, Ran(s, f, l))
<1>1. \/ Ran(s, f, l) = s
      \/ Ran(s, f, l) = do_command(s, f, l)
      \/ s.conn[f].program # 0 /\ Ran(s, f, l) = EndProgram(s, s.conn[f].player)
  BY DEF Ran, handle_prog
<1>2. ASSUME s.conn[f].program # 0 PROVE s.conn[f].player \in Players
  BY <1>2, NobodyIsNone, Parts, Fields DEF Sound
<1>3. Yields(s, do_command(s, f, l))
  BY DoCommandYields
<1>4. ASSUME s.conn[f].program # 0 PROVE Yields(s, EndProgram(s, s.conn[f].player))
  BY <1>2, <1>4, EndProgramYields
<1> QED
  BY <1>1, <1>3, <1>4, StaysSound

-----------------------------------------------------------------------------
(***************************************************************************)
(* What the main loop does to connections besides.                         *)
(***************************************************************************)
(* Of a connection, nothing that has to agree changes from c to d.         *)
Alike(c, d) ==
  /\ d \in Connection
  /\ d.open = c.open /\ d.player = c.player /\ d.program = c.program
  /\ ~c.open => d.input = c.input

Redone(s, conn, dark) == [s EXCEPT !.conn = conn, !.dark = dark]

LEMMA RedoneCalm ==
  ASSUME NEW s, Sound(s), NEW conn, conn = [f \in Sockets |-> conn[f]],
         \A f \in Sockets : Alike(s.conn[f], conn[f]), NEW dark \in SUBSET Players
  PROVE  Calm(s, Redone(s, conn, dark)) /\ Redone(s, conn, dark).conn = conn
<1> DEFINE t == Redone(s, conn, dark)
<1>1. s \in Net
  BY DEF Sound
<1>2. conn \in [Sockets -> Connection]
  BY DEF Alike
<1>3. t = [s EXCEPT !.conn = conn, !.dark = dark]
  BY DEF Redone
<1> HIDE DEF t
<1>4. t \in Net
  BY <1>1, <1>2, <1>3 DEF Net
<1>5. /\ t.conn = conn /\ t.list = s.list /\ t.hash = s.hash /\ t.connected = s.connected
      /\ t.programs = s.programs /\ t.progcmd = s.progcmd /\ t.exists = s.exists
  BY <1>1, <1>3 DEF Net
<1>6. Calm(s, t)
  BY <1>4, <1>5 DEF Calm, Alike
<1> QED
  BY <1>5, <1>6 DEF t

(* Where only connections change, the dark are left as they were.          *)
LEMMA OnlyConnections ==
  ASSUME NEW s \in Net, NEW conn
  PROVE  [s EXCEPT !.conn = conn] = Redone(s, conn, s.dark) /\ s.dark \in SUBSET Players
BY DEF Redone, Net

LEMMA TakenYields ==
  ASSUME Sound(net), at \in Commanding(net)
  PROVE  /\ Yields(net, Taken) /\ Line \in Lines /\ net.conn[at].open
         /\ \A f \in Sockets : Taken.conn[f].open = net.conn[f].open
<1> DEFINE now == [net.conn[at] EXCEPT
                     !.input = Tail(@), !.quota = @ - 1,
                     !.age = IF Line.verb = "IDLE" \/ net.conn[at].player = Nobody
                             THEN @ ELSE 0]
           conn == [net.conn EXCEPT ![at] = now]
<1>1. net \in Net
  BY DEF Sound
<1>2. PICK c \in Connection : c = net.conn[at] /\ at \in Sockets /\ c.quota > 0 /\ c.input # <<>>
  BY <1>1, Parts DEF Commanding
<1>3. c.open
  <2>1. c.open \in BOOLEAN
    BY Fields
  <2> QED
    BY <1>2, <2>1 DEF Sound, Agree, ListAgrees
<1>4. Line \in Lines /\ Tail(c.input) \in Seq(Lines)
  <2>1. c.input \in Seq(Lines) /\ c.input # <<>>
    BY <1>2, Fields
  <2>2. Line = Head(c.input)
    BY <1>2 DEF Line
  <2>3. Head(c.input) \in Lines /\ Tail(c.input) \in Seq(Lines)
    BY <2>1
  <2> QED
    BY <2>2, <2>3
<1> DEFINE age == IF Line.verb = "IDLE" \/ c.player = Nobody THEN c.age ELSE 0
<1>5. c.quota - 1 \in 0..QuotaMax
  <2>1. c.quota \in 0..QuotaMax /\ c.quota > 0
    BY <1>2, Fields
  <2>2. QuotaMax \in Nat
    BY DescriptorsAssumption
  <2> QED
    BY <2>1, <2>2
<1>6. age \in 0..Timeout + 1
  <2>1. 0 \in 0..Timeout + 1
    BY DescriptorsAssumption
  <2> QED
    BY <2>1, Fields
<1>7. Taken = [net EXCEPT !.conn = conn]
  BY <1>1, <1>2, Parts DEF Taken, Net
<1>8. now = [c EXCEPT !.input = Tail(c.input), !.quota = c.quota - 1, !.age = age]
  BY <1>2 DEF Connection
<1> HIDE DEF now, age
<1>9. now \in Connection /\ now.open = c.open /\ now.player = c.player /\ now.program = c.program
  BY <1>4, <1>5, <1>6, <1>8 DEF Connection
<1>10. Alike(c, now)
  BY <1>3, <1>9 DEF Alike
<1>11. \A f \in Sockets : Alike(net.conn[f], conn[f])
  <2>1. \A f \in Sockets : net.conn[f] \in Connection
    BY <1>1, Parts
  <2> QED
    BY <1>1, <1>2, <1>10, <2>1, Parts DEF Alike
<1>12. conn = [f \in Sockets |-> conn[f]]
  BY <1>1, Parts
<1> HIDE DEF conn
<1>13. Taken = Redone(net, conn, net.dark) /\ net.dark \in SUBSET Players
  BY <1>1, <1>7, OnlyConnections
<1>14. Calm(net, Taken) /\ Taken.conn = conn
  BY <1>11, <1>12, <1>13, RedoneCalm
<1> QED
  BY <1>2, <1>3, <1>4, <1>11, <1>14, CalmYields DEF Alike

LEMMA QuotasYields ==
  ASSUME Sound(net), NEW slice \in BOOLEAN
  PROVE  LET more(c) == IF c.open /\ slice /\ c.quota < QuotaMax
                        THEN [c EXCEPT !.quota = @ + 1] ELSE c
         IN Yields(net, [net EXCEPT !.conn = [f \in Sockets |-> more(net.conn[f])]])
<1> DEFINE more(c) == IF c.open /\ slice /\ c.quota < QuotaMax
                      THEN [c EXCEPT !.quota = @ + 1] ELSE c
           conn == [f \in Sockets |-> more(net.conn[f])]
<1>1. net \in Net
  BY DEF Sound
<1>2. ASSUME NEW c \in Connection PROVE Alike(c, more(c))
  <2> DEFINE now == [c EXCEPT !.quota = c.quota + 1]
  <2>1. CASE c.quota < QuotaMax
    <3>1. c.quota + 1 \in 0..QuotaMax
      BY <2>1, Fields, DescriptorsAssumption
    <3>2. now \in Connection /\ now.open = c.open /\ now.player = c.player
          /\ now.program = c.program /\ now.input = c.input
      BY <3>1 DEF Connection
    <3>3. more(c) = now \/ more(c) = c
      OBVIOUS
    <3> HIDE DEF now, more
    <3> QED
      BY <3>2, <3>3 DEF Alike
  <2>2. CASE ~(c.quota < QuotaMax)
    BY <2>2 DEF Alike
  <2> QED
    BY <2>1, <2>2
<1> HIDE DEF more
<1>3. \A f \in Sockets : Alike(net.conn[f], conn[f])
  BY <1>1, <1>2, Parts
<1>4. conn = [f \in Sockets |-> conn[f]]
  OBVIOUS
<1> HIDE DEF conn
<1>5. [net EXCEPT !.conn = conn] = Redone(net, conn, net.dark) /\ net.dark \in SUBSET Players
  BY <1>1, OnlyConnections
<1>6. Calm(net, Redone(net, conn, net.dark))
  BY <1>3, <1>4, <1>5, RedoneCalm
<1>7. Yields(net, [net EXCEPT !.conn = conn])
  BY <1>5, <1>6, CalmYields
<1> QED
  BY <1>7 DEF conn, more

LEMMA OlderYields ==
  ASSUME Sound(net)
  PROVE  Yields(net, [net EXCEPT !.conn = [f \in Sockets |-> Older(net.conn[f])]])
<1> DEFINE conn == [f \in Sockets |-> Older(net.conn[f])]
<1>1. net \in Net
  BY DEF Sound
<1>2. ASSUME NEW c \in Connection PROVE Alike(c, Older(c))
  <2> DEFINE now == [c EXCEPT !.age = c.age + 1]
  <2>1. CASE c.age <= Timeout
    <3>1. c.age + 1 \in 0..Timeout + 1
      BY <2>1, Fields, DescriptorsAssumption
    <3>2. now \in Connection /\ now.open = c.open /\ now.player = c.player
          /\ now.program = c.program /\ now.input = c.input
      BY <3>1 DEF Connection
    <3>3. Older(c) = now \/ Older(c) = c
      BY DEF Older
    <3> HIDE DEF now
    <3> QED
      BY <3>2, <3>3 DEF Alike
  <2>2. CASE ~(c.age <= Timeout)
    BY <2>2 DEF Alike, Older
  <2> QED
    BY <2>1, <2>2
<1>3. \A f \in Sockets : Alike(net.conn[f], conn[f])
  BY <1>1, <1>2, Parts
<1>4. conn = [f \in Sockets |-> conn[f]]
  OBVIOUS
<1> HIDE DEF conn
<1>5. [net EXCEPT !.conn = conn] = Redone(net, conn, net.dark) /\ net.dark \in SUBSET Players
  BY <1>1, OnlyConnections
<1>6. Calm(net, Redone(net, conn, net.dark))
  BY <1>3, <1>4, <1>5, RedoneCalm
<1>7. Yields(net, [net EXCEPT !.conn = conn])
  BY <1>5, <1>6, CalmYields
<1> QED
  BY <1>7 DEF conn

LEMMA AnswerYields ==
  ASSUME NEW s, Sound(s), NEW site \in Sites, NEW junk
  PROVE  /\ Sound(Answer(s, site, junk))
         /\ \A f \in Sockets : Answer(s, site, junk).conn[f].open = s.conn[f].open
<1> DEFINE unnamed(k) == {j \in 1..k : s.conn[s.list[j]].name = 0}
           read(k) == IF unnamed(k) = {} THEN junk ELSE s.conn[s.list[Max(unnamed(k))]].site
           given == {s.list[k] : k \in {i \in DOMAIN s.list : read(i) = site}}
           conn == [f \in Sockets |->
                      IF f \in given THEN [s.conn[f] EXCEPT !.name = site] ELSE s.conn[f]]
<1>1. s \in Net
  BY DEF Sound
<1>2. Answer(s, site, junk) = [s EXCEPT !.conn = conn]
  BY DEF Answer
<1> HIDE DEF given
<1>3. ASSUME NEW f \in Sockets PROVE Alike(s.conn[f], conn[f])
  <2>1. PICK c \in Connection : c = s.conn[f]
    BY <1>1, Parts
  <2> DEFINE now == [c EXCEPT !.name = site]
  <2>2. now \in Connection /\ now.open = c.open /\ now.player = c.player
        /\ now.program = c.program /\ now.input = c.input
    BY DEF Connection
  <2>3. conn[f] = now \/ conn[f] = c
    BY <2>1
  <2> HIDE DEF now, conn
  <2> QED
    BY <2>1, <2>2, <2>3 DEF Alike
<1>4. conn = [f \in Sockets |-> conn[f]]
  OBVIOUS
<1> HIDE DEF conn
<1>5. Answer(s, site, junk) = Redone(s, conn, s.dark) /\ s.dark \in SUBSET Players
  BY <1>1, <1>2, OnlyConnections
<1>6. Calm(s, Answer(s, site, junk)) /\ Answer(s, site, junk).conn = conn
  BY <1>3, <1>4, <1>5, RedoneCalm
<1> QED
  BY <1>3, <1>6, CalmYields DEF Alike, Yields

LEMMA InitializeSound ==
  ASSUME NEW s, Sound(s), NEW f \in Sockets, ~s.conn[f].open, NEW site \in Sites
  PROVE  Sound(Initialize(s, f, site))
<1> DEFINE now == [Closed EXCEPT !.open = TRUE, !.retries = RetryLimit,
                                 !.quota = QuotaMax, !.site = site]
           list == <<f>> \o s.list
           conn == [s.conn EXCEPT ![f] = now]
           t == Initialize(s, f, site)
<1>1. s \in Net /\ ListAgrees(s) /\ ChainsAgree(s) /\ ProgramsShared(s)
  BY DEF Sound, Agree
<1>2. t = [s EXCEPT !.list = list, !.conn = conn]
  BY <1>1 DEF Initialize, Net
<1>3. now \in Connection /\ now.open /\ now.player = Nobody /\ now.program = 0
  <2>1. RetryLimit \in 0..RetryLimit /\ QuotaMax \in 0..QuotaMax
    BY DescriptorsAssumption
  <2>2. Closed \in Connection /\ Closed.player = Nobody /\ Closed.program = 0
    BY ClosedFields
  <2> QED
    BY <2>1, <2>2 DEF Connection
<1> HIDE DEF now
<1>4. /\ conn \in [Sockets -> Connection] /\ conn[f] = now
      /\ \A g \in Sockets \ {f} : conn[g] = s.conn[g]
  BY <1>1, <1>3, Parts
<1>5. s.list \in Seq(Sockets) /\ f \notin Range(s.list)
  BY <1>1, Parts DEF ListAgrees
<1>6. list \in Seq(Sockets) /\ Range(list) = {f} \cup Range(s.list) /\ IsInjective(list)
  BY <1>1, <1>5, InFront DEF ListAgrees
<1> HIDE DEF conn, list, t
<1>7. t \in Net
  BY <1>1, <1>2, <1>4, <1>6 DEF Net
<1>8. /\ t.conn = conn /\ t.list = list /\ t.hash = s.hash /\ t.connected = s.connected
      /\ t.programs = s.programs /\ t.progcmd = s.progcmd /\ t.exists = s.exists
  BY <1>1, <1>2 DEF Net
<1>9. s.conn[f].player = Nobody /\ s.conn[f].program = 0
  BY <1>1 DEF ListAgrees
<1>10. ListAgrees(t)
  <2>1. Range(t.list) = {g \in Sockets : t.conn[g].open}
    BY <1>1, <1>3, <1>4, <1>6, <1>8 DEF ListAgrees
  <2> QED
    BY <1>1, <1>3, <1>4, <1>6, <1>8, <2>1 DEF ListAgrees
<1>11. \A g \in Sockets : conn[g].player = s.conn[g].player /\ conn[g].program = s.conn[g].program
  BY <1>3, <1>4, <1>9
<1>12. ChainsAgree(t)
  <2>1. \A p \in Players : {g \in Sockets : t.conn[g].player = p} = {g \in Sockets : s.conn[g].player = p}
    BY <1>8, <1>11
  <2> QED
    BY <1>1, <1>8, <2>1 DEF ChainsAgree
<1>13. ProgramsShared(t)
  <2>1. {t.conn[g].program : g \in Sockets} = {s.conn[g].program : g \in Sockets}
    BY <1>8, <1>11
  <2> QED
    BY <1>1, <1>8, <1>11, <2>1 DEF ProgramsShared
<1> QED
  BY <1>7, <1>10, <1>12, <1>13 DEF Sound, Agree, t

LEMMA RestartedYields ==
  ASSUME NEW s, Sound(s)
  PROVE  Yields(s, Restarted(s))
<1> DEFINE mine(p) == {f \in Sockets : s.conn[f].player = p}
           of(p) == Only(s.list, mine(p))
           again(c) == [c EXCEPT !.retries = RetryLimit, !.quota = QuotaMax,
                                 !.input = <<>>, !.program = 0]
           conn == [f \in Sockets |-> IF ~s.conn[f].open THEN Closed ELSE again(s.conn[f])]
           hash == [p \in Players |-> Reverse(of(p))]
           connected == {p \in Players : of(p) # <<>>}
           none == {}
           queue == <<>>
           t == Restarted(s)
<1>1. s \in Net /\ ListAgrees(s) /\ ChainsAgree(s) /\ Nobody \notin Players
  BY NobodyIsNone DEF Sound, Agree
<1>2. t = [s EXCEPT !.conn = conn, !.hash = hash, !.connected = connected,
                    !.programs = none, !.queue = queue]
  BY DEF Restarted
<1>3. ASSUME NEW f \in Sockets
      PROVE  /\ conn[f] \in Connection
             /\ conn[f].open = s.conn[f].open /\ conn[f].player = s.conn[f].player
             /\ conn[f].program = 0 /\ conn[f].input = <<>>
  <2>1. PICK c \in Connection : c = s.conn[f]
    BY <1>1, Parts
  <2>2. CASE ~c.open
    <3>1. conn[f] = Closed /\ c.player = Nobody
      BY <1>1, <2>1, <2>2 DEF ListAgrees
    <3>2. c.open = FALSE /\ Closed.open = FALSE
      BY <2>2, ClosedFields DEF Connection, Closed
    <3> QED
      BY <2>1, <3>1, <3>2, ClosedFields
  <2>3. CASE c.open
    <3>1. conn[f] = again(c)
      BY <2>1, <2>3
    <3>2. RetryLimit \in 0..RetryLimit /\ QuotaMax \in 0..QuotaMax
      BY DescriptorsAssumption
    <3>3. 0 \in 0..Cardinality(Players) /\ <<>> \in Seq(Lines)
      BY DescriptorsAssumption, FS_CardinalityType
    <3>4. /\ again(c) \in Connection /\ again(c).open = c.open /\ again(c).player = c.player
          /\ again(c).program = 0 /\ again(c).input = <<>>
      BY <3>2, <3>3 DEF Connection
    <3> HIDE DEF again, conn
    <3> QED
      BY <2>1, <3>1, <3>4
  <2> QED
    BY <2>2, <2>3
<1>4. ASSUME NEW p \in Players
      PROVE  /\ hash[p] \in Seq(Sockets) /\ IsInjective(hash[p]) /\ Range(hash[p]) = mine(p)
             /\ p \in connected <=> hash[p] # <<>>
             /\ p \in connected <=> p \in s.connected
  <2>1. s.list \in Seq(Sockets) /\ IsInjective(s.list) /\ mine(p) \subseteq Range(s.list)
    BY <1>1, Parts DEF ListAgrees
  <2> HIDE DEF mine
  <2>2. of(p) \in Seq(Sockets) /\ IsInjective(of(p)) /\ Range(of(p)) = mine(p)
    <3> DEFINE list == s.list
               S == mine(p)
    <3>1. list \in Seq(Sockets) /\ IsInjective(list) /\ S \subseteq Range(list)
      BY <2>1
    <3>2. of(p) = Only(list, S)
      OBVIOUS
    <3> HIDE DEF list, S, of
    <3>3. /\ Only(list, S) \in Seq(Sockets) /\ IsInjective(Only(list, S))
          /\ Range(Only(list, S)) = Range(list) \cap S
      BY <3>1, OnlyProperties
    <3> QED
      BY <3>1, <3>2, <3>3 DEF S
  <2>3. hash[p] = Reverse(of(p)) /\ (p \in connected <=> of(p) # <<>>)
    OBVIOUS
  <2> HIDE DEF of, hash, connected
  <2>4. hash[p] \in Seq(Sockets) /\ IsInjective(hash[p]) /\ Range(hash[p]) = mine(p)
    BY <2>2, <2>3, Backwards
  <2>5. (of(p) = <<>> <=> mine(p) = {}) /\ (hash[p] = <<>> <=> mine(p) = {})
    BY <2>2, <2>4, EmptyRange
  <2>6. p \in s.connected <=> mine(p) # {}
    <3>1. s.hash[p] \in Seq(Sockets) /\ Range(s.hash[p]) = mine(p)
      BY <1>1, Parts DEF ChainsAgree, mine
    <3>2. s.hash[p] = <<>> <=> mine(p) = {}
      BY <3>1, EmptyRange
    <3> QED
      BY <1>1, <3>2 DEF ChainsAgree
  <2> QED
    BY <2>3, <2>4, <2>5, <2>6
<1>5. conn \in [Sockets -> Connection]
  BY <1>3
<1>6. hash \in [Players -> Seq(Sockets)]
  <2>1. hash = [p \in Players |-> hash[p]]
    OBVIOUS
  <2> HIDE DEF hash
  <2> QED
    BY <1>4, <2>1
<1>7. /\ connected \in SUBSET Players /\ none \in SUBSET (1..Cardinality(Players))
      /\ queue \in Seq([what : {"connect", "disconnect", "program"}, player : Players])
  OBVIOUS
<1>8. none = {}
  OBVIOUS
<1> HIDE DEF conn, hash, connected, none, queue, t
<1>9. t \in Net
  BY <1>1, <1>2, <1>5, <1>6, <1>7 DEF Net
<1>10. /\ t.conn = conn /\ t.list = s.list /\ t.hash = hash /\ t.connected = connected
       /\ t.programs = none /\ t.exists = s.exists
  BY <1>1, <1>2 DEF Net
<1>11. ListAgrees(t)
  BY <1>1, <1>3, <1>10 DEF ListAgrees
<1>12. ChainsAgree(t)
  <2> SUFFICES ASSUME NEW p \in Players
               PROVE  /\ IsInjective(t.hash[p])
                      /\ Range(t.hash[p]) = {f \in Sockets : t.conn[f].player = p}
                      /\ p \in t.connected <=> t.hash[p] # <<>>
                      /\ p \in t.connected => p \in t.exists
    BY DEF ChainsAgree
  <2>1. mine(p) = {f \in Sockets : t.conn[f].player = p}
    BY <1>3, <1>10
  <2>2. p \in s.connected => p \in s.exists
    BY <1>1 DEF ChainsAgree
  <2> HIDE DEF mine
  <2> QED
    BY <1>4, <1>10, <2>1, <2>2
<1>13. ProgramsShared(t)
  BY <1>3, <1>8, <1>10 DEF ProgramsShared
<1>14. NoneOpened(s, t)
  BY <1>3, <1>10 DEF NoneOpened
<1> QED
  BY <1>9, <1>11, <1>12, <1>13, <1>14 DEF Yields, Sound, Agree, t

-----------------------------------------------------------------------------
(***************************************************************************)
(* The loop over the descriptors.                                          *)
(***************************************************************************)
LEMMA PositionIsIn ==
  ASSUME NEW s, Sound(s), NEW f \in Range(s.list)
  PROVE  /\ s.list \in Seq(Sockets) /\ Len(s.list) \in Nat
         /\ Position(s, f) \in 1..Len(s.list) /\ s.list[Position(s, f)] = f
<1>1. s.list \in Seq(Sockets) /\ Len(s.list) \in Nat /\ DOMAIN s.list = 1..Len(s.list)
  BY Parts DEF Sound
<1>2. \E i \in DOMAIN s.list : s.list[i] = f
  BY DEF Range
<1>3. Position(s, f) \in DOMAIN s.list /\ s.list[Position(s, f)] = f
  BY <1>2 DEF Position
<1> QED
  BY <1>1, <1>3

LEMMA FirstTyped ==
  ASSUME NEW s, Sound(s)
  PROVE  First(s) \in Sockets \cup {NoSocket}
<1>1. s.list \in Seq(Sockets)
  BY Parts DEF Sound
<1>2. s.list # <<>> => Head(s.list) \in Sockets
  BY <1>1
<1> QED
  BY <1>2 DEF First

LEMMA AfterTyped ==
  ASSUME NEW s, Sound(s), NEW f, f = NoSocket \/ f \in Range(s.list)
  PROVE  After(s, f) \in Sockets \cup {NoSocket}
<1>1. CASE f = NoSocket
  BY <1>1 DEF After
<1>2. CASE f # NoSocket
  <2> DEFINE i == Position(s, f)
  <2>1. s.list \in Seq(Sockets) /\ Len(s.list) \in Nat /\ i \in 1..Len(s.list)
    BY <1>2, PositionIsIn
  <2>2. CASE i = Len(s.list)
    BY <1>2, <2>2 DEF After
  <2>3. CASE i # Len(s.list)
    <3>1. After(s, f) = s.list[i + 1]
      BY <1>2, <2>3 DEF After
    <3> HIDE DEF i
    <3>2. i + 1 \in 1..Len(s.list)
      BY <2>1, <2>3
    <3> QED
      BY <2>1, <3>1, <3>2
  <2> QED
    BY <2>2, <2>3
<1> QED
  BY <1>1, <1>2

(* The loop comes to one that is open and has work, or to its end.         *)
LEMMA ReachedHasWork ==
  ASSUME NEW s, Sound(s), NEW f \in Sockets \cup {NoSocket}, NEW work,
         NEW g \in Reached(s, f, work)
  PROVE  /\ g \in Sockets \cup {NoSocket} /\ After(s, g) \in Sockets \cup {NoSocket}
         /\ g # NoSocket => g \in work /\ s.conn[g].open
<1>1. g = NoSocket \/ g \in Range(s.list) \cap work
  <2>1. CASE f = NoSocket
    BY <2>1 DEF Reached
  <2>2. CASE f # NoSocket /\ ~s.conn[f].open
    BY <2>2 DEF Reached
  <2>3. CASE f # NoSocket /\ s.conn[f].open
    <3> DEFINE left == {i \in Position(s, f)..Len(s.list) : s.list[i] \in work}
    <3>1. f \in Range(s.list)
      BY <2>3 DEF Sound, Agree, ListAgrees
    <3>2. Position(s, f) \in 1..Len(s.list) /\ Len(s.list) \in Nat /\ s.list \in Seq(Sockets)
      BY <3>1, PositionIsIn
    <3>3. g = IF left = {} THEN NoSocket ELSE s.list[Min(left)]
      BY <2>3 DEF Reached
    <3>4. left \in SUBSET Nat /\ \A i \in left : i \in 1..Len(s.list) /\ s.list[i] \in work
      BY <3>2
    <3> HIDE DEF left
    <3>5. left # {} => Min(left) \in left
      BY <3>4, MinIsIn
    <3>6. \A i \in 1..Len(s.list) : s.list[i] \in Range(s.list)
      BY <3>2 DEF Range
    <3> QED
      BY <3>3, <3>4, <3>5, <3>6
  <2> QED
    BY <2>1, <2>2, <2>3
<1>2. Range(s.list) = {h \in Sockets : s.conn[h].open}
  BY DEF Sound, Agree, ListAgrees
<1>3. After(s, g) \in Sockets \cup {NoSocket}
  BY <1>1, AfterTyped
<1> QED
  BY <1>1, <1>2, <1>3

(* A descriptor is free where fewer are listed than there are.             *)
LEMMA DescriptorToSpare ==
  ASSUME NEW s, Sound(s), Len(s.list) < Cardinality(Sockets)
  PROVE  \E f \in Sockets : ~s.conn[f].open
<1> SUFFICES ASSUME \A f \in Sockets : s.conn[f].open PROVE FALSE
  OBVIOUS
<1>1. s.list \in Seq(Sockets) /\ IsInjective(s.list) /\ Range(s.list) = Sockets
  BY Parts DEF Sound, Agree, ListAgrees
<1>2. Cardinality(Sockets) = Len(s.list)
  <2> DEFINE list == s.list
  <2>1. list \in Seq(Sockets) /\ IsInjective(list) /\ Range(list) = Sockets
    BY <1>1
  <2> HIDE DEF list
  <2>2. Cardinality(Range(list)) = Len(list)
    BY <2>1, InjectiveLength
  <2> QED
    BY <2>1, <2>2 DEF list
<1>3. Len(s.list) \in Nat
  BY <1>1
<1> QED
  BY <1>2, <1>3

-----------------------------------------------------------------------------
(***************************************************************************)
(* The actions.                                                            *)
(***************************************************************************)
WireTyped == wire \in [Sockets -> [lines : Seq(Lines), gone : BOOLEAN]]
Spots == Sockets \cup {NoSocket}
AllBits == [input : SUBSET Sockets, output : SUBSET Sockets, listen : BOOLEAN, found : BOOLEAN]

LEMMA InvParts ==
  ConnectionsInv <=>
    /\ Sound(net) /\ pc \in Stations /\ at \in Spots /\ next \in Spots /\ busy \in BOOLEAN
    /\ bits \in AllBits /\ WireTyped /\ dns \in [asked : Seq(Sites), answered : Seq(Sites)]
    /\ waiting \in 0..MaxOpens /\ opens \in 0..MaxOpens /\ typed \in 0..MaxTyped
    /\ LoopHasWork
BY DEF ConnectionsInv, TypeOK, Sound, WireTyped, Spots, AllBits

LEMMA SilenceTyped == Silence \in [lines : Seq(Lines), gone : BOOLEAN]
BY DEF Silence

LEMMA EmptiedWire ==
  ASSUME NEW w \in [lines : Seq(Lines), gone : BOOLEAN]
  PROVE  [w EXCEPT !.lines = <<>>] \in [lines : Seq(Lines), gone : BOOLEAN]
<1> DEFINE none == <<>>
<1>1. none \in Seq(Lines)
  OBVIOUS
<1> HIDE DEF none
<1>2. [w EXCEPT !.lines = none] \in [lines : Seq(Lines), gone : BOOLEAN]
  BY <1>1
<1> QED
  BY <1>2 DEF none

LEMMA BecomesTyped ==
  ASSUME WireTyped, NEW s, Becomes(s)
  PROVE  net' = s /\ WireTyped'
BY SilenceTyped DEF Becomes, WireTyped

(* Where the loop over the descriptors of s goes.                          *)
LEMMA MovesToWork ==
  ASSUME NEW s, Sound(s), NEW f \in Spots, NEW work, MoveTo(s, f, work)
  PROVE  /\ at' \in Spots /\ next' \in Spots
         /\ at' # NoSocket => at' \in work /\ s.conn[at'].open
<1>1. PICK g \in Reached(s, f, work) : at' = g /\ next' = After(s, g)
  BY DEF MoveTo
<1> QED
  BY <1>1, ReachedHasWork DEF Spots

LEMMA BitsTyped == NoBits \in AllBits
BY DEF NoBits, AllBits

(* The invariant holds after a step whose parts it holds of.               *)
LEMMA InvNext ==
  ASSUME Sound(net'), pc' \in Stations, at' \in Spots, next' \in Spots, busy' \in BOOLEAN,
         bits' \in AllBits, WireTyped', dns' \in [asked : Seq(Sites), answered : Seq(Sites)],
         waiting' \in 0..MaxOpens, opens' \in 0..MaxOpens, typed' \in 0..MaxTyped, LoopHasWork'
  PROVE  ConnectionsInv'
BY DEF ConnectionsInv, TypeOK, Sound, WireTyped, Spots, AllBits

LEMMA UpdateQuotasKeeps ==
  ASSUME ConnectionsInv, NEW slice \in BOOLEAN, UpdateQuotas(slice)
  PROVE  ConnectionsInv'
<1> USE InvParts
<1>1. Sound(net') /\ WireTyped'
  <2> DEFINE more(c) == IF c.open /\ slice /\ c.quota < QuotaMax
                        THEN [c EXCEPT !.quota = @ + 1] ELSE c
             s == [net EXCEPT !.conn = [f \in Sockets |-> more(net.conn[f])]]
  <2>1. Sound(s)
    BY QuotasYields DEF Yields
  <2>2. Becomes(s)
    BY DEF UpdateQuotas
  <2> HIDE DEF s
  <2> QED
    BY <2>1, <2>2, BecomesTyped
<1>2. /\ at' \in Spots /\ next' \in Spots /\ pc' = "commands"
      /\ at' # NoSocket => at' \in Commanding(net')
  <2>1. MoveTo(net', First(net'), Commanding(net')) /\ pc' = "commands"
    BY DEF UpdateQuotas, Begin
  <2>2. First(net') \in Spots
    BY <1>1, FirstTyped DEF Spots
  <2> QED
    BY <1>1, <2>1, <2>2, MovesToWork
<1>3. UNCHANGED <<busy, bits, waiting, opens, typed, dns>>
  BY DEF UpdateQuotas, arrivals
<1>4. LoopHasWork'
  BY <1>2, <1>3 DEF LoopHasWork
<1> QED
  BY <1>1, <1>2, <1>3, <1>4, InvNext DEF Stations

LEMMA CommandKeeps ==
  ASSUME ConnectionsInv, Command
  PROVE  ConnectionsInv'
<1> USE InvParts
<1>1. Sound(net') /\ WireTyped'
  <2>1. pc = "commands" /\ at # NoSocket /\ Becomes(Ran(Taken, at, Line))
    BY DEF Command
  <2>2. at \in Commanding(net)
    BY <2>1 DEF LoopHasWork
  <2>3. at \in Sockets
    BY <2>2 DEF Commanding
  <2>4. Sound(Taken) /\ Line \in Lines /\ Taken.conn[at].open
    BY <2>2, <2>3, TakenYields DEF Yields
  <2>5. Sound(Ran(Taken, at, Line))
    BY <2>3, <2>4, RanYields DEF Yields
  <2> QED
    BY <2>1, <2>5, BecomesTyped
<1>2. /\ at' \in Spots /\ next' \in Spots /\ pc' = "commands"
      /\ at' # NoSocket => at' \in Commanding(net')
  <2>1. MoveTo(net', next, Commanding(net')) /\ pc' = "commands"
    BY DEF Command, GoOn
  <2> QED
    BY <1>1, <2>1, MovesToWork
<1>3. UNCHANGED <<bits, waiting, opens, typed, dns>> /\ busy' = TRUE
  BY DEF Command, arrivals
<1>4. LoopHasWork'
  BY <1>2, <1>3 DEF LoopHasWork
<1> QED
  BY <1>1, <1>2, <1>3, <1>4, InvNext DEF Stations

LEMMA RestartKeeps ==
  ASSUME ConnectionsInv, Restart
  PROVE  ConnectionsInv'
<1> USE InvParts
<1>1. Sound(net') /\ WireTyped'
  <2>1. pc = "commands" /\ at # NoSocket /\ Becomes(Restarted(Taken))
    BY DEF Restart
  <2>2. at \in Commanding(net)
    BY <2>1 DEF LoopHasWork
  <2>3. Sound(Restarted(Taken))
    BY <2>2, TakenYields, RestartedYields DEF Yields
  <2> QED
    BY <2>1, <2>3, BecomesTyped
<1>2. /\ pc' = "quotas" /\ at' \in Spots /\ next' \in Spots /\ busy' = FALSE
      /\ UNCHANGED <<bits, waiting, opens, typed>>
  BY DEF Restart, Leave, arrivals, Spots
<1>3. dns' \in [asked : Seq(Sites), answered : Seq(Sites)]
  <2>1. dns' = [asked |-> <<>>, answered |-> <<>>]
    BY DEF Restart
  <2> QED
    BY <2>1
<1>4. LoopHasWork'
  BY <1>2 DEF LoopHasWork
<1> QED
  BY <1>1, <1>2, <1>3, <1>4, InvNext DEF Stations

LEMMA EndPassKeeps ==
  ASSUME ConnectionsInv, EndPass
  PROVE  ConnectionsInv'
<1> USE InvParts
<1>1. UNCHANGED <<net, bits, wire, waiting, opens, typed, dns>> /\ busy' = FALSE
  BY DEF EndPass, clients, arrivals
<1>2. CASE busy
  <2>1. MoveTo(net, First(net), Commanding(net)) /\ pc' = "commands"
    BY <1>2 DEF EndPass, Begin
  <2>2. First(net) \in Spots
    BY FirstTyped DEF Spots
  <2>3. /\ at' \in Spots /\ next' \in Spots
        /\ at' # NoSocket => at' \in Commanding(net)
    BY <2>1, <2>2, MovesToWork
  <2>4. LoopHasWork'
    BY <1>1, <2>1, <2>3 DEF LoopHasWork
  <2> QED
    BY <1>1, <2>1, <2>3, <2>4, InvNext DEF Stations, WireTyped
<1>3. CASE ~busy
  <2>1. pc' = "dispatch" /\ at' \in Spots /\ next' \in Spots
    BY <1>3 DEF EndPass, Leave, Spots
  <2>2. LoopHasWork'
    BY <1>1, <2>1 DEF LoopHasWork
  <2> QED
    BY <1>1, <2>1, <2>2, InvNext DEF Stations, WireTyped
<1> QED
  BY <1>2, <1>3

LEMMA DispatchKeeps ==
  ASSUME ConnectionsInv, NEW due \in BOOLEAN, Dispatch(due)
  PROVE  ConnectionsInv'
<1> USE InvParts
<1>1. Sound(net') /\ WireTyped'
  <2> DEFINE older == [net EXCEPT !.conn = [f \in Sockets |-> Older(net.conn[f])]]
             s == IF due THEN check_idle(older) ELSE net
  <2>1. Sound(s)
    <3>1. Sound(older)
      BY OlderYields DEF Yields
    <3> HIDE DEF older
    <3> QED
      BY <3>1, CheckYields DEF Yields
  <2>2. Becomes(s)
    BY DEF Dispatch
  <2> HIDE DEF s
  <2> QED
    BY <2>1, <2>2, BecomesTyped
<1>2. pc' = "select" /\ UNCHANGED <<at, next, busy, bits, waiting, opens, typed, dns>>
  BY DEF Dispatch, arrivals
<1>3. LoopHasWork'
  BY <1>2 DEF LoopHasWork
<1> QED
  BY <1>1, <1>2, <1>3, InvNext DEF Stations

LEMMA SelectKeeps ==
  ASSUME ConnectionsInv, Select
  PROVE  ConnectionsInv'
<1> USE InvParts
<1>1. pc' = "queue" /\ UNCHANGED <<net, at, next, busy, wire, waiting, opens, typed, dns>>
  BY DEF Select, clients, arrivals
<1> DEFINE listen == waiting > 0 /\ Len(net.list) < Cardinality(Sockets)
           input == {f \in Sockets : Readable(f) /\ net.conn[f].input = <<>>}
<1>2. PICK output \in SUBSET {f \in Sockets : net.conn[f].open /\ wire[f].gone},
           other \in {FALSE, dns.answered # <<>>} :
        bits' = [input |-> input, output |-> output, listen |-> listen,
                 found |-> input # {} \/ output # {} \/ listen \/ other]
  BY DEF Select
<1>3. bits' \in AllBits /\ bits'.listen = listen
  <2> DEFINE found == input # {} \/ output # {} \/ listen \/ other
  <2>1. /\ input \in SUBSET Sockets /\ output \in SUBSET Sockets
        /\ listen \in BOOLEAN /\ found \in BOOLEAN
    OBVIOUS
  <2> HIDE DEF input, listen, found
  <2>2. bits' = [input |-> input, output |-> output, listen |-> listen, found |-> found]
    BY <1>2 DEF found
  <2> QED
    BY <2>1, <2>2 DEF AllBits
<1>4. listen => \E f \in Sockets : ~net.conn[f].open
  BY DescriptorToSpare
<1>5. LoopHasWork'
  BY <1>1, <1>3, <1>4 DEF LoopHasWork
<1> HIDE DEF listen, input
<1> QED
  BY <1>1, <1>3, <1>5, InvNext DEF Stations, WireTyped

LEMMA RunQueuedKeeps ==
  ASSUME ConnectionsInv, RunQueued
  PROVE  ConnectionsInv'
<1> USE InvParts
<1> DEFINE p == Head(net.queue).player
           queue == Tail(net.queue)
           popped == [net EXCEPT !.queue = queue]
<1>1. net \in Net /\ net.queue # <<>>
  BY DEF RunQueued, Sound
<1>2. p \in Players /\ queue \in Seq([what : {"connect", "disconnect", "program"}, player : Players])
  <2> DEFINE E == [what : {"connect", "disconnect", "program"}, player : Players]
  <2>1. net.queue \in Seq(E) /\ net.queue # <<>>
    BY <1>1, Parts
  <2>2. \A e \in E : e.player \in Players
    OBVIOUS
  <2> HIDE DEF E
  <2>3. Head(net.queue) \in E /\ Tail(net.queue) \in Seq(E)
    BY <2>1
  <2> QED
    BY <2>2, <2>3 DEF E
<1>3. Yields(net, popped)
  <2> HIDE DEF queue
  <2>1. popped \in Net
    BY <1>1, <1>2 DEF Net
  <2>2. Calm(net, popped)
    BY <1>1, <2>1 DEF Net, Calm
  <2> HIDE DEF popped
  <2> QED
    BY <2>2, CalmYields
<1>4. \/ Becomes(popped)
      \/ \E l \in Ordered : Becomes(process_command(popped, p, l))
  BY DEF RunQueued
<1>5. Yields(net, net') /\ WireTyped'
  <2> HIDE DEF popped, p
  <2>1. CASE Becomes(popped)
    BY <1>3, <2>1, BecomesTyped
  <2>2. CASE \E l \in Ordered : Becomes(process_command(popped, p, l))
    <3>1. PICK l \in Ordered : Becomes(process_command(popped, p, l))
      BY <2>2
    <3>2. l \in Lines
      BY ConnectionsAssumption
    <3>3. Sound(popped)
      BY <1>3 DEF Yields
    <3> DEFINE s == process_command(popped, p, l)
    <3>4. Yields(popped, s)
      BY <1>2, <3>2, <3>3, CommandYields
    <3>5. Becomes(s)
      BY <3>1
    <3> HIDE DEF s
    <3>6. Yields(net, s)
      BY <1>3, <3>4, YieldsOn
    <3> QED
      BY <3>5, <3>6, BecomesTyped
  <2> QED
    BY <1>4, <2>1, <2>2
<1>6. pc = "queue" /\ UNCHANGED <<pc, at, next, busy, bits, waiting, opens, typed, dns>>
  BY DEF RunQueued, loop, arrivals
<1>7. LoopHasWork'
  BY <1>5, <1>6 DEF LoopHasWork, Yields, NoneOpened
<1> QED
  BY <1>5, <1>6, <1>7, InvNext DEF Yields

LEMMA QueueDoneKeeps ==
  ASSUME ConnectionsInv, QueueDone
  PROVE  ConnectionsInv'
<1> USE InvParts
<1>1. /\ pc = "queue" /\ pc' = IF bits.found THEN "accept" ELSE "quotas"
      /\ at' \in Spots /\ next' \in Spots
      /\ bits' = IF bits.found THEN bits ELSE NoBits
      /\ UNCHANGED <<net, busy, wire, waiting, opens, typed, dns>>
  BY DEF QueueDone, Leave, clients, arrivals, Spots
<1>2. bits' \in AllBits
  BY <1>1, BitsTyped
<1>3. LoopHasWork'
  BY <1>1 DEF LoopHasWork
<1> QED
  BY <1>1, <1>2, <1>3, InvNext DEF Stations, WireTyped

LEMMA AcceptKeeps ==
  ASSUME ConnectionsInv, Accept
  PROVE  ConnectionsInv'
<1> USE InvParts
<1> DEFINE work == bits.input \cup bits.output
           Dns == [asked : Seq(Sites), answered : Seq(Sites)]
<1>1. pc = "accept" /\ UNCHANGED <<busy, bits, opens, typed>>
  BY DEF Accept
<1>2. /\ dns.asked \in Seq(Sites) /\ dns.answered \in Seq(Sites)
      /\ LaterAnswers \in Seq(Sites)
  BY DEF LaterAnswers
<1>3. PICK s \in Answered :
        IF ~bits.listen
        THEN /\ Becomes(s) /\ Begin(net', "serve", work)
             /\ dns' = [dns EXCEPT !.answered = LaterAnswers]
             /\ UNCHANGED waiting
        ELSE \E site \in Sites :
               LET f == Min({g \in Sockets : ~s.conn[g].open})
                   t == IF site \in Banned THEN s ELSE Initialize(s, f, site)
                   asked == IF site \in Banned THEN <<>> ELSE <<site>>
               IN /\ Becomes(t) /\ Begin(net', "serve", work)
                  /\ dns' = [asked |-> dns.asked \o asked, answered |-> LaterAnswers]
                  /\ waiting' = waiting - 1
  BY DEF Accept
<1>4. Sound(s) /\ \A f \in Sockets : s.conn[f].open = net.conn[f].open
  <2>1. CASE dns.answered = <<>>
    BY <2>1 DEF Answered
  <2>2. CASE dns.answered # <<>>
    <3>1. PICK junk \in Sites \cup {0} : s = Answer(net, Head(dns.answered), junk)
      BY <2>2 DEF Answered
    <3>2. Head(dns.answered) \in Sites
      BY <1>2, <2>2
    <3> QED
      BY <3>1, <3>2, AnswerYields
  <2> QED
    BY <2>1, <2>2
<1>5. /\ Sound(net') /\ WireTyped' /\ Begin(net', "serve", work)
      /\ dns' \in Dns /\ waiting' \in 0..MaxOpens /\ waiting' <= opens'
  <2>1. CASE ~bits.listen
    <3>1. /\ Becomes(s) /\ Begin(net', "serve", work)
          /\ dns' = [dns EXCEPT !.answered = LaterAnswers]
          /\ waiting' = waiting
      BY <1>3, <2>1
    <3>2. dns' \in Dns
      BY <1>2, <3>1
    <3>3. waiting' <= opens'
      BY <1>1, <3>1 DEF LoopHasWork
    <3> QED
      BY <1>4, <3>1, <3>2, <3>3, BecomesTyped
  <2>2. CASE bits.listen
    <3> DEFINE free == {g \in Sockets : ~s.conn[g].open}
               f == Min(free)
    <3>1. PICK site \in Sites :
            LET t == IF site \in Banned THEN s ELSE Initialize(s, f, site)
                asked == IF site \in Banned THEN <<>> ELSE <<site>>
            IN /\ Becomes(t) /\ Begin(net', "serve", work)
               /\ dns' = [asked |-> dns.asked \o asked, answered |-> LaterAnswers]
               /\ waiting' = waiting - 1
      BY <1>3, <2>2
    <3>2. f \in Sockets /\ ~s.conn[f].open
      <4>1. free \in SUBSET Nat /\ free # {}
        BY <1>1, <1>4, <2>2, DescriptorsAssumption DEF LoopHasWork
      <4>2. Min(free) \in free
        <5> HIDE DEF free
        <5> QED
          BY <4>1, MinIsIn
      <4> QED
        BY <4>2
    <3> HIDE DEF f
    <3> DEFINE t == IF site \in Banned THEN s ELSE Initialize(s, f, site)
               asked == IF site \in Banned THEN <<>> ELSE <<site>>
    <3>3. Sound(t)
      BY <1>4, <3>2, InitializeSound
    <3>4. asked \in Seq(Sites)
      OBVIOUS
    <3>5. /\ Becomes(t) /\ Begin(net', "serve", work)
          /\ dns' = [asked |-> dns.asked \o asked, answered |-> LaterAnswers]
          /\ waiting' = waiting - 1
      BY <3>1
    <3> HIDE DEF t, asked
    <3>6. Sound(net') /\ WireTyped'
      BY <3>3, <3>5, BecomesTyped
    <3>7. dns' \in Dns
      <4>1. dns.asked \o asked \in Seq(Sites)
        BY <1>2, <3>4
      <4> QED
        BY <1>2, <3>5, <4>1
    <3>8. waiting' \in 0..MaxOpens /\ waiting' <= opens'
      <4>1. waiting > 0 /\ waiting <= opens
        BY <1>1, <2>2 DEF LoopHasWork
      <4>2. MaxOpens \in Nat
        BY ConnectionsAssumption
      <4> QED
        BY <1>1, <3>5, <4>1, <4>2
    <3> QED
      BY <3>5, <3>6, <3>7, <3>8
  <2> QED
    BY <2>1, <2>2
<1>6. /\ at' \in Spots /\ next' \in Spots /\ pc' = "serve"
      /\ at' # NoSocket => net'.conn[at'].open
  <2>1. MoveTo(net', First(net'), work) /\ pc' = "serve"
    BY <1>5 DEF Begin
  <2>2. First(net') \in Spots
    BY <1>5, FirstTyped DEF Spots
  <2> HIDE DEF work
  <2> QED
    BY <1>5, <2>1, <2>2, MovesToWork
<1>7. LoopHasWork'
  BY <1>5, <1>6 DEF LoopHasWork
<1> QED
  BY <1>1, <1>5, <1>6, <1>7, InvNext DEF Stations

(* What is read of an open connection is typed.                            *)
LEMMA ServeKeeps ==
  ASSUME ConnectionsInv, Serve
  PROVE  ConnectionsInv'
<1> USE InvParts
<1> DEFINE read == at \in bits.input
           dark == net.dark \ {net.conn[at].player}
           undark == IF ~read \/ ~net.conn[at].autodark THEN net
                     ELSE [net EXCEPT !.conn[at].autodark = FALSE, !.dark = @ \ {net.conn[at].player}]
           input == [undark EXCEPT !.conn[at].input = @ \o wire[at].lines]
           fails == at \in bits.output /\ wire[at].gone
           s == IF read /\ wire[at].lines = <<>> THEN Shutdown(undark, at, "sockdied")
                ELSE IF fails THEN Shutdown(IF read THEN input ELSE undark, at, "sockdied")
                ELSE IF read THEN input ELSE undark
           work == bits.input \cup bits.output
<1>1. /\ pc = "serve" /\ at # NoSocket /\ at \in Sockets
      /\ UNCHANGED <<busy, bits, waiting, opens, typed, dns>>
  BY DEF Serve, Spots, arrivals
<1>2. net.conn[at].open /\ net \in Net
  BY <1>1 DEF LoopHasWork, Sound
<1>3. PICK c \in Connection : c = net.conn[at]
  BY <1>1, <1>2, Parts
<1>4. /\ wire[at].lines \in Seq(Lines) /\ wire[at].gone \in BOOLEAN
      /\ wire[at] \in [lines : Seq(Lines), gone : BOOLEAN]
  BY <1>1 DEF WireTyped
<1>5. /\ net' = s
      /\ wire' = [wire EXCEPT ![at] = IF ~net'.conn[at].open THEN Silence
                                      ELSE IF read THEN [@ EXCEPT !.lines = <<>>] ELSE @]
      /\ MoveTo(net', next, work) /\ pc' = pc
  BY DEF Serve, GoOn
<1>6. Sound(undark) /\ undark.conn[at].open
  <2>1. CASE ~read \/ ~net.conn[at].autodark
    BY <1>2, <2>1
  <2>2. CASE read /\ net.conn[at].autodark
    <3> DEFINE now == [c EXCEPT !.autodark = FALSE]
               conn == [net.conn EXCEPT ![at] = now]
    <3>1. now \in Connection /\ Alike(c, now)
      BY DEF Connection, Alike
    <3>2. undark = [net EXCEPT !.conn = conn, !.dark = dark]
      BY <1>2, <1>3, <2>2, Parts DEF Net
    <3>3. dark \in SUBSET Players
      BY <1>2, Parts
    <3> HIDE DEF now, dark, undark
    <3>4. \A f \in Sockets : Alike(net.conn[f], conn[f])
      <4>1. \A f \in Sockets : net.conn[f] \in Connection
        BY <1>2, Parts
      <4> QED
        BY <1>1, <1>2, <1>3, <3>1, <4>1, Parts DEF Alike
    <3>5. conn = [f \in Sockets |-> conn[f]]
      BY <1>2, Parts
    <3> HIDE DEF conn
    <3>6. undark = Redone(net, conn, dark)
      BY <3>2 DEF Redone
    <3>7. Calm(net, undark)
      BY <3>3, <3>4, <3>5, <3>6, RedoneCalm
    <3> QED
      BY <1>1, <1>2, <3>7, CalmYields DEF Yields, Calm
  <2> QED
    BY <2>1, <2>2
<1> HIDE DEF undark
<1>7. Sound(input)
  <2>1. PICK d \in Connection : d = undark.conn[at]
    BY <1>1, <1>6, Parts DEF Sound
  <2> DEFINE lines == d.input \o wire[at].lines
             now == [d EXCEPT !.input = lines]
             conn == [undark.conn EXCEPT ![at] = now]
  <2>2. lines \in Seq(Lines)
    BY <1>4, Fields
  <2>3. undark \in Net
    BY <1>6 DEF Sound
  <2>4. input = [undark EXCEPT !.conn = conn]
    BY <1>1, <2>1, <2>3, Parts DEF Net, Connection
  <2> HIDE DEF lines
  <2>5. Alike(d, now)
    <3>1. d.open
      BY <1>6, <2>1
    <3>2. now \in Connection /\ now.open = d.open /\ now.player = d.player
          /\ now.program = d.program
      BY <2>2 DEF Connection
    <3> HIDE DEF now
    <3> QED
      BY <3>1, <3>2 DEF Alike
  <2> HIDE DEF now, input
  <2>6. \A f \in Sockets : Alike(undark.conn[f], conn[f])
    <3>1. \A f \in Sockets : undark.conn[f] \in Connection
      BY <2>3, Parts
    <3> QED
      BY <1>1, <2>1, <2>3, <2>5, <3>1, Parts DEF Alike
  <2>7. conn = [f \in Sockets |-> conn[f]]
    BY <2>3, Parts
  <2> HIDE DEF conn
  <2>8. input = Redone(undark, conn, undark.dark) /\ undark.dark \in SUBSET Players
    BY <2>3, <2>4, OnlyConnections
  <2>9. Calm(undark, input)
    BY <1>6, <2>6, <2>7, <2>8, RedoneCalm
  <2> QED
    BY <1>6, <2>9, CalmYields DEF Yields
<1> HIDE DEF input
<1>8. Sound(s)
  BY <1>1, <1>6, <1>7, ShutdownDeparts DEF Departs, Yields
<1> HIDE DEF s
<1>9. WireTyped'
  <2> DEFINE w == IF ~net'.conn[at].open THEN Silence
                  ELSE IF read THEN [wire[at] EXCEPT !.lines = <<>>] ELSE wire[at]
  <2>1. w \in [lines : Seq(Lines), gone : BOOLEAN]
    <3>1. [wire[at] EXCEPT !.lines = <<>>] \in [lines : Seq(Lines), gone : BOOLEAN]
      <4>1. PICK v \in [lines : Seq(Lines), gone : BOOLEAN] : v = wire[at]
        BY <1>4
      <4> QED
        BY <4>1, EmptiedWire
    <3> QED
      BY <1>4, <3>1, SilenceTyped
  <2>2. wire' = [wire EXCEPT ![at] = w]
    BY <1>1, <1>5
  <2> HIDE DEF w
  <2> QED
    BY <1>1, <2>1, <2>2 DEF WireTyped
<1>10. /\ at' \in Spots /\ next' \in Spots
       /\ at' # NoSocket => net'.conn[at'].open
  <2>1. Sound(net') /\ MoveTo(net', next, work)
    BY <1>5, <1>8
  <2> HIDE DEF work
  <2> QED
    BY <2>1, MovesToWork
<1>11. LoopHasWork'
  BY <1>1, <1>5, <1>10 DEF LoopHasWork
<1> QED
  BY <1>1, <1>5, <1>8, <1>9, <1>10, <1>11, InvNext

LEMMA ServedKeeps ==
  ASSUME ConnectionsInv, Served
  PROVE  ConnectionsInv'
<1> USE InvParts
<1>1. /\ pc' = "quotas" /\ at' \in Spots /\ next' \in Spots /\ bits' = NoBits
      /\ UNCHANGED <<net, busy, wire, waiting, opens, typed, dns>>
  BY DEF Served, Leave, clients, arrivals, Spots
<1>2. LoopHasWork'
  BY <1>1 DEF LoopHasWork
<1> QED
  BY <1>1, <1>2, BitsTyped, InvNext DEF Stations, WireTyped

LEMMA ResolveKeeps ==
  ASSUME ConnectionsInv, Resolve
  PROVE  ConnectionsInv'
<1> USE InvParts
<1> DEFINE answer == IF Head(dns.asked) \in Named THEN <<Head(dns.asked)>> ELSE <<>>
<1>1. UNCHANGED <<net, pc, at, next, busy, bits, wire, waiting, opens, typed>>
  BY DEF Resolve, loop, clients, arrivals
<1>2. /\ dns.asked # <<>> /\ dns.asked \in Seq(Sites) /\ dns.answered \in Seq(Sites)
      /\ dns' = [asked |-> Tail(dns.asked), answered |-> dns.answered \o answer]
  BY DEF Resolve
<1>3. Tail(dns.asked) \in Seq(Sites) /\ answer \in Seq(Sites)
  BY <1>2
<1> HIDE DEF answer
<1>4. dns.answered \o answer \in Seq(Sites)
  BY <1>2, <1>3
<1>5. dns' \in [asked : Seq(Sites), answered : Seq(Sites)]
  BY <1>2, <1>3, <1>4
<1>6. LoopHasWork'
  BY <1>1 DEF LoopHasWork
<1> QED
  BY <1>1, <1>5, <1>6, InvNext DEF WireTyped

LEMMA ComeKeeps ==
  ASSUME ConnectionsInv, Come
  PROVE  ConnectionsInv'
<1> USE InvParts
<1>1. /\ opens < MaxOpens /\ opens' = opens + 1 /\ waiting' = waiting + 1
      /\ pc = "select" /\ UNCHANGED <<net, pc, at, next, busy, bits, wire, typed, dns>>
  BY DEF Come, loop
<1>2. MaxOpens \in Nat
  BY ConnectionsAssumption
<1>3. waiting <= opens
  BY DEF LoopHasWork
<1>4. waiting' \in 0..MaxOpens /\ opens' \in 0..MaxOpens /\ waiting' <= opens'
  BY <1>1, <1>2, <1>3
<1>5. LoopHasWork'
  BY <1>1, <1>4 DEF LoopHasWork
<1> QED
  BY <1>1, <1>4, <1>5, InvNext DEF WireTyped

LEMMA SendKeeps ==
  ASSUME ConnectionsInv, NEW f \in Sockets, NEW l \in Typed, Send(f, l)
  PROVE  ConnectionsInv'
<1> USE InvParts
<1>1. /\ typed < MaxTyped /\ typed' = typed + 1
      /\ wire' = [wire EXCEPT ![f].lines = Append(@, l)]
      /\ UNCHANGED <<net, pc, at, next, busy, bits, waiting, opens, dns>>
  BY DEF Send, loop
<1>2. typed' \in 0..MaxTyped
  BY <1>1, ConnectionsAssumption
<1>3. WireTyped'
  <2>1. PICK w \in [lines : Seq(Lines), gone : BOOLEAN] : w = wire[f]
    BY DEF WireTyped
  <2> DEFINE lines == Append(w.lines, l)
             now == [w EXCEPT !.lines = lines]
  <2>2. l \in Lines
    BY ConnectionsAssumption
  <2>3. lines \in Seq(Lines)
    BY <2>2
  <2>4. wire' = [wire EXCEPT ![f] = now]
    BY <1>1, <2>1 DEF WireTyped
  <2> HIDE DEF lines
  <2>5. now \in [lines : Seq(Lines), gone : BOOLEAN]
    BY <2>3
  <2> HIDE DEF now
  <2> QED
    BY <2>4, <2>5 DEF WireTyped
<1>4. LoopHasWork'
  BY <1>1 DEF LoopHasWork
<1> QED
  BY <1>1, <1>2, <1>3, <1>4, InvNext

LEMMA HangUpKeeps ==
  ASSUME ConnectionsInv, NEW f \in Sockets, HangUp(f)
  PROVE  ConnectionsInv'
<1> USE InvParts
<1>1. /\ wire' = [wire EXCEPT ![f].gone = TRUE]
      /\ UNCHANGED <<net, pc, at, next, busy, bits, waiting, opens, typed, dns>>
  BY DEF HangUp, loop, arrivals
<1>2. WireTyped'
  <2>1. PICK w \in [lines : Seq(Lines), gone : BOOLEAN] : w = wire[f]
    BY DEF WireTyped
  <2> DEFINE now == [w EXCEPT !.gone = TRUE]
  <2>2. wire' = [wire EXCEPT ![f] = now]
    BY <1>1, <2>1 DEF WireTyped
  <2>3. now \in [lines : Seq(Lines), gone : BOOLEAN]
    OBVIOUS
  <2> HIDE DEF now
  <2> QED
    BY <2>2, <2>3 DEF WireTyped
<1>3. LoopHasWork'
  BY <1>1 DEF LoopHasWork
<1> QED
  BY <1>1, <1>2, <1>3, InvNext

-----------------------------------------------------------------------------
LEMMA ConnectionsAtStart == Init => ConnectionsInv
<1> SUFFICES ASSUME Init PROVE ConnectionsInv
  OBVIOUS
<1>1. Sound(net)
  BY ConnectionsAssumption DEF Init, Sound
<1>2. /\ pc \in Stations /\ at \in Spots /\ next \in Spots /\ busy \in BOOLEAN
      /\ bits \in AllBits /\ waiting \in 0..MaxOpens /\ opens \in 0..MaxOpens
      /\ typed \in 0..MaxTyped
  <2>1. pc = "quotas" /\ at = NoSocket /\ next = NoSocket /\ busy = FALSE
    BY DEF Init
  <2>2. bits = NoBits /\ waiting = 0 /\ opens = 0 /\ typed = 0
    BY DEF Init
  <2>3. MaxOpens \in Nat /\ MaxTyped \in Nat
    BY ConnectionsAssumption
  <2>4. 0 \in 0..MaxOpens /\ 0 \in 0..MaxTyped
    BY <2>3
  <2> QED
    BY <2>1, <2>2, <2>4, BitsTyped DEF Stations, Spots
<1>3. WireTyped
  BY SilenceTyped DEF Init, WireTyped
<1>4. dns \in [asked : Seq(Sites), answered : Seq(Sites)]
  BY DEF Init
<1>5. LoopHasWork
  BY <1>2 DEF Init, LoopHasWork
<1> QED
  BY <1>1, <1>2, <1>3, <1>4, <1>5, InvParts

LEMMA ConnectionsKept == ConnectionsInv /\ [Next]_vars => ConnectionsInv'
<1> SUFFICES ASSUME ConnectionsInv, [Next]_vars PROVE ConnectionsInv'
  OBVIOUS
<1>1. CASE \E b \in BOOLEAN : UpdateQuotas(b)
  BY <1>1, UpdateQuotasKeeps
<1>2. CASE \E b \in BOOLEAN : Dispatch(b)
  BY <1>2, DispatchKeeps
<1>3. CASE Command
  BY <1>3, CommandKeeps
<1>4. CASE Restart
  BY <1>4, RestartKeeps
<1>5. CASE EndPass
  BY <1>5, EndPassKeeps
<1>6. CASE Select
  BY <1>6, SelectKeeps
<1>7. CASE RunQueued
  BY <1>7, RunQueuedKeeps
<1>8. CASE QueueDone
  BY <1>8, QueueDoneKeeps
<1>9. CASE Accept
  BY <1>9, AcceptKeeps
<1>10. CASE Serve
  BY <1>10, ServeKeeps
<1>11. CASE Served
  BY <1>11, ServedKeeps
<1>12. CASE Come
  BY <1>12, ComeKeeps
<1>13. CASE \E f \in Sockets : HangUp(f)
  BY <1>13, HangUpKeeps
<1>14. CASE \E f \in Sockets : \E l \in Typed : Send(f, l)
  BY <1>14, SendKeeps
<1>15. CASE Resolve
  BY <1>15, ResolveKeeps
<1>16. CASE UNCHANGED vars
  <2>1. UNCHANGED <<net, pc, at, next, busy, bits, wire, waiting, opens, typed, dns>>
    BY <1>16 DEF vars, loop, clients, arrivals
  <2> QED
    BY <2>1 DEF ConnectionsInv, TypeOK, LoopHasWork
<1> QED
  BY <1>1, <1>2, <1>3, <1>4, <1>5, <1>6, <1>7, <1>8, <1>9, <1>10, <1>11, <1>12, <1>13,
     <1>14, <1>15, <1>16 DEF Next, Server, Turn, Clients

(* However many clients come, log in, are thrown out or leave, and whatever *)
(* they type: the list of descriptors, the chains of players and the       *)
(* CONNECTED flags say the same of who is connected; a program is read for *)
(* by all connections of its player and is freed with the last of them;    *)
(* the loop never works for a descriptor that is gone, and accepts only    *)
(* where one is free (process_commands, bsd_main_event_loop, _bsd_conn_    *)
(* shutdown, do_prog, do_restart).                                         *)
THEOREM ConnectionsAgree == Spec => []ConnectionsInv
<1>1. Init => ConnectionsInv
  BY ConnectionsAtStart
<1>2. ConnectionsInv /\ [Next]_vars => ConnectionsInv'
  BY ConnectionsKept
<1>3. Spec => Init /\ [][Next]_vars
  BY DEF Spec
<1> QED
  BY <1>1, <1>2, <1>3, PTL
=============================================================================
