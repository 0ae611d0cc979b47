---------------------------- MODULE ModulesProofs ----------------------------
(***************************************************************************)
(* Theorems about the modules behind the hooks of Modules, for any number  *)
(* of players, things, channels, aliases, texts and slots.  The channel    *)
(* module: its four records of who is on a channel agree, members hear,    *)
(* and nobody who is gone is left.  The mail module: messages show what    *)
(* was sent, texts are counted and given back, and messages that are safe  *)
(* stay.                                                                   *)
(***************************************************************************)
EXTENDS Modules, OperatorLemmas

-----------------------------------------------------------------------------
(***************************************************************************)
(* Channels.                                                               *)
(***************************************************************************)
(* The parts of the invariant, for any switchboard.                        *)
Aliased(s, q, ch) == \E n \in Names : s.channel[q][n] = ch

Agrees(s) ==
  /\ s \in Switchboard
  /\ \A q \in Members, n \in Names : s.channel[q][n] # NoChannel <=> n \in s.comlist[q]
  /\ \A ch \in Channels :
       /\ \A q \in Members : q \in s.who[ch] <=> Aliased(s, q, ch)
       /\ s.num[ch] = Cardinality(s.who[ch])
       /\ s.listening[ch] \subseteq s.who[ch]
       /\ s.who[ch] # {} => ch \in s.on

Hears(s, up) ==
  \A ch \in Channels :
    /\ s.connected[ch] \subseteq s.who[ch]
    /\ \A q \in s.who[ch] : q \in Things \/ q \in up => q \in s.connected[ch]

Present(s, e) == \A ch \in s.on : s.who[ch] \subseteq e /\ s.owner[ch] \in e \cap Players

Sound(s, e, up) == Agrees(s) /\ Hears(s, up) /\ Present(s, e)

World == exists \subseteq Members /\ God \in exists /\ links \in [Players -> Nat]
Switches == World /\ Sound(com, exists, Up(links))

LEMMA Finite ==
  /\ IsFiniteSet(Members) /\ \A S \in SUBSET Members : IsFiniteSet(S)
  /\ NoChannel \notin Channels
  /\ God \in Players /\ God \notin Things /\ Players \subseteq Members /\ Things \subseteq Members
<1>1. IsFiniteSet(Members)
  BY ComsysAssumption, FS_Union DEF Members
<1> QED
  BY <1>1, FS_Subset, ComsysAssumption, MailAssumption DEF Members

LEMMA AliasesAre ==
  ASSUME NEW s, s \in Switchboard, NEW q \in Members, NEW ch \in Channels,
         \A n \in Names : s.channel[q][n] # NoChannel <=> n \in s.comlist[q]
  PROVE  /\ AliasesFor(s, q, ch) = {n \in Names : s.channel[q][n] = ch}
         /\ AliasesFor(s, q, ch) # {} <=> Aliased(s, q, ch)
<1>1. s.comlist[q] \subseteq Names /\ NoChannel # ch
  BY Finite DEF Switchboard
<1> QED
  BY <1>1 DEF AliasesFor, Aliased

LEMMA SwitchesAre ==
  ASSUME com \in Switchboard
  PROVE  Sound(com, exists, Up(links)) <=> ChannelsInv
<1>1. ASSUME NEW ch \in Channels, \A q \in Members, n \in Names :
               com.channel[q][n] # NoChannel <=> n \in com.comlist[q]
      PROVE  (\A q \in Members : q \in com.who[ch] <=> Aliased(com, q, ch))
               <=> com.who[ch] = {q \in Members : AliasesFor(com, q, ch) # {}}
  <2>1. com.who[ch] \subseteq Members
    BY DEF Switchboard
  <2>2. \A q \in Members : AliasesFor(com, q, ch) # {} <=> Aliased(com, q, ch)
    BY <1>1, AliasesAre
  <2> QED
    BY <2>1, <2>2
<1>2. Agrees(com) <=> ChannelsAgree
  BY <1>1 DEF Agrees, ChannelsAgree
<1>3. Hears(com, Up(links)) <=> MembersHear
  BY DEF Hears, MembersHear
<1>4. Present(com, exists) <=> GoneAreGone
  BY DEF Present, GoneAreGone, Living
<1> QED
  BY <1>2, <1>3, <1>4 DEF ChannelsInv, Sound
-----------------------------------------------------------------------------
(***************************************************************************)
(* The arrays of who hears, made anew.                                     *)
(***************************************************************************)
Hearing(s, ch, up) == {q \in s.who[ch] : q \in Things \/ q \in up}

(* Only the arrays differ. *)
SameRecords(s, t) ==
  /\ t.on = s.on /\ t.owner = s.owner /\ t.who = s.who /\ t.num = s.num
  /\ t.listening = s.listening /\ t.channel = s.channel /\ t.comlist = s.comlist

LEMMA Updated ==
  ASSUME NEW s \in Switchboard, NEW chs, NEW up
  PROVE  /\ update_comwho(s, chs, up) \in Switchboard
         /\ SameRecords(s, update_comwho(s, chs, up))
         /\ \A ch \in chs \cap Channels :
              update_comwho(s, chs, up).connected[ch] = Hearing(s, ch, up)
         /\ \A ch \in Channels \ chs :
              update_comwho(s, chs, up).connected[ch] = s.connected[ch]
<1> DEFINE c == [ch \in Channels |->
                   IF ch \in chs THEN {q \in s.who[ch] : q \in Things \/ q \in up}
                   ELSE s.connected[ch]]
           t == update_comwho(s, chs, up)
<1>1. c \in [Channels -> SUBSET Members]
  BY DEF Switchboard
<1>2. /\ \A ch \in chs \cap Channels : c[ch] = Hearing(s, ch, up)
      /\ \A ch \in Channels \ chs : c[ch] = s.connected[ch]
  BY DEF Hearing
<1>3. t = [s EXCEPT !.connected = c]
  BY DEF update_comwho
<1> HIDE DEF c, t
<1>4. t \in Switchboard
  BY <1>1, <1>3 DEF Switchboard
<1>5. t.connected = c
  BY <1>3 DEF Switchboard
<1>6. SameRecords(s, t)
  BY <1>3 DEF Switchboard, SameRecords
<1>7. /\ \A ch \in chs \cap Channels : t.connected[ch] = Hearing(s, ch, up)
      /\ \A ch \in Channels \ chs : t.connected[ch] = s.connected[ch]
  BY <1>2, <1>5
<1> QED
  BY <1>4, <1>6, <1>7 DEF t

LEMMA SameAgree ==
  ASSUME NEW s, Agrees(s), NEW t \in Switchboard, SameRecords(s, t), NEW e, Present(s, e)
  PROVE  Agrees(t) /\ Present(t, e)
<1>1. \A q, ch : Aliased(t, q, ch) <=> Aliased(s, q, ch)
  BY DEF Aliased, SameRecords
<1> QED
  BY <1>1 DEF Agrees, Present, SameRecords

(* Those who are connected change; every channel where that matters is     *)
(* made anew, or who hears needs no more than before.                      *)
LEMMA UpdateSound ==
  ASSUME NEW s, NEW e, NEW old, Sound(s, e, old), NEW chs, NEW up,
         \A ch \in Channels \ chs : \A q \in s.who[ch] : q \in up => q \in old
  PROVE  Sound(update_comwho(s, chs, up), e, up)
<1> DEFINE t == update_comwho(s, chs, up)
<1>1. s \in Switchboard
  BY DEF Sound, Agrees
<1>2. /\ t \in Switchboard /\ SameRecords(s, t)
      /\ \A ch \in chs \cap Channels : t.connected[ch] = Hearing(s, ch, up)
      /\ \A ch \in Channels \ chs : t.connected[ch] = s.connected[ch]
  BY <1>1, Updated
<1> HIDE DEF t
<1>3. Agrees(t) /\ Present(t, e)
  BY <1>2, SameAgree DEF Sound
<1>4. \A ch \in Channels : t.who[ch] = s.who[ch]
  BY <1>2 DEF SameRecords
<1>5. \A ch \in chs \cap Channels :
        /\ t.connected[ch] \subseteq t.who[ch]
        /\ \A q \in t.who[ch] : q \in Things \/ q \in up => q \in t.connected[ch]
  BY <1>2, <1>4 DEF Hearing
<1>6. \A ch \in Channels \ chs :
        /\ t.connected[ch] \subseteq t.who[ch]
        /\ \A q \in t.who[ch] : q \in Things \/ q \in up => q \in t.connected[ch]
  BY <1>2, <1>4 DEF Sound, Hears
<1>7. Hears(t, up)
  BY <1>5, <1>6 DEF Hears
<1>8. Sound(t, e, up)
  BY <1>3, <1>7 DEF Sound
<1> QED
  BY <1>8 DEF t

-----------------------------------------------------------------------------
(***************************************************************************)
(* Losing aliases, and leaving the channels that have none left.           *)
(***************************************************************************)
(* u is s without these aliases of q.                                      *)
Loses(s, u, q, gone) ==
  /\ u \in Switchboard
  /\ \A r \in Members : u.comlist[r] = IF r = q THEN s.comlist[r] \ gone ELSE s.comlist[r]
  /\ \A r \in Members, n \in Names :
       u.channel[r][n] = IF r = q /\ n \in gone THEN NoChannel ELSE s.channel[r][n]
  /\ u.on = s.on /\ u.owner = s.owner /\ u.who = s.who /\ u.num = s.num
  /\ u.listening = s.listening /\ u.connected = s.connected

LEMMA Lost ==
  ASSUME NEW s \in Switchboard, NEW q \in Members, NEW gone
  PROVE  Loses(s, Unaliased(s, q, gone), q, gone)
<1> DEFINE row == [n \in Names |-> IF n \in gone THEN NoChannel ELSE s.channel[q][n]]
           u == Unaliased(s, q, gone)
           list == [s.comlist EXCEPT ![q] = @ \ gone]
           chan == [s.channel EXCEPT ![q] = row]
<1>1. row \in [Names -> Channels \cup {NoChannel}]
  BY DEF Switchboard
<1>2. list \in [Members -> SUBSET Names]
  BY DEF Switchboard
<1>3. chan \in [Members -> [Names -> Channels \cup {NoChannel}]]
  <2> HIDE DEF row
  <2> QED
    BY <1>1 DEF Switchboard
<1>4. \A r \in Members : list[r] = IF r = q THEN s.comlist[r] \ gone ELSE s.comlist[r]
  BY DEF Switchboard
<1>5. \A r \in Members, n \in Names :
        chan[r][n] = IF r = q /\ n \in gone THEN NoChannel ELSE s.channel[r][n]
  <2>1. \A r \in Members : chan[r] = IF r = q THEN row ELSE s.channel[r]
    <3> HIDE DEF row
    <3> QED
      BY DEF Switchboard
  <2>2. \A n \in Names : row[n] = IF n \in gone THEN NoChannel ELSE s.channel[q][n]
    OBVIOUS
  <2> HIDE DEF chan, row
  <2> QED
    BY <2>1, <2>2
<1>6. u = [s EXCEPT !.comlist = list, !.channel = chan]
  BY DEF Unaliased, Switchboard
<1> HIDE DEF row, list, chan, u
<1>7. u \in Switchboard
  BY <1>2, <1>3, <1>6 DEF Switchboard
<1>8. u.comlist = list /\ u.channel = chan
  BY <1>6 DEF Switchboard
<1>9. /\ u.on = s.on /\ u.owner = s.owner /\ u.who = s.who /\ u.num = s.num
      /\ u.listening = s.listening /\ u.connected = s.connected
  BY <1>6 DEF Switchboard
<1>10. /\ \A r \in Members : u.comlist[r] = IF r = q THEN s.comlist[r] \ gone ELSE s.comlist[r]
       /\ \A r \in Members, n \in Names :
            u.channel[r][n] = IF r = q /\ n \in gone THEN NoChannel ELSE s.channel[r][n]
  BY <1>4, <1>5, <1>8
<1> QED
  BY <1>7, <1>9, <1>10 DEF u, Loses

(* t is s without q on these channels.                                     *)
Leaves(s, t, q, chs, up) ==
  /\ t \in Switchboard
  /\ t.on = s.on /\ t.owner = s.owner /\ t.channel = s.channel /\ t.comlist = s.comlist
  /\ \A ch \in chs :
       /\ t.who[ch] = s.who[ch] \ {q} /\ t.num[ch] = s.num[ch] - 1
       /\ t.listening[ch] = s.listening[ch] \ {q}
       /\ t.connected[ch] = {r \in s.who[ch] \ {q} : r \in Things \/ r \in up}
  /\ \A ch \in Channels \ chs :
       /\ t.who[ch] = s.who[ch] /\ t.num[ch] = s.num[ch]
       /\ t.listening[ch] = s.listening[ch] /\ t.connected[ch] = s.connected[ch]

LEMMA Removed ==
  ASSUME NEW s \in Switchboard, NEW q \in Members, NEW chs \in SUBSET Channels, NEW up,
         \A ch \in chs : /\ q \in s.who[ch] /\ s.num[ch] = Cardinality(s.who[ch])
                         /\ s.listening[ch] \subseteq s.who[ch]
  PROVE  Leaves(s, remove_from_channel(s, q, chs, up), q, chs, up)
<1> DEFINE left == {ch \in chs : s.num[ch] # 0 /\ s.who[ch] # {}}
           Stay(set, ch) == IF ch \notin left THEN set
                            ELSE IF s.num[ch] = 1 THEN {} ELSE set \ {q}
           num == [ch \in Channels |-> IF ch \in left THEN s.num[ch] - 1 ELSE s.num[ch]]
           who == [ch \in Channels |-> Stay(s.who[ch], ch)]
           lis == [ch \in Channels |-> Stay(s.listening[ch], ch)]
           v == [s EXCEPT !.num = num, !.who = who, !.listening = lis]
           t == remove_from_channel(s, q, chs, up)
<1>1. ASSUME NEW ch \in chs
      PROVE  /\ s.num[ch] \in Nat \ {0} /\ s.who[ch] # {}
             /\ s.num[ch] = 1 => s.who[ch] = {q}
  <2>1. IsFiniteSet(s.who[ch])
    BY Finite DEF Switchboard
  <2>2. Cardinality(s.who[ch]) \in Nat /\ Cardinality(s.who[ch]) # 0
    BY <2>1, FS_CardinalityType, FS_EmptySet
  <2>3. s.num[ch] = 1 => \E x : s.who[ch] = {x}
    BY <2>1, FS_Singleton
  <2> QED
    BY <2>2, <2>3
<1>2. left = chs
  BY <1>1
<1>3. num \in [Channels -> Nat] /\ who \in [Channels -> SUBSET Members]
        /\ lis \in [Channels -> SUBSET Members]
  <2>1. num \in [Channels -> Nat]
    <3>1. \A ch \in chs : s.num[ch] - 1 \in Nat
      BY <1>1
    <3>2. \A ch \in Channels : s.num[ch] \in Nat
      BY DEF Switchboard
    <3> QED
      BY <1>2, <3>1, <3>2
  <2>2. who \in [Channels -> SUBSET Members] /\ lis \in [Channels -> SUBSET Members]
    <3>1. \A ch \in Channels : s.who[ch] \in SUBSET Members /\ s.listening[ch] \in SUBSET Members
      BY DEF Switchboard
    <3> QED
      BY <3>1
  <2> QED
    BY <2>1, <2>2
<1>4. \A ch \in chs : /\ who[ch] = s.who[ch] \ {q} /\ num[ch] = s.num[ch] - 1
                      /\ lis[ch] = s.listening[ch] \ {q}
  <2> SUFFICES ASSUME NEW ch \in chs
               PROVE  /\ who[ch] = s.who[ch] \ {q} /\ num[ch] = s.num[ch] - 1
                      /\ lis[ch] = s.listening[ch] \ {q}
    OBVIOUS
  <2>1. s.num[ch] = 1 => s.who[ch] \ {q} = {} /\ s.listening[ch] \ {q} = {}
    BY <1>1
  <2> QED
    BY <2>1, <1>2
<1>5. \A ch \in Channels \ chs :
        who[ch] = s.who[ch] /\ num[ch] = s.num[ch] /\ lis[ch] = s.listening[ch]
  BY <1>2
<1>6. t = update_comwho(v, left, up)
  BY DEF remove_from_channel
<1> HIDE DEF num, who, lis, v, left, t
<1>7. /\ v \in Switchboard /\ v.who = who /\ v.num = num /\ v.listening = lis
      /\ v.on = s.on /\ v.owner = s.owner /\ v.channel = s.channel /\ v.comlist = s.comlist
      /\ v.connected = s.connected
  <2>1. v \in Switchboard
    BY <1>3 DEF Switchboard, v
  <2>2. v.who = who /\ v.num = num /\ v.listening = lis
    BY DEF Switchboard, v
  <2>3. /\ v.on = s.on /\ v.owner = s.owner /\ v.channel = s.channel /\ v.comlist = s.comlist
        /\ v.connected = s.connected
    BY DEF Switchboard, v
  <2> QED
    BY <2>1, <2>2, <2>3
<1>8. /\ t \in Switchboard /\ SameRecords(v, t)
      /\ \A ch \in chs \cap Channels : t.connected[ch] = Hearing(v, ch, up)
      /\ \A ch \in Channels \ chs : t.connected[ch] = v.connected[ch]
  BY <1>2, <1>6, <1>7, Updated
<1>9. /\ t.on = s.on /\ t.owner = s.owner /\ t.channel = s.channel /\ t.comlist = s.comlist
      /\ t.who = who /\ t.num = num /\ t.listening = lis
  BY <1>7, <1>8 DEF SameRecords
<1>10. ASSUME NEW ch \in chs
       PROVE  t.connected[ch] = {r \in s.who[ch] \ {q} : r \in Things \/ r \in up}
  BY <1>8, <1>7, <1>4 DEF Hearing
<1>11. \A ch \in Channels \ chs : t.connected[ch] = s.connected[ch]
  BY <1>7, <1>8
<1> QED
  BY <1>4, <1>5, <1>8, <1>9, <1>10, <1>11 DEF t, Leaves

(* q is on these channels no more.                                         *)
OffThese(s, t, q, chs) ==
  /\ t.on = s.on /\ t.owner = s.owner
  /\ \A ch \in Channels : t.who[ch] = IF ch \in chs THEN s.who[ch] \ {q} ELSE s.who[ch]

(* Who loses aliases and leaves just the channels for which none is left   *)
(* leaves the records in agreement.                                        *)
LEMMA LeaveSound ==
  ASSUME NEW s, NEW e, NEW up, Sound(s, e, up), NEW q \in Members, NEW gone,
         NEW chs \in SUBSET Channels,
         \A ch \in Channels : ch \in chs <=>
           /\ q \in s.who[ch]
           /\ \A n \in Names : s.channel[q][n] = ch => n \in gone
  PROVE  LET t == remove_from_channel(Unaliased(s, q, gone), q, chs, up)
         IN Sound(t, e, up) /\ OffThese(s, t, q, chs)
<1> DEFINE u == Unaliased(s, q, gone)
           t == remove_from_channel(u, q, chs, up)
<1>1. s \in Switchboard
  BY DEF Sound, Agrees
<1>a. Loses(s, u, q, gone)
  BY <1>1, Lost
<1> HIDE DEF u
<1>2. /\ u \in Switchboard
      /\ \A r \in Members : u.comlist[r] = IF r = q THEN s.comlist[r] \ gone ELSE s.comlist[r]
      /\ \A r \in Members, n \in Names :
           u.channel[r][n] = IF r = q /\ n \in gone THEN NoChannel ELSE s.channel[r][n]
      /\ u.on = s.on /\ u.owner = s.owner /\ u.who = s.who /\ u.num = s.num
      /\ u.listening = s.listening /\ u.connected = s.connected
  BY <1>a DEF Loses
<1>3. \A ch \in chs : /\ q \in u.who[ch] /\ u.num[ch] = Cardinality(u.who[ch])
                      /\ u.listening[ch] \subseteq u.who[ch]
  BY <1>2 DEF Sound, Agrees
<1>b. Leaves(u, t, q, chs, up)
  BY <1>2, <1>3, Removed
<1> HIDE DEF t
<1>4. /\ t \in Switchboard
      /\ t.on = u.on /\ t.owner = u.owner /\ t.channel = u.channel /\ t.comlist = u.comlist
      /\ \A ch \in chs :
           /\ t.who[ch] = u.who[ch] \ {q} /\ t.num[ch] = u.num[ch] - 1
           /\ t.listening[ch] = u.listening[ch] \ {q}
           /\ t.connected[ch] = {r \in u.who[ch] \ {q} : r \in Things \/ r \in up}
      /\ \A ch \in Channels \ chs :
           /\ t.who[ch] = u.who[ch] /\ t.num[ch] = u.num[ch]
           /\ t.listening[ch] = u.listening[ch] /\ t.connected[ch] = u.connected[ch]
  BY <1>b DEF Leaves
<1>5. \A r \in Members, n \in Names : t.channel[r][n] # NoChannel <=> n \in t.comlist[r]
  <2> SUFFICES ASSUME NEW r \in Members, NEW n \in Names
               PROVE  t.channel[r][n] # NoChannel <=> n \in t.comlist[r]
    OBVIOUS
  <2>1. s.channel[r][n] # NoChannel <=> n \in s.comlist[r]
    BY DEF Sound, Agrees
  <2>2. t.channel[r][n] = IF r = q /\ n \in gone THEN NoChannel ELSE s.channel[r][n]
    BY <1>2, <1>4
  <2>3. t.comlist[r] = IF r = q THEN s.comlist[r] \ gone ELSE s.comlist[r]
    BY <1>2, <1>4
  <2> QED
    BY <2>1, <2>2, <2>3
<1>6. ASSUME NEW ch \in Channels, NEW r \in Members
      PROVE  r \in t.who[ch] <=> Aliased(t, r, ch)
  <2>1. r \in s.who[ch] <=> Aliased(s, r, ch)
    BY DEF Sound, Agrees
  <2>2. CASE r # q
    <3>1. Aliased(t, r, ch) <=> Aliased(s, r, ch)
      BY <1>2, <1>4, <2>2 DEF Aliased
    <3>2. r \in t.who[ch] <=> r \in s.who[ch]
      BY <1>2, <1>4, <2>2
    <3> QED
      BY <2>1, <3>1, <3>2
  <2>3. CASE r = q
    <3>1. Aliased(t, q, ch) <=> \E n \in Names : n \notin gone /\ s.channel[q][n] = ch
      BY <1>2, <1>4, Finite DEF Aliased
    <3>2. CASE ch \in chs
      BY <3>1, <3>2, <2>3, <1>4
    <3>3. CASE ch \notin chs
      <4>1. q \in t.who[ch] <=> q \in s.who[ch]
        BY <1>2, <1>4, <3>3
      <4>2. q \in s.who[ch] <=> \E n \in Names : n \notin gone /\ s.channel[q][n] = ch
        BY <2>1, <2>3, <3>3 DEF Aliased
      <4> QED
        BY <3>1, <4>1, <4>2, <2>3
    <3> QED
      BY <3>2, <3>3
  <2> QED
    BY <2>2, <2>3
<1>7. ASSUME NEW ch \in Channels
      PROVE  t.num[ch] = Cardinality(t.who[ch]) /\ t.listening[ch] \subseteq t.who[ch]
  <2>1. s.num[ch] = Cardinality(s.who[ch]) /\ s.listening[ch] \subseteq s.who[ch]
    BY DEF Sound, Agrees
  <2>2. IsFiniteSet(s.who[ch])
    BY <1>1, Finite DEF Switchboard
  <2>3. q \in s.who[ch] => Cardinality(s.who[ch] \ {q}) = Cardinality(s.who[ch]) - 1
    BY <2>2, FS_RemoveElement
  <2>4. CASE ch \in chs
    <3>1. /\ t.who[ch] = s.who[ch] \ {q} /\ t.num[ch] = s.num[ch] - 1
          /\ t.listening[ch] = s.listening[ch] \ {q}
      BY <2>4, <1>2, <1>4
    <3>2. q \in s.who[ch]
      BY <2>4
    <3> QED
      BY <2>1, <2>3, <3>1, <3>2
  <2>5. CASE ch \notin chs
    BY <2>1, <2>5, <1>2, <1>4
  <2> QED
    BY <2>4, <2>5
<1>8. \A ch \in Channels : t.who[ch] # {} => ch \in t.on
  <2>1. \A ch \in Channels : t.who[ch] \subseteq s.who[ch]
    BY <1>2, <1>4
  <2> QED
    BY <2>1, <1>2, <1>4 DEF Sound, Agrees
<1>9. Agrees(t)
  BY <1>4, <1>5, <1>6, <1>7, <1>8 DEF Agrees
<1>10. Hears(t, up)
  <2>1. \A ch \in chs : /\ t.connected[ch] \subseteq t.who[ch]
                        /\ \A r \in t.who[ch] : r \in Things \/ r \in up => r \in t.connected[ch]
    BY <1>2, <1>4
  <2>2. \A ch \in Channels \ chs :
          /\ t.connected[ch] \subseteq t.who[ch]
          /\ \A r \in t.who[ch] : r \in Things \/ r \in up => r \in t.connected[ch]
    BY <1>2, <1>4 DEF Sound, Hears
  <2> QED
    BY <2>1, <2>2 DEF Hears
<1>11. Present(t, e)
  <2>1. \A ch \in Channels : t.who[ch] \subseteq s.who[ch]
    BY <1>2, <1>4
  <2>2. s.on \subseteq Channels
    BY <1>1 DEF Switchboard
  <2> QED
    BY <2>1, <2>2, <1>2, <1>4 DEF Sound, Present
<1>12. \A ch \in Channels : t.who[ch] = IF ch \in chs THEN s.who[ch] \ {q} ELSE s.who[ch]
  BY <1>2, <1>4
<1> QED
  BY <1>2, <1>4, <1>9, <1>10, <1>11, <1>12 DEF Sound, OffThese, t, u

(* An alias fewer where another of the channel is left.                    *)
LEMMA FewerSound ==
  ASSUME NEW s, NEW e, NEW up, Sound(s, e, up), NEW q \in Members, NEW n \in Names,
         Aliased(Unaliased(s, q, {n}), q, s.channel[q][n]), s.channel[q][n] # NoChannel
  PROVE  Sound(Unaliased(s, q, {n}), e, up)
<1> DEFINE u == Unaliased(s, q, {n})
<1>1. s \in Switchboard
  BY DEF Sound, Agrees
<1>a. Loses(s, u, q, {n})
  BY <1>1, Lost
<1>3. Aliased(u, q, s.channel[q][n])
  OBVIOUS
<1> HIDE DEF u
<1>2. /\ u \in Switchboard
      /\ \A r \in Members : u.comlist[r] = IF r = q THEN s.comlist[r] \ {n} ELSE s.comlist[r]
      /\ \A r \in Members, k \in Names :
           u.channel[r][k] = IF r = q /\ k \in {n} THEN NoChannel ELSE s.channel[r][k]
      /\ u.on = s.on /\ u.owner = s.owner /\ u.who = s.who /\ u.num = s.num
      /\ u.listening = s.listening /\ u.connected = s.connected
  BY <1>a DEF Loses
<1>4. ASSUME NEW r \in Members, NEW k \in Names
      PROVE  u.channel[r][k] # NoChannel <=> k \in u.comlist[r]
  <2>1. s.channel[r][k] # NoChannel <=> k \in s.comlist[r]
    BY DEF Sound, Agrees
  <2> QED
    BY <2>1, <1>2
<1>5. ASSUME NEW r \in Members, NEW ch \in Channels
      PROVE  Aliased(u, r, ch) <=> Aliased(s, r, ch)
  <2>1. CASE r = q /\ ch = s.channel[q][n]
    BY <1>3, <2>1 DEF Aliased
  <2>2. CASE r # q \/ ch # s.channel[q][n]
    BY <1>2, <2>2, Finite DEF Aliased
  <2> QED
    BY <2>1, <2>2
<1>6. Agrees(u)
  BY <1>2, <1>4, <1>5 DEF Sound, Agrees
<1>7. Hears(u, up) /\ Present(u, e)
  BY <1>2 DEF Sound, Hears, Present
<1> QED
  BY <1>6, <1>7 DEF Sound, u

-----------------------------------------------------------------------------
(***************************************************************************)
(* Joining.                                                                *)
(***************************************************************************)
(* u is s with one alias more.                                             *)
Gains(s, u, q, ch, n) ==
  /\ u \in Switchboard
  /\ \A r \in Members : u.comlist[r] = IF r = q THEN s.comlist[r] \cup {n} ELSE s.comlist[r]
  /\ \A r \in Members, k \in Names :
       u.channel[r][k] = IF r = q /\ k = n THEN ch ELSE s.channel[r][k]
  /\ u.on = s.on /\ u.owner = s.owner /\ u.who = s.who /\ u.num = s.num
  /\ u.listening = s.listening /\ u.connected = s.connected

LEMMA Gained ==
  ASSUME NEW s \in Switchboard, NEW q \in Members, NEW ch \in Channels, NEW n \in Names
  PROVE  Gains(s, [s EXCEPT !.channel[q][n] = ch, !.comlist[q] = @ \cup {n}], q, ch, n)
<1> DEFINE row == [s.channel[q] EXCEPT ![n] = ch]
           u == [s EXCEPT !.channel[q][n] = ch, !.comlist[q] = @ \cup {n}]
           list == [s.comlist EXCEPT ![q] = @ \cup {n}]
           chan == [s.channel EXCEPT ![q] = row]
<1>1. /\ row \in [Names -> Channels \cup {NoChannel}]
      /\ \A k \in Names : row[k] = IF k = n THEN ch ELSE s.channel[q][k]
  <2>1. s.channel[q] \in [Names -> Channels \cup {NoChannel}]
    BY DEF Switchboard
  <2> QED
    BY <2>1
<1>2. list \in [Members -> SUBSET Names]
  BY DEF Switchboard
<1>3. chan \in [Members -> [Names -> Channels \cup {NoChannel}]]
  <2> HIDE DEF row
  <2> QED
    BY <1>1 DEF Switchboard
<1>4. \A r \in Members : list[r] = IF r = q THEN s.comlist[r] \cup {n} ELSE s.comlist[r]
  BY DEF Switchboard
<1>5. \A r \in Members, k \in Names :
        chan[r][k] = IF r = q /\ k = n THEN ch ELSE s.channel[r][k]
  <2>1. \A r \in Members : chan[r] = IF r = q THEN row ELSE s.channel[r]
    <3> HIDE DEF row
    <3> QED
      BY DEF Switchboard
  <2> HIDE DEF chan, row
  <2> QED
    BY <2>1, <1>1
<1>6. u = [s EXCEPT !.channel = chan, !.comlist = list]
  BY DEF Switchboard
<1> HIDE DEF row, list, chan, u
<1>7. u \in Switchboard
  BY <1>2, <1>3, <1>6 DEF Switchboard
<1>8. u.comlist = list /\ u.channel = chan
  BY <1>6 DEF Switchboard
<1>9. /\ u.on = s.on /\ u.owner = s.owner /\ u.who = s.who /\ u.num = s.num
      /\ u.listening = s.listening /\ u.connected = s.connected
  BY <1>6 DEF Switchboard
<1>10. /\ \A r \in Members : u.comlist[r] = IF r = q THEN s.comlist[r] \cup {n} ELSE s.comlist[r]
       /\ \A r \in Members, k \in Names :
            u.channel[r][k] = IF r = q /\ k = n THEN ch ELSE s.channel[r][k]
  BY <1>4, <1>5, <1>8
<1> QED
  BY <1>7, <1>9, <1>10 DEF u, Gains

(* t is s with one more on a channel.                                      *)
Enters(s, t, q, ch) ==
  /\ t \in Switchboard
  /\ t.on = s.on /\ t.owner = s.owner /\ t.channel = s.channel /\ t.comlist = s.comlist
  /\ t.connected = s.connected
  /\ \A c \in Channels :
       /\ t.who[c] = IF c = ch THEN s.who[c] \cup {q} ELSE s.who[c]
       /\ t.num[c] = IF c = ch THEN s.num[c] + 1 ELSE s.num[c]
       /\ t.listening[c] = IF c = ch THEN s.listening[c] \cup {q} ELSE s.listening[c]

LEMMA Entered ==
  ASSUME NEW s \in Switchboard, NEW q \in Members, NEW ch \in Channels
  PROVE  Enters(s, [s EXCEPT !.who[ch] = @ \cup {q}, !.num[ch] = @ + 1,
                             !.listening[ch] = @ \cup {q}], q, ch)
<1> DEFINE who == [s.who EXCEPT ![ch] = @ \cup {q}]
           num == [s.num EXCEPT ![ch] = @ + 1]
           lis == [s.listening EXCEPT ![ch] = @ \cup {q}]
           t == [s EXCEPT !.who[ch] = @ \cup {q}, !.num[ch] = @ + 1,
                          !.listening[ch] = @ \cup {q}]
<1>1. /\ who \in [Channels -> SUBSET Members]
      /\ \A c \in Channels : who[c] = IF c = ch THEN s.who[c] \cup {q} ELSE s.who[c]
  BY DEF Switchboard
<1>2. /\ num \in [Channels -> Nat]
      /\ \A c \in Channels : num[c] = IF c = ch THEN s.num[c] + 1 ELSE s.num[c]
  BY DEF Switchboard
<1>3. /\ lis \in [Channels -> SUBSET Members]
      /\ \A c \in Channels : lis[c] = IF c = ch THEN s.listening[c] \cup {q} ELSE s.listening[c]
  BY DEF Switchboard
<1>4. t = [s EXCEPT !.who = who, !.num = num, !.listening = lis]
  BY DEF Switchboard
<1> HIDE DEF who, num, lis, t
<1>5. t \in Switchboard
  BY <1>1, <1>2, <1>3, <1>4 DEF Switchboard
<1>6. t.who = who /\ t.num = num /\ t.listening = lis
  BY <1>4 DEF Switchboard
<1>7. /\ t.on = s.on /\ t.owner = s.owner /\ t.channel = s.channel /\ t.comlist = s.comlist
      /\ t.connected = s.connected
  BY <1>4 DEF Switchboard
<1> QED
  BY <1>1, <1>2, <1>3, <1>5, <1>6, <1>7 DEF t, Enters

LEMMA JoinSound ==
  ASSUME NEW s, NEW e, NEW up, Sound(s, e, up), NEW q \in e \cap Members,
         NEW ch \in Channels, NEW n \in Names
  PROVE  Sound(join_channel(s, q, ch, n, up), e, up)
<1> DEFINE u == [s EXCEPT !.channel[q][n] = ch, !.comlist[q] = @ \cup {n}]
           w == [u EXCEPT !.who[ch] = @ \cup {q}, !.num[ch] = @ + 1,
                          !.listening[ch] = @ \cup {q}]
           t == update_comwho(w, {ch}, up)
<1>1. s \in Switchboard
  BY DEF Sound, Agrees
<1>2. CASE s.channel[q][n] # NoChannel \/ ch \notin s.on
  BY <1>2 DEF join_channel
<1>3. ASSUME s.channel[q][n] = NoChannel, ch \in s.on
      PROVE  Sound(join_channel(s, q, ch, n, up), e, up)
  <2>1. join_channel(s, q, ch, n, up) = IF q \in u.who[ch] THEN u ELSE t
    BY <1>3 DEF join_channel, is_onchannel, Switchboard
  <2>2. Gains(s, u, q, ch, n)
    BY <1>1, Gained
  <2> HIDE DEF u
  <2>3. u \in Switchboard
    BY <2>2 DEF Gains
  <2>4. Enters(u, w, q, ch)
    BY <2>3, Entered
  <2> HIDE DEF w
  <2>5. ASSUME NEW r \in Members, NEW k \in Names
        PROVE  u.channel[r][k] # NoChannel <=> k \in u.comlist[r]
    <3>1. s.channel[r][k] # NoChannel <=> k \in s.comlist[r]
      BY DEF Sound, Agrees
    <3>2. /\ u.channel[r][k] = IF r = q /\ k = n THEN ch ELSE s.channel[r][k]
          /\ u.comlist[r] = IF r = q THEN s.comlist[r] \cup {n} ELSE s.comlist[r]
      BY <2>2 DEF Gains
    <3> QED
      BY <3>1, <3>2, Finite
  <2>6. ASSUME NEW r \in Members, NEW c \in Channels
        PROVE  Aliased(u, r, c) <=> (r \in s.who[c] \/ (r = q /\ c = ch))
    <3>1. r \in s.who[c] <=> Aliased(s, r, c)
      BY DEF Sound, Agrees
    <3>2. \A k \in Names : u.channel[r][k] = IF r = q /\ k = n THEN ch ELSE s.channel[r][k]
      BY <2>2 DEF Gains
    <3>3. Aliased(u, r, c) <=> (Aliased(s, r, c) \/ (r = q /\ c = ch))
      BY <3>2, <1>3, Finite DEF Aliased
    <3> QED
      BY <3>1, <3>3
  <2>7. /\ u.on = s.on /\ u.owner = s.owner /\ u.who = s.who /\ u.num = s.num
        /\ u.listening = s.listening /\ u.connected = s.connected
    BY <2>2 DEF Gains
  <2>8. CASE q \in u.who[ch]
    <3>1. \A r \in Members, c \in Channels : r \in u.who[c] <=> Aliased(u, r, c)
      BY <2>6, <2>7, <2>8
    <3>2. \A c \in Channels : /\ u.num[c] = Cardinality(u.who[c])
                              /\ u.listening[c] \subseteq u.who[c]
                              /\ u.who[c] # {} => c \in u.on
      BY <2>7 DEF Sound, Agrees
    <3>3. Agrees(u)
      BY <2>3, <2>5, <3>1, <3>2 DEF Agrees
    <3>4. Hears(u, up) /\ Present(u, e)
      BY <2>7 DEF Sound, Hears, Present
    <3> QED
      BY <2>1, <2>8, <3>3, <3>4 DEF Sound
  <2>9. CASE q \notin u.who[ch]
    <3>1. /\ w \in Switchboard
          /\ w.on = s.on /\ w.owner = s.owner /\ w.channel = u.channel /\ w.comlist = u.comlist
          /\ w.connected = s.connected
          /\ \A c \in Channels :
               /\ w.who[c] = IF c = ch THEN s.who[c] \cup {q} ELSE s.who[c]
               /\ w.num[c] = IF c = ch THEN s.num[c] + 1 ELSE s.num[c]
               /\ w.listening[c] = IF c = ch THEN s.listening[c] \cup {q} ELSE s.listening[c]
      BY <2>4, <2>7 DEF Enters
    <3>2. \A r \in Members, k \in Names : w.channel[r][k] # NoChannel <=> k \in w.comlist[r]
      BY <2>5, <3>1
    <3>3. ASSUME NEW r \in Members, NEW c \in Channels
          PROVE  r \in w.who[c] <=> Aliased(w, r, c)
      <4>1. Aliased(w, r, c) <=> Aliased(u, r, c)
        BY <3>1 DEF Aliased
      <4> QED
        BY <4>1, <2>6, <3>1
    <3>4. ASSUME NEW c \in Channels
          PROVE  /\ w.num[c] = Cardinality(w.who[c])
                 /\ w.listening[c] \subseteq w.who[c]
                 /\ w.who[c] # {} => c \in w.on
      <4>1. /\ s.num[c] = Cardinality(s.who[c]) /\ s.listening[c] \subseteq s.who[c]
            /\ s.who[c] # {} => c \in s.on
        BY DEF Sound, Agrees
      <4>2. IsFiniteSet(s.who[c])
        BY <1>1, Finite DEF Switchboard
      <4>3. q \notin s.who[c] => Cardinality(s.who[c] \cup {q}) = Cardinality(s.who[c]) + 1
        BY <4>2, FS_AddElement
      <4>4. q \notin s.who[ch]
        BY <2>7, <2>9
      <4>5. w.num[c] = Cardinality(w.who[c])
        BY <4>1, <4>3, <4>4, <3>1
      <4> QED
        BY <4>1, <4>5, <3>1, <1>3
    <3>5. Agrees(w)
      BY <3>1, <3>2, <3>3, <3>4 DEF Agrees
    <3>6. Present(w, e)
      <4>1. s.on \subseteq Channels
        BY <1>1 DEF Switchboard
      <4> QED
        BY <4>1, <3>1 DEF Sound, Present
    <3>7. /\ t \in Switchboard /\ SameRecords(w, t)
          /\ \A c \in {ch} \cap Channels : t.connected[c] = Hearing(w, c, up)
          /\ \A c \in Channels \ {ch} : t.connected[c] = w.connected[c]
      BY <3>1, Updated
    <3> HIDE DEF t
    <3>8. Agrees(t) /\ Present(t, e)
      BY <3>5, <3>6, <3>7, SameAgree
    <3>9. t.who = w.who
      BY <3>7 DEF SameRecords
    <3>10. /\ t.connected[ch] \subseteq t.who[ch]
           /\ \A r \in t.who[ch] : r \in Things \/ r \in up => r \in t.connected[ch]
      BY <3>7, <3>9 DEF Hearing
    <3>11. ASSUME NEW c \in Channels \ {ch}
           PROVE  /\ t.connected[c] \subseteq t.who[c]
                  /\ \A r \in t.who[c] : r \in Things \/ r \in up => r \in t.connected[c]
      BY <3>1, <3>7, <3>9 DEF Sound, Hears
    <3>12. Hears(t, up)
      BY <3>10, <3>11 DEF Hears
    <3> QED
      BY <2>1, <2>9, <3>8, <3>12 DEF Sound
  <2> QED
    BY <2>8, <2>9
<1> QED
  BY <1>2, <1>3

-----------------------------------------------------------------------------
(***************************************************************************)
(* The commands, and what the server calls.                                *)
(***************************************************************************)
LEMMA ClearSound ==
  ASSUME NEW s, NEW e, NEW up, Sound(s, e, up), NEW q \in Members
  PROVE  LET t == channel_clr(s, q, up)
         IN Sound(t, e, up) /\ OffThese(s, t, q, Channels)
<1> DEFINE chs == {s.channel[q][n] : n \in s.comlist[q]}
           gone == s.comlist[q]
           t == remove_from_channel(Unaliased(s, q, gone), q, chs, up)
<1>1. /\ s \in Switchboard
      /\ \A n \in Names : s.channel[q][n] # NoChannel <=> n \in s.comlist[q]
      /\ \A ch \in Channels : q \in s.who[ch] <=> Aliased(s, q, ch)
  BY DEF Sound, Agrees
<1>2. s.comlist[q] \subseteq Names /\ \A n \in Names : s.channel[q][n] \in Channels \cup {NoChannel}
  BY <1>1 DEF Switchboard
<1>3. chs \in SUBSET Channels
  BY <1>1, <1>2
<1>4. \A ch \in Channels : ch \in chs <=> q \in s.who[ch]
  BY <1>1, <1>2, Finite DEF Aliased
<1>5. \A ch \in Channels, n \in Names : s.channel[q][n] = ch => n \in gone
  BY <1>1, Finite
<1>6. \A ch \in Channels : ch \in chs <=>
        q \in s.who[ch] /\ \A n \in Names : s.channel[q][n] = ch => n \in gone
  BY <1>4, <1>5
<1> HIDE DEF chs, gone
<1>7. Sound(t, e, up) /\ OffThese(s, t, q, chs)
  BY <1>3, <1>6, LeaveSound
<1>8. channel_clr(s, q, up) = t
  BY DEF channel_clr, chs, gone
<1> HIDE DEF t
<1>9. OffThese(s, t, q, Channels)
  BY <1>4, <1>7 DEF OffThese
<1> QED
  BY <1>7, <1>8, <1>9

LEMMA BootSound ==
  ASSUME NEW s, NEW e, NEW up, Sound(s, e, up), NEW q \in Members, NEW ch \in Channels
  PROVE  Sound(do_cboot(s, q, ch, up), e, up)
<1> DEFINE gone == AliasesFor(s, q, ch)
           t == remove_from_channel(Unaliased(s, q, gone), q, {ch}, up)
<1>1. CASE ~is_onchannel(s, q, ch)
  BY <1>1 DEF do_cboot
<1>2. CASE is_onchannel(s, q, ch)
  <2>1. /\ s \in Switchboard
        /\ \A n \in Names : s.channel[q][n] # NoChannel <=> n \in s.comlist[q]
        /\ \A c \in Channels : q \in s.who[c] <=> Aliased(s, q, c)
    BY DEF Sound, Agrees
  <2>2. gone = {n \in Names : s.channel[q][n] = ch}
    BY <2>1, AliasesAre
  <2>3. q \in s.who[ch]
    BY <1>2 DEF is_onchannel
  <2>4. ASSUME NEW c \in Channels
        PROVE  c \in {ch} <=> q \in s.who[c] /\ \A n \in Names : s.channel[q][n] = c => n \in gone
    BY <2>1, <2>2, <2>3 DEF Aliased
  <2> HIDE DEF gone
  <2>5. {ch} \in SUBSET Channels
    OBVIOUS
  <2>6. Sound(t, e, up)
    BY <2>4, <2>5, LeaveSound
  <2>7. do_cboot(s, q, ch, up) = t
    BY <1>2 DEF do_cboot, gone
  <2> QED
    BY <2>6, <2>7
<1> QED
  BY <1>1, <1>2

LEMMA DelcomSound ==
  ASSUME NEW s, NEW e, NEW up, Sound(s, e, up), NEW q \in Members, NEW n \in Names
  PROVE  Sound(do_delcom(s, q, n, up), e, up)
<1> DEFINE ch == s.channel[q][n]
           less == Unaliased(s, q, {n})
           t == remove_from_channel(less, q, {ch}, up)
<1>1. /\ s \in Switchboard
      /\ \A k \in Names : s.channel[q][k] # NoChannel <=> k \in s.comlist[q]
      /\ \A c \in Channels : q \in s.who[c] <=> Aliased(s, q, c)
  BY DEF Sound, Agrees
<1>2. CASE ch = NoChannel
  BY <1>2 DEF do_delcom
<1>3. CASE ch # NoChannel
  <2>1. ch \in Channels
    BY <1>1, <1>3 DEF Switchboard
  <2>2. Loses(s, less, q, {n})
    BY <1>1, Lost
  <2>3. \A k \in Names : less.channel[q][k] = IF k = n THEN NoChannel ELSE s.channel[q][k]
    BY <2>2 DEF Loses
  <2>4. \A k \in Names : less.channel[q][k] # NoChannel <=> k \in less.comlist[q]
    <3>1. less.comlist[q] = s.comlist[q] \ {n}
      BY <2>2 DEF Loses
    <3> QED
      BY <3>1, <2>3, <1>1
  <2>5. AliasesFor(less, q, ch) # {} <=> Aliased(less, q, ch)
    <3>1. less \in Switchboard
      BY <2>2 DEF Loses
    <3> HIDE DEF less, ch
    <3> QED
      BY <3>1, <2>1, <2>4, AliasesAre
  <2>6. CASE Aliased(less, q, ch)
    <3>1. do_delcom(s, q, n, up) = less
      BY <1>3, <2>5, <2>6 DEF do_delcom
    <3>2. Sound(less, e, up)
      BY <1>3, <2>6, FewerSound
    <3> QED
      BY <3>1, <3>2
  <2>7. CASE ~Aliased(less, q, ch)
    <3>1. do_delcom(s, q, n, up) = t
      BY <1>3, <2>5, <2>7 DEF do_delcom
    <3>2. \A k \in Names : s.channel[q][k] = ch => k \in {n}
      BY <2>3, <2>7 DEF Aliased
    <3>3. q \in s.who[ch]
      BY <1>1, <2>1 DEF Aliased
    <3>4. ASSUME NEW c \in Channels
          PROVE  c \in {ch} <=> q \in s.who[c] /\ \A k \in Names : s.channel[q][k] = c => k \in {n}
      BY <3>2, <3>3, <1>1 DEF Aliased
    <3>5. {ch} \in SUBSET Channels
      BY <2>1
    <3>6. Sound(t, e, up)
      <4> HIDE DEF ch
      <4> QED
        BY <3>4, <3>5, LeaveSound
    <3> QED
      BY <3>1, <3>6
  <2> QED
    BY <2>6, <2>7
<1> QED
  BY <1>2, <1>3

(* process_comsys: only who listens changes.                               *)
LEMMA GagSound ==
  ASSUME NEW s, NEW e, NEW up, Sound(s, e, up), NEW q \in Members, NEW n \in Names,
         NEW on \in BOOLEAN
  PROVE  Sound(process_comsys(s, q, n, on), e, up)
<1> DEFINE ch == s.channel[q][n]
           t == [s EXCEPT !.listening[ch] = IF on THEN @ \cup {q} ELSE @ \ {q}]
<1>1. s \in Switchboard /\ (ch # NoChannel => ch \in Channels)
  BY DEF Sound, Agrees, Switchboard
<1>2. CASE ch = NoChannel \/ ~is_onchannel(s, q, ch)
  BY <1>2 DEF process_comsys
<1>3. CASE ch # NoChannel /\ is_onchannel(s, q, ch)
  <2> DEFINE lis == [s.listening EXCEPT ![ch] = IF on THEN @ \cup {q} ELSE @ \ {q}]
  <2>1. process_comsys(s, q, n, on) = t
    BY <1>3 DEF process_comsys
  <2>2. ch \in Channels /\ q \in s.who[ch]
    BY <1>1, <1>3 DEF is_onchannel
  <2> HIDE DEF ch
  <2>3. /\ lis \in [Channels -> SUBSET Members]
        /\ \A c \in Channels : lis[c] \subseteq s.listening[c] \cup (IF c = ch THEN {q} ELSE {})
    BY <1>1, <2>2 DEF Switchboard
  <2>4. t = [s EXCEPT !.listening = lis]
    BY <1>1, <2>2 DEF Switchboard
  <2> HIDE DEF lis, t
  <2>5. t \in Switchboard /\ t.listening = lis
    BY <1>1, <2>3, <2>4 DEF Switchboard
  <2>6. /\ t.on = s.on /\ t.owner = s.owner /\ t.channel = s.channel /\ t.comlist = s.comlist
        /\ t.who = s.who /\ t.num = s.num /\ t.connected = s.connected
    BY <1>1, <2>4 DEF Switchboard
  <2>7. \A c \in Channels : t.listening[c] \subseteq t.who[c]
    BY <2>2, <2>3, <2>5, <2>6 DEF Sound, Agrees
  <2>8. \A r, c : Aliased(t, r, c) <=> Aliased(s, r, c)
    BY <2>6 DEF Aliased
  <2>9. Agrees(t)
    BY <2>5, <2>6, <2>7, <2>8 DEF Sound, Agrees
  <2>10. Hears(t, up) /\ Present(t, e)
    BY <2>6 DEF Sound, Hears, Present
  <2> QED
    BY <2>1, <2>9, <2>10 DEF Sound
<1> QED
  BY <1>2, <1>3

(* Whose a channel is, and whether it is loud, is all that changes.        *)
LEMMA OwnerSound ==
  ASSUME NEW s, NEW e, NEW up, Sound(s, e, up), NEW t \in Switchboard,
         t.on = s.on, t.who = s.who, t.num = s.num, t.listening = s.listening,
         t.connected = s.connected, t.channel = s.channel, t.comlist = s.comlist,
         \A ch \in s.on : t.owner[ch] \in e \cap Players
  PROVE  Sound(t, e, up)
<1>1. \A r, c : Aliased(t, r, c) <=> Aliased(s, r, c)
  BY DEF Aliased
<1>2. Agrees(t)
  BY <1>1 DEF Sound, Agrees
<1>3. Hears(t, up) /\ Present(t, e)
  BY DEF Sound, Hears, Present
<1> QED
  BY <1>2, <1>3 DEF Sound

LEMMA ChannelSound ==
  ASSUME NEW s, NEW e, NEW up, Sound(s, e, up), NEW ch \in Channels,
         NEW owner \in e \cap Players, NEW loud
  PROVE  Sound(do_channel(s, ch, owner, loud), e, up)
<1> DEFINE own == [s.owner EXCEPT ![ch] = owner]
           lo == IF loud THEN s.loud \cup {ch} ELSE s.loud \ {ch}
           t == [s EXCEPT !.owner = own, !.loud = lo]
<1>1. s \in Switchboard
  BY DEF Sound, Agrees
<1>2. CASE ch \notin s.on
  BY <1>2 DEF do_channel
<1>3. CASE ch \in s.on
  <2>1. do_channel(s, ch, owner, loud) = t
    BY <1>1, <1>3 DEF do_channel, Switchboard
  <2>2. /\ own \in [Channels -> Players] /\ lo \in SUBSET Channels
        /\ \A c \in Channels : own[c] = IF c = ch THEN owner ELSE s.owner[c]
    BY <1>1 DEF Switchboard
  <2> HIDE DEF own, lo
  <2>3. t \in Switchboard /\ t.owner = own
    BY <1>1, <2>2 DEF Switchboard
  <2>4. /\ t.on = s.on /\ t.channel = s.channel /\ t.comlist = s.comlist /\ t.who = s.who
        /\ t.num = s.num /\ t.connected = s.connected /\ t.listening = s.listening
    BY <1>1 DEF Switchboard
  <2>5. \A c \in s.on : t.owner[c] \in e \cap Players
    <3>1. s.on \subseteq Channels
      BY <1>1 DEF Switchboard
    <3> QED
      BY <3>1, <2>2, <2>3 DEF Sound, Present
  <2> HIDE DEF t
  <2>6. Sound(t, e, up)
    BY <2>3, <2>4, <2>5, OwnerSound
  <2> QED
    BY <2>1, <2>6
<1> QED
  BY <1>2, <1>3

(* What from owned is to's.                                                *)
LEMMA ChownSound ==
  ASSUME NEW s, NEW e, NEW up, Sound(s, e, up), NEW from, NEW to \in e \cap Players
  PROVE  LET t == comsys_chown(s, from, to)
         IN Sound(t, e, up) /\ (to # from => \A ch \in t.on : t.owner[ch] # from)
<1> DEFINE own == [ch \in Channels |->
                     IF ch \in s.on /\ s.owner[ch] = from THEN to ELSE s.owner[ch]]
           t == comsys_chown(s, from, to)
<1>1. s \in Switchboard
  BY DEF Sound, Agrees
<1>2. t = [s EXCEPT !.owner = own]
  BY DEF comsys_chown
<1>3. /\ own \in [Channels -> Players]
      /\ \A c \in Channels : own[c] = IF c \in s.on /\ s.owner[c] = from THEN to ELSE s.owner[c]
  BY <1>1 DEF Switchboard
<1> HIDE DEF own, t
<1>4. t \in Switchboard /\ t.owner = own
  BY <1>1, <1>2, <1>3 DEF Switchboard
<1>5. /\ t.on = s.on /\ t.channel = s.channel /\ t.comlist = s.comlist /\ t.who = s.who
      /\ t.num = s.num /\ t.connected = s.connected /\ t.listening = s.listening
  BY <1>1, <1>2 DEF Switchboard
<1>6. s.on \subseteq Channels
  BY <1>1 DEF Switchboard
<1>7. \A c \in s.on : t.owner[c] \in e \cap Players
  BY <1>3, <1>4, <1>6 DEF Sound, Present
<1>8. Sound(t, e, up)
  BY <1>4, <1>5, <1>7, OwnerSound
<1>9. to # from => \A ch \in t.on : t.owner[ch] # from
  BY <1>3, <1>4, <1>5, <1>6
<1> QED
  BY <1>8, <1>9 DEF t

(* t is s with nobody on this channel.                                     *)
Empties(s, t, ch) ==
  /\ t \in Switchboard
  /\ t.on = s.on /\ t.owner = s.owner /\ t.loud = s.loud
  /\ t.channel = s.channel /\ t.comlist = s.comlist
  /\ \A c \in Channels :
       IF c = ch THEN t.who[c] = {} /\ t.num[c] = 0 /\ t.listening[c] = {} /\ t.connected[c] = {}
       ELSE /\ t.who[c] = s.who[c] /\ t.num[c] = s.num[c]
            /\ t.listening[c] = s.listening[c] /\ t.connected[c] = s.connected[c]

LEMMA EmptiedIs ==
  ASSUME NEW s \in Switchboard, NEW ch \in Channels
  PROVE  Empties(s, Emptied(s, ch), ch)
<1> DEFINE num == [s.num EXCEPT ![ch] = 0]
           who == [s.who EXCEPT ![ch] = {}]
           lis == [s.listening EXCEPT ![ch] = {}]
           con == [s.connected EXCEPT ![ch] = {}]
           t == Emptied(s, ch)
<1>1. /\ num \in [Channels -> Nat] /\ who \in [Channels -> SUBSET Members]
      /\ lis \in [Channels -> SUBSET Members] /\ con \in [Channels -> SUBSET Members]
  BY DEF Switchboard
<1>2. \A c \in Channels :
        IF c = ch THEN who[c] = {} /\ num[c] = 0 /\ lis[c] = {} /\ con[c] = {}
        ELSE /\ who[c] = s.who[c] /\ num[c] = s.num[c]
             /\ lis[c] = s.listening[c] /\ con[c] = s.connected[c]
  BY DEF Switchboard
<1>3. t = [s EXCEPT !.num = num, !.who = who, !.listening = lis, !.connected = con]
  BY DEF Emptied, Switchboard
<1> HIDE DEF num, who, lis, con, t
<1>4. t \in Switchboard
  BY <1>1, <1>3 DEF Switchboard
<1>5. t.num = num /\ t.who = who /\ t.listening = lis /\ t.connected = con
  BY <1>3 DEF Switchboard
<1>6. /\ t.on = s.on /\ t.owner = s.owner /\ t.loud = s.loud
      /\ t.channel = s.channel /\ t.comlist = s.comlist
  BY <1>3 DEF Switchboard
<1> QED
  BY <1>2, <1>4, <1>5, <1>6 DEF t, Empties

LEMMA CreateSound ==
  ASSUME NEW s, NEW e, NEW up, Sound(s, e, up), NEW ch \in Channels, NEW p \in e \cap Players
  PROVE  Sound(do_ccreate(s, p, ch), e, up)
<1> DEFINE u == Emptied(s, ch)
           own == [u.owner EXCEPT ![ch] = p]
           t == [u EXCEPT !.on = @ \cup {ch}, !.owner[ch] = p, !.loud = @ \ {ch}]
<1>1. s \in Switchboard
  BY DEF Sound, Agrees
<1>2. CASE ch \in s.on
  BY <1>2 DEF do_ccreate
<1>3. CASE ch \notin s.on
  <2>1. do_ccreate(s, p, ch) = t
    BY <1>3 DEF do_ccreate
  <2>2. Empties(s, u, ch)
    BY <1>1, EmptiedIs
  <2> HIDE DEF u
  <2>3. /\ u \in Switchboard
        /\ u.on = s.on /\ u.owner = s.owner /\ u.channel = s.channel /\ u.comlist = s.comlist
    BY <2>2 DEF Empties
  <2>4. /\ own \in [Channels -> Players]
        /\ \A c \in Channels : own[c] = IF c = ch THEN p ELSE s.owner[c]
    BY <2>3 DEF Switchboard
  <2>5. t = [u EXCEPT !.on = u.on \cup {ch}, !.owner = own, !.loud = u.loud \ {ch}]
    BY <2>3 DEF Switchboard
  <2> HIDE DEF own, t
  <2>6. t \in Switchboard
    BY <2>3, <2>4, <2>5 DEF Switchboard
  <2>7. t.on = u.on \cup {ch} /\ t.owner = own
    BY <2>3, <2>5 DEF Switchboard
  <2>8. /\ t.channel = u.channel /\ t.comlist = u.comlist /\ t.who = u.who
        /\ t.num = u.num /\ t.connected = u.connected /\ t.listening = u.listening
    BY <2>3, <2>5 DEF Switchboard
  <2>9. ASSUME NEW c \in Channels
        PROVE  t.who[c] = s.who[c] /\ t.num[c] = s.num[c]
    <3>1. s.who[ch] = {} /\ s.num[ch] = Cardinality(s.who[ch])
      BY <1>3 DEF Sound, Agrees
    <3>2. s.num[ch] = 0
      BY <3>1, FS_EmptySet
    <3>3. IF c = ch THEN u.who[c] = {} /\ u.num[c] = 0
          ELSE u.who[c] = s.who[c] /\ u.num[c] = s.num[c]
      BY <2>2 DEF Empties
    <3> QED
      BY <3>1, <3>2, <3>3, <2>8
  <2>10. ASSUME NEW c \in Channels
         PROVE  t.listening[c] = s.listening[c] /\ t.connected[c] = s.connected[c]
    <3>1. /\ s.who[ch] = {} /\ s.listening[ch] \subseteq s.who[ch]
          /\ s.connected[ch] \subseteq s.who[ch]
      BY <1>3 DEF Sound, Agrees, Hears
    <3>2. IF c = ch THEN u.listening[c] = {} /\ u.connected[c] = {}
          ELSE u.listening[c] = s.listening[c] /\ u.connected[c] = s.connected[c]
      BY <2>2 DEF Empties
    <3> QED
      BY <3>1, <3>2, <2>8
  <2>11. \A r, c : Aliased(t, r, c) <=> Aliased(s, r, c)
    BY <2>3, <2>8 DEF Aliased
  <2>12. Agrees(t)
    <3>1. \A q \in Members, n \in Names : t.channel[q][n] # NoChannel <=> n \in t.comlist[q]
      BY <2>3, <2>8 DEF Sound, Agrees
    <3>2. ASSUME NEW c \in Channels
          PROVE  /\ \A q \in Members : q \in t.who[c] <=> Aliased(t, q, c)
                 /\ t.num[c] = Cardinality(t.who[c])
                 /\ t.listening[c] \subseteq t.who[c]
                 /\ t.who[c] # {} => c \in t.on
      <4>1. /\ \A q \in Members : q \in s.who[c] <=> Aliased(s, q, c)
            /\ s.num[c] = Cardinality(s.who[c])
            /\ s.listening[c] \subseteq s.who[c]
            /\ s.who[c] # {} => c \in s.on
        BY DEF Sound, Agrees
      <4> QED
        BY <4>1, <2>3, <2>7, <2>9, <2>10, <2>11
    <3> QED
      BY <2>6, <3>1, <3>2 DEF Agrees
  <2>13. Hears(t, up)
    BY <2>9, <2>10 DEF Sound, Hears
  <2>14. Present(t, e)
    <3> SUFFICES ASSUME NEW c \in t.on
                 PROVE  t.who[c] \subseteq e /\ t.owner[c] \in e \cap Players
      BY DEF Present
    <3>1. c \in Channels
      BY <2>6 DEF Switchboard
    <3>2. CASE c \in s.on
      BY <3>1, <3>2, <2>4, <2>7, <2>9 DEF Sound, Present
    <3>3. CASE c \notin s.on
      <4>1. c = ch
        BY <3>3, <2>3, <2>7
      <4>2. t.who[c] = {}
        BY <4>1, <1>3, <2>9 DEF Sound, Agrees
      <4> QED
        BY <4>1, <4>2, <2>4, <2>7
    <3> QED
      BY <3>2, <3>3
  <2> QED
    BY <2>1, <2>12, <2>13, <2>14 DEF Sound
<1> QED
  BY <1>2, <1>3

LEMMA DestroySound ==
  ASSUME NEW s, NEW e, NEW up, Sound(s, e, up), NEW ch \in Channels
  PROVE  Sound(do_cdestroy(s, ch), e, up)
<1> DEFINE u == Emptied(s, ch)
           chan == [q \in Members |->
                     [n \in Names |-> IF u.channel[q][n] = ch THEN NoChannel ELSE u.channel[q][n]]]
           list == [q \in Members |-> {n \in u.comlist[q] : s.channel[q][n] # ch}]
           t == [u EXCEPT !.on = u.on \ {ch}, !.channel = chan, !.comlist = list]
<1>1. s \in Switchboard
  BY DEF Sound, Agrees
<1>2. CASE ch \notin s.on
  BY <1>2 DEF do_cdestroy
<1>3. CASE ch \in s.on
  <2>1. do_cdestroy(s, ch) = t
    BY <1>3 DEF do_cdestroy
  <2>2. Empties(s, u, ch)
    BY <1>1, EmptiedIs
  <2> HIDE DEF u
  <2>3. /\ u \in Switchboard
        /\ u.on = s.on /\ u.owner = s.owner /\ u.channel = s.channel /\ u.comlist = s.comlist
    BY <2>2 DEF Empties
  <2>4. /\ chan \in [Members -> [Names -> Channels \cup {NoChannel}]]
        /\ \A q \in Members, n \in Names :
             chan[q][n] = IF s.channel[q][n] = ch THEN NoChannel ELSE s.channel[q][n]
    <3>1. \A q \in Members, n \in Names : u.channel[q][n] \in Channels \cup {NoChannel}
      BY <2>3 DEF Switchboard
    <3> QED
      BY <3>1, <2>3
  <2>5. /\ list \in [Members -> SUBSET Names]
        /\ \A q \in Members : list[q] = {n \in s.comlist[q] : s.channel[q][n] # ch}
    <3>1. \A q \in Members : u.comlist[q] \in SUBSET Names
      BY <2>3 DEF Switchboard
    <3> QED
      BY <3>1, <2>3
  <2> HIDE DEF chan, list, t
  <2>6. t \in Switchboard
    BY <2>3, <2>4, <2>5 DEF Switchboard, t
  <2>7. t.on = u.on \ {ch} /\ t.channel = chan /\ t.comlist = list
    BY <2>3 DEF Switchboard, t
  <2>8. /\ t.owner = u.owner /\ t.who = u.who
        /\ t.num = u.num /\ t.connected = u.connected /\ t.listening = u.listening
    BY <2>3 DEF Switchboard, t
  <2>9. ASSUME NEW q \in Members, NEW n \in Names
        PROVE  t.channel[q][n] # NoChannel <=> n \in t.comlist[q]
    <3>1. s.channel[q][n] # NoChannel <=> n \in s.comlist[q]
      BY DEF Sound, Agrees
    <3>2. t.channel[q][n] = IF s.channel[q][n] = ch THEN NoChannel ELSE s.channel[q][n]
      BY <2>4, <2>7
    <3>3. n \in t.comlist[q] <=> n \in s.comlist[q] /\ s.channel[q][n] # ch
      BY <2>5, <2>7
    <3> QED
      BY <3>1, <3>2, <3>3
  <2>10. ASSUME NEW q \in Members, NEW c \in Channels
         PROVE  Aliased(t, q, c) <=> Aliased(s, q, c) /\ c # ch
    <3>1. \A n \in Names :
            t.channel[q][n] = IF s.channel[q][n] = ch THEN NoChannel ELSE s.channel[q][n]
      BY <2>4, <2>7
    <3> QED
      BY <3>1, Finite DEF Aliased
  <2>11. ASSUME NEW c \in Channels
         PROVE  IF c = ch THEN t.who[c] = {} /\ t.num[c] = 0 /\ t.listening[c] = {} /\ t.connected[c] = {}
                ELSE /\ t.who[c] = s.who[c] /\ t.num[c] = s.num[c]
                     /\ t.listening[c] = s.listening[c] /\ t.connected[c] = s.connected[c]
    BY <2>2, <2>8 DEF Empties
  <2>12. ASSUME NEW c \in Channels
         PROVE  /\ \A q \in Members : q \in t.who[c] <=> Aliased(t, q, c)
                /\ t.num[c] = Cardinality(t.who[c])
                /\ t.listening[c] \subseteq t.who[c]
                /\ t.who[c] # {} => c \in t.on
    <3>1. /\ \A q \in Members : q \in s.who[c] <=> Aliased(s, q, c)
          /\ s.num[c] = Cardinality(s.who[c])
          /\ s.listening[c] \subseteq s.who[c]
          /\ s.who[c] # {} => c \in s.on
      BY DEF Sound, Agrees
    <3>2. CASE c = ch
      <4>1. t.who[c] = {} /\ t.num[c] = 0 /\ t.listening[c] = {}
        BY <2>11, <3>2
      <4>2. \A q \in Members : ~Aliased(t, q, c)
        BY <2>10, <3>2
      <4>3. Cardinality({}) = 0
        BY FS_EmptySet
      <4> QED
        BY <4>1, <4>2, <4>3
    <3>3. CASE c # ch
      <4>1. t.who[c] = s.who[c] /\ t.num[c] = s.num[c] /\ t.listening[c] = s.listening[c]
        BY <2>11, <3>3
      <4>2. \A q \in Members : Aliased(t, q, c) <=> Aliased(s, q, c)
        BY <2>10, <3>3
      <4> QED
        BY <3>1, <3>3, <4>1, <4>2, <2>3, <2>7
    <3> QED
      BY <3>2, <3>3
  <2>13. Agrees(t)
    BY <2>6, <2>9, <2>12 DEF Agrees
  <2>14. Hears(t, up)
    <3> SUFFICES ASSUME NEW c \in Channels
                 PROVE  /\ t.connected[c] \subseteq t.who[c]
                        /\ \A q \in t.who[c] : q \in Things \/ q \in up => q \in t.connected[c]
      BY DEF Hears
    <3>1. CASE c = ch
      BY <2>11, <3>1
    <3>2. CASE c # ch
      BY <2>11, <3>2 DEF Sound, Hears
    <3> QED
      BY <3>1, <3>2
  <2>15. Present(t, e)
    <3> SUFFICES ASSUME NEW c \in t.on
                 PROVE  t.who[c] \subseteq e /\ t.owner[c] \in e \cap Players
      BY DEF Present
    <3>1. c \in Channels
      BY <2>6 DEF Switchboard
    <3>2. c \in s.on /\ c # ch
      BY <2>3, <2>7
    <3>3. t.who[c] = s.who[c] /\ t.owner[c] = s.owner[c]
      BY <3>1, <3>2, <2>3, <2>8, <2>11
    <3> QED
      BY <3>2, <3>3 DEF Sound, Present
  <2> QED
    BY <2>1, <2>13, <2>14, <2>15 DEF Sound
<1> QED
  BY <1>2, <1>3

(* What is read from the file is what was in memory, but for the arrays.   *)
LEMMA RestoredSound ==
  ASSUME NEW s, NEW e, NEW up, Sound(s, e, up)
  PROVE  Sound(Restored(s, up), e, up)
<1> DEFINE on(ch) == {q \in Members : \E n \in Names : s.channel[q][n] = ch}
           who == [ch \in Channels |-> on(ch)]
           num == [ch \in Channels |-> Cardinality(on(ch))]
           lis == [ch \in Channels |-> s.listening[ch] \cap on(ch)]
           con == [ch \in Channels |-> {}]
           list == [q \in Members |-> {n \in Names : s.channel[q][n] # NoChannel}]
           v == [s EXCEPT !.who = who, !.num = num, !.listening = lis, !.connected = con,
                          !.comlist = list]
           t == update_comwho(v, s.on, up)
<1>1. s \in Switchboard
  BY DEF Sound, Agrees
<1>2. Restored(s, up) = update_comwho(v, v.on, up)
  BY DEF Restored, update_comwho_all
<1>3. \A ch \in Channels : on(ch) = s.who[ch]
  <2>1. \A ch \in Channels : s.who[ch] \subseteq Members
    BY <1>1 DEF Switchboard
  <2> QED
    BY <2>1 DEF Sound, Agrees, Aliased
<1>4. who = s.who /\ num = s.num /\ lis = s.listening
  <2>1. \A ch \in Channels : /\ s.num[ch] = Cardinality(s.who[ch])
                             /\ s.listening[ch] \subseteq s.who[ch]
    BY DEF Sound, Agrees
  <2>2. \A ch \in Channels : who[ch] = s.who[ch]
    BY <1>3
  <2>3. \A ch \in Channels : num[ch] = s.num[ch]
    <3>1. \A ch \in Channels : num[ch] = Cardinality(on(ch))
      OBVIOUS
    <3> HIDE DEF on, num
    <3> QED
      BY <3>1, <1>3, <2>1
  <2>4. \A ch \in Channels : lis[ch] = s.listening[ch]
    BY <1>3, <2>1
  <2>5. who = [ch \in Channels |-> who[ch]] /\ num = [ch \in Channels |-> num[ch]]
        /\ lis = [ch \in Channels |-> lis[ch]]
    OBVIOUS
  <2>6. s.who = [ch \in Channels |-> s.who[ch]] /\ s.num = [ch \in Channels |-> s.num[ch]]
        /\ s.listening = [ch \in Channels |-> s.listening[ch]]
    BY <1>1 DEF Switchboard
  <2> HIDE DEF who, num, lis
  <2> QED
    BY <2>2, <2>3, <2>4, <2>5, <2>6
<1>5. list = s.comlist
  <2>1. \A q \in Members : s.comlist[q] \subseteq Names
    BY <1>1 DEF Switchboard
  <2>2. \A q \in Members : list[q] = s.comlist[q]
    BY <2>1 DEF Sound, Agrees
  <2>3. s.comlist = [q \in Members |-> s.comlist[q]]
    BY <1>1 DEF Switchboard
  <2> QED
    BY <2>2, <2>3
<1>6. con \in [Channels -> SUBSET Members] /\ \A ch \in Channels : con[ch] = {}
  OBVIOUS
<1> HIDE DEF who, num, lis, list, con, on, v, t
<1>7. v \in Switchboard
  BY <1>1, <1>4, <1>5, <1>6 DEF Switchboard, v
<1>8. /\ v.on = s.on /\ v.owner = s.owner /\ v.who = s.who /\ v.num = s.num
      /\ v.listening = s.listening /\ v.channel = s.channel /\ v.comlist = s.comlist
      /\ v.connected = con
  <2>1. v.who = s.who /\ v.num = s.num /\ v.listening = s.listening /\ v.comlist = s.comlist
    BY <1>1, <1>4, <1>5 DEF Switchboard, v
  <2>2. v.connected = con /\ v.on = s.on /\ v.owner = s.owner /\ v.channel = s.channel
    BY <1>1 DEF Switchboard, v
  <2> QED
    BY <2>1, <2>2
<1>9. Restored(s, up) = t
  BY <1>2, <1>8 DEF t
<1>10. SameRecords(s, v)
  BY <1>8 DEF SameRecords
<1>11. Agrees(v) /\ Present(v, e)
  BY <1>7, <1>10, SameAgree DEF Sound
<1>12. /\ t \in Switchboard /\ SameRecords(v, t)
       /\ \A ch \in s.on \cap Channels : t.connected[ch] = Hearing(v, ch, up)
       /\ \A ch \in Channels \ s.on : t.connected[ch] = v.connected[ch]
  BY <1>7, Updated DEF t
<1>13. Agrees(t) /\ Present(t, e)
  BY <1>11, <1>12, SameAgree
<1>14. t.who = s.who
  BY <1>8, <1>12 DEF SameRecords
<1>15. ASSUME NEW ch \in Channels
       PROVE  /\ t.connected[ch] \subseteq t.who[ch]
              /\ \A q \in t.who[ch] : q \in Things \/ q \in up => q \in t.connected[ch]
  <2>1. CASE ch \in s.on
    BY <2>1, <1>8, <1>12, <1>14 DEF Hearing
  <2>2. CASE ch \notin s.on
    <3>1. t.connected[ch] = {}
      BY <2>2, <1>6, <1>8, <1>12
    <3>2. t.who[ch] = {}
      BY <2>2, <1>14 DEF Sound, Agrees
    <3> QED
      BY <3>1, <3>2
  <2> QED
    BY <2>1, <2>2
<1> QED
  BY <1>9, <1>13, <1>15 DEF Sound, Hears

-----------------------------------------------------------------------------
(***************************************************************************)
(* The steps.                                                              *)
(***************************************************************************)
LEMMA MailApart == MailCommands => UNCHANGED <<exists, links, com>>
<1>1. \A p \in Living : Write(p) => UNCHANGED <<exists, links, com>>
  BY DEF Write, Mailed
<1>2. \A p \in Living : Sort(p) => UNCHANGED <<exists, links, com>>
  BY DEF Sort, Mailed
<1>3. Postmaster => UNCHANGED <<exists, links, com>>
  BY DEF Postmaster, Mailed
<1> QED
  BY <1>1, <1>2, <1>3 DEF MailCommands

LEMMA SilenceSound == Sound(Silence(God), {God} \cup Things, {})
<1> DEFINE s == Silence(God)
<1>1. s \in Switchboard
  <2>1. /\ {Public} \in SUBSET Channels
        /\ [ch \in Channels |-> God] \in [Channels -> Players]
        /\ {} \in SUBSET Channels
        /\ [ch \in Channels |-> {}] \in [Channels -> SUBSET Members]
        /\ [ch \in Channels |-> 0] \in [Channels -> Nat]
        /\ [q \in Members |-> [n \in Names |-> NoChannel]] \in
             [Members -> [Names -> Channels \cup {NoChannel}]]
        /\ [q \in Members |-> {}] \in [Members -> SUBSET Names]
    BY ComsysAssumption, MailAssumption
  <2> QED
    BY <2>1 DEF Silence, Switchboard
<1>2. /\ \A ch \in Channels : /\ s.who[ch] = {} /\ s.num[ch] = 0 /\ s.listening[ch] = {}
                              /\ s.connected[ch] = {} /\ s.owner[ch] = God
      /\ \A q \in Members : s.comlist[q] = {}
      /\ \A q \in Members, n \in Names : s.channel[q][n] = NoChannel
      /\ s.on = {Public}
  BY DEF Silence
<1> HIDE DEF s
<1>3. Cardinality({}) = 0
  BY FS_EmptySet
<1>4. Agrees(s)
  BY <1>1, <1>2, <1>3, Finite DEF Agrees, Aliased
<1>5. Hears(s, {})
  BY <1>2 DEF Hears
<1>6. Present(s, {God} \cup Things)
  BY <1>2, Finite, ComsysAssumption DEF Present
<1> QED
  BY <1>4, <1>5, <1>6 DEF Sound, s

LEMMA InitSwitches == Init => Switches
<1> SUFFICES ASSUME Init
             PROVE  Switches
  OBVIOUS
<1>1. Up(links) = {} /\ links \in [Players -> Nat]
  BY DEF Init, Up
<1>2. World
  BY <1>1, Finite DEF Init, World
<1>3. Sound(com, exists, Up(links))
  BY <1>1, SilenceSound DEF Init
<1> QED
  BY <1>2, <1>3 DEF Switches

LEMMA ConnectStep ==
  ASSUME Switches, NEW p \in Players, Connect(p)
  PROVE  Switches'
<1> DEFINE up == Up(links')
           chs == {ch \in com.on : is_onchannel(com, p, ch)}
<1>1. /\ World /\ Sound(com, exists, Up(links))
      /\ links' = [links EXCEPT ![p] = @ + 1] /\ exists' = exists
      /\ com' = update_comwho(com, chs, up)
  BY DEF Switches, Connect, mod_comsys_announce_connect
<1>2. links' \in [Players -> Nat] /\ \A r \in Players : r # p => links'[r] = links[r]
  BY <1>1 DEF World
<1>3. \A r \in up : r # p => r \in Up(links)
  BY <1>2 DEF Up
<1>4. ASSUME NEW ch \in Channels \ chs
      PROVE  \A r \in com.who[ch] : r \in up => r \in Up(links)
  <2>1. com.who[ch] # {} => ch \in com.on
    BY <1>1 DEF Sound, Agrees
  <2>2. p \notin com.who[ch]
    BY <2>1 DEF is_onchannel
  <2> QED
    BY <2>2, <1>3
<1> HIDE DEF up, chs
<1>5. Sound(update_comwho(com, chs, up), exists, up)
  BY <1>1, <1>4, UpdateSound
<1>6. World'
  BY <1>1, <1>2 DEF World
<1> QED
  BY <1>1, <1>5, <1>6 DEF Switches, up

(* p goes, and only channels that are loud are told.                       *)
LEMMA LessUp ==
  ASSUME NEW s, NEW e, NEW old, Sound(s, e, old), NEW p, NEW up, up \subseteq old
  PROVE  Sound(s, e, up) /\ Sound(mod_comsys_announce_disconnect(s, p, up), e, up)
<1>1. Sound(s, e, up)
  BY DEF Sound, Hears
<1> DEFINE chs == {ch \in s.on \cap s.loud : is_onchannel(s, p, ch) /\ is_listenchannel(s, p, ch)}
<1>2. mod_comsys_announce_disconnect(s, p, up) = update_comwho(s, chs, up)
  BY DEF mod_comsys_announce_disconnect
<1> HIDE DEF chs
<1>3. \A ch \in Channels \ chs : \A q \in s.who[ch] : q \in up => q \in up
  OBVIOUS
<1>4. Sound(update_comwho(s, chs, up), e, up)
  BY <1>1, <1>3, UpdateSound
<1> QED
  BY <1>1, <1>2, <1>4

LEMMA DisconnectStep ==
  ASSUME Switches, NEW p \in Players, Disconnect(p)
  PROVE  Switches'
<1>1. /\ World /\ Sound(com, exists, Up(links))
      /\ links[p] > 0 /\ links' = [links EXCEPT ![p] = @ - 1] /\ exists' = exists
      /\ com' = mod_comsys_announce_disconnect(com, p, Up(links'))
  BY DEF Switches, Disconnect
<1>2. links' \in [Players -> Nat] /\ \A r \in Players : links'[r] > 0 => links[r] > 0
  BY <1>1 DEF World
<1>3. Up(links') \subseteq Up(links)
  BY <1>2 DEF Up
<1>4. Sound(mod_comsys_announce_disconnect(com, p, Up(links')), exists, Up(links'))
  BY <1>1, <1>3, LessUp
<1>5. World'
  BY <1>1, <1>2 DEF World
<1> QED
  BY <1>1, <1>4, <1>5 DEF Switches

LEMMA CreateStep ==
  ASSUME Switches, NEW p \in Players, CreatePlayer(p)
  PROVE  Switches'
<1> DEFINE e == exists \cup {p}
<1>1. /\ World /\ Sound(com, exists, Up(links)) /\ links' = links /\ exists' = e
      /\ com' = join_channel(com, p, Public, pub, Up(links))
  BY DEF Switches, CreatePlayer
<1>2. Sound(com, e, Up(links))
  BY <1>1 DEF Sound, Present
<1>3. pub \in Names /\ Public \in Channels /\ p \in e \cap Members
  BY ComsysAssumption, Finite DEF pub
<1> HIDE DEF e
<1>4. Sound(join_channel(com, p, Public, pub, Up(links)), e, Up(links))
  BY <1>2, <1>3, JoinSound
<1>5. World'
  BY <1>1, Finite DEF World, e
<1> QED
  BY <1>1, <1>4, <1>5 DEF Switches

LEMMA DestroyPlayerStep ==
  ASSUME Switches, NEW p \in Players, DestroyPlayer(p)
  PROVE  Switches'
<1> DEFINE up == Up(links')
<1>1. /\ World /\ Sound(com, exists, Up(links)) /\ p \in exists \ {God}
      /\ links' = [links EXCEPT ![p] = 0] /\ exists' = exists \ {p}
  BY DEF Switches, DestroyPlayer, Living
<1>2. PICK to \in Living \ {p} :
        LET booted == IF links[p] = 0 THEN com
                      ELSE mod_comsys_announce_disconnect(com, p, up)
        IN com' = channel_clr(comsys_chown(booted, p, to), p, up)
  BY DEF DestroyPlayer
<1> DEFINE booted == IF links[p] = 0 THEN com ELSE mod_comsys_announce_disconnect(com, p, up)
           given == comsys_chown(booted, p, to)
           t == channel_clr(given, p, up)
<1>3. links' \in [Players -> Nat] /\ \A r \in Players : links'[r] > 0 => links[r] > 0
  BY <1>1 DEF World
<1>4. up \subseteq Up(links)
  BY <1>3 DEF Up
<1> HIDE DEF up
<1>5. Sound(booted, exists, up)
  <2>1. Sound(com, exists, up) /\ Sound(mod_comsys_announce_disconnect(com, p, up), exists, up)
    BY <1>1, <1>4, LessUp
  <2> QED
    BY <2>1
<1> HIDE DEF booted
<1>6. Sound(given, exists, up) /\ \A ch \in given.on : given.owner[ch] # p
  <2>1. to \in exists \cap Players /\ to # p
    BY <1>2 DEF Living
  <2> QED
    BY <1>5, <2>1, ChownSound
<1> HIDE DEF given
<1>7. Sound(t, exists, up) /\ OffThese(given, t, p, Channels)
  <2>1. p \in Members
    BY Finite
  <2> QED
    BY <1>6, <2>1, ClearSound
<1>8. com' = t
  BY <1>2 DEF given, booted
<1> HIDE DEF t
<1>9. Present(t, exists \ {p})
  <2> SUFFICES ASSUME NEW ch \in t.on
               PROVE  t.who[ch] \subseteq exists \ {p} /\ t.owner[ch] \in (exists \ {p}) \cap Players
    BY DEF Present
  <2>1. ch \in Channels
    BY <1>7 DEF Sound, Agrees, Switchboard
  <2>2. t.who[ch] \subseteq exists /\ t.owner[ch] \in exists \cap Players
    BY <1>7 DEF Sound, Present
  <2>3. p \notin t.who[ch] /\ t.owner[ch] # p
    BY <1>6, <1>7, <2>1 DEF OffThese
  <2> QED
    BY <2>2, <2>3
<1>10. Sound(t, exists \ {p}, up)
  BY <1>7, <1>9 DEF Sound
<1>11. World'
  BY <1>1, <1>3 DEF World
<1> QED
  BY <1>1, <1>8, <1>10, <1>11 DEF Switches, up

LEMMA DestroyThingStep ==
  ASSUME Switches, NEW x \in Things, DestroyThing(x)
  PROVE  Switches'
<1> DEFINE t == channel_clr(com, x, Up(links))
<1>1. /\ World /\ Sound(com, exists, Up(links)) /\ links' = links /\ exists' = exists \ {x}
      /\ com' = t
  BY DEF Switches, DestroyThing
<1>2. x \in Members /\ x \notin Players /\ x # God
  BY Finite, ComsysAssumption
<1>3. Sound(t, exists, Up(links)) /\ OffThese(com, t, x, Channels)
  BY <1>1, <1>2, ClearSound
<1> HIDE DEF t
<1>4. Present(t, exists \ {x})
  <2> SUFFICES ASSUME NEW ch \in t.on
               PROVE  t.who[ch] \subseteq exists \ {x} /\ t.owner[ch] \in (exists \ {x}) \cap Players
    BY DEF Present
  <2>1. ch \in Channels
    BY <1>3 DEF Sound, Agrees, Switchboard
  <2>2. t.who[ch] \subseteq exists /\ t.owner[ch] \in exists \cap Players
    BY <1>3 DEF Sound, Present
  <2>3. x \notin t.who[ch] /\ t.owner[ch] # x
    BY <1>2, <1>3, <2>1, <2>2 DEF OffThese
  <2> QED
    BY <2>2, <2>3
<1>5. Sound(t, exists \ {x}, Up(links))
  BY <1>3, <1>4 DEF Sound
<1>6. World'
  BY <1>1, <1>2 DEF World
<1> QED
  BY <1>1, <1>5, <1>6 DEF Switches

LEMMA HooksStep == Switches /\ Hooks => Switches'
<1>1. ASSUME Switches, Restart
      PROVE  Switches'
  <2>1. /\ World /\ Sound(com, exists, Up(links)) /\ links' = links /\ exists' = exists
        /\ com' = Restored(com, Up(links))
    BY <1>1 DEF Switches, Restart
  <2>2. Sound(Restored(com, Up(links)), exists, Up(links))
    BY <2>1, RestoredSound
  <2> QED
    BY <2>1, <2>2 DEF Switches, World
<1>2. ASSUME Switches, DaysPass
      PROVE  Switches'
  BY <1>2 DEF Switches, World, DaysPass, Sound, Agrees, Aliased, Hears, Up, Present
<1> QED
  BY <1>1, <1>2, ConnectStep, DisconnectStep, CreateStep, DestroyPlayerStep, DestroyThingStep
     DEF Hooks

LEMMA CommandsStep == Switches /\ ChannelCommands => Switches'
<1> SUFFICES ASSUME Switches, ChannelCommands
             PROVE  Switches'
  OBVIOUS
<1>1. World /\ Sound(com, exists, Up(links))
  BY DEF Switches
<1>2. ASSUME Sound(com', exists, Up(links)), UNCHANGED <<exists, links>>
      PROVE  Switches'
  BY <1>1, <1>2 DEF Switches, World
<1>3. ASSUME NEW q \in exists, Chat(q)
      PROVE  Switches'
  <2>1. q \in Members /\ q \in exists \cap Members
    BY <1>1 DEF World
  <2>2. ASSUME NEW n \in Names, NEW ch \in Channels,
               Switched(join_channel(com, q, ch, n, Up(links)))
        PROVE  Switches'
    <3>1. com' = join_channel(com, q, ch, n, Up(links)) /\ UNCHANGED <<exists, links>>
      BY <2>2 DEF Switched
    <3>2. Sound(join_channel(com, q, ch, n, Up(links)), exists, Up(links))
      BY <1>1, <2>1, JoinSound
    <3> QED
      BY <1>2, <3>1, <3>2
  <2>3. ASSUME NEW n \in Names, Switched(do_delcom(com, q, n, Up(links)))
        PROVE  Switches'
    <3>1. com' = do_delcom(com, q, n, Up(links)) /\ UNCHANGED <<exists, links>>
      BY <2>3 DEF Switched
    <3>2. Sound(do_delcom(com, q, n, Up(links)), exists, Up(links))
      BY <1>1, <2>1, DelcomSound
    <3> QED
      BY <1>2, <3>1, <3>2
  <2>4. ASSUME NEW n \in Names, NEW on \in BOOLEAN, Switched(process_comsys(com, q, n, on))
        PROVE  Switches'
    <3>1. com' = process_comsys(com, q, n, on) /\ UNCHANGED <<exists, links>>
      BY <2>4 DEF Switched
    <3>2. Sound(process_comsys(com, q, n, on), exists, Up(links))
      BY <1>1, <2>1, GagSound
    <3> QED
      BY <1>2, <3>1, <3>2
  <2> QED
    BY <1>3, <2>2, <2>3, <2>4 DEF Chat
<1>4. ASSUME NEW q \in exists, Clearcom(q)
      PROVE  Switches'
  <2>1. com' = channel_clr(com, q, Up(links)) /\ UNCHANGED <<exists, links>>
    BY <1>4 DEF Clearcom, Switched
  <2>2. q \in Members
    BY <1>1 DEF World
  <2>3. Sound(channel_clr(com, q, Up(links)), exists, Up(links))
    BY <1>1, <2>2, ClearSound
  <2> QED
    BY <1>2, <2>1, <2>3
<1>5. ASSUME NEW p \in Living, NEW ch \in Channels, Administer(p, ch)
      PROVE  Switches'
  <2>1. p \in exists \cap Players
    BY DEF Living
  <2>2. ASSUME Switched(do_ccreate(com, p, ch))
        PROVE  Switches'
    <3>1. com' = do_ccreate(com, p, ch) /\ UNCHANGED <<exists, links>>
      BY <2>2 DEF Switched
    <3>2. Sound(do_ccreate(com, p, ch), exists, Up(links))
      BY <1>1, <2>1, CreateSound
    <3> QED
      BY <1>2, <3>1, <3>2
  <2>3. ASSUME Switched(do_cdestroy(com, ch))
        PROVE  Switches'
    <3>1. com' = do_cdestroy(com, ch) /\ UNCHANGED <<exists, links>>
      BY <2>3 DEF Switched
    <3>2. Sound(do_cdestroy(com, ch), exists, Up(links))
      BY <1>1, DestroySound
    <3> QED
      BY <1>2, <3>1, <3>2
  <2>4. ASSUME NEW to \in Living, NEW loud \in BOOLEAN, Switched(do_channel(com, ch, to, loud))
        PROVE  Switches'
    <3>1. com' = do_channel(com, ch, to, loud) /\ UNCHANGED <<exists, links>>
      BY <2>4 DEF Switched
    <3>2. to \in exists \cap Players
      BY DEF Living
    <3>3. Sound(do_channel(com, ch, to, loud), exists, Up(links))
      BY <1>1, <3>2, ChannelSound
    <3> QED
      BY <1>2, <3>1, <3>3
  <2>5. ASSUME NEW q \in Members, Switched(do_cboot(com, q, ch, Up(links)))
        PROVE  Switches'
    <3>1. com' = do_cboot(com, q, ch, Up(links)) /\ UNCHANGED <<exists, links>>
      BY <2>5 DEF Switched
    <3>2. Sound(do_cboot(com, q, ch, Up(links)), exists, Up(links))
      BY <1>1, BootSound
    <3> QED
      BY <1>2, <3>1, <3>2
  <2> QED
    BY <1>5, <2>2, <2>3, <2>4, <2>5 DEF Administer
<1> QED
  BY <1>3, <1>4, <1>5 DEF ChannelCommands

LEMMA SwitchesStep == Switches /\ [Next]_vars => Switches'
<1> SUFFICES ASSUME Switches, [Next]_vars
             PROVE  Switches'
  OBVIOUS
<1>1. CASE UNCHANGED <<exists, links, com>>
  BY <1>1 DEF Switches, World, Sound, Agrees, Aliased, Hears, Up, Present
<1>2. CASE Hooks
  BY <1>2, HooksStep
<1>3. CASE MailCommands
  BY <1>1, <1>3, MailApart
<1>4. CASE ChannelCommands
  BY <1>4, CommandsStep
<1>5. CASE UNCHANGED vars
  BY <1>1, <1>5 DEF vars
<1> QED
  BY <1>2, <1>3, <1>4, <1>5 DEF Next

(* The aliases, the lists of aliases, who is on a channel and how many     *)
(* always agree, whoever is connected hears, and nobody who was destroyed  *)
(* is on a channel or owns one: through joining, leaving by any way,       *)
(* booting, destruction of channels, players and things, numbers used      *)
(* again, connections and restarts (comsys.c).                             *)
THEOREM ChannelsStayTrue == Spec => []ChannelsInv
<1>1. Init => Switches
  BY InitSwitches
<1>2. Switches /\ [Next]_vars => Switches'
  BY SwitchesStep
<1>3. Switches => ChannelsInv
  BY SwitchesAre DEF Switches, Sound, Agrees
<1> QED
  BY <1>1, <1>2, <1>3, PTL DEF Spec

-----------------------------------------------------------------------------
(***************************************************************************)
(* Mail.                                                                   *)
(***************************************************************************)
(* How many messages show slot n.                                          *)
Shows(s, n) == Cardinality(Showing(s.box, n))

ReadsTrue(s) ==
  \A p \in Players : \A i \in DOMAIN s.box[p] :
    s.text[s.box[p][i].number] = s.box[p][i].sent
Covers(s) ==
  \A n \in Slots : /\ s.count[n] >= Shows(s, n)
                   /\ s.text[n] = NoText => s.count[n] = 0

(* The inductive invariant: besides, no alias names somebody twice, so that *)
(* God is told of no more members than there are players.                  *)
MailBooks(s) == /\ s \in Mailroom /\ IsInjective(s.alias)
                /\ ReadsTrue(s) /\ Covers(s)

(* What an operation may do to the messages that show a slot and to its    *)
(* count, and to the list of a player.                                     *)
Grows(s, t) == \A n \in Slots : Shows(s, n) <= Shows(t, n)
Shrinks(s, t) ==
  \A n \in Slots : /\ Shows(t, n) <= Shows(s, n)
                   /\ t.count[n] <= s.count[n] - (Shows(s, n) - Shows(t, n))
GivesBack(s, t) ==
  \A n \in Slots : Shows(t, n) < Shows(s, n) =>
                     t.count[n] <= s.count[n] - (Shows(s, n) - Shows(t, n))
Holds(s, t, p) == Range(s.box[p]) \subseteq Range(t.box[p])
SafeHere(s, t, p) ==
  \A i \in DOMAIN s.box[p] : Kept(s.box[p][i]) =>
    \E j \in DOMAIN t.box[p] : Likeness(t.box[p][j]) = Likeness(s.box[p][i])

(* A pair of a player and a place.                                         *)
LEMMA PairOf ==
  ASSUME NEW box \in [Players -> Seq(Message)], NEW n, NEW m
  PROVE  m \in Showing(box, n) <=>
           \E p \in Players : \E i \in DOMAIN box[p] :
             m = <<p, i>> /\ box[p][i].number = n
BY DEF Showing

LEMMA BoxTypes ==
  ASSUME NEW s \in Mailroom, NEW p \in Players
  PROVE  /\ s.box \in [Players -> Seq(Message)] /\ s.box[p] \in Seq(Message)
         /\ Len(s.box[p]) \in Nat /\ DOMAIN s.box[p] = 1..Len(s.box[p])
         /\ \A i \in DOMAIN s.box[p] : s.box[p][i] \in Message /\ i \in Nat
BY DEF Mailroom

LEMMA ShowingFinite ==
  ASSUME NEW box \in [Players -> Seq(Message)], NEW n
  PROVE  /\ IsFiniteSet(Showing(box, n)) /\ Cardinality(Showing(box, n)) \in Nat
<1> DEFINE D(p) == {p} \X DOMAIN box[p]
           At(R) == UNION {D(p) : p \in R}
           Q == {R \in SUBSET Players : IsFiniteSet(At(R))}
<1>1. {} \in Q
  <2>1. At({}) = {}
    OBVIOUS
  <2> QED
    BY <2>1, FS_EmptySet
<1>2. ASSUME NEW R \in Q, NEW p \in Players \ R
      PROVE  R \cup {p} \in Q
  <2> DEFINE L == 1..Len(box[p])
             f == [i \in L |-> <<p, i>>]
  <2>1. IsFiniteSet(L) /\ DOMAIN box[p] = L
    BY FS_Interval
  <2>2. f \in Surjection(L, {p} \X L)
    <3>1. \A i \in L : f[i] = <<p, i>> /\ f[i] \in {p} \X L
      OBVIOUS
    <3>2. f \in [L -> {p} \X L]
      BY <3>1
    <3>3. \A m \in {p} \X L : \E i \in L : f[i] = m
      BY <3>1
    <3> HIDE DEF f, L
    <3> QED
      BY <3>2, <3>3 DEF Surjection
  <2>3. IsFiniteSet(D(p))
    BY <2>1, <2>2, FS_Surjection
  <2> HIDE DEF D
  <2>4. At(R \cup {p}) = At(R) \cup D(p)
    <3>1. {D(q) : q \in R \cup {p}} = {D(q) : q \in R} \cup {D(p)}
      OBVIOUS
    <3> QED
      BY <3>1
  <2>5. IsFiniteSet(At(R)) /\ R \cup {p} \in SUBSET Players
    OBVIOUS
  <2> HIDE DEF At
  <2>6. IsFiniteSet(At(R \cup {p}))
    BY <2>3, <2>4, <2>5, FS_Union
  <2> QED
    BY <2>5, <2>6
<1>3. Q = SUBSET Players
  <2> HIDE DEF Q
  <2>1. Q \in SUBSET SUBSET Players
    BY DEF Q
  <2> QED
    BY <1>1, <1>2, <2>1, ComsysAssumption, ElementInduction
<1>4. Players \in Q
  BY <1>3
<1>5. IsFiniteSet(At(Players)) /\ Showing(box, n) \in SUBSET At(Players)
  BY <1>4 DEF Showing
<1> HIDE DEF At
<1> QED
  BY <1>5, FS_Subset, FS_CardinalityType

(* The messages that are left of a list, and where they were.              *)
Remaining(list, gone) == Without(Order(list), gone)

LEMMA RemainingIs ==
  ASSUME NEW list \in Seq(Message), NEW gone
  PROVE  /\ Remaining(list, gone) \in Seq(Nat) /\ IsInjective(Remaining(list, gone))
         /\ Range(Remaining(list, gone)) = DOMAIN list \ gone
         /\ Left(list, gone) \in Seq(Message)
         /\ DOMAIN Left(list, gone) = DOMAIN Remaining(list, gone)
         /\ \A k \in DOMAIN Remaining(list, gone) :
              /\ Remaining(list, gone)[k] \in DOMAIN list \ gone
              /\ Left(list, gone)[k] = list[Remaining(list, gone)[k]]
<1> DEFINE q == Order(list)
           r == Remaining(list, gone)
<1>1. q \in Seq(Nat) /\ IsInjective(q) /\ Range(q) = DOMAIN list
  <2>1. DOMAIN list = 1..Len(list) /\ Len(list) \in Nat
    OBVIOUS
  <2>2. q = [i \in 1..Len(list) |-> i]
    BY <2>1 DEF Order
  <2>3. q \in Seq(Nat) /\ DOMAIN q = 1..Len(list) /\ \A i \in 1..Len(list) : q[i] = i
    BY <2>1, <2>2
  <2> QED
    BY <2>1, <2>3 DEF IsInjective, Range
<1> HIDE DEF q
<1>2. r \in Seq(Nat) /\ IsInjective(r) /\ Range(r) = DOMAIN list \ gone
  BY <1>1, WithoutProperties DEF Remaining, q
<1>3. Left(list, gone) = [k \in DOMAIN r |-> list[r[k]]]
  BY DEF Left, Remaining
<1> HIDE DEF r
<1>4. \A k \in DOMAIN r : r[k] \in DOMAIN list \ gone
  BY <1>2 DEF Range
<1>5. DOMAIN r = 1..Len(r) /\ Len(r) \in Nat
  BY <1>2
<1>6. Left(list, gone) \in Seq(Message)
  <2>1. \A k \in 1..Len(r) : list[r[k]] \in Message
    BY <1>4, <1>5
  <2> QED
    BY <1>3, <1>5, <2>1
<1> QED
  BY <1>2, <1>3, <1>4, <1>6 DEF r

(* Those that are unlinked no longer show their slot; the others do.       *)
Gone(s, gone, n) == {m \in Showing(s.box, n) : m[2] \in gone[m[1]]}
LeftBox(s, gone) == [p \in Players |-> Left(s.box[p], gone[p])]

LEMMA LeftBoxShows ==
  ASSUME NEW s \in Mailroom, NEW gone, NEW n
  PROVE  /\ LeftBox(s, gone) \in [Players -> Seq(Message)]
         /\ Cardinality(Gone(s, gone, n)) \in Nat
         /\ Cardinality(Gone(s, gone, n)) <= Shows(s, n)
         /\ Cardinality(Showing(LeftBox(s, gone), n))
              = Shows(s, n) - Cardinality(Gone(s, gone, n))
<1> DEFINE A == Showing(s.box, n)
           G == Gone(s, gone, n)
           B == Showing(LeftBox(s, gone), n)
           r(p) == Remaining(s.box[p], gone[p])
           f == [m \in B |-> <<m[1], r(m[1])[m[2]]>>]
<1>1. s.box \in [Players -> Seq(Message)]
  BY DEF Mailroom
<1>2. ASSUME NEW p \in Players
      PROVE  /\ r(p) \in Seq(Nat) /\ IsInjective(r(p))
             /\ Range(r(p)) = DOMAIN s.box[p] \ gone[p]
             /\ LeftBox(s, gone)[p] \in Seq(Message)
             /\ DOMAIN LeftBox(s, gone)[p] = DOMAIN r(p)
             /\ \A k \in DOMAIN r(p) :
                  /\ r(p)[k] \in DOMAIN s.box[p] \ gone[p]
                  /\ LeftBox(s, gone)[p][k] = s.box[p][r(p)[k]]
  <2>1. s.box[p] \in Seq(Message) /\ LeftBox(s, gone)[p] = Left(s.box[p], gone[p])
    BY <1>1 DEF LeftBox
  <2> QED
    BY <2>1, RemainingIs
<1>3. LeftBox(s, gone) \in [Players -> Seq(Message)]
  BY <1>2 DEF LeftBox
<1> HIDE DEF r
<1>4. ASSUME NEW m \in B
      PROVE  \E p \in Players : \E k \in DOMAIN r(p) :
               /\ m = <<p, k>> /\ f[m] = <<p, r(p)[k]>>
               /\ f[m] \in A \ G
  <2>1. PICK p \in Players : \E k \in DOMAIN LeftBox(s, gone)[p] :
          m = <<p, k>> /\ LeftBox(s, gone)[p][k].number = n
    BY <1>3, PairOf
  <2>2. PICK k \in DOMAIN r(p) : m = <<p, k>> /\ LeftBox(s, gone)[p][k].number = n
    BY <1>2, <2>1
  <2>3. f[m] = <<p, r(p)[k]>>
    BY <2>2
  <2>4. r(p)[k] \in DOMAIN s.box[p] \ gone[p] /\ s.box[p][r(p)[k]].number = n
    BY <1>2, <2>2
  <2>5. <<p, r(p)[k]>> \in A
    BY <1>1, <2>4, PairOf
  <2>6. <<p, r(p)[k]>> \notin G
    BY <2>4 DEF Gone
  <2> HIDE DEF f
  <2> QED
    BY <2>2, <2>3, <2>5, <2>6
<1>5. ASSUME NEW m \in A \ G
      PROVE  \E b \in B : f[b] = m
  <2>1. PICK p \in Players : \E i \in DOMAIN s.box[p] : m = <<p, i>> /\ s.box[p][i].number = n
    BY <1>1, PairOf
  <2>2. PICK i \in DOMAIN s.box[p] : m = <<p, i>> /\ s.box[p][i].number = n
    BY <2>1
  <2>3. i \notin gone[p]
    BY <2>2, <1>5 DEF Gone
  <2>4. PICK k \in DOMAIN r(p) : r(p)[k] = i
    BY <1>2, <2>2, <2>3 DEF Range
  <2>5. <<p, k>> \in B
    <3>1. k \in DOMAIN LeftBox(s, gone)[p] /\ LeftBox(s, gone)[p][k].number = n
      BY <1>2, <2>2, <2>4
    <3> QED
      BY <1>3, <3>1, PairOf
  <2>6. f[<<p, k>>] = <<p, i>>
    BY <2>4, <2>5
  <2> HIDE DEF f
  <2> QED
    BY <2>2, <2>5, <2>6
<1>6. ASSUME NEW a \in B, NEW b \in B, f[a] = f[b]
      PROVE  a = b
  <2>1. PICK p \in Players : \E k \in DOMAIN r(p) : a = <<p, k>> /\ f[a] = <<p, r(p)[k]>>
    BY <1>4
  <2>2. PICK k \in DOMAIN r(p) : a = <<p, k>> /\ f[a] = <<p, r(p)[k]>>
    BY <2>1
  <2>3. PICK q \in Players : \E l \in DOMAIN r(q) : b = <<q, l>> /\ f[b] = <<q, r(q)[l]>>
    BY <1>4
  <2>4. PICK l \in DOMAIN r(q) : b = <<q, l>> /\ f[b] = <<q, r(q)[l]>>
    BY <2>3
  <2> HIDE DEF f
  <2>5. p = q /\ r(p)[k] = r(q)[l]
    BY <1>6, <2>2, <2>4
  <2>6. k = l
    BY <1>2, <2>2, <2>4, <2>5 DEF IsInjective
  <2> QED
    BY <2>2, <2>4, <2>5, <2>6
<1>7. ExistsBijection(B, A \ G)
  <2>1. f \in [B -> A \ G]
    BY <1>4
  <2> HIDE DEF f
  <2>2. f \in Bijection(B, A \ G)
    BY <2>1, <1>5, <1>6 DEF Bijection, Injection, Surjection, IsInjective
  <2> QED
    BY <2>2 DEF ExistsBijection
<1>8. IsFiniteSet(A) /\ IsFiniteSet(B) /\ G \in SUBSET A
  BY <1>1, <1>3, ShowingFinite DEF Gone
<1> HIDE DEF A, B, G, f
<1>9. /\ IsFiniteSet(G) /\ Cardinality(G) <= Cardinality(A)
      /\ Cardinality(G) \in Nat /\ Cardinality(A) \in Nat
      /\ Cardinality(A \ G) = Cardinality(A) - Cardinality(G)
  <2>1. IsFiniteSet(G)
    BY <1>8, FS_Subset
  <2>2. A \cap G = G
    BY <1>8
  <2>3. Cardinality(A \ G) = Cardinality(A) - Cardinality(A \cap G)
    BY <1>8, <2>1, FS_Difference
  <2> QED
    BY <1>8, <2>1, <2>2, <2>3, FS_Subset, FS_CardinalityType
<1>10. Cardinality(A \ G) = Cardinality(B)
  BY <1>7, <1>8, FS_Bijection
<1> QED
  BY <1>3, <1>9, <1>10 DEF A, B, G, Shows

LEMMA DeleteIs ==
  ASSUME NEW s \in Mailroom, NEW gone
  PROVE  LET d == Delete(s, gone) IN
         /\ d \in Mailroom /\ d.box = LeftBox(s, gone)
         /\ d.alias = s.alias /\ d.free = s.free /\ d.folder = s.folder
         /\ d.shut = s.shut /\ d.draft = s.draft /\ d.aliased = s.aliased
         /\ \A n \in Slots :
              LET k == Cardinality(Gone(s, gone, n)) IN
              /\ d.count[n] = IF s.count[n] > k THEN s.count[n] - k ELSE 0
              /\ d.text[n] = IF k = 0 \/ s.count[n] > k THEN s.text[n] ELSE NoText
<1> DEFINE less == [n \in Slots |-> Cardinality(Gone(s, gone, n))]
           c == [n \in Slots |-> IF s.count[n] > less[n] THEN s.count[n] - less[n] ELSE 0]
           x == [n \in Slots |-> IF less[n] = 0 \/ s.count[n] > less[n]
                                 THEN s.text[n] ELSE NoText]
           b == LeftBox(s, gone)
           d == Delete(s, gone)
<1>1. s.box \in [Players -> Seq(Message)] /\ s.count \in [Slots -> Nat]
      /\ s.text \in [Slots -> Texts \cup {NoText, BadAlias}]
  BY DEF Mailroom
<1>2. d = [[s EXCEPT !.box = b] EXCEPT !.count = c, !.text = x]
  BY <1>1 DEF Delete, delete_mail_message, Gone, LeftBox, Mailroom
<1>3. b \in [Players -> Seq(Message)]
  BY LeftBoxShows
<1>4. \A n \in Slots : less[n] \in Nat
  BY LeftBoxShows
<1>5. c \in [Slots -> Nat] /\ x \in [Slots -> Texts \cup {NoText, BadAlias}]
  BY <1>1, <1>4
<1>6. \A n \in Slots : LET k == Cardinality(Gone(s, gone, n)) IN
        /\ c[n] = IF s.count[n] > k THEN s.count[n] - k ELSE 0
        /\ x[n] = IF k = 0 \/ s.count[n] > k THEN s.text[n] ELSE NoText
  OBVIOUS
<1> HIDE DEF b, c, x, d
<1>7. d \in Mailroom
  BY <1>2, <1>3, <1>5 DEF Mailroom
<1>8. d.box = b /\ d.count = c /\ d.text = x
  BY <1>2 DEF Mailroom
<1>9. /\ d.alias = s.alias /\ d.free = s.free /\ d.folder = s.folder
      /\ d.shut = s.shut /\ d.draft = s.draft /\ d.aliased = s.aliased
  BY <1>2 DEF Mailroom
<1> QED
  BY <1>6, <1>7, <1>8, <1>9 DEF b, d

(* What is deleted is given back, and a text goes with its last reader.     *)
LEMMA DeleteKeepsBooks ==
  ASSUME NEW s, MailBooks(s), NEW gone
  PROVE  LET d == Delete(s, gone) IN
         /\ MailBooks(d) /\ Shrinks(s, d)
         /\ \A p \in Players : gone[p] = {} => Holds(s, d, p)
         /\ \A p \in Players : \A i \in DOMAIN s.box[p] \ gone[p] :
              s.box[p][i] \in Range(d.box[p])
<1> DEFINE d == Delete(s, gone)
           k(n) == Cardinality(Gone(s, gone, n))
<1>1. s \in Mailroom
  BY DEF MailBooks
<1>2. /\ d \in Mailroom /\ d.box = LeftBox(s, gone) /\ d.alias = s.alias
      /\ \A n \in Slots :
              /\ d.count[n] = IF s.count[n] > k(n) THEN s.count[n] - k(n) ELSE 0
              /\ d.text[n] = IF k(n) = 0 \/ s.count[n] > k(n) THEN s.text[n] ELSE NoText
  BY <1>1, DeleteIs
<1> HIDE DEF d
<1>3. ASSUME NEW n \in Slots
      PROVE  /\ k(n) \in Nat /\ k(n) <= Shows(s, n) /\ Shows(d, n) = Shows(s, n) - k(n)
             /\ Shows(s, n) \in Nat /\ s.count[n] \in Nat /\ s.count[n] >= Shows(s, n)
             /\ s.text[n] = NoText => s.count[n] = 0
  <2>1. s.box \in [Players -> Seq(Message)] /\ s.count \in [Slots -> Nat]
    BY <1>1 DEF Mailroom
  <2>2. k(n) \in Nat /\ k(n) <= Shows(s, n)
        /\ Cardinality(Showing(LeftBox(s, gone), n)) = Shows(s, n) - k(n)
    BY <1>1, LeftBoxShows
  <2>3. Shows(d, n) = Shows(s, n) - k(n)
    BY <1>2, <2>2 DEF Shows
  <2>4. Shows(s, n) \in Nat
    BY <2>1, ShowingFinite DEF Shows
  <2> QED
    BY <2>1, <2>2, <2>3, <2>4 DEF MailBooks, Covers
<1> HIDE DEF k
<1>4. Shrinks(s, d)
  BY <1>2, <1>3 DEF Shrinks
<1>5. Covers(d)
  <2> SUFFICES ASSUME NEW n \in Slots
               PROVE  d.count[n] >= Shows(d, n) /\ (d.text[n] = NoText => d.count[n] = 0)
    BY DEF Covers
  <2>1. CASE s.count[n] > k(n)
    BY <1>2, <1>3, <2>1
  <2>2. CASE ~(s.count[n] > k(n))
    BY <1>2, <1>3, <2>2
  <2> QED
    BY <2>1, <2>2
<1>6. ASSUME NEW p \in Players
      PROVE  /\ \A i \in DOMAIN s.box[p] \ gone[p] : s.box[p][i] \in Range(d.box[p])
             /\ \A j \in DOMAIN d.box[p] : \E i \in DOMAIN s.box[p] : d.box[p][j] = s.box[p][i]
  <2> DEFINE r == Remaining(s.box[p], gone[p])
  <2>1. s.box[p] \in Seq(Message) /\ d.box[p] = Left(s.box[p], gone[p])
    BY <1>1, <1>2 DEF Mailroom, LeftBox
  <2>2. /\ Range(r) = DOMAIN s.box[p] \ gone[p] /\ DOMAIN d.box[p] = DOMAIN r
        /\ \A j \in DOMAIN r : /\ r[j] \in DOMAIN s.box[p]
                               /\ d.box[p][j] = s.box[p][r[j]]
    BY <2>1, RemainingIs
  <2> HIDE DEF r
  <2> QED
    BY <2>2 DEF Range
<1>7. ReadsTrue(d)
  <2> SUFFICES ASSUME NEW p \in Players, NEW j \in DOMAIN d.box[p]
               PROVE  d.text[d.box[p][j].number] = d.box[p][j].sent
    BY DEF ReadsTrue
  <2> DEFINE n == d.box[p][j].number
  <2>1. d.box[p] \in Seq(Message) /\ d.box \in [Players -> Seq(Message)]
    BY <1>2 DEF Mailroom
  <2>2. n \in Slots
    <3>1. d.box[p][j] \in Message
      BY <2>1
    <3> QED
      BY <3>1 DEF Message
  <2>3. PICK i \in DOMAIN s.box[p] : d.box[p][j] = s.box[p][i]
    BY <1>6
  <2>4. s.text[n] = d.box[p][j].sent
    <3>1. s.text[s.box[p][i].number] = s.box[p][i].sent
      BY DEF MailBooks, ReadsTrue
    <3> QED
      BY <2>3, <3>1
  <2>5. <<p, j>> \in Showing(d.box, n)
    <3> HIDE DEF n
    <3>1. d.box[p][j].number = n
      BY DEF n
    <3> QED
      BY <2>1, <3>1, PairOf
  <2>6. Shows(d, n) # 0
    BY <2>1, <2>5, ShowingFinite, FS_EmptySet DEF Shows
  <2>7. d.text[n] = s.text[n]
    BY <1>2, <1>3, <2>2, <2>6
  <2> QED
    BY <2>4, <2>7
<1>8. ASSUME NEW p \in Players, gone[p] = {}
      PROVE  Holds(s, d, p)
  BY <1>6, <1>8 DEF Holds, Range
<1>9. MailBooks(d)
  BY <1>2, <1>5, <1>7 DEF MailBooks
<1> QED
  BY <1>4, <1>6, <1>8, <1>9 DEF d

(* An operation that leaves texts, counts and what messages show alone.    *)
Alike(s, t) ==
  /\ t \in Mailroom /\ t.text = s.text /\ t.count = s.count
  /\ \A p \in Players :
       /\ DOMAIN t.box[p] = DOMAIN s.box[p]
       /\ \A i \in DOMAIN s.box[p] : Likeness(t.box[p][i]) = Likeness(s.box[p][i])

LEMMA AlikeKeepsBooks ==
  ASSUME NEW s, MailBooks(s), NEW t, Alike(s, t), IsInjective(t.alias)
  PROVE  /\ MailBooks(t) /\ Grows(s, t) /\ Shrinks(s, t)
         /\ \A p \in Players : SafeHere(s, t, p)
<1>1. s \in Mailroom /\ t \in Mailroom /\ s.box \in [Players -> Seq(Message)]
      /\ t.box \in [Players -> Seq(Message)] /\ s.count \in [Slots -> Nat]
  BY DEF MailBooks, Alike, Mailroom
<1>2. ASSUME NEW p \in Players, NEW i
      PROVE  /\ i \in DOMAIN t.box[p] <=> i \in DOMAIN s.box[p]
             /\ i \in DOMAIN t.box[p] =>
                  /\ t.box[p][i].number = s.box[p][i].number
                  /\ t.box[p][i].sent = s.box[p][i].sent
  BY DEF Alike, Likeness
<1>3. ASSUME NEW n
      PROVE  Showing(t.box, n) = Showing(s.box, n)
  <2>1. ASSUME NEW m
        PROVE  m \in Showing(t.box, n) <=> m \in Showing(s.box, n)
    <3>1. m \in Showing(t.box, n) <=>
            \E p \in Players : \E i \in DOMAIN t.box[p] :
             m = <<p, i>> /\ t.box[p][i].number = n
      BY <1>1, PairOf
    <3>2. m \in Showing(s.box, n) <=>
            \E p \in Players : \E i \in DOMAIN s.box[p] :
             m = <<p, i>> /\ s.box[p][i].number = n
      BY <1>1, PairOf
    <3> QED
      BY <1>2, <3>1, <3>2
  <2> QED
    BY <2>1
<1>4. \A n : Shows(t, n) = Shows(s, n) /\ Shows(s, n) \in Nat
  BY <1>1, <1>3, ShowingFinite DEF Shows
<1>5. Covers(t)
  BY <1>4 DEF MailBooks, Covers, Alike
<1>6. ReadsTrue(t)
  BY <1>2 DEF MailBooks, ReadsTrue, Alike
<1>7. Grows(s, t) /\ Shrinks(s, t)
  BY <1>1, <1>4 DEF Grows, Shrinks, Alike
<1>8. \A p \in Players : SafeHere(s, t, p)
  BY DEF SafeHere, Alike
<1> QED
  BY <1>1, <1>5, <1>6, <1>7, <1>8 DEF MailBooks

(* Whose list and texts stay as they are.                                  *)
LEMMA SameIsAlike ==
  ASSUME NEW s, MailBooks(s), NEW t, t \in Mailroom,
         t.text = s.text, t.count = s.count, t.box = s.box
  PROVE  Alike(s, t)
BY DEF Alike

(* A list whose messages show and say what they did.                       *)
LEMMA MarkIsAlike ==
  ASSUME NEW s, MailBooks(s), NEW p \in Players, NEW l,
         l \in [DOMAIN s.box[p] -> Message],
         \A i \in DOMAIN s.box[p] : Likeness(l[i]) = Likeness(s.box[p][i])
  PROVE  LET t == [s EXCEPT !.box[p] = l] IN
         /\ Alike(s, t) /\ t.alias = s.alias /\ t.box[p] = l
         /\ \A q \in Players : q # p => t.box[q] = s.box[q]
<1> DEFINE b == [s.box EXCEPT ![p] = l]
           t == [s EXCEPT !.box = b]
<1>1. s \in Mailroom
  BY DEF MailBooks
<1>2. s.box \in [Players -> Seq(Message)]
      /\ DOMAIN s.box[p] = 1..Len(s.box[p]) /\ Len(s.box[p]) \in Nat
  BY <1>1, BoxTypes
<1>3. l \in Seq(Message)
  BY <1>2
<1>4. DOMAIN l = DOMAIN s.box[p]
  OBVIOUS
<1>5. b \in [Players -> Seq(Message)] /\ b[p] = l /\ \A q \in Players : q # p => b[q] = s.box[q]
  BY <1>2, <1>3
<1>6. t = [s EXCEPT !.box[p] = l]
  OBVIOUS
<1> HIDE DEF b
<1>7. t \in Mailroom /\ t.box = b
  BY <1>1, <1>5 DEF Mailroom
<1>8. t.text = s.text /\ t.count = s.count /\ t.alias = s.alias
  BY <1>1 DEF Mailroom
<1> HIDE DEF t
<1>9. Alike(s, t)
  <2>1. ASSUME NEW q \in Players
        PROVE  /\ DOMAIN t.box[q] = DOMAIN s.box[q]
               /\ \A i \in DOMAIN s.box[q] : Likeness(t.box[q][i]) = Likeness(s.box[q][i])
    <3>1. CASE q = p
      BY <1>4, <1>5, <1>7, <3>1
    <3>2. CASE q # p
      BY <1>5, <1>7, <3>2
    <3> QED
      BY <3>1, <3>2
  <2> QED
    BY <1>7, <1>8, <2>1 DEF Alike
<1> QED
  BY <1>5, <1>6, <1>7, <1>8, <1>9

-----------------------------------------------------------------------------
Empty(s) == {n \in Slots : s.text[n] = NoText}

LEMMA FirstEmptyIs ==
  ASSUME NEW text, NEW e \in Slots, text[e] = NoText
  PROVE  FirstEmpty(text) \in Slots /\ text[FirstEmpty(text)] = NoText
<1> DEFINE E == {n \in Slots : text[n] = NoText}
<1>1. E \in SUBSET Nat /\ e \in E
  BY MailAssumption
<1>2. PICK n \in E : \A k \in E : n <= k
  <2> HIDE DEF E
  <2> QED
    BY <1>1, LeastNumber
<1>3. \A k \in Slots : k < n => text[k] # NoText
  BY <1>1, <1>2
<1> QED
  BY <1>2, <1>3 DEF FirstEmpty

(* A text is stored in a slot that is empty, so that nothing shows.        *)
LEMMA AddKeepsBooks ==
  ASSUME NEW s, MailBooks(s), NEW text \in Texts \cup {BadAlias},
         Cardinality(Empty(s)) >= 2
  PROVE  LET t == add_mail_message(s, text)
             number == NewNumber(s)
         IN  /\ MailBooks(t) /\ number \in Slots
             /\ t.text = [s.text EXCEPT ![number] = text] /\ t.text[number] # NoText
             /\ t.box = s.box /\ t.shut = s.shut /\ t.alias = s.alias /\ t.aliased = s.aliased
             /\ Empty(t) = Empty(s) \ {number}
             /\ Cardinality(Empty(t)) = Cardinality(Empty(s)) - 1
             /\ \A n \in Slots : s.text[n] # NoText => t.text[n] = s.text[n]
<1> DEFINE number == NewNumber(s)
           x == [s.text EXCEPT ![number] = text]
           t == add_mail_message(s, text)
<1>1. s \in Mailroom /\ s.text \in [Slots -> Texts \cup {NoText, BadAlias}] /\ s.free \in Slots
      /\ s.box \in [Players -> Seq(Message)] /\ s.count \in [Slots -> Nat]
  BY DEF MailBooks, Mailroom
<1>2. IsFiniteSet(Empty(s)) /\ Cardinality(Empty(s)) \in Nat
  BY MailAssumption, FS_Subset, FS_CardinalityType DEF Empty
<1>3. PICK e \in Empty(s) : TRUE
  BY <1>2, FS_EmptySet
<1>4. number \in Slots /\ s.text[number] = NoText
  BY <1>1, <1>3, FirstEmptyIs DEF NewNumber, Empty
<1> HIDE DEF number
<1>5. text # NoText
  BY MailAssumption DEF NoText, BadAlias
<1>6. x \in [Slots -> Texts \cup {NoText, BadAlias}] /\ x[number] = text
      /\ \A n \in Slots : n # number => x[n] = s.text[n]
  BY <1>1, <1>4
<1>7. {n \in Slots : x[n] = NoText} = Empty(s) \ {number}
  BY <1>5, <1>6 DEF Empty
<1>8. Cardinality(Empty(s) \ {number}) = Cardinality(Empty(s)) - 1
  <2>1. number \in Empty(s)
    BY <1>4 DEF Empty
  <2> QED
    BY <1>2, <2>1, FS_RemoveElement
<1>9. FirstEmpty(x) \in Slots
  <2>1. IsFiniteSet(Empty(s) \ {number}) /\ Cardinality(Empty(s) \ {number}) # 0
    BY <1>2, <1>8, FS_Subset
  <2>2. PICK f \in Empty(s) \ {number} : TRUE
    BY <2>1, FS_EmptySet
  <2>3. f \in Slots /\ x[f] = NoText
    BY <1>7, <2>2
  <2> HIDE DEF x
  <2> QED
    BY <2>3, FirstEmptyIs
<1>10. t = [[s EXCEPT !.text = x] EXCEPT !.free = FirstEmpty(x)]
  BY <1>1 DEF add_mail_message, number, Mailroom
<1> HIDE DEF x, t
<1>11. t \in Mailroom
  BY <1>1, <1>6, <1>9, <1>10 DEF Mailroom
<1>12. /\ t.text = x /\ t.box = s.box /\ t.shut = s.shut /\ t.alias = s.alias
       /\ t.aliased = s.aliased /\ t.count = s.count
  BY <1>1, <1>10 DEF Mailroom
<1>13. Empty(t) = Empty(s) \ {number}
  BY <1>7, <1>12 DEF Empty
<1>14. \A n \in Slots : Shows(t, n) = Shows(s, n)
  BY <1>12 DEF Shows
<1>15. Covers(t)
  BY <1>6, <1>12, <1>14, <1>5 DEF Covers, MailBooks
<1>16. ReadsTrue(t)
  <2> SUFFICES ASSUME NEW p \in Players, NEW i \in DOMAIN s.box[p]
               PROVE  x[s.box[p][i].number] = s.box[p][i].sent
    BY <1>12 DEF ReadsTrue
  <2>1. s.box[p][i] \in Message
    BY <1>1
  <2>2. s.box[p][i].number \in Slots
    BY <2>1 DEF Message
  <2>3. <<p, i>> \in Showing(s.box, s.box[p][i].number)
    BY <1>1, PairOf
  <2>4. Shows(s, s.box[p][i].number) # 0 /\ Shows(s, s.box[p][i].number) \in Nat
    BY <1>1, <2>3, ShowingFinite, FS_EmptySet DEF Shows
  <2>5. s.count[s.box[p][i].number] # 0
    BY <1>1, <2>2, <2>4 DEF MailBooks, Covers
  <2>6. s.box[p][i].number # number
    BY <1>4, <2>5 DEF MailBooks, Covers
  <2>7. s.text[s.box[p][i].number] = s.box[p][i].sent
    BY DEF MailBooks, ReadsTrue
  <2> QED
    BY <1>6, <2>2, <2>6, <2>7
<1>17. MailBooks(t)
  BY <1>11, <1>12, <1>15, <1>16 DEF MailBooks
<1>18. \A n \in Slots : s.text[n] # NoText => t.text[n] = s.text[n]
  BY <1>4, <1>6, <1>12
<1> QED
  BY <1>4, <1>5, <1>6, <1>8, <1>12, <1>13, <1>17, <1>18 DEF x, t, number

(* Sending.                                                                *)
Letter(s, p, number) ==
  [from |-> p, number |-> number, folder |-> 0, read |-> FALSE,
   cleared |-> FALSE, safe |-> FALSE, old |-> FALSE, sent |-> s.text[number]]
SentBox(s, p, targets, number) ==
  [q \in Players |-> IF q \in targets \ s.shut
                     THEN Append(s.box[q], Letter(s, p, number)) ELSE s.box[q]]
SentList(s, p, targets, number, q, l) ==
  /\ q \in targets \ s.shut =>
       /\ DOMAIN l = 1..Len(s.box[q]) + 1
       /\ l[Len(s.box[q]) + 1] = Letter(s, p, number)
  /\ q \notin targets \ s.shut => DOMAIN l = 1..Len(s.box[q])
  /\ \A i \in 1..Len(s.box[q]) : l[i] = s.box[q][i]

LEMMA SentBoxIs ==
  ASSUME NEW s, s \in Mailroom, NEW p \in Players, NEW targets \in SUBSET Players,
         NEW number \in Slots, s.text[number] # NoText
  PROVE  /\ SentBox(s, p, targets, number) \in [Players -> Seq(Message)]
         /\ \A q \in Players :
              SentList(s, p, targets, number, q, SentBox(s, p, targets, number)[q])
<1> DEFINE m == Letter(s, p, number)
<1>1. s.box \in [Players -> Seq(Message)] /\ s.text \in [Slots -> Texts \cup {NoText, BadAlias}]
  BY DEF Mailroom
<1>2. m \in Message
  BY <1>1, MailAssumption DEF Message, Letter
<1>3. SentBox(s, p, targets, number) =
        [q \in Players |-> IF q \in targets \ s.shut THEN Append(s.box[q], m) ELSE s.box[q]]
  BY DEF SentBox
<1> HIDE DEF m
<1>4. ASSUME NEW q \in Players
      PROVE  /\ Append(s.box[q], m) \in Seq(Message)
             /\ DOMAIN Append(s.box[q], m) = 1..Len(s.box[q]) + 1
             /\ DOMAIN s.box[q] = 1..Len(s.box[q])
             /\ Append(s.box[q], m)[Len(s.box[q]) + 1] = m
             /\ \A i \in 1..Len(s.box[q]) : Append(s.box[q], m)[i] = s.box[q][i]
  BY <1>1, <1>2
<1>5. SentBox(s, p, targets, number) \in [Players -> Seq(Message)]
  BY <1>1, <1>3, <1>4
<1> QED
  BY <1>3, <1>4, <1>5 DEF m, SentList

LEMMA SentBoxShows ==
  ASSUME NEW s, s \in Mailroom, NEW p \in Players, NEW targets \in SUBSET Players,
         NEW number \in Slots, s.text[number] # NoText, NEW n \in Slots
  PROVE  LET b == SentBox(s, p, targets, number) IN
         /\ Cardinality(Showing(b, n)) \in Nat /\ Shows(s, n) \in Nat
         /\ Shows(s, n) <= Cardinality(Showing(b, n))
         /\ n # number => Cardinality(Showing(b, n)) = Shows(s, n)
         /\ Cardinality(targets) \in Nat
         /\ Cardinality(Showing(b, n)) <= Shows(s, n) + Cardinality(targets)
<1> DEFINE b == SentBox(s, p, targets, number)
           R == targets \ s.shut
           f == [q \in R |-> <<q, Len(s.box[q]) + 1>>]
           N == {<<q, Len(s.box[q]) + 1>> : q \in R}
           A == Showing(s.box, n)
           B == Showing(b, n)
<1>1. s.box \in [Players -> Seq(Message)]
  BY DEF Mailroom
<1>2. b \in [Players -> Seq(Message)]
      /\ \A q \in Players :
              /\ q \in R =>
                   /\ DOMAIN b[q] = 1..Len(s.box[q]) + 1
                   /\ b[q][Len(s.box[q]) + 1].number = number
              /\ q \notin R => DOMAIN b[q] = 1..Len(s.box[q])
              /\ \A i \in 1..Len(s.box[q]) : b[q][i] = s.box[q][i]
  <2>1. Letter(s, p, number).number = number
    BY DEF Letter
  <2>2. SentBox(s, p, targets, number) \in [Players -> Seq(Message)]
         /\ \A q \in Players :
              SentList(s, p, targets, number, q, SentBox(s, p, targets, number)[q])
    BY SentBoxIs
  <2> QED
    BY <2>1, <2>2 DEF SentList
<1>3. \A q \in Players : Len(s.box[q]) \in Nat /\ DOMAIN s.box[q] = 1..Len(s.box[q])
  BY <1>1
<1>4. R \subseteq Players
  OBVIOUS
<1> HIDE DEF b, R
<1>5. ASSUME NEW m \in A PROVE m \in B
  <2>1. PICK q \in Players : \E i \in DOMAIN s.box[q] : m = <<q, i>> /\ s.box[q][i].number = n
    BY <1>1, PairOf
  <2>2. PICK i \in 1..Len(s.box[q]) : m = <<q, i>> /\ s.box[q][i].number = n
    BY <1>3, <2>1
  <2>3. i \in DOMAIN b[q] /\ b[q][i].number = n
    BY <1>2, <1>3, <2>2
  <2> QED
    BY <1>2, <2>2, <2>3, PairOf
<1>6. ASSUME NEW m \in B PROVE m \in A \/ (n = number /\ m \in N)
  <2>1. PICK q \in Players : \E i \in DOMAIN b[q] : m = <<q, i>> /\ b[q][i].number = n
    BY <1>2, PairOf
  <2>2. PICK i \in DOMAIN b[q] : m = <<q, i>> /\ b[q][i].number = n
    BY <2>1
  <2>3. CASE i \in 1..Len(s.box[q])
    <3>1. i \in DOMAIN s.box[q] /\ s.box[q][i].number = n
      BY <1>2, <1>3, <2>2, <2>3
    <3> QED
      BY <1>1, <2>2, <3>1, PairOf
  <2>4. CASE i \notin 1..Len(s.box[q])
    <3>1. q \in R /\ i = Len(s.box[q]) + 1
      BY <1>2, <1>3, <2>2, <2>4
    <3>2. n = number
      BY <1>2, <2>2, <3>1
    <3> QED
      BY <2>2, <3>1, <3>2
  <2> QED
    BY <2>3, <2>4
<1>7. IsFiniteSet(A) /\ Cardinality(A) \in Nat /\ IsFiniteSet(B) /\ Cardinality(B) \in Nat
  BY <1>1, <1>2, ShowingFinite
<1>8. IsFiniteSet(targets) /\ Cardinality(targets) \in Nat
      /\ IsFiniteSet(R) /\ Cardinality(R) \in Nat /\ Cardinality(R) <= Cardinality(targets)
  <2>1. IsFiniteSet(targets) /\ R \in SUBSET targets
    BY ComsysAssumption, FS_Subset DEF R
  <2> QED
    BY <2>1, FS_Subset, FS_CardinalityType
<1>9. IsFiniteSet(N) /\ Cardinality(N) \in Nat /\ Cardinality(N) <= Cardinality(R)
  <2>1. f \in [R -> N] /\ \A m \in N : \E q \in R : f[q] = m
    OBVIOUS
  <2>2. f \in Surjection(R, N)
    BY <2>1 DEF Surjection
  <2> QED
    BY <1>8, <2>2, FS_Surjection, FS_CardinalityType
<1>10. Cardinality(A \cup N) <= Cardinality(A) + Cardinality(N) /\ IsFiniteSet(A \cup N)
       /\ Cardinality(A \cup N) \in Nat
  <2> HIDE DEF A, N
  <2>1. IsFiniteSet(A \cap N)
    BY <1>7, FS_Subset
  <2>2. Cardinality(A \cap N) \in Nat
    BY <2>1, FS_CardinalityType
  <2>3. IsFiniteSet(A \cup N)
        /\ Cardinality(A \cup N) = Cardinality(A) + Cardinality(N) - Cardinality(A \cap N)
    BY <1>7, <1>9, FS_Union
  <2>4. Cardinality(A \cup N) \in Nat
    BY <2>3, FS_CardinalityType
  <2> QED
    BY <1>7, <1>9, <2>2, <2>3, <2>4
<1> HIDE DEF A, B, N
<1>11. Cardinality(A) <= Cardinality(B)
  BY <1>5, <1>7, FS_Subset
<1>12. Cardinality(B) <= Cardinality(A \cup N)
  BY <1>6, <1>10, FS_Subset
<1>13. n # number => Cardinality(A) = Cardinality(B)
  <2>1. n # number => A = B
    BY <1>5, <1>6
  <2> QED
    BY <2>1
<1>14. Cardinality(B) <= Cardinality(A) + Cardinality(targets)
  BY <1>7, <1>8, <1>9, <1>10, <1>12
<1> QED
  BY <1>7, <1>8, <1>11, <1>13, <1>14 DEF A, B, b, Shows

LEMMA SendKeepsBooks ==
  ASSUME NEW s, MailBooks(s), NEW p \in Players, NEW targets \in SUBSET Players,
         NEW number \in Slots, s.text[number] # NoText
  PROVE  LET t == send_mail(s, p, targets, number) IN
         /\ MailBooks(t) /\ Grows(s, t)
         /\ t.text = s.text /\ t.alias = s.alias /\ t.aliased = s.aliased
         /\ \A q \in Players : Holds(s, t, q)
<1> DEFINE b == SentBox(s, p, targets, number)
           c == [s.count EXCEPT ![number] = @ + Cardinality(targets)]
           t == send_mail(s, p, targets, number)
<1>1. s \in Mailroom /\ s.count \in [Slots -> Nat] /\ s.box \in [Players -> Seq(Message)]
  BY DEF MailBooks, Mailroom
<1>2. b \in [Players -> Seq(Message)]
         /\ \A q \in Players :
              /\ q \in targets \ s.shut =>
                   /\ DOMAIN b[q] = 1..Len(s.box[q]) + 1
                   /\ b[q][Len(s.box[q]) + 1] = Letter(s, p, number)
              /\ q \notin targets \ s.shut => DOMAIN b[q] = 1..Len(s.box[q])
              /\ \A i \in 1..Len(s.box[q]) : b[q][i] = s.box[q][i]
  <2>1. b \in [Players -> Seq(Message)]
        /\ \A q \in Players : SentList(s, p, targets, number, q, b[q])
    BY <1>1, SentBoxIs
  <2> HIDE DEF b
  <2> QED
    BY <2>1 DEF SentList
<1>3. \A n \in Slots :
         /\ Cardinality(Showing(b, n)) \in Nat /\ Shows(s, n) \in Nat
         /\ Shows(s, n) <= Cardinality(Showing(b, n))
         /\ n # number => Cardinality(Showing(b, n)) = Shows(s, n)
         /\ Cardinality(targets) \in Nat
         /\ Cardinality(Showing(b, n)) <= Shows(s, n) + Cardinality(targets)
  BY <1>1, SentBoxShows
<1>4. c \in [Slots -> Nat] /\ c[number] = s.count[number] + Cardinality(targets)
      /\ \A n \in Slots : n # number => c[n] = s.count[n]
  BY <1>1, <1>3
<1>5. t = [s EXCEPT !.count = c, !.box = b]
  BY <1>1 DEF send_mail, SentBox, Letter, Mailroom
<1> HIDE DEF b, c, t
<1>6. t \in Mailroom
  BY <1>1, <1>2, <1>4, <1>5 DEF Mailroom
<1>7. t.count = c /\ t.box = b /\ t.text = s.text /\ t.alias = s.alias /\ t.aliased = s.aliased
  BY <1>1, <1>5 DEF Mailroom
<1>8. \A n \in Slots : Shows(t, n) = Cardinality(Showing(b, n))
  BY <1>7 DEF Shows
<1>9. Grows(s, t)
  BY <1>3, <1>8 DEF Grows
<1>10. Covers(t)
  <2> SUFFICES ASSUME NEW n \in Slots
               PROVE  t.count[n] >= Shows(t, n) /\ (t.text[n] = NoText => t.count[n] = 0)
    BY DEF Covers
  <2>1. s.count[n] >= Shows(s, n) /\ s.count[n] \in Nat /\ (s.text[n] = NoText => s.count[n] = 0)
    BY <1>1 DEF MailBooks, Covers
  <2> QED
    BY <1>3, <1>4, <1>7, <1>8, <2>1
<1>11. ReadsTrue(t)
  <2> SUFFICES ASSUME NEW q \in Players, NEW i \in DOMAIN b[q]
               PROVE  s.text[b[q][i].number] = b[q][i].sent
    BY <1>7 DEF ReadsTrue
  <2>1. Len(s.box[q]) \in Nat /\ DOMAIN s.box[q] = 1..Len(s.box[q])
    BY <1>1
  <2>2. CASE i \in 1..Len(s.box[q])
    <3>1. b[q][i] = s.box[q][i] /\ i \in DOMAIN s.box[q]
      BY <1>2, <2>1, <2>2
    <3>2. s.text[s.box[q][i].number] = s.box[q][i].sent
      BY <3>1 DEF MailBooks, ReadsTrue
    <3> QED
      BY <3>1, <3>2
  <2>3. CASE i \notin 1..Len(s.box[q])
    <3>1. b[q][i] = Letter(s, p, number)
      BY <1>2, <2>1, <2>3
    <3> QED
      BY <3>1 DEF Letter
  <2> QED
    BY <2>2, <2>3
<1>12. ASSUME NEW q \in Players PROVE Holds(s, t, q)
  <2>1. Len(s.box[q]) \in Nat /\ DOMAIN s.box[q] = 1..Len(s.box[q])
    BY <1>1
  <2>2. \A i \in DOMAIN s.box[q] : i \in DOMAIN b[q] /\ b[q][i] = s.box[q][i]
    BY <1>2, <2>1
  <2> QED
    BY <1>7, <2>2 DEF Holds, Range
<1>13. MailBooks(t)
  BY <1>6, <1>7, <1>10, <1>11 DEF MailBooks
<1> QED
  BY <1>7, <1>9, <1>12, <1>13 DEF t

(* God is told of one more member who is gone.                             *)
Better(s, t) ==
  /\ MailBooks(t) /\ Grows(s, t)
  /\ \A q \in Players : Holds(s, t, q)
  /\ \A n \in Slots : s.text[n] # NoText => t.text[n] = s.text[n]

LEMMA BetterOn ==
  ASSUME NEW r, MailBooks(r), NEW s, Better(r, s), NEW t, Better(s, t)
  PROVE  Better(r, t)
<1>1. \A n \in Slots : Shows(r, n) \in Nat /\ Shows(s, n) \in Nat /\ Shows(t, n) \in Nat
  <2>1. /\ r.box \in [Players -> Seq(Message)] /\ s.box \in [Players -> Seq(Message)]
        /\ t.box \in [Players -> Seq(Message)]
    BY DEF Better, MailBooks, Mailroom
  <2> QED
    BY <2>1, ShowingFinite DEF Shows
<1>2. Grows(r, t)
  BY <1>1 DEF Better, Grows
<1>3. \A q \in Players : Holds(r, t, q)
  BY DEF Better, Holds
<1> QED
  BY <1>2, <1>3 DEF Better

LEMMA AddIsBetter ==
  ASSUME NEW s, MailBooks(s), NEW text \in Texts \cup {BadAlias},
         Cardinality(Empty(s)) >= 2
  PROVE  Better(s, add_mail_message(s, text))
<1> DEFINE t == add_mail_message(s, text)
<1>1. /\ MailBooks(t) /\ t.box = s.box /\ t.alias = s.alias /\ t.aliased = s.aliased
      /\ \A n \in Slots : s.text[n] # NoText => t.text[n] = s.text[n]
  BY AddKeepsBooks
<1> HIDE DEF t
<1>2. \A n \in Slots : Shows(t, n) = Shows(s, n) /\ Shows(s, n) \in Nat
  <2>1. s.box \in [Players -> Seq(Message)]
    BY DEF MailBooks, Mailroom
  <2> QED
    BY <1>1, <2>1, ShowingFinite DEF Shows
<1> QED
  BY <1>1, <1>2 DEF Better, Grows, Holds, t

LEMMA SendIsBetter ==
  ASSUME NEW s, MailBooks(s), NEW p \in Players, NEW targets \in SUBSET Players,
         NEW number \in Slots, s.text[number] # NoText
  PROVE  Better(s, send_mail(s, p, targets, number))
BY SendKeepsBooks DEF Better

LEMMA TellIsBetter ==
  ASSUME NEW s, MailBooks(s), Cardinality(Empty(s)) >= 2
  PROVE  /\ Better(s, Tell(s))
         /\ Cardinality(Empty(Tell(s))) = Cardinality(Empty(s)) - 1
<1> DEFINE t == add_mail_message(s, BadAlias)
           n == NewNumber(s)
<1>1. /\ MailBooks(t) /\ n \in Slots /\ t.text[n] # NoText
      /\ Cardinality(Empty(t)) = Cardinality(Empty(s)) - 1
  BY AddKeepsBooks
<1>2. Better(s, t)
  BY AddIsBetter
<1>3. Tell(s) = send_mail(t, God, {God}, n)
  BY DEF Tell
<1> HIDE DEF t, n
<1>4. God \in Players /\ {God} \in SUBSET Players
  BY MailAssumption
<1>5. Better(t, send_mail(t, God, {God}, n))
  BY <1>1, <1>4, SendIsBetter
<1>6. send_mail(t, God, {God}, n).text = t.text
  BY <1>1, <1>4, SendKeepsBooks
<1>7. Better(s, Tell(s))
  BY <1>2, <1>3, <1>5, BetterOn
<1>8. Empty(Tell(s)) = Empty(t)
  BY <1>3, <1>6 DEF Empty
<1> QED
  BY <1>1, <1>7, <1>8

(* ... and of all of them: the recursion, by induction.                    *)
ToldValue(s, g, k) == IF k = 0 THEN s ELSE Tell(g[k - 1])
TellsUpTo(s, g, n) == g = [k \in 0..n |-> ToldValue(s, g, k)]
Telling(s, n) == CHOOSE g : TellsUpTo(s, g, n)

LEMMA ToldUnfolds == \A s, n : Told(s, n) = Telling(s, n)[n]
BY DEF Told, Telling, TellsUpTo, ToldValue

LEMMA TellingExists ==
  ASSUME NEW s, NEW N \in Nat
  PROVE  TellsUpTo(s, Telling(s, N), N)
<1> DEFINE Q == {n \in 0..N : \E g : TellsUpTo(s, g, n)}
<1>1. 0 \in Q
  <2> DEFINE g == [m \in 0..0 |-> s]
  <2>1. \A m \in 0..0 : m = 0 /\ ToldValue(s, g, m) = s
    BY DEF ToldValue
  <2>2. TellsUpTo(s, g, 0)
    BY <2>1 DEF TellsUpTo
  <2> HIDE DEF g
  <2> QED
    BY <2>2
<1>2. ASSUME NEW n \in 0..N - 1, n \in Q PROVE n + 1 \in Q
  <2>1. PICK g : TellsUpTo(s, g, n)
    BY <1>2
  <2> DEFINE h == [m \in 0..n + 1 |-> IF m = n + 1 THEN Tell(g[n]) ELSE g[m]]
  <2>2. n \in Nat /\ n + 1 \in 0..N
    OBVIOUS
  <2>3. ASSUME NEW m \in 0..n + 1 PROVE h[m] = ToldValue(s, h, m)
    <3>1. CASE m = 0
      <4>1. h[m] = g[m] /\ m \in 0..n
        BY <2>2, <3>1
      <4>2. g[m] = ToldValue(s, g, m)
        BY <2>1, <4>1 DEF TellsUpTo
      <4> QED
        BY <3>1, <4>1, <4>2 DEF ToldValue
    <3>2. CASE m = n + 1
      <4>1. h[m] = Tell(g[n]) /\ h[m - 1] = g[n] /\ m # 0
        BY <2>2, <3>2
      <4> HIDE DEF h
      <4> QED
        BY <4>1 DEF ToldValue
    <3>3. CASE m # 0 /\ m # n + 1
      <4>1. m \in 0..n /\ m - 1 \in 0..n /\ h[m] = g[m] /\ h[m - 1] = g[m - 1]
        BY <2>2, <3>3
      <4>2. g[m] = ToldValue(s, g, m)
        BY <2>1, <4>1 DEF TellsUpTo
      <4> HIDE DEF h
      <4> QED
        BY <3>3, <4>1, <4>2 DEF ToldValue
    <3> QED
      BY <3>1, <3>2, <3>3
  <2>4. TellsUpTo(s, h, n + 1)
    <3>1. h = [m \in 0..n + 1 |-> h[m]]
      OBVIOUS
    <3> HIDE DEF h
    <3> QED
      BY <2>3, <3>1 DEF TellsUpTo
  <2> HIDE DEF h
  <2> QED
    BY <2>2, <2>4
<1>3. \A n \in 0..N : n \in Q
  <2> HIDE DEF Q
  <2> QED
    BY <1>1, <1>2, CountingInduction
<1>4. \E g : TellsUpTo(s, g, N)
  <2>1. N \in Q
    BY <1>3
  <2> QED
    BY <2>1
<1> QED
  BY <1>4 DEF Telling

LEMMA ToldIsBetter ==
  ASSUME NEW s, MailBooks(s), NEW N \in Nat, Cardinality(Empty(s)) >= N + 1
  PROVE  Better(s, Told(s, N))
<1> DEFINE g == Telling(s, N)
           e == Cardinality(Empty(s))
           Q == {n \in 0..N : Better(s, g[n]) /\ Cardinality(Empty(g[n])) = e - n}
<1>1. ASSUME NEW n \in 0..N
      PROVE  g[n] = ToldValue(s, g, n)
  <2>1. g = [k \in 0..N |-> ToldValue(s, g, k)]
    BY TellingExists DEF TellsUpTo
  <2> HIDE DEF g
  <2> QED
    BY <2>1
<1>2. e \in Nat
  BY MailAssumption, FS_Subset, FS_CardinalityType DEF Empty
<1> HIDE DEF g
<1>3. Better(s, s)
  <2>1. \A n \in Slots : Shows(s, n) \in Nat
    <3>1. s.box \in [Players -> Seq(Message)]
      BY DEF MailBooks, Mailroom
    <3> QED
      BY <3>1, ShowingFinite DEF Shows
  <2> QED
    BY <2>1 DEF Better, Grows, Holds
<1>4. 0 \in Q
  <2>1. g[0] = s
    BY <1>1 DEF ToldValue
  <2> QED
    BY <1>2, <1>3, <2>1
<1>5. ASSUME NEW n \in 0..N - 1, n \in Q PROVE n + 1 \in Q
  <2>1. n \in Nat /\ n + 1 \in 0..N /\ n + 1 # 0 /\ (n + 1) - 1 = n
    OBVIOUS
  <2>2. Better(s, g[n]) /\ Cardinality(Empty(g[n])) = e - n
    BY <1>5
  <2>3. g[n + 1] = Tell(g[n])
    BY <1>1, <2>1 DEF ToldValue
  <2>4. MailBooks(g[n]) /\ Cardinality(Empty(g[n])) >= 2
    BY <1>2, <2>1, <2>2 DEF Better
  <2>5. Better(g[n], Tell(g[n])) /\ Cardinality(Empty(Tell(g[n]))) = e - n - 1
    BY <2>2, <2>4, TellIsBetter
  <2>6. Better(s, Tell(g[n]))
    BY <2>2, <2>5, BetterOn
  <2>7. e - n - 1 = e - (n + 1)
    BY <1>2, <2>1
  <2> QED
    BY <2>1, <2>3, <2>5, <2>6, <2>7
<1>6. \A n \in 0..N : n \in Q
  <2> HIDE DEF Q
  <2> QED
    BY <1>4, <1>5, CountingInduction
<1>7. N \in Q
  BY <1>6
<1> QED
  BY <1>7, ToldUnfolds DEF g

(* Room: no more slots are full than the bound allows.                     *)
Room(s) == Cardinality(Empty(s)) > Cardinality(Players) + 1

LEMMA ListIsBetter ==
  ASSUME NEW s, MailBooks(s), Room(s), NEW p \in Players, NEW to \in Recipients,
         NEW text \in Texts \cup {BadAlias}, NEW here \in SUBSET Players
  PROVE  Better(s, mail_to_list(s, p, to, text, here))
<1> DEFINE number == NewNumber(s)
           stored == add_mail_message(s, text)
           aliased == Alias \in Range(to)
           named == (Range(to) \ {Alias}) \cup (IF aliased THEN Range(s.alias) ELSE {})
           gone == IF aliased THEN Range(s.alias) \ here ELSE {}
           told == Told(stored, Cardinality(gone))
<1>1. IsFiniteSet(Players) /\ Cardinality(Players) \in Nat
  BY ComsysAssumption, FS_CardinalityType
<1>2. Cardinality(Empty(s)) \in Nat
  BY MailAssumption, FS_Subset, FS_CardinalityType DEF Empty
<1>3. Cardinality(Empty(s)) >= 2
  BY <1>1, <1>2 DEF Room
<1>4. /\ MailBooks(stored) /\ number \in Slots /\ stored.text[number] # NoText
      /\ Cardinality(Empty(stored)) = Cardinality(Empty(s)) - 1
  BY <1>3, AddKeepsBooks
<1>5. Better(s, stored)
  BY <1>3, AddIsBetter
<1>6. Range(s.alias) \subseteq Players
  BY DEF MailBooks, Mailroom, Range
<1>7. gone \in SUBSET Players
  BY <1>6
<1>8. Cardinality(gone) \in Nat /\ Cardinality(gone) <= Cardinality(Players)
  BY <1>1, <1>7, FS_Subset, FS_CardinalityType
<1>9. mail_to_list(s, p, to, text, here) =
        IF aliased /\ ~s.aliased THEN stored
        ELSE send_mail(told, p, named \cap here, number)
  BY DEF mail_to_list
<1> HIDE DEF number, stored, aliased, named, gone
<1>10. Better(stored, told)
  <2>1. Cardinality(Empty(stored)) >= Cardinality(gone) + 1
    BY <1>1, <1>2, <1>4, <1>8 DEF Room
  <2> QED
    BY <1>4, <1>8, <2>1, ToldIsBetter
<1>11. MailBooks(told) /\ told.text[number] # NoText
  BY <1>4, <1>10 DEF Better
<1> HIDE DEF told
<1>12. Better(told, send_mail(told, p, named \cap here, number))
  BY <1>4, <1>11, SendIsBetter
<1>13. Better(stored, send_mail(told, p, named \cap here, number))
  BY <1>4, <1>10, <1>12, BetterOn
<1>14. Better(s, send_mail(told, p, named \cap here, number))
  BY <1>5, <1>13, BetterOn
<1> QED
  BY <1>5, <1>9, <1>14

-----------------------------------------------------------------------------
(* What is used of these: texts are given back, and what is safe stays.     *)
LEMMA HoldsIsSafe ==
  ASSUME NEW s, NEW t, NEW p, Holds(s, t, p)
  PROVE  SafeHere(s, t, p)
BY DEF Holds, SafeHere, Range

LEMMA HoldsOn ==
  ASSUME NEW r, NEW s, NEW t, NEW p, Holds(r, s, p), Holds(s, t, p)
  PROVE  Holds(r, t, p)
BY DEF Holds

LEMMA ShowsTypes ==
  ASSUME NEW s, MailBooks(s)
  PROVE  \A n \in Slots : Shows(s, n) \in Nat /\ s.count[n] \in Nat
<1>1. s.box \in [Players -> Seq(Message)] /\ s.count \in [Slots -> Nat]
  BY DEF MailBooks, Mailroom
<1> QED
  BY <1>1, ShowingFinite DEF Shows

LEMMA ShrinksOn ==
  ASSUME NEW r, MailBooks(r), NEW s, MailBooks(s), NEW t, MailBooks(t),
         Shrinks(r, s), Shrinks(s, t)
  PROVE  Shrinks(r, t)
<1>1. \A n \in Slots : /\ Shows(r, n) \in Nat /\ r.count[n] \in Nat
                       /\ Shows(s, n) \in Nat /\ s.count[n] \in Nat
                       /\ Shows(t, n) \in Nat /\ t.count[n] \in Nat
  BY ShowsTypes
<1> QED
  BY <1>1 DEF Shrinks

LEMMA GrowsGivesBack ==
  ASSUME NEW s, MailBooks(s), NEW t, MailBooks(t), Grows(s, t) \/ Shrinks(s, t)
  PROVE  GivesBack(s, t)
<1>1. \A n \in Slots : Shows(s, n) \in Nat /\ Shows(t, n) \in Nat
  BY ShowsTypes
<1> QED
  BY <1>1 DEF Grows, Shrinks, GivesBack

(* What commands but those that delete do.                                 *)
Fine(s, t) == MailBooks(t) /\ GivesBack(s, t) /\ \A p \in Players : SafeHere(s, t, p)

LEMMA BetterIsFine ==
  ASSUME NEW s, MailBooks(s), NEW t, Better(s, t)
  PROVE  Fine(s, t)
<1>1. MailBooks(t) /\ Grows(s, t) /\ \A p \in Players : Holds(s, t, p)
  BY DEF Better
<1>2. GivesBack(s, t)
  BY <1>1, GrowsGivesBack
<1>3. \A p \in Players : SafeHere(s, t, p)
  BY <1>1, HoldsIsSafe
<1> QED
  BY <1>1, <1>2, <1>3 DEF Fine

LEMMA AlikeIsFine ==
  ASSUME NEW s, MailBooks(s), NEW t, Alike(s, t), IsInjective(t.alias)
  PROVE  Fine(s, t)
<1>1. MailBooks(t) /\ Grows(s, t) /\ \A p \in Players : SafeHere(s, t, p)
  BY AlikeKeepsBooks
<1> QED
  BY <1>1, GrowsGivesBack DEF Fine

LEMMA SameIsFine ==
  ASSUME NEW s, MailBooks(s), NEW t, t \in Mailroom, IsInjective(t.alias),
         t.text = s.text, t.count = s.count, t.box = s.box
  PROVE  Fine(s, t)
<1>1. Alike(s, t)
  BY SameIsAlike
<1>2. MailBooks(t) /\ Grows(s, t)
  BY <1>1, AlikeKeepsBooks
<1> QED
  BY <1>1, AlikeIsFine

LEMMA SameAfter ==
  ASSUME NEW s, MailBooks(s), NEW u, Fine(s, u), NEW t, t \in Mailroom, IsInjective(t.alias),
         t.text = u.text, t.count = u.count, t.box = u.box
  PROVE  Fine(s, t)
<1>1. MailBooks(u) /\ GivesBack(s, u) /\ \A p \in Players : SafeHere(s, u, p)
  BY DEF Fine
<1>2. MailBooks(t)
  BY <1>1, SameIsFine DEF Fine
<1>3. \A n \in Slots : Shows(t, n) = Shows(u, n)
  BY DEF Shows
<1>4. GivesBack(s, t) /\ \A p \in Players : SafeHere(s, t, p)
  BY <1>1, <1>3 DEF GivesBack, SafeHere
<1> QED
  BY <1>2, <1>4 DEF Fine

LEMMA StayIsFine ==
  ASSUME NEW s, MailBooks(s)
  PROVE  Fine(s, s)
BY SameIsFine DEF MailBooks

(* Drafts.                                                                 *)
LEMMA DraftAfter ==
  ASSUME NEW s, MailBooks(s), NEW u, Fine(s, u), NEW p \in Players, NEW d \in Draft
  PROVE  Fine(s, [u EXCEPT !.draft[p] = d])
<1> DEFINE e == [u.draft EXCEPT ![p] = d]
           t == [u EXCEPT !.draft = e]
<1>1. u \in Mailroom /\ IsInjective(u.alias) /\ u.draft \in [Players -> Draft]
  BY DEF Fine, MailBooks, Mailroom
<1>2. e \in [Players -> Draft]
  BY <1>1
<1>3. t = [u EXCEPT !.draft[p] = d]
  OBVIOUS
<1> HIDE DEF e
<1>4. t \in Mailroom
  BY <1>1, <1>2 DEF Mailroom
<1>5. t.text = u.text /\ t.count = u.count /\ t.box = u.box /\ t.alias = u.alias
  BY <1>1 DEF Mailroom
<1> HIDE DEF t
<1> QED
  BY <1>1, <1>3, <1>4, <1>5, SameAfter

LEMMA NoDraftIs == NoDraft \in Draft
<1>1. <<>> \in Recipients
  BY DEF Recipients
<1> QED
  BY <1>1 DEF NoDraft, Draft

LEMMA QuickIsFine ==
  ASSUME NEW s, MailBooks(s), Room(s), NEW p \in Players, NEW to \in Recipients,
         NEW text \in Texts, NEW here \in SUBSET Players
  PROVE  Fine(s, do_mail_quick(s, p, to, text, here))
<1>1. Better(s, mail_to_list(s, p, to, text, here))
  BY ListIsBetter
<1>2. Fine(s, mail_to_list(s, p, to, text, here)) /\ Fine(s, s)
  BY <1>1, BetterIsFine, StayIsFine
<1> QED
  BY <1>2 DEF do_mail_quick

LEMMA StartIsFine ==
  ASSUME NEW s, MailBooks(s), NEW p \in Players, NEW to \in Recipients,
         NEW text \in Texts \cup {NoText, BadAlias}, NEW here
  PROVE  Fine(s, do_expmail_start(s, p, to, text, here))
<1>1. [on |-> TRUE, to |-> to, text |-> text] \in Draft
  BY DEF Draft
<1>2. Fine(s, s)
  BY StayIsFine
<1>3. Fine(s, [s EXCEPT !.draft[p] = [on |-> TRUE, to |-> to, text |-> text]])
  BY <1>1, <1>2, DraftAfter
<1> QED
  BY <1>2, <1>3 DEF do_expmail_start

LEMMA DraftsAre ==
  ASSUME NEW s, MailBooks(s), NEW p \in Players
  PROVE  /\ s.draft[p] \in Draft
         /\ s.draft[p].to \in Recipients /\ s.draft[p].text \in Texts \cup {NoText, BadAlias}
<1>1. s.draft[p] \in Draft
  BY DEF MailBooks, Mailroom
<1> QED
  BY <1>1 DEF Draft

LEMMA PostpendIsFine ==
  ASSUME NEW s, MailBooks(s), NEW p \in Players, NEW text \in Texts
  PROVE  Fine(s, do_postpend(s, p, text))
<1> DEFINE d == [s.draft[p] EXCEPT !.text = text]
<1>1. s.draft[p] \in Draft
  BY DraftsAre
<1>2. d \in Draft
  BY <1>1 DEF Draft
<1>3. Fine(s, s)
  BY StayIsFine
<1>4. [s EXCEPT !.draft[p].text = text] = [s EXCEPT !.draft[p] = d]
  OBVIOUS
<1> HIDE DEF d
<1>5. Fine(s, [s EXCEPT !.draft[p] = d])
  BY <1>2, <1>3, DraftAfter
<1> QED
  BY <1>3, <1>4, <1>5 DEF do_postpend

LEMMA AbortIsFine ==
  ASSUME NEW s, MailBooks(s), NEW p \in Players
  PROVE  Fine(s, do_expmail_abort(s, p))
BY StayIsFine, DraftAfter, NoDraftIs DEF do_expmail_abort

LEMMA StopIsFine ==
  ASSUME NEW s, MailBooks(s), Room(s), NEW p \in Players, NEW here \in SUBSET Players
  PROVE  Fine(s, do_expmail_stop(s, p, here))
<1> DEFINE u == IF s.draft[p].text = NoText THEN s
                ELSE mail_to_list(s, p, s.draft[p].to, s.draft[p].text, here)
<1>1. Fine(s, u)
  <2>1. CASE s.draft[p].text = NoText
    BY <2>1, StayIsFine
  <2>2. CASE s.draft[p].text # NoText
    <3>1. s.draft[p].to \in Recipients /\ s.draft[p].text \in Texts \cup {BadAlias}
      BY <2>2, DraftsAre
    <3>2. Better(s, mail_to_list(s, p, s.draft[p].to, s.draft[p].text, here))
      BY <3>1, ListIsBetter
    <3> QED
      BY <2>2, <3>2, BetterIsFine
  <2> QED
    BY <2>1, <2>2
<1>2. do_expmail_stop(s, p, here) = [u EXCEPT !.draft[p] = NoDraft]
  BY DEF do_expmail_stop, do_expmail_abort
<1> HIDE DEF u
<1> QED
  BY <1>1, <1>2, DraftAfter, NoDraftIs

(* The messages of the folder.                                             *)
LEMMA HereIs ==
  ASSUME NEW s, MailBooks(s), NEW p \in Players, NEW n \in DOMAIN Here(s, p)
  PROVE  /\ Here(s, p)[n] \in DOMAIN s.box[p]
         /\ s.box[p][Here(s, p)[n]].from \in Players
         /\ s.box[p][Here(s, p)[n]].number \in Slots
<1> DEFINE q == Order(s.box[p])
           S == {i \in DOMAIN s.box[p] : s.box[p][i].folder = s.folder[p]}
<1>1. s \in Mailroom
  BY DEF MailBooks
<1>2. /\ Len(s.box[p]) \in Nat /\ DOMAIN s.box[p] = 1..Len(s.box[p])
      /\ \A i \in DOMAIN s.box[p] : s.box[p][i] \in Message
  BY <1>1, BoxTypes
<1>3. q \in Seq(Nat) /\ Range(q) = DOMAIN s.box[p]
  <2>1. q = [i \in 1..Len(s.box[p]) |-> i]
    BY <1>2 DEF Order
  <2>2. q \in Seq(Nat) /\ DOMAIN q = 1..Len(s.box[p]) /\ \A i \in DOMAIN q : q[i] = i
    BY <1>2, <2>1
  <2> HIDE DEF q
  <2> QED
    BY <1>2, <2>2 DEF Range
<1> HIDE DEF q, S
<1>4. Range(Only(q, S)) = Range(q) \cap S
  BY <1>3, OnlyProperties
<1>5. Here(s, p) = Only(q, S)
  BY DEF Here, q, S
<1>6. Here(s, p)[n] \in Range(Only(q, S))
  BY <1>5 DEF Range
<1>7. Here(s, p)[n] \in DOMAIN s.box[p]
  BY <1>3, <1>4, <1>6
<1>8. s.box[p][Here(s, p)[n]] \in Message
  BY <1>2, <1>7
<1> QED
  BY <1>7, <1>8 DEF Message

LEMMA ForwardIsFine ==
  ASSUME NEW s, MailBooks(s), NEW p \in Players, NEW n, NEW to \in Recipients, NEW here
  PROVE  Fine(s, do_mail_fwd(s, p, n, to, here))
<1>1. CASE n \notin DOMAIN Here(s, p)
  BY <1>1, StayIsFine DEF do_mail_fwd
<1>2. CASE n \in DOMAIN Here(s, p)
  <2> DEFINE text == s.text[s.box[p][Here(s, p)[n]].number]
  <2>1. text \in Texts \cup {NoText, BadAlias}
    <3>1. s.box[p][Here(s, p)[n]].number \in Slots
      BY <1>2, HereIs
    <3>2. s.text \in [Slots -> Texts \cup {NoText, BadAlias}]
      BY DEF MailBooks, Mailroom
    <3> QED
      BY <3>1, <3>2
  <2>2. do_mail_fwd(s, p, n, to, here) = do_expmail_start(s, p, to, text, here)
    BY <1>2 DEF do_mail_fwd
  <2> HIDE DEF text
  <2> QED
    BY <2>1, <2>2, StartIsFine
<1> QED
  BY <1>1, <1>2

LEMMA ReplyIsFine ==
  ASSUME NEW s, MailBooks(s), NEW p \in Players, NEW n, NEW here
  PROVE  Fine(s, do_mail_reply(s, p, n, here))
<1> DEFINE k == s.box[p][Here(s, p)[n]].from
           q == s.box[p][Here(s, p)[k]].from
           d == [NoDraft EXCEPT !.on = TRUE, !.to = <<q>>]
<1>1. CASE s.draft[p].on \/ n \notin DOMAIN Here(s, p) \/ k \notin DOMAIN Here(s, p)
  BY <1>1, StayIsFine DEF do_mail_reply
<1>2. CASE ~(s.draft[p].on \/ n \notin DOMAIN Here(s, p)) /\ k \in DOMAIN Here(s, p)
  <2>1. do_mail_reply(s, p, n, here) = [s EXCEPT !.draft[p] = d]
    BY <1>2 DEF do_mail_reply
  <2>2. q \in Players
    BY <1>2, HereIs
  <2>3. d \in Draft
    <3> HIDE DEF q
    <3>1. <<q>> \in Recipients
      BY <2>2 DEF Recipients
    <3> QED
      BY <3>1, NoDraftIs DEF Draft
  <2> HIDE DEF d
  <2> QED
    BY <2>1, <2>3, StayIsFine, DraftAfter
<1> QED
  BY <1>1, <1>2

(* The alias.                                                              *)
LEMMA AliasIsFine ==
  ASSUME NEW s, MailBooks(s), NEW a \in Seq(Players), IsInjective(a), NEW on \in BOOLEAN
  PROVE  Fine(s, [s EXCEPT !.alias = a, !.aliased = on])
<1> DEFINE t == [s EXCEPT !.alias = a, !.aliased = on]
<1>1. s \in Mailroom
  BY DEF MailBooks
<1>2. t \in Mailroom
  BY <1>1 DEF Mailroom
<1>3. t.alias = a /\ t.text = s.text /\ t.count = s.count /\ t.box = s.box
  BY <1>1 DEF Mailroom
<1> HIDE DEF t
<1>4. Fine(s, t)
  BY <1>2, <1>3, SameIsFine
<1> QED
  BY <1>4 DEF t

LEMMA MaliasIsFine ==
  ASSUME NEW s, MailBooks(s), NEW q \in Players
  PROVE  /\ Fine(s, do_malias_create(s, <<q>>)) /\ Fine(s, do_malias_add(s, q))
         /\ Fine(s, do_malias_remove(s, q)) /\ Fine(s, do_malias_delete(s))
<1>1. s \in Mailroom /\ s.alias \in Seq(Players) /\ IsInjective(s.alias) /\ s.aliased \in BOOLEAN
  BY DEF MailBooks, Mailroom
<1>2. Fine(s, s)
  BY StayIsFine
<1>3. ASSUME NEW a
      PROVE  [s EXCEPT !.alias = a] = [s EXCEPT !.alias = a, !.aliased = s.aliased]
  BY <1>1 DEF Mailroom
<1>4. Fine(s, do_malias_create(s, <<q>>))
  <2>1. <<q>> \in Seq(Players) /\ IsInjective(<<q>>)
    BY DEF IsInjective
  <2>2. Fine(s, [s EXCEPT !.alias = <<q>>, !.aliased = TRUE])
    BY <2>1, AliasIsFine
  <2>3. [s EXCEPT !.aliased = TRUE, !.alias = <<q>>] = [s EXCEPT !.alias = <<q>>, !.aliased = TRUE]
    BY <1>1 DEF Mailroom
  <2> QED
    BY <1>2, <2>2, <2>3 DEF do_malias_create
<1>5. Fine(s, do_malias_add(s, q))
  <2>1. CASE ~s.aliased \/ q \in Range(s.alias)
    BY <1>2, <2>1 DEF do_malias_add
  <2>2. CASE ~(~s.aliased \/ q \in Range(s.alias))
    <3> DEFINE a == Append(s.alias, q)
    <3>1. a \in Seq(Players) /\ IsInjective(a)
      BY <1>1, <2>2, AppendRange
    <3>2. do_malias_add(s, q) = [s EXCEPT !.alias = a]
      BY <2>2 DEF do_malias_add
    <3> HIDE DEF a
    <3>3. Fine(s, [s EXCEPT !.alias = a, !.aliased = s.aliased])
      BY <1>1, <3>1, AliasIsFine
    <3> QED
      BY <1>3, <3>2, <3>3
  <2> QED
    BY <2>1, <2>2
<1>6. Fine(s, do_malias_remove(s, q))
  <2> DEFINE a == Without(s.alias, {q})
  <2>1. a \in Seq(Players) /\ IsInjective(a)
    BY <1>1, WithoutProperties
  <2>2. do_malias_remove(s, q) = [s EXCEPT !.alias = a]
    BY DEF do_malias_remove
  <2> HIDE DEF a
  <2>3. Fine(s, [s EXCEPT !.alias = a, !.aliased = s.aliased])
    BY <1>1, <2>1, AliasIsFine
  <2> QED
    BY <1>3, <2>2, <2>3
<1>7. Fine(s, do_malias_delete(s))
  <2>1. <<>> \in Seq(Players) /\ IsInjective(<<>>)
    BY DEF IsInjective
  <2>2. Fine(s, [s EXCEPT !.alias = <<>>, !.aliased = FALSE])
    BY <2>1, AliasIsFine
  <2>3. do_malias_delete(s) = [s EXCEPT !.alias = <<>>, !.aliased = FALSE]
    BY <1>1 DEF Mailroom, do_malias_delete
  <2> QED
    BY <2>2, <2>3
<1> QED
  BY <1>4, <1>5, <1>6, <1>7

(* Reading and sorting.                                                    *)
Touched(s, p, t) ==
  /\ Alike(s, t) /\ t.alias = s.alias
  /\ \A q \in Players : q # p => t.box[q] = s.box[q]

LEMMA TouchedIsFine ==
  ASSUME NEW s, MailBooks(s), NEW p, NEW t, Touched(s, p, t)
  PROVE  Fine(s, t) /\ MailBooks(t) /\ Shrinks(s, t)
<1>1. Alike(s, t) /\ IsInjective(t.alias)
  BY DEF Touched, MailBooks
<1> QED
  BY <1>1, AlikeIsFine, AlikeKeepsBooks

LEMMA MarkTouches ==
  ASSUME NEW s, MailBooks(s), NEW p \in Players, NEW places, NEW new \in [Message -> Message],
         \A m \in Message : Likeness(new[m]) = Likeness(m)
  PROVE  Touched(s, p, [s EXCEPT !.box[p] =
           [i \in DOMAIN s.box[p] |-> IF i \in places THEN new[s.box[p][i]] ELSE s.box[p][i]]])
<1> DEFINE l == [i \in DOMAIN s.box[p] |-> IF i \in places THEN new[s.box[p][i]] ELSE s.box[p][i]]
<1>1. \A i \in DOMAIN s.box[p] : s.box[p][i] \in Message
  BY BoxTypes DEF MailBooks
<1>2. l \in [DOMAIN s.box[p] -> Message]
  BY <1>1
<1>3. \A i \in DOMAIN s.box[p] : Likeness(l[i]) = Likeness(s.box[p][i])
  <2>1. \A i \in DOMAIN s.box[p] :
          l[i] = IF i \in places THEN new[s.box[p][i]] ELSE s.box[p][i]
    OBVIOUS
  <2> HIDE DEF l
  <2> QED
    BY <1>1, <2>1
<1> HIDE DEF l
<1>4. /\ Alike(s, [s EXCEPT !.box[p] = l]) /\ [s EXCEPT !.box[p] = l].alias = s.alias
      /\ \A q \in Players : q # p => [s EXCEPT !.box[p] = l].box[q] = s.box[q]
  BY <1>2, <1>3, MarkIsAlike
<1> QED
  BY <1>4 DEF Touched, l

LEMMA ReadTouches ==
  ASSUME NEW s, MailBooks(s), NEW p \in Players, NEW list
  PROVE  Touched(s, p, do_mail_read(s, p, list))
<1> DEFINE new == [m \in Message |-> [m EXCEPT !.read = TRUE]]
           places == Selected(s, p, list) \cap Range(Here(s, p))
<1>1. \A i \in DOMAIN s.box[p] : s.box[p][i] \in Message
  BY BoxTypes DEF MailBooks
<1>2. \A m \in Message : new[m] = [m EXCEPT !.read = TRUE]
  OBVIOUS
<1>3. \A m \in Message : [m EXCEPT !.read = TRUE] \in Message
        /\ Likeness([m EXCEPT !.read = TRUE]) = Likeness(m)
  BY DEF Message, Likeness
<1>4. new \in [Message -> Message] /\ \A m \in Message : Likeness(new[m]) = Likeness(m)
  BY <1>2, <1>3
<1>5. do_mail_read(s, p, list) =
        [s EXCEPT !.box[p] = [i \in DOMAIN s.box[p] |->
           IF i \in places THEN [s.box[p][i] EXCEPT !.read = TRUE] ELSE s.box[p][i]]]
  BY DEF do_mail_read, Marked
<1> HIDE DEF new, places
<1>6. [i \in DOMAIN s.box[p] |-> IF i \in places THEN new[s.box[p][i]] ELSE s.box[p][i]] =
      [i \in DOMAIN s.box[p] |->
         IF i \in places THEN [s.box[p][i] EXCEPT !.read = TRUE] ELSE s.box[p][i]]
  BY <1>1, <1>2
<1>7. Touched(s, p, [s EXCEPT !.box[p] =
        [i \in DOMAIN s.box[p] |-> IF i \in places THEN new[s.box[p][i]] ELSE s.box[p][i]]])
  BY <1>4, MarkTouches
<1> QED
  BY <1>5, <1>6, <1>7

LEMMA SafeTouches ==
  ASSUME NEW s, MailBooks(s), NEW p \in Players, NEW list
  PROVE  Touched(s, p, do_mail_safe(s, p, list))
<1> DEFINE new == [m \in Message |-> [m EXCEPT !.safe = TRUE]]
           places == Selected(s, p, list)
<1>1. \A i \in DOMAIN s.box[p] : s.box[p][i] \in Message
  BY BoxTypes DEF MailBooks
<1>2. \A m \in Message : new[m] = [m EXCEPT !.safe = TRUE]
  OBVIOUS
<1>3. \A m \in Message : [m EXCEPT !.safe = TRUE] \in Message
        /\ Likeness([m EXCEPT !.safe = TRUE]) = Likeness(m)
  BY DEF Message, Likeness
<1>4. new \in [Message -> Message] /\ \A m \in Message : Likeness(new[m]) = Likeness(m)
  BY <1>2, <1>3
<1>5. do_mail_safe(s, p, list) =
        [s EXCEPT !.box[p] = [i \in DOMAIN s.box[p] |->
           IF i \in places THEN [s.box[p][i] EXCEPT !.safe = TRUE] ELSE s.box[p][i]]]
  BY DEF do_mail_safe, Marked
<1> HIDE DEF new, places
<1>6. [i \in DOMAIN s.box[p] |-> IF i \in places THEN new[s.box[p][i]] ELSE s.box[p][i]] =
      [i \in DOMAIN s.box[p] |->
         IF i \in places THEN [s.box[p][i] EXCEPT !.safe = TRUE] ELSE s.box[p][i]]
  BY <1>1, <1>2
<1>7. Touched(s, p, [s EXCEPT !.box[p] =
        [i \in DOMAIN s.box[p] |-> IF i \in places THEN new[s.box[p][i]] ELSE s.box[p][i]]])
  BY <1>4, MarkTouches
<1> QED
  BY <1>5, <1>6, <1>7

LEMMA ClearTouches ==
  ASSUME NEW s, MailBooks(s), NEW p \in Players, NEW list
  PROVE  Touched(s, p, do_mail_clear(s, p, list))
<1> DEFINE new == [m \in Message |-> [m EXCEPT !.cleared = TRUE]]
           places == Selected(s, p, list)
<1>1. \A i \in DOMAIN s.box[p] : s.box[p][i] \in Message
  BY BoxTypes DEF MailBooks
<1>2. \A m \in Message : new[m] = [m EXCEPT !.cleared = TRUE]
  OBVIOUS
<1>3. \A m \in Message : [m EXCEPT !.cleared = TRUE] \in Message
        /\ Likeness([m EXCEPT !.cleared = TRUE]) = Likeness(m)
  BY DEF Message, Likeness
<1>4. new \in [Message -> Message] /\ \A m \in Message : Likeness(new[m]) = Likeness(m)
  BY <1>2, <1>3
<1>5. do_mail_clear(s, p, list) =
        [s EXCEPT !.box[p] = [i \in DOMAIN s.box[p] |->
           IF i \in places THEN [s.box[p][i] EXCEPT !.cleared = TRUE] ELSE s.box[p][i]]]
  BY DEF do_mail_clear, Marked
<1> HIDE DEF new, places
<1>6. [i \in DOMAIN s.box[p] |-> IF i \in places THEN new[s.box[p][i]] ELSE s.box[p][i]] =
      [i \in DOMAIN s.box[p] |->
         IF i \in places THEN [s.box[p][i] EXCEPT !.cleared = TRUE] ELSE s.box[p][i]]
  BY <1>1, <1>2
<1>7. Touched(s, p, [s EXCEPT !.box[p] =
        [i \in DOMAIN s.box[p] |-> IF i \in places THEN new[s.box[p][i]] ELSE s.box[p][i]]])
  BY <1>4, MarkTouches
<1> QED
  BY <1>5, <1>6, <1>7

LEMMA UnclearTouches ==
  ASSUME NEW s, MailBooks(s), NEW p \in Players, NEW list
  PROVE  Touched(s, p, do_mail_unclear(s, p, list))
<1> DEFINE new == [m \in Message |-> [m EXCEPT !.cleared = FALSE]]
           places == Selected(s, p, list)
<1>1. \A i \in DOMAIN s.box[p] : s.box[p][i] \in Message
  BY BoxTypes DEF MailBooks
<1>2. \A m \in Message : new[m] = [m EXCEPT !.cleared = FALSE]
  OBVIOUS
<1>3. \A m \in Message : [m EXCEPT !.cleared = FALSE] \in Message
        /\ Likeness([m EXCEPT !.cleared = FALSE]) = Likeness(m)
  BY DEF Message, Likeness
<1>4. new \in [Message -> Message] /\ \A m \in Message : Likeness(new[m]) = Likeness(m)
  BY <1>2, <1>3
<1>5. do_mail_unclear(s, p, list) =
        [s EXCEPT !.box[p] = [i \in DOMAIN s.box[p] |->
           IF i \in places THEN [s.box[p][i] EXCEPT !.cleared = FALSE] ELSE s.box[p][i]]]
  BY DEF do_mail_unclear, Marked
<1> HIDE DEF new, places
<1>6. [i \in DOMAIN s.box[p] |-> IF i \in places THEN new[s.box[p][i]] ELSE s.box[p][i]] =
      [i \in DOMAIN s.box[p] |->
         IF i \in places THEN [s.box[p][i] EXCEPT !.cleared = FALSE] ELSE s.box[p][i]]
  BY <1>1, <1>2
<1>7. Touched(s, p, [s EXCEPT !.box[p] =
        [i \in DOMAIN s.box[p] |-> IF i \in places THEN new[s.box[p][i]] ELSE s.box[p][i]]])
  BY <1>4, MarkTouches
<1> QED
  BY <1>5, <1>6, <1>7

LEMMA FileTouches ==
  ASSUME NEW s, MailBooks(s), NEW p \in Players, NEW list, NEW f \in Folders
  PROVE  Touched(s, p, do_mail_file(s, p, list, f))
<1> DEFINE new == [m \in Message |-> [m EXCEPT !.folder = f]]
           places == Selected(s, p, list)
<1>1. \A i \in DOMAIN s.box[p] : s.box[p][i] \in Message
  BY BoxTypes DEF MailBooks
<1>2. \A m \in Message : new[m] = [m EXCEPT !.folder = f]
  OBVIOUS
<1>3. \A m \in Message : [m EXCEPT !.folder = f] \in Message
        /\ Likeness([m EXCEPT !.folder = f]) = Likeness(m)
  BY DEF Message, Likeness
<1>4. new \in [Message -> Message] /\ \A m \in Message : Likeness(new[m]) = Likeness(m)
  BY <1>2, <1>3
<1>5. do_mail_file(s, p, list, f) =
        [s EXCEPT !.box[p] = [i \in DOMAIN s.box[p] |->
           IF i \in places THEN [s.box[p][i] EXCEPT !.folder = f] ELSE s.box[p][i]]]
  BY DEF do_mail_file, Marked
<1> HIDE DEF new, places
<1>6. [i \in DOMAIN s.box[p] |-> IF i \in places THEN new[s.box[p][i]] ELSE s.box[p][i]] =
      [i \in DOMAIN s.box[p] |->
         IF i \in places THEN [s.box[p][i] EXCEPT !.folder = f] ELSE s.box[p][i]]
  BY <1>1, <1>2
<1>7. Touched(s, p, [s EXCEPT !.box[p] =
        [i \in DOMAIN s.box[p] |-> IF i \in places THEN new[s.box[p][i]] ELSE s.box[p][i]]])
  BY <1>4, MarkTouches
<1> QED
  BY <1>5, <1>6, <1>7

LEMMA FolderAfter ==
  ASSUME NEW s, MailBooks(s), NEW u, Fine(s, u), NEW p \in Players, NEW f \in Folders
  PROVE  Fine(s, [u EXCEPT !.folder[p] = f])
<1> DEFINE e == [u.folder EXCEPT ![p] = f]
           t == [u EXCEPT !.folder = e]
<1>1. u \in Mailroom /\ IsInjective(u.alias) /\ u.folder \in [Players -> Folders]
  BY DEF Fine, MailBooks, Mailroom
<1>2. e \in [Players -> Folders]
  BY <1>1
<1>3. t = [u EXCEPT !.folder[p] = f]
  OBVIOUS
<1> HIDE DEF e
<1>4. t \in Mailroom
  BY <1>1, <1>2 DEF Mailroom
<1>5. t.text = u.text /\ t.count = u.count /\ t.box = u.box /\ t.alias = u.alias
  BY <1>1 DEF Mailroom
<1> HIDE DEF t
<1> QED
  BY <1>1, <1>3, <1>4, <1>5, SameAfter

LEMMA SortIsFine ==
  ASSUME NEW s, MailBooks(s), NEW p \in Players, NEW list, NEW f \in Folders
  PROVE  /\ Fine(s, do_mail_read(s, p, list)) /\ Fine(s, do_mail_safe(s, p, list))
         /\ Fine(s, do_mail_clear(s, p, list)) /\ Fine(s, do_mail_unclear(s, p, list))
         /\ Fine(s, do_mail_file(s, p, list, f)) /\ Fine(s, do_mail_change_folder(s, p, f))
<1>1. Fine(s, do_mail_read(s, p, list))
  BY ReadTouches, TouchedIsFine
<1>2. Fine(s, do_mail_safe(s, p, list))
  BY SafeTouches, TouchedIsFine
<1>3. Fine(s, do_mail_clear(s, p, list))
  BY ClearTouches, TouchedIsFine
<1>4. Fine(s, do_mail_unclear(s, p, list))
  BY UnclearTouches, TouchedIsFine
<1>5. Fine(s, do_mail_file(s, p, list, f))
  BY FileTouches, TouchedIsFine
<1>6. Fine(s, do_mail_change_folder(s, p, f))
  BY StayIsFine, FolderAfter DEF do_mail_change_folder
<1> QED
  BY <1>1, <1>2, <1>3, <1>4, <1>5, <1>6

(* Deleting.                                                               *)
DeletesWell(s, gone, d) ==
  /\ MailBooks(d) /\ Shrinks(s, d)
  /\ \A p \in Players : gone[p] = {} => Holds(s, d, p)
  /\ \A p \in Players :
       (\A i \in DOMAIN s.box[p] \cap gone[p] : ~Kept(s.box[p][i])) => SafeHere(s, d, p)

LEMMA DeleteIsWell ==
  ASSUME NEW s, MailBooks(s), NEW gone
  PROVE  DeletesWell(s, gone, Delete(s, gone))
<1> DEFINE d == Delete(s, gone)
<1>1. /\ MailBooks(d) /\ Shrinks(s, d)
      /\ \A p \in Players : gone[p] = {} => Holds(s, d, p)
      /\ \A p \in Players : \A i \in DOMAIN s.box[p] \ gone[p] :
           s.box[p][i] \in Range(d.box[p])
  BY DeleteKeepsBooks
<1> HIDE DEF d
<1>2. ASSUME NEW p \in Players,
             \A i \in DOMAIN s.box[p] \cap gone[p] : ~Kept(s.box[p][i])
      PROVE  SafeHere(s, d, p)
  BY <1>1, <1>2 DEF SafeHere, Range
<1> QED
  BY <1>1, <1>2 DEF DeletesWell, d

(* A purge of p's list; what it does to another's, and to p's.             *)
Purges(s, p, t) ==
  /\ MailBooks(t) /\ Shrinks(s, t)
  /\ \A q \in Players : q # p => Holds(s, t, q)

LEMMA PurgesOn ==
  ASSUME NEW r, MailBooks(r), NEW s, NEW p, NEW t, Purges(r, p, s), Purges(s, p, t)
  PROVE  Purges(r, p, t)
<1>1. MailBooks(s) /\ MailBooks(t) /\ Shrinks(r, t)
  BY ShrinksOn DEF Purges
<1> QED
  BY <1>1, HoldsOn DEF Purges

LEMMA OfIs ==
  ASSUME NEW p \in Players, NEW places
  PROVE  Of(p, places)[p] = places /\ \A q \in Players : q # p => Of(p, places)[q] = {}
BY DEF Of

LEMMA PurgeIs ==
  ASSUME NEW s, MailBooks(s), NEW p \in Players
  PROVE  Purges(s, p, do_mail_purge(s, p)) /\ SafeHere(s, do_mail_purge(s, p), p)
<1> DEFINE gone == Of(p, Cleared(s, p))
           d == Delete(s, gone)
<1>1. DeletesWell(s, gone, d)
  BY DeleteIsWell
<1>2. gone[p] = Cleared(s, p) /\ \A q \in Players : q # p => gone[q] = {}
  BY OfIs
<1>3. do_mail_purge(s, p) = d
  BY DEF do_mail_purge
<1> HIDE DEF gone, d
<1>4. \A i \in DOMAIN s.box[p] \cap gone[p] : ~Kept(s.box[p][i])
  BY <1>2 DEF Cleared, Kept
<1> QED
  BY <1>1, <1>2, <1>3, <1>4 DEF DeletesWell, Purges

LEMMA PurgesIsFine ==
  ASSUME NEW s, MailBooks(s), NEW p, NEW t, Purges(s, p, t), SafeHere(s, t, p)
  PROVE  Fine(s, t)
<1>1. MailBooks(t) /\ GivesBack(s, t)
  BY GrowsGivesBack DEF Purges
<1>2. \A q \in Players : SafeHere(s, t, q)
  BY HoldsIsSafe DEF Purges
<1> QED
  BY <1>1, <1>2 DEF Fine

LEMMA PurgeIsFine ==
  ASSUME NEW s, MailBooks(s), NEW p \in Players
  PROVE  Fine(s, do_mail_purge(s, p))
BY PurgeIs, PurgesIsFine

LEMMA WipedIs ==
  ASSUME NEW s, MailBooks(s), NEW p \in Players
  PROVE  Purges(s, p, Wiped(s, p))
<1> DEFINE t == do_mail_clear(s, p, Current)
<1>1. Touched(s, p, t)
  BY ClearTouches
<1>2. Wiped(s, p) = do_mail_purge(t, p)
  BY DEF Wiped
<1> HIDE DEF t
<1>3. MailBooks(t) /\ Shrinks(s, t)
  BY <1>1, TouchedIsFine
<1>4. Purges(s, p, t)
  BY <1>1, <1>3 DEF Purges, Touched, Holds
<1>5. Purges(t, p, do_mail_purge(t, p))
  BY <1>3, PurgeIs
<1> QED
  BY <1>2, <1>4, <1>5, PurgesOn

LEMMA ForgetIs ==
  ASSUME NEW s, MailBooks(s), NEW p \in Players
  PROVE  Purges(s, p, ForgetPlayer(s, p))
<1> DEFINE w == Wiped(s, p)
           f == [w.folder EXCEPT ![p] = 0]
           e == [w.draft EXCEPT ![p] = NoDraft]
           t == [w EXCEPT !.folder = f, !.draft = e]
<1>1. Purges(s, p, w)
  BY WipedIs
<1> HIDE DEF w
<1>2. w \in Mailroom /\ IsInjective(w.alias) /\ w.folder \in [Players -> Folders]
      /\ w.draft \in [Players -> Draft]
  BY <1>1 DEF Purges, MailBooks, Mailroom
<1>3. f \in [Players -> Folders] /\ e \in [Players -> Draft]
  BY <1>2, NoDraftIs, MailAssumption
<1>4. t = ForgetPlayer(s, p)
  BY DEF ForgetPlayer, w
<1> HIDE DEF f, e
<1>5. t \in Mailroom
  BY <1>2, <1>3 DEF Mailroom
<1>6. t.text = w.text /\ t.count = w.count /\ t.box = w.box /\ t.alias = w.alias
  BY <1>2 DEF Mailroom
<1> HIDE DEF t
<1>7. MailBooks(t)
  BY <1>1, <1>2, <1>5, <1>6, SameIsFine DEF Purges, Fine
<1>8. \A n \in Slots : Shows(t, n) = Shows(w, n)
  BY <1>6 DEF Shows
<1>9. Shrinks(s, t) /\ \A q \in Players : q # p => Holds(s, t, q)
  BY <1>1, <1>6, <1>8 DEF Purges, Shrinks, Holds
<1> QED
  BY <1>4, <1>7, <1>9 DEF Purges

(* What nobody has read may be retracted.                                  *)
LEMMA RetractIsFine ==
  ASSUME NEW s, MailBooks(s), NEW p \in Players, NEW target \in Players, NEW list
  PROVE  Fine(s, do_mail_retract(s, p, target, list))
<1> DEFINE places == {i \in Sent(s, p, target, list) : ~s.box[target][i].read}
           gone == Of(target, places)
           d == Delete(s, gone)
           t == [d EXCEPT !.shut = @ \cup {target}]
<1>1. DeletesWell(s, gone, d)
  BY DeleteIsWell
<1>2. gone[target] = places /\ \A q \in Players : q # target => gone[q] = {}
  BY OfIs
<1>3. do_mail_retract(s, p, target, list) =
        IF places # {} /\ d.box[target] = <<>> THEN t ELSE d
  BY DEF do_mail_retract
<1>4. \A i \in places : ~Kept(s.box[target][i])
  BY DEF Kept
<1> HIDE DEF places, gone, d
<1>5. Purges(s, target, d) /\ SafeHere(s, d, target)
  BY <1>1, <1>2, <1>4 DEF DeletesWell, Purges
<1>6. Fine(s, d)
  BY <1>5, PurgesIsFine
<1>7. Fine(s, t)
  <2>1. d \in Mailroom /\ IsInjective(d.alias)
    BY <1>6 DEF Fine, MailBooks
  <2>2. d.shut \cup {target} \in SUBSET Players
    BY <2>1 DEF Mailroom
  <2>3. t \in Mailroom
    BY <2>1, <2>2 DEF Mailroom
  <2>4. t.text = d.text /\ t.count = d.count /\ t.box = d.box /\ t.alias = d.alias
    BY <2>1 DEF Mailroom
  <2> HIDE DEF t
  <2> QED
    BY <1>6, <2>1, <2>3, <2>4, SameAfter
<1> QED
  BY <1>3, <1>6, <1>7

(* Everything goes.                                                        *)
LEMMA NukeIs ==
  ASSUME NEW s, MailBooks(s)
  PROVE  MailBooks(do_mail_nuke(s)) /\ GivesBack(s, do_mail_nuke(s))
<1> DEFINE gone == [p \in Players |-> DOMAIN s.box[p]]
           d == Delete(s, gone)
           t == [d EXCEPT !.shut = {}]
<1>1. DeletesWell(s, gone, d)
  BY DeleteIsWell
<1>2. t = do_mail_nuke(s)
  BY DEF do_mail_nuke
<1> HIDE DEF gone, d
<1>3. MailBooks(d) /\ Shrinks(s, d)
  BY <1>1 DEF DeletesWell
<1>4. d \in Mailroom /\ IsInjective(d.alias)
  BY <1>3 DEF MailBooks
<1>5. t \in Mailroom /\ t.text = d.text /\ t.count = d.count /\ t.box = d.box /\ t.alias = d.alias
  BY <1>4 DEF Mailroom
<1> HIDE DEF t
<1>6. MailBooks(t)
  BY <1>3, <1>4, <1>5, SameIsFine DEF Fine
<1>7. Shrinks(s, t)
  BY <1>3, <1>5 DEF Shrinks, Shows
<1> QED
  BY <1>2, <1>6, <1>7, GrowsGivesBack

LEMMA ExpirationIs ==
  ASSUME NEW s, MailBooks(s)
  PROVE  /\ MailBooks(check_mail_expiration(s)) /\ Shrinks(s, check_mail_expiration(s))
         /\ \A p \in Players : SafeHere(s, check_mail_expiration(s), p)
<1> DEFINE gone == [p \in Players |->
                      {i \in DOMAIN s.box[p] : s.box[p][i].old /\ ~s.box[p][i].safe}]
           d == Delete(s, gone)
<1>1. DeletesWell(s, gone, d)
  BY DeleteIsWell
<1>2. d = check_mail_expiration(s)
  BY DEF check_mail_expiration
<1>3. \A p \in Players : \A i \in gone[p] : ~Kept(s.box[p][i])
  BY DEF Kept
<1> HIDE DEF gone, d
<1> QED
  BY <1>1, <1>2, <1>3 DEF DeletesWell

LEMMA FixedIs ==
  ASSUME NEW s, MailBooks(s), NEW here
  PROVE  /\ MailBooks(Fixed(s, here)) /\ GivesBack(s, Fixed(s, here))
         /\ \A p \in Players \cap here : SafeHere(s, Fixed(s, here), p)
<1> DEFINE gone == [p \in Players |-> IF p \in here THEN {} ELSE DOMAIN s.box[p]]
           d == Delete(s, gone)
<1>1. DeletesWell(s, gone, d)
  BY DeleteIsWell
<1>2. d = Fixed(s, here)
  BY DEF Fixed
<1>3. \A p \in Players \cap here : gone[p] = {}
  OBVIOUS
<1> HIDE DEF gone, d
<1> QED
  BY <1>1, <1>2, <1>3, GrowsGivesBack, HoldsIsSafe DEF DeletesWell

(* What is written and read again: texts that count, and the messages of   *)
(* players, counted anew.                                                  *)
KeptBox(s, here) == [p \in Players |-> IF p \in here THEN s.box[p] ELSE <<>>]

LEMMA KeptBoxShows ==
  ASSUME NEW s, MailBooks(s), NEW here, NEW n \in Slots
  PROVE  /\ KeptBox(s, here) \in [Players -> Seq(Message)]
         /\ Cardinality(Showing(KeptBox(s, here), n)) \in Nat
         /\ Cardinality(Showing(KeptBox(s, here), n)) <= Shows(s, n)
<1> DEFINE k == KeptBox(s, here)
<1>1. s.box \in [Players -> Seq(Message)]
  BY DEF MailBooks, Mailroom
<1>2. k \in [Players -> Seq(Message)]
  BY <1>1 DEF KeptBox
<1>3. \A p \in Players : \A i \in DOMAIN k[p] : i \in DOMAIN s.box[p] /\ k[p][i] = s.box[p][i]
  BY DEF KeptBox
<1> HIDE DEF k
<1>4. ASSUME NEW m \in Showing(k, n) PROVE m \in Showing(s.box, n)
  <2>1. PICK p \in Players : \E i \in DOMAIN k[p] : m = <<p, i>> /\ k[p][i].number = n
    BY <1>2, PairOf
  <2>2. PICK i \in DOMAIN k[p] : m = <<p, i>> /\ k[p][i].number = n
    BY <2>1
  <2>3. i \in DOMAIN s.box[p] /\ s.box[p][i].number = n
    BY <1>3, <2>2
  <2> QED
    BY <1>1, <2>2, <2>3, PairOf
<1>5. Showing(k, n) \in SUBSET Showing(s.box, n) /\ IsFiniteSet(Showing(s.box, n))
      /\ Cardinality(Showing(k, n)) \in Nat
  BY <1>1, <1>2, <1>4, ShowingFinite
<1>6. Cardinality(Showing(k, n)) <= Cardinality(Showing(s.box, n))
  BY <1>5, FS_Subset
<1> QED
  BY <1>2, <1>5, <1>6 DEF k, Shows

LEMMA ReloadedIs ==
  ASSUME NEW s, MailBooks(s), NEW here
  PROVE  /\ MailBooks(Reloaded(s, here)) /\ GivesBack(s, Reloaded(s, here))
         /\ \A p \in Players \cap here : SafeHere(s, Reloaded(s, here), p)
<1> DEFINE k == KeptBox(s, here)
           x == [n \in Slots |-> IF s.count[n] > 0 THEN s.text[n] ELSE NoText]
           c == [n \in Slots |-> Cardinality(Showing(k, n))]
           r == [s EXCEPT !.box = k, !.free = 0, !.shut = {}, !.text = x, !.count = c]
<1>1. s \in Mailroom /\ s.text \in [Slots -> Texts \cup {NoText, BadAlias}]
      /\ s.count \in [Slots -> Nat] /\ IsInjective(s.alias)
      /\ s.box \in [Players -> Seq(Message)] /\ 0 \in Slots
  BY MailAssumption DEF MailBooks, Mailroom
<1>2. Reloaded(s, here) = check_mail_expiration(r)
  BY <1>1 DEF Reloaded, KeptBox, Mailroom
<1>3. k \in [Players -> Seq(Message)]
      /\ \A n \in Slots : c[n] = Cardinality(Showing(k, n)) /\ c[n] \in Nat /\ c[n] <= Shows(s, n)
  BY <1>1, KeptBoxShows
<1>4. c \in [Slots -> Nat] /\ x \in [Slots -> Texts \cup {NoText, BadAlias}]
  BY <1>1, <1>3
<1>5. \A n \in Slots : x[n] = IF s.count[n] > 0 THEN s.text[n] ELSE NoText
  OBVIOUS
<1>6. \A p \in Players : \A i \in DOMAIN k[p] :
        p \in here /\ i \in DOMAIN s.box[p] /\ k[p][i] = s.box[p][i]
  BY DEF KeptBox
<1>7. \A p \in Players \cap here : k[p] = s.box[p]
  BY DEF KeptBox
<1> HIDE DEF k, x, c
<1>8. r \in Mailroom
  BY <1>1, <1>3, <1>4 DEF Mailroom
<1>9. r.box = k /\ r.text = x /\ r.count = c /\ r.alias = s.alias
  BY <1>1 DEF Mailroom
<1> HIDE DEF r
<1>10. ASSUME NEW n \in Slots
       PROVE  /\ Shows(r, n) = c[n] /\ Shows(s, n) \in Nat /\ s.count[n] \in Nat
              /\ s.count[n] >= Shows(s, n) /\ (s.text[n] = NoText => s.count[n] = 0)
  BY <1>3, <1>9, ShowsTypes DEF MailBooks, Covers, Shows
<1>11. Covers(r)
  BY <1>3, <1>5, <1>9, <1>10 DEF Covers
<1>12. ReadsTrue(r)
  <2> SUFFICES ASSUME NEW p \in Players, NEW i \in DOMAIN k[p]
               PROVE  x[k[p][i].number] = k[p][i].sent
    BY <1>9 DEF ReadsTrue
  <2>1. i \in DOMAIN s.box[p] /\ k[p][i] = s.box[p][i]
    BY <1>6
  <2> DEFINE n == s.box[p][i].number
  <2>2. n \in Slots
    <3>1. s.box[p][i] \in Message
      BY <1>1, <2>1
    <3> QED
      BY <3>1 DEF Message
  <2>3. s.text[n] = s.box[p][i].sent
    BY <2>1 DEF MailBooks, ReadsTrue
  <2>4. <<p, i>> \in Showing(s.box, n)
    <3> HIDE DEF n
    <3>1. s.box[p][i].number = n
      BY DEF n
    <3> QED
      BY <1>1, <2>1, <3>1, PairOf
  <2>5. Shows(s, n) # 0
    BY <1>1, <2>4, ShowingFinite, FS_EmptySet DEF Shows
  <2> HIDE DEF n
  <2>6. s.count[n] > 0
    BY <1>10, <2>2, <2>5
  <2> QED
    BY <1>5, <2>1, <2>2, <2>3, <2>6 DEF n
<1>13. MailBooks(r)
  BY <1>1, <1>8, <1>9, <1>11, <1>12 DEF MailBooks
<1>14. Shrinks(s, r)
  BY <1>3, <1>9, <1>10 DEF Shrinks
<1>15. /\ MailBooks(check_mail_expiration(r)) /\ Shrinks(r, check_mail_expiration(r))
       /\ \A p \in Players : SafeHere(r, check_mail_expiration(r), p)
  BY <1>13, ExpirationIs
<1>16. Shrinks(s, check_mail_expiration(r))
  BY <1>13, <1>14, <1>15, ShrinksOn
<1>17. \A p \in Players \cap here : SafeHere(s, check_mail_expiration(r), p)
  BY <1>7, <1>9, <1>15 DEF SafeHere
<1> QED
  BY <1>2, <1>15, <1>16, <1>17, GrowsGivesBack

(* Days pass.                                                              *)
LEMMA OldIsFine ==
  ASSUME NEW s, MailBooks(s)
  PROVE  Fine(s, [s EXCEPT !.box = [p \in Players |->
                    [i \in DOMAIN s.box[p] |-> [s.box[p][i] EXCEPT !.old = TRUE]]]])
<1> DEFINE b == [p \in Players |->
                   [i \in DOMAIN s.box[p] |-> [s.box[p][i] EXCEPT !.old = TRUE]]]
           t == [s EXCEPT !.box = b]
<1>1. s \in Mailroom /\ IsInjective(s.alias)
  BY DEF MailBooks
<1>2. ASSUME NEW p \in Players
      PROVE  /\ DOMAIN b[p] = DOMAIN s.box[p] /\ b[p] \in Seq(Message)
             /\ \A i \in DOMAIN s.box[p] : Likeness(b[p][i]) = Likeness(s.box[p][i])
  <2>1. /\ Len(s.box[p]) \in Nat /\ DOMAIN s.box[p] = 1..Len(s.box[p])
        /\ \A i \in DOMAIN s.box[p] : s.box[p][i] \in Message
    BY <1>1, BoxTypes
  <2>2. \A m \in Message : [m EXCEPT !.old = TRUE] \in Message
          /\ Likeness([m EXCEPT !.old = TRUE]) = Likeness(m)
    BY DEF Message, Likeness
  <2> DEFINE l == [i \in DOMAIN s.box[p] |-> [s.box[p][i] EXCEPT !.old = TRUE]]
  <2>3. \A i \in DOMAIN s.box[p] : l[i] = [s.box[p][i] EXCEPT !.old = TRUE]
    OBVIOUS
  <2>4. l \in [DOMAIN s.box[p] -> Message]
    BY <2>1, <2>2
  <2>5. b[p] = l
    OBVIOUS
  <2> HIDE DEF l, b
  <2>6. l \in Seq(Message) /\ DOMAIN l = DOMAIN s.box[p]
    BY <2>1, <2>4
  <2> QED
    BY <2>1, <2>2, <2>3, <2>5, <2>6
<1>3. b \in [Players -> Seq(Message)]
  BY <1>2
<1> HIDE DEF b
<1>4. t \in Mailroom
  BY <1>1, <1>3 DEF Mailroom
<1>5. t.text = s.text /\ t.count = s.count /\ t.box = b /\ t.alias = s.alias
  BY <1>1 DEF Mailroom
<1> HIDE DEF t
<1>6. Alike(s, t)
  BY <1>2, <1>4, <1>5 DEF Alike
<1>7. Fine(s, t)
  BY <1>1, <1>5, <1>6, AlikeIsFine
<1> QED
  BY <1>7 DEF t, b

LEMMA NoMailIs == MailBooks(NoMail)
<1> DEFINE s == NoMail
<1>1. s \in Mailroom
  <2>1. NoDraft \in Draft /\ 0 \in Slots /\ 0 \in Folders
    BY NoDraftIs, MailAssumption
  <2>2. /\ [n \in Slots |-> NoText] \in [Slots -> Texts \cup {NoText, BadAlias}]
        /\ [n \in Slots |-> 0] \in [Slots -> Nat]
        /\ [p \in Players |-> <<>>] \in [Players -> Seq(Message)]
        /\ [p \in Players |-> 0] \in [Players -> Folders]
        /\ [p \in Players |-> NoDraft] \in [Players -> Draft]
        /\ <<>> \in Seq(Players)
    BY <2>1
  <2> QED
    BY <2>1, <2>2 DEF NoMail, Mailroom
<1>2. /\ s.alias = <<>> /\ \A p \in Players : s.box[p] = <<>>
      /\ \A n \in Slots : s.count[n] = 0
  BY DEF NoMail
<1> HIDE DEF s
<1>3. IsInjective(s.alias)
  BY <1>2 DEF IsInjective
<1>4. \A p \in Players : DOMAIN s.box[p] = {}
  BY <1>2
<1>5. \A n \in Slots : Shows(s, n) = 0
  <2>1. s.box \in [Players -> Seq(Message)]
    BY <1>1 DEF Mailroom
  <2>2. \A n \in Slots : Showing(s.box, n) = {}
    BY <1>4, <2>1, PairOf
  <2> QED
    BY <2>2, FS_EmptySet DEF Shows
<1>6. ReadsTrue(s) /\ Covers(s)
  BY <1>2, <1>4, <1>5 DEF ReadsTrue, Covers
<1> QED
  BY <1>1, <1>3, <1>6 DEF MailBooks, s

-----------------------------------------------------------------------------
(* Connections within the bound.                                           *)
Bounds ==
  /\ budget \in [mail : Nat, channels : Nat, links : [Players -> Nat]]
  /\ \A p \in Players : links[p] <= budget.links[p]
Invariant == Switches /\ Bounds /\ MailBooks(post)

(* What every step does to the mail.                                       *)
WellDone ==
  /\ MailBooks(post') /\ GivesBack(post, post')
  /\ \/ post' = do_mail_nuke(post)
     \/ \A p \in Living \cap exists' : post' = Wiped(post, p) \/ SafeHere(post, post', p)

LEMMA FineIsWell ==
  ASSUME Fine(post, post')
  PROVE  WellDone
BY DEF Fine, WellDone, Living

LEMMA PurgesIsWell ==
  ASSUME MailBooks(post), NEW p, Purges(post, p, post'), p \notin exists' \/ post' = Wiped(post, p)
  PROVE  WellDone
<1>1. MailBooks(post') /\ GivesBack(post, post')
  BY GrowsGivesBack DEF Purges
<1>2. \A q \in Players : q # p => SafeHere(post, post', q)
  BY HoldsIsSafe DEF Purges
<1> QED
  BY <1>1, <1>2 DEF WellDone, Living

LEMMA LivingAre == Living \in SUBSET Players
BY DEF Living

LEMMA WriteStep ==
  ASSUME MailBooks(post), Room(post), NEW p \in Players, Write(p)
  PROVE  WellDone
<1>1. ASSUME NEW to \in Addressees, NEW text \in Texts, Mailed(do_mail_quick(post, p, to, text, Living))
      PROVE  WellDone
  <2>1. to \in Recipients
    BY ModulesAssumption
  <2>2. Fine(post, do_mail_quick(post, p, to, text, Living))
    BY <2>1, LivingAre, QuickIsFine
  <2> QED
    BY <1>1, <2>2, FineIsWell DEF Mailed
<1>2. ASSUME NEW to \in Addressees, Mailed(do_expmail_start(post, p, to, NoText, Living))
      PROVE  WellDone
  <2>1. to \in Recipients
    BY ModulesAssumption
  <2>2. Fine(post, do_expmail_start(post, p, to, NoText, Living))
    BY <2>1, StartIsFine
  <2> QED
    BY <1>2, <2>2, FineIsWell DEF Mailed
<1>3. ASSUME NEW text \in Texts, Mailed(do_postpend(post, p, text))
      PROVE  WellDone
  BY <1>3, PostpendIsFine, FineIsWell DEF Mailed
<1>4. ASSUME Mailed(do_expmail_stop(post, p, Living))
      PROVE  WellDone
  <2>1. Fine(post, do_expmail_stop(post, p, Living))
    BY LivingAre, StopIsFine
  <2> QED
    BY <1>4, <2>1, FineIsWell DEF Mailed
<1>5. ASSUME Mailed(do_expmail_abort(post, p))
      PROVE  WellDone
  BY <1>5, AbortIsFine, FineIsWell DEF Mailed
<1>6. ASSUME NEW n, NEW to \in Addressees, Mailed(do_mail_fwd(post, p, n, to, Living))
      PROVE  WellDone
  <2>1. to \in Recipients
    BY ModulesAssumption
  <2>2. Fine(post, do_mail_fwd(post, p, n, to, Living))
    BY <2>1, ForwardIsFine
  <2> QED
    BY <1>6, <2>2, FineIsWell DEF Mailed
<1>7. ASSUME NEW n, Mailed(do_mail_reply(post, p, n, Living))
      PROVE  WellDone
  <2>1. Fine(post, do_mail_reply(post, p, n, Living))
    BY ReplyIsFine
  <2> QED
    BY <1>7, <2>1, FineIsWell DEF Mailed
<1> QED
  BY <1>1, <1>2, <1>3, <1>4, <1>5, <1>6, <1>7 DEF Write

LEMMA SortStep ==
  ASSUME MailBooks(post), NEW p \in Players, Sort(p)
  PROVE  WellDone
<1>1. 0 \in Folders
  BY MailAssumption
<1>2. ASSUME NEW list
      PROVE  /\ Fine(post, do_mail_read(post, p, list)) /\ Fine(post, do_mail_safe(post, p, list))
             /\ Fine(post, do_mail_clear(post, p, list)) /\ Fine(post, do_mail_unclear(post, p, list))
             /\ \A f \in Folders : Fine(post, do_mail_file(post, p, list, f))
             /\ \A f \in Folders : Fine(post, do_mail_change_folder(post, p, f))
  BY <1>1, SortIsFine
<1>3. ASSUME NEW list,
             \/ Mailed(do_mail_read(post, p, list)) \/ Mailed(do_mail_safe(post, p, list))
             \/ Mailed(do_mail_clear(post, p, list)) \/ Mailed(do_mail_unclear(post, p, list))
             \/ \E f \in Folders : Mailed(do_mail_file(post, p, list, f))
      PROVE  WellDone
  BY <1>2, <1>3, FineIsWell DEF Mailed
<1>4. ASSUME NEW f \in Folders, Mailed(do_mail_change_folder(post, p, f))
      PROVE  WellDone
  BY <1>2, <1>4, FineIsWell DEF Mailed
<1>5. ASSUME Mailed(do_mail_purge(post, p))
      PROVE  WellDone
  BY <1>5, PurgeIsFine, FineIsWell DEF Mailed
<1>6. ASSUME NEW q \in Living, NEW list, Mailed(do_mail_retract(post, p, q, list))
      PROVE  WellDone
  <2>1. Fine(post, do_mail_retract(post, p, q, list))
    BY LivingAre, RetractIsFine
  <2> QED
    BY <1>6, <2>1, FineIsWell DEF Mailed
<1> QED
  BY <1>3, <1>4, <1>5, <1>6 DEF Sort

LEMMA PostmasterStep ==
  ASSUME MailBooks(post), Postmaster
  PROVE  WellDone
<1>1. ASSUME Mailed(do_mail_nuke(post)) PROVE WellDone
  BY <1>1, NukeIs DEF Mailed, WellDone
<1>2. ASSUME NEW q \in Living, Mailed(Wiped(post, q)) PROVE WellDone
  <2>1. Purges(post, q, Wiped(post, q))
    BY LivingAre, WipedIs
  <2> QED
    BY <1>2, <2>1, PurgesIsWell DEF Mailed
<1>3. ASSUME Mailed(Fixed(post, Living)) PROVE WellDone
  <2>1. /\ MailBooks(Fixed(post, Living)) /\ GivesBack(post, Fixed(post, Living))
        /\ \A p \in Players \cap Living : SafeHere(post, Fixed(post, Living), p)
    BY FixedIs
  <2> QED
    BY <1>3, <2>1, LivingAre DEF Mailed, WellDone
<1>4. ASSUME NEW q \in Living,
             \/ Mailed(do_malias_create(post, <<q>>)) \/ Mailed(do_malias_add(post, q))
             \/ Mailed(do_malias_remove(post, q))
      PROVE  WellDone
  <2>1. /\ Fine(post, do_malias_create(post, <<q>>)) /\ Fine(post, do_malias_add(post, q))
        /\ Fine(post, do_malias_remove(post, q))
    BY LivingAre, MaliasIsFine
  <2> QED
    BY <1>4, <2>1, FineIsWell DEF Mailed
<1>5. ASSUME Mailed(do_malias_delete(post)) PROVE WellDone
  <2>1. Fine(post, do_malias_delete(post))
    BY MailAssumption, MaliasIsFine
  <2> QED
    BY <1>5, <2>1, FineIsWell DEF Mailed
<1> QED
  BY <1>1, <1>2, <1>3, <1>4, <1>5 DEF Postmaster

LEMMA MailHooksStep ==
  ASSUME Invariant, Hooks
  PROVE  WellDone
<1>1. MailBooks(post) /\ Fine(post, post)
  BY StayIsFine DEF Invariant
<1>2. ASSUME post' = post PROVE WellDone
  BY <1>1, <1>2, FineIsWell
<1>3. ASSUME NEW p \in Players, Disconnect(p) PROVE WellDone
  <2>1. post' = do_mail_purge(post, p)
    BY <1>3 DEF Disconnect
  <2> QED
    BY <1>1, <2>1, PurgeIsFine, FineIsWell
<1>4. ASSUME NEW p \in Players, DestroyPlayer(p) PROVE WellDone
  <2> DEFINE u == IF links[p] = 0 THEN post ELSE do_mail_purge(post, p)
  <2>1. p \notin exists' /\ post' = ForgetPlayer(u, p)
    BY <1>4 DEF DestroyPlayer
  <2>2. Purges(post, p, u)
    <3>1. Purges(post, p, do_mail_purge(post, p))
      BY <1>1, PurgeIs
    <3>2. Purges(post, p, post)
      <4>1. \A n \in Slots : Shows(post, n) \in Nat /\ post.count[n] \in Nat
        BY <1>1, ShowsTypes
      <4> QED
        BY <1>1, <4>1 DEF Purges, Shrinks, Holds
    <3> QED
      BY <3>1, <3>2
  <2> HIDE DEF u
  <2>3. Purges(u, p, ForgetPlayer(u, p))
    BY <2>2, ForgetIs DEF Purges
  <2>4. Purges(post, p, ForgetPlayer(u, p))
    BY <1>1, <2>2, <2>3, PurgesOn
  <2> QED
    BY <1>1, <2>1, <2>4, PurgesIsWell
<1>5. ASSUME Restart PROVE WellDone
  <2>1. /\ MailBooks(Reloaded(post, Living)) /\ GivesBack(post, Reloaded(post, Living))
        /\ \A p \in Players \cap Living : SafeHere(post, Reloaded(post, Living), p)
    BY <1>1, ReloadedIs
  <2> QED
    BY <1>5, <2>1, LivingAre DEF Restart, WellDone
<1>6. ASSUME DaysPass PROVE WellDone
  <2> DEFINE b == [p \in Players |->
                     [i \in DOMAIN post.box[p] |-> [post.box[p][i] EXCEPT !.old = TRUE]]]
  <2>1. Fine(post, [post EXCEPT !.box = b])
    BY <1>1, OldIsFine
  <2>2. post' = [post EXCEPT !.box = b]
    BY <1>6 DEF DaysPass
  <2> HIDE DEF b
  <2> QED
    BY <2>1, <2>2, FineIsWell
<1> QED
  BY <1>2, <1>3, <1>4, <1>5, <1>6 DEF Hooks, Connect, CreatePlayer, DestroyThing

LEMMA ChannelsApart ==
  ChannelCommands => /\ UNCHANGED <<exists, links, post>> /\ budget.channels > 0
                     /\ budget' = [budget EXCEPT !.channels = @ - 1]
<1>1. \A q : Chat(q) => /\ UNCHANGED <<exists, links, post>>
                        /\ budget' = [budget EXCEPT !.channels = @ - 1]
  BY DEF Chat, Switched
<1>2. \A q : Clearcom(q) => /\ UNCHANGED <<exists, links, post>>
                            /\ budget' = [budget EXCEPT !.channels = @ - 1]
  BY DEF Clearcom, Switched
<1>3. \A p, ch : Administer(p, ch) => /\ UNCHANGED <<exists, links, post>>
                                      /\ budget' = [budget EXCEPT !.channels = @ - 1]
  BY DEF Administer, Switched
<1> QED
  BY <1>1, <1>2, <1>3 DEF ChannelCommands

LEMMA MailSpends ==
  MailCommands => budget.mail > 0 /\ budget' = [budget EXCEPT !.mail = @ - 1]
<1>1. \A p : Write(p) => budget' = [budget EXCEPT !.mail = @ - 1]
  BY DEF Write, Mailed
<1>2. \A p : Sort(p) => budget' = [budget EXCEPT !.mail = @ - 1]
  BY DEF Sort, Mailed
<1>3. Postmaster => budget' = [budget EXCEPT !.mail = @ - 1]
  BY DEF Postmaster, Mailed
<1> QED
  BY <1>1, <1>2, <1>3 DEF MailCommands

LEMMA MailStep ==
  ASSUME Invariant, [Next]_vars
  PROVE  WellDone
<1>1. MailBooks(post)
  BY DEF Invariant
<1>2. CASE Hooks
  BY <1>2, MailHooksStep
<1>3. CASE MailCommands
  <2>1. Room(post)
    BY <1>3 DEF MailCommands, EmptySlots, Empty, Room
  <2> QED
    BY <1>1, <1>3, <2>1, LivingAre, WriteStep, SortStep, PostmasterStep DEF MailCommands
<1>4. CASE post' = post
  BY <1>1, <1>4, StayIsFine, FineIsWell
<1> QED
  BY <1>2, <1>3, <1>4, ChannelsApart DEF Next, vars

LEMMA BoundsStep ==
  ASSUME Invariant, [Next]_vars
  PROVE  Bounds'
<1>1. /\ budget \in [mail : Nat, channels : Nat, links : [Players -> Nat]]
      /\ links \in [Players -> Nat] /\ \A p \in Players : links[p] <= budget.links[p]
  BY DEF Invariant, Bounds, Switches, World
<1>2. budget.mail \in Nat /\ budget.channels \in Nat /\ budget.links \in [Players -> Nat]
  BY <1>1
<1>3. CASE links' = links /\ budget' = budget
  BY <1>1, <1>3 DEF Bounds
<1>4. ASSUME NEW p \in Players, Connect(p) PROVE Bounds'
  <2>1. links[p] < budget.links[p] /\ links' = [links EXCEPT ![p] = @ + 1] /\ budget' = budget
    BY <1>4 DEF Connect
  <2>2. \A q \in Players : links'[q] = IF q = p THEN links[q] + 1 ELSE links[q]
    BY <1>1, <2>1
  <2>3. \A q \in Players : links'[q] <= budget.links[q]
    BY <1>1, <1>2, <2>1, <2>2
  <2> QED
    BY <1>1, <2>1, <2>3 DEF Bounds
<1>5. ASSUME NEW p \in Players, NEW k \in Nat, k <= links[p],
             links' = [links EXCEPT ![p] = k], budget' = budget
      PROVE  Bounds'
  <2>1. \A q \in Players : links'[q] = IF q = p THEN k ELSE links[q]
    BY <1>1, <1>5
  <2>2. \A q \in Players : links'[q] <= budget.links[q]
    BY <1>1, <1>2, <1>5, <2>1
  <2> QED
    BY <1>1, <1>5, <2>2 DEF Bounds
<1>6. ASSUME NEW p \in Players, Disconnect(p) PROVE Bounds'
  <2>1. links[p] > 0 /\ links' = [links EXCEPT ![p] = links[p] - 1] /\ budget' = budget
    BY <1>6 DEF Disconnect
  <2>2. links[p] - 1 \in Nat /\ links[p] - 1 <= links[p]
    BY <1>1, <2>1
  <2> QED
    BY <1>5, <2>1, <2>2
<1>7. ASSUME NEW p \in Players, DestroyPlayer(p) PROVE Bounds'
  <2>1. links' = [links EXCEPT ![p] = 0] /\ budget' = budget
    BY <1>7 DEF DestroyPlayer
  <2>2. 0 <= links[p]
    BY <1>1
  <2> QED
    BY <1>5, <2>1, <2>2
<1>8. CASE MailCommands
  <2>1. links' = links /\ budget.mail > 0 /\ budget' = [budget EXCEPT !.mail = @ - 1]
    BY <1>8, MailApart, MailSpends
  <2>2. budget.mail - 1 \in Nat
    BY <1>2, <2>1
  <2>3. budget' \in [mail : Nat, channels : Nat, links : [Players -> Nat]]
        /\ budget'.links = budget.links
    BY <1>1, <2>1, <2>2
  <2> QED
    BY <1>1, <2>1, <2>3 DEF Bounds
<1>9. CASE ChannelCommands
  <2>1. links' = links /\ budget.channels > 0 /\ budget' = [budget EXCEPT !.channels = @ - 1]
    BY <1>9, ChannelsApart
  <2>2. budget.channels - 1 \in Nat
    BY <1>2, <2>1
  <2>3. budget' \in [mail : Nat, channels : Nat, links : [Players -> Nat]]
        /\ budget'.links = budget.links
    BY <1>1, <2>1, <2>2
  <2> QED
    BY <1>1, <2>1, <2>3 DEF Bounds
<1>10. CASE Hooks
  <2>1. \A p \in Players : CreatePlayer(p) => links' = links /\ budget' = budget
    BY DEF CreatePlayer
  <2>2. \A x \in Things : DestroyThing(x) => links' = links /\ budget' = budget
    BY DEF DestroyThing
  <2>3. Restart \/ DaysPass => links' = links /\ budget' = budget
    BY DEF Restart, DaysPass
  <2> QED
    BY <1>3, <1>4, <1>6, <1>7, <1>10, <2>1, <2>2, <2>3 DEF Hooks
<1> QED
  BY <1>3, <1>8, <1>9, <1>10 DEF Next, vars

LEMMA InvariantHolds == Spec => []Invariant
<1>1. Init => Invariant
  <2> SUFFICES ASSUME Init
               PROVE  Invariant
    OBVIOUS
  <2>1. Switches
    BY InitSwitches
  <2>2. MailBooks(post)
    BY NoMailIs DEF Init
  <2>3. /\ budget \in [mail : Nat, channels : Nat, links : [Players -> Nat]]
        /\ \A p \in Players : links[p] = 0
    BY ModulesAssumption DEF Init
  <2>4. budget.links \in [Players -> Nat]
    BY <2>3
  <2>5. Bounds
    BY <2>3, <2>4 DEF Bounds
  <2> QED
    BY <2>1, <2>2, <2>5 DEF Invariant
<1>2. Invariant /\ [Next]_vars => Invariant'
  <2> SUFFICES ASSUME Invariant, [Next]_vars
               PROVE  Invariant'
    OBVIOUS
  <2>1. Switches'
    BY SwitchesStep DEF Invariant
  <2>2. Bounds'
    BY BoundsStep
  <2>3. MailBooks(post')
    BY MailStep DEF WellDone
  <2> QED
    BY <2>1, <2>2, <2>3 DEF Invariant
<1> QED
  BY <1>1, <1>2, PTL DEF Spec

-----------------------------------------------------------------------------
(* Messages show what was sent, and a slot that is shown is counted and     *)
(* has a text, through sending, replies, drafts and aliases, purging,       *)
(* retracting, expiry and @mail/nuke, destroyed players whose numbers are   *)
(* used again and restarts (mail.c).                                        *)
THEOREM MailStaysTrue == Spec => []MailInv
<1>1. Invariant => MailInv
  <2> SUFFICES ASSUME Invariant
               PROVE  MailInv
    OBVIOUS
  <2>1. Switches /\ Bounds /\ MailBooks(post)
    BY DEF Invariant
  <2>2. TypeOK
    <3>1. \A p \in Players : links[p] \in 0 .. budget.links[p]
      <4>1. links \in [Players -> Nat] /\ budget.links \in [Players -> Nat]
        BY <2>1 DEF Switches, World, Bounds
      <4> QED
        BY <2>1, <4>1 DEF Bounds
    <3> QED
      BY <2>1, <3>1 DEF TypeOK, Switches, World, Sound, Agrees, MailBooks
  <2>3. MailReadsTrue
    BY <2>1 DEF MailBooks, ReadsTrue, MailReadsTrue
  <2>4. CountsCover
    BY <2>1 DEF MailBooks, Covers, CountsCover, Shows, Shown
  <2> QED
    BY <2>2, <2>3, <2>4 DEF MailInv
<1> QED
  BY <1>1, InvariantHolds, PTL

(* Texts are given back: whatever takes messages away takes as much from    *)
(* the counts of the slots they showed (mail.c).                            *)
THEOREM MailGivesBack == Spec => TextsGivenBack
<1>1. Invariant /\ [Next]_vars =>
        [\A n \in Slots :
           LET gone == Shown(n) - Shown(n)'
           IN gone > 0 => post'.count[n] <= post.count[n] - gone]_vars
  <2> SUFFICES ASSUME Invariant, [Next]_vars, NEW n \in Slots,
                      Shown(n) - Shown(n)' > 0
               PROVE  post'.count[n] <= post.count[n] - (Shown(n) - Shown(n)')
    OBVIOUS
  <2>1. GivesBack(post, post') /\ MailBooks(post') /\ MailBooks(post)
    BY MailStep DEF WellDone, Invariant
  <2>2. Shown(n) = Shows(post, n) /\ Shown(n)' = Shows(post', n)
    BY DEF Shown, Shows
  <2>3. Shows(post, n) \in Nat /\ Shows(post', n) \in Nat
    BY <2>1, ShowsTypes
  <2> QED
    BY <2>1, <2>2, <2>3 DEF GivesBack
<1> QED
  BY <1>1, InvariantHolds, PTL DEF Spec, TextsGivenBack

(* What is safe, read and not cleared stays with whoever exists, unless the *)
(* wizard clears that list or all of the mail (mail.c).                     *)
THEOREM MailThatIsSafeStays == Spec => SafeStays
<1>1. Invariant /\ [Next]_vars =>
        [\/ post' = do_mail_nuke(post)
         \/ \A p \in Living \cap exists' :
              \/ post' = Wiped(post, p)
              \/ \A i \in DOMAIN post.box[p] : Kept(post.box[p][i]) =>
                   \E j \in DOMAIN post'.box[p] :
                     Likeness(post'.box[p][j]) = Likeness(post.box[p][i])]_vars
  <2> SUFFICES ASSUME Invariant, [Next]_vars
               PROVE  \/ post' = do_mail_nuke(post)
                      \/ \A p \in Living \cap exists' :
                           \/ post' = Wiped(post, p)
                           \/ SafeHere(post, post', p)
    BY DEF SafeHere
  <2> QED
    BY MailStep DEF WellDone
<1> QED
  BY <1>1, InvariantHolds, PTL DEF Spec, SafeStays
=============================================================================
