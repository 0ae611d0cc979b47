------------------------------ MODULE Accounts ------------------------------
(***************************************************************************)
(* What objects cost and who pays (predicates.c, quota.c, and the commands *)
(* of create.c, object.c, set.c, walkdb.c, wiz.c and rob.c that move       *)
(* coins, quota and ownership).  d is the database, as far as it says what *)
(* there is and whose it is; a function of the code is an operator on it.  *)
(* Quotas are on and not by type (typed_quotas off).  God is the only      *)
(* wizard: what is God's is free of charge.                                *)
(***************************************************************************)
EXTENDS Integers, FiniteSets, FiniteSetsExt, Functions

CONSTANTS
  N,                     (* objects have the numbers 1 .. N (a bound)      *)
  God,
  Price,                 (* digcost, opencost, robotcost: by type          *)
  Quota,                 (* room_quota, exit_quota, thing_quota and        *)
                         (* player_quota: by type                          *)
  LinkCost, CreateMin, CreateMax, SacFactor, SacAdjust, CopyCost,
  PayStart, StartQuota   (* the parameters of these names                  *)

Numbers == 1 .. N
Types == {"ROOM", "THING", "EXIT", "PLAYER", "ROBOT"}

(* For garbage, linked says that the number is on the freelist.            *)
Object ==
  [type : Types \cup {"GARBAGE"}, owner : Numbers, going : BOOLEAN,
   linked : BOOLEAN, coins : Int, quota : Int, rquota : Int]
Garbage ==
  [type |-> "GARBAGE", owner |-> God, going |-> TRUE, linked |-> FALSE,
   coins |-> 0, quota |-> 0, rquota |-> 0]

Good(d, n) == d[n].type # "GARBAGE"
IsPlayer(d, n) == d[n].type \in {"PLAYER", "ROBOT"}
Free(d, who) == d[who].owner = God
Inherits(d, n) == d[n].owner = n
Controls(d, p, x) ==
  /\ Good(d, x) /\ (x = God => p = God)
  /\ \/ p = God
     \/ d[p].owner = d[x].owner /\ (Inherits(d, p) \/ ~Inherits(d, x))
----------------------------------------------------------------------------
(***************************************************************************)
(* Payments.  Whoever acts, the owner pays.                                *)
(***************************************************************************)
CanPay(d, who, cost) ==
  Free(d, who) \/ (d[d[who].owner].coins >= 0 /\ d[d[who].owner].coins >= cost)
payfor(d, who, cost) ==
  IF Free(d, who) \/ ~CanPay(d, who, cost) THEN d
  ELSE [d EXCEPT ![d[who].owner].coins = @ - cost]

giveto(d, who, coins) ==
  IF Free(d, who) THEN d ELSE [d EXCEPT ![d[who].owner].coins = @ + coins]

add_quota(d, who, payment) ==
  IF Good(d, d[who].owner) THEN [d EXCEPT ![d[who].owner].rquota = @ + payment] ELSE d

payfees(d, who, cost, quota) == payfor(add_quota(d, who, -quota), who, cost)

canpayfees(d, who, cost, quota) ==
  \/ Free(d, who)
  \/ /\ d[d[who].owner].coins >= cost
     /\ quota <= 0 \/ d[d[who].owner].rquota >= quota

OBJECT_ENDOWMENT(cost) == cost \div SacFactor + SacAdjust
OBJECT_DEPOSIT(coins) == (coins - SacAdjust) * SacFactor

(* What is paid back for an object, and paid to become its owner.          *)
Deposit(d, n) ==
  CASE d[n].type = "THING" -> OBJECT_DEPOSIT(d[n].coins)
    [] d[n].type = "PLAYER" -> 0
    [] OTHER -> Price[d[n].type]

(* count_objquota, and what mung_quotas does with it under @quota/fix.     *)
Objects(d, p) == {i \in Numbers : Good(d, i) /\ d[i].owner = p}
QuotaOf(d, S) == SumFunctionOnSet([i \in S |-> Quota[d[i].type]], S)
count_objquota(d, p) ==
  QuotaOf(d, {i \in Objects(d, p) : d[i].going => d[i].type = "ROOM"})
mung_quotas_fix(d, p, total) ==
  LET used == count_objquota(d, p)
  IN IF total THEN [d EXCEPT ![p].rquota = @ + used]
     ELSE [d EXCEPT ![p].quota = IF @ > used THEN @ - used ELSE 0]
(* adjust_quota, of the remaining or of the total quota                    *)
adjust_quota(d, p, value, remaining) ==
  IF remaining
  THEN [d EXCEPT ![p].rquota = value, ![p].quota = @ + value - d[p].rquota]
  ELSE [d EXCEPT ![p].quota = value, ![p].rquota = @ + value - d[p].quota]
----------------------------------------------------------------------------
(***************************************************************************)
(* Making objects.  The number is the head of the freelist; without one,   *)
(* the database is at its building_limit.                                  *)
(***************************************************************************)
Nobody == 0      (* the creator of a player who comes from the login screen *)
Freelist(d) == {n \in Numbers : ~Good(d, n) /\ d[n].linked}
Next_number(d) == Min(Freelist(d))
Clamp(cost) == Max({CreateMin, Min({CreateMax, cost})})

CostOf(type, asked) ==
  CASE type = "THING" -> Clamp(asked) [] type = "PLAYER" -> 0 [] OTHER -> Price[type]
QuotaFor(type) == IF type = "PLAYER" THEN StartQuota ELSE Quota[type]

CanCreate(d, creator, type, asked) ==
  /\ Freelist(d) # {}
  /\ creator # Nobody => canpayfees(d, creator, CostOf(type, asked), QuotaFor(type))
  /\ type = "ROBOT" => Inherits(d, creator)

(* The creator pays, also the quota a new player starts with; a new player *)
(* has the quota it starts with and pays for itself.                       *)
create_obj(d, creator, type, asked) ==
  LET n == Next_number(d)
      paid == IF creator = Nobody THEN d
              ELSE payfees(d, creator, CostOf(type, asked), QuotaFor(type))
      own == CASE type = "PLAYER" -> StartQuota [] type = "ROBOT" -> Quota["PLAYER"] [] OTHER -> 0
      born == [type |-> type, going |-> FALSE, linked |-> FALSE,
               owner |-> IF type = "PLAYER" THEN n ELSE d[creator].owner,
               coins |-> CASE type = "THING" -> OBJECT_ENDOWMENT(Clamp(asked))
                           [] type = "PLAYER" -> PayStart
                           [] OTHER -> 0,
               quota |-> own,
               rquota |-> IF type = "PLAYER" THEN own - Quota["PLAYER"] ELSE own]
  IN [paid EXCEPT ![n] = born]

(* _create_open_exit: the link is one more payment, which may fail.        *)
Opened(d, p, linkto) ==
  IF ~CanCreate(d, p, "EXIT", 0) THEN d
  ELSE LET made == create_obj(d, p, "EXIT", 0)
       IN IF linkto /\ CanPay(made, p, LinkCost)
          THEN [payfor(made, p, LinkCost) EXCEPT ![Next_number(d)].linked = TRUE]
          ELSE made

(* _create_link_exit, which @clone calls for rooms too: whoever links what *)
(* is another's becomes the owner.                                         *)
LinkFee(d, p, x) ==
  IF d[x].owner = d[p].owner THEN [cost |-> LinkCost, quota |-> 0]
  ELSE [cost |-> LinkCost + Price["EXIT"], quota |-> Quota["EXIT"]]
CanLink(d, p, x) ==
  /\ d[x].linked => Controls(d, p, x)
  /\ canpayfees(d, p, LinkFee(d, p, x).cost, LinkFee(d, p, x).quota)
(* Mutant of Linked: the old owner does not get back what it paid. *)
Linked_unreturned(d, p, x) ==
  [payfees(d, p, LinkFee(d, p, x).cost, LinkFee(d, p, x).quota)
     EXCEPT ![x].owner = d[p].owner, ![x].linked = TRUE]
Linked(d, p, x) ==
  LET paid == payfees(d, p, LinkFee(d, p, x).cost, LinkFee(d, p, x).quota)
      moved == payfees(paid, d[x].owner, -Price["EXIT"], -Quota["EXIT"])
  IN IF d[x].owner = d[p].owner THEN [paid EXCEPT ![x].linked = TRUE]
     ELSE [moved EXCEPT ![x].owner = d[p].owner, ![x].linked = TRUE]

(* create_do_clone.  The endowment is that of the cost before it is        *)
(* clamped; asked is the cost of @clone/cost, if it is not NotAsked;       *)
(* linkable: the room x is linked to may be linked to by p.  A clone of    *)
(* what is going is going.                                                 *)
NotAsked == -1
CloneOwner(d, p, x, preserve) ==
  IF preserve /\ (d[x].owner = d[p].owner \/ Controls(d, p, d[x].owner))
  THEN d[x].owner ELSE d[p].owner
CloneCost(d, x, asked) ==
  IF asked # NotAsked THEN Clamp(asked) ELSE OBJECT_DEPOSIT(IF CopyCost THEN d[x].coins ELSE 1)
CanClone(d, p, x, preserve, asked) ==
  Good(d, x) /\ ~IsPlayer(d, x)
    /\ CanCreate(d, CloneOwner(d, p, x, preserve), d[x].type, CloneCost(d, x, asked))
Cloned(d, p, x, preserve, asked, linkable) ==
  LET n == Next_number(d)
      cost == CloneCost(d, x, asked)
      made == [create_obj(d, CloneOwner(d, p, x, preserve), d[x].type, cost)
                 EXCEPT ![n].going = d[x].going]
  IN IF d[x].type = "THING"
     THEN [made EXCEPT ![n].coins = OBJECT_ENDOWMENT(cost)]
     ELSE IF d[x].linked /\ linkable /\ CanLink(made, p, n) THEN Linked(made, p, n)
     ELSE made
----------------------------------------------------------------------------
(***************************************************************************)
(* Giving objects away and destroying them.                                *)
(***************************************************************************)
(* The fees of do_chown: for any player what a robot costs.                *)
ChownFee(d, x) == IF IsPlayer(d, x) THEN Price["ROBOT"] ELSE Deposit(d, x)
do_chown(d, p, x, owner) ==
  LET paid == payfees(d, owner, ChownFee(d, x), Quota[d[x].type])
      back == payfees(paid, d[x].owner, -ChownFee(d, x), -Quota[d[x].type])
  IN [back EXCEPT ![x].owner = IF p = God THEN owner ELSE d[owner].owner]

(* Robots become their own; things that are going stay with their owner.   *)
Holder(d, n) == IF IsPlayer(d, n) THEN n ELSE d[n].owner
chown_all(d, from, to) ==
  LET f == Holder(d, from)
      t == Holder(d, to)
      moved == {i \in Objects(d, f) \ {f} : ~(d[i].type = "THING" /\ d[i].going)}
      given == [i \in Numbers |->
                 IF i \notin moved THEN d[i]
                 ELSE [d[i] EXCEPT !.owner = IF IsPlayer(d, i) THEN i ELSE t]]
      q == QuotaOf(d, moved)
  IN IF f = God /\ t # God THEN d
     ELSE add_quota(add_quota(given, t, -q), f, q)

destroy_obj(d, n) ==
  LET o == d[n].owner
      back == IF IsPlayer(d, o) /\ o # n
              THEN payfees(d, o, -Deposit(d, n), -Quota[d[n].type]) ELSE d
  IN [back EXCEPT ![n] = Garbage]
destroy_player(d, n) == destroy_obj(chown_all(d, n, God), n)
Destroyed(d, n) == IF IsPlayer(d, n) THEN destroy_player(d, n) ELSE destroy_obj(d, n)

(* do_dbck: the freelist, owners who are gone, and what is GOING.          *)
make_freelist(d) ==
  [n \in Numbers |-> IF Good(d, n) THEN d[n] ELSE [d[n] EXCEPT !.linked = TRUE]]
check_owners(d) ==
  [n \in Numbers |->
     IF Good(d, n) /\ ~Good(d, d[n].owner) THEN [d[n] EXCEPT !.owner = God] ELSE d[n]]
purge_going(d) ==
  LET purged[i \in 0 .. N] ==
        IF i = 0 THEN d
        ELSE IF Good(purged[i - 1], i) /\ purged[i - 1][i].going
             THEN Destroyed(purged[i - 1], i) ELSE purged[i - 1]
  IN purged[N]
do_dbck(d) == purge_going(check_owners(make_freelist(d)))

(* do_toad: a player becomes a thing.                                      *)
do_toad(d, victim, to, chown) ==
  LET left == IF chown
              THEN [chown_all(d, victim, to) EXCEPT ![victim].owner = to]
              ELSE d
  IN [left EXCEPT ![victim].type = "THING", ![victim].coins = 1,
                  ![victim].going = FALSE, ![victim].linked = FALSE]
----------------------------------------------------------------------------
(***************************************************************************)
(* Pockets.                                                                *)
(***************************************************************************)
(* give_money; price is the A_COST of a thing.                             *)
CanGive(d, p, x, amount, PayLimit) ==
  /\ Good(d, x) /\ d[x].type # "EXIT" /\ amount # 0
  /\ amount < 0 => p = God
  /\ p # God /\ IsPlayer(d, x) /\ amount > 0 => d[x].coins <= PayLimit - amount
  /\ CanPay(d, p, amount)
give_money(d, p, x, amount, price) ==
  LET given == payfor(d, p, amount)
      cost == IF d[x].type = "THING" THEN price ELSE amount
      refused == d[x].type = "THING" /\ (amount < price \/ price < 0)
  IN IF refused THEN giveto(given, p, amount)
     ELSE giveto(giveto(given, p, amount - cost), x, cost)

(* do_kill, if it succeeds: half of it is the insurance.                   *)
Killed(d, p, x, cost, PayLimit) ==
  LET paid == payfor(d, p, cost)
  IN IF paid[d[x].owner].coins < PayLimit
     THEN giveto(paid, d[x].owner, cost \div 2) ELSE paid

do_poor(d, limit) ==
  [n \in Numbers |->
     IF IsPlayer(d, n) /\ d[n].coins > limit THEN [d[n] EXCEPT !.coins = limit] ELSE d[n]]
=============================================================================
