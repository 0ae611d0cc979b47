--------------------------- MODULE MCCommandQueue ---------------------------
(***************************************************************************)
(* Values for model checking CommandQueue: two players, the first of whom  *)
(* may own a thing, and the thing is also the semaphore.                   *)
(***************************************************************************)
EXTENDS LedgerRefinement

CONSTANTS alice, bob, box, Semaphore

MCPlayers == {alice, bob}
MCThings == {box}
MCSems == {<<box, Semaphore>>}

Each(n) == [p \in MCPlayers |-> n]
Two == Each(2)
Three == Each(3)

JustBox == {<<box, box>>}
AliceAndBox == {<<alice, alice>>, <<box, box>>}
HaltBox == {<<Nothing, box>>}
HaltAlice == {<<alice, Nothing>>}

AnyTime == {[mode |-> "until", val |-> -1], [mode |-> "until", val |-> 11],
            [mode |-> "shift", val |-> 2],
            [mode |-> "set", val |-> 1]}

BoxToBob == {<<box, bob>>}
AliceToBob == {<<alice, bob>>}
=============================================================================
