-------------------------- MODULE MCCommandLedger --------------------------
(* Values for model checking CommandLedger. *)
EXTENDS CommandLedger

CONSTANTS alice, bob

MCPlayers == {alice, bob}
MCLimit == [p \in MCPlayers |-> IF p = alice THEN 2 ELSE 1]
MCFunds == [p \in MCPlayers |-> 7]
=============================================================================
