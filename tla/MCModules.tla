----------------------------- MODULE MCModules ------------------------------
(* Small instances for TLC.  Player 1 is God; player 2 is made, destroyed  *)
(* and made again.                                                         *)
EXTENDS Modules

MCAddressees == {<<1, 2>>, <<2>>, <<Alias>>}
MCBudgets ==
  {[mail |-> 3, channels |-> 0, links |-> <<0, 1>>],
   [mail |-> 0, channels |-> 4, links |-> <<1, 2>>],
   [mail |-> 1, channels |-> 1, links |-> <<1, 1>>]}
=============================================================================
