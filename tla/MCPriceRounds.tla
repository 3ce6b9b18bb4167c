--------------------------- MODULE MCPriceRounds ---------------------------
(* Instance of PriceRounds for TLC: two vaults, prices at which they are   *)
(* above the opening ratio, between it and the trigger, and below.         *)
EXTENDS PriceRounds

MCVaultStates == {[value |-> 4, debt |-> 4], [value |-> 6, debt |-> 4]}
MCWithdrawals == {-1, 0, 1, 2}
MCPrices == {0, 2, 3, 5}
=============================================================================
