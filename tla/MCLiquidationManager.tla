------------------------ MODULE MCLiquidationManager -----------------------
(* Instance of LiquidationManager for TLC: two vaults below the trigger at *)
(* some prices, prices in halves, an auction of four minutes of two ticks, *)
(* down to the 85% of the code's default.                                  *)
EXTENDS LiquidationManager

MCVaultIds == {1, 2}

(* The vault of the code's own tests, and one that is healthy at the       *)
(* higher prices.                                                          *)
MCVaultStates ==
  {[collateral |-> 100, enrk |-> 50, kfiat |-> 10],
   [collateral |-> 100, enrk |-> 120, kfiat |-> 0]}

(* KAS at 0.5, 1.0 and 2.0.                                                *)
MCMarkets == {[kas |-> k, enrk |-> 2, kfiat |-> 2] : k \in {1, 2, 4}}

MCBids == {0, 30, 60, 75, 125, 140}

MCForward == {1}
=============================================================================
