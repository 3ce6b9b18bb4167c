--------------------------- MODULE MCVaultManager --------------------------
(* Instance of VaultManager for TLC with the frozen parameters and prices  *)
(* in halves.  Minting 50 costs a fee of 1 and minting 100 one of 2, so    *)
(* debts are multiples of 51 and callers repay multiples of 51.            *)
EXTENDS VaultManager

MCMintAmounts == {0, 50, 100}
MCBurnAmounts == {0, 51, 102}
MCKasAmounts == {0, 35, 70}

(* KAS at 3.0 and 2.0, kFIAT at par or below it.                           *)
MCMarketsToPar ==
  {[kas |-> 6, enrk |-> 2, kfiat |-> 2], [kas |-> 4, enrk |-> 2, kfiat |-> 2],
   [kas |-> 4, enrk |-> 2, kfiat |-> 1]}
=============================================================================
