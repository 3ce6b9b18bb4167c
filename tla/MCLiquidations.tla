-------------------------- MODULE MCLiquidations ---------------------------
(* Instance of Liquidations for TLC: two vaults, the frozen ratios, prices *)
(* in quarters, auctions of two minutes.                                   *)
EXTENDS Liquidations

MCMintAmounts == {50}
MCBurnAmounts == {51}
MCKasAmounts == {70}
MCBids == {51, 60}
MCForward == {1}

(* KAS at 1.5, 1.25 and 0.5, the others at par: a vault of 70 KAS that     *)
(* owes 51 is above the minimum ratio, between it and the trigger, and so  *)
(* far below the trigger that 70 KAS more leave it a candidate.            *)
MCMarkets == {[kas |-> k, enrk |-> 4, kfiat |-> 4] : k \in {6, 5, 2}}

(* KAS at 1.0 and at the 0.5 of the code's own auction tests.              *)
MCMarketsLow == {[kas |-> k, enrk |-> 4, kfiat |-> 4] : k \in {4, 2}}
=============================================================================
