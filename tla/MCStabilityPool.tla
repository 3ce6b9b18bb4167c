-------------------------- MODULE MCStabilityPool --------------------------
(* Instance of StabilityPool for TLC: an allocation and fees of which the  *)
(* share is cut, the whole one of 50 (0.58 * 50.0 is 28.999999999999996)   *)
(* included, and prices of zero, below and at the peg, and above.  The     *)
(* frozen allocation of 80 percent never cuts a whole share.               *)
EXTENDS StabilityPool

MCFeeAmounts == {0, 3, 50}
MCCutShort == {50}
MCProceeds == {-1, 0, 3}
MCBuybacks == {0, 1, 5}
MCPrices == {0, 50, 95, 100, 105}
=============================================================================
