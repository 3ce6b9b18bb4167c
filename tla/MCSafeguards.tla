---------------------------- MODULE MCSafeguards ---------------------------
(* Instance of Safeguards for TLC.  With the frozen weights the readings   *)
(* make pegs within the threshold of ten percent, just beyond it and far   *)
(* beyond it, on both sides; adoption is reported at its baseline only.    *)
EXTENDS Safeguards

MCWeights == [hashrate |-> 40, energy |-> 30, fees |-> 20, adoption |-> 10]
MCEnergy == {0, 55, 900}
MCAdoption == {100}
MCHashrate == {0, 100, 450}
MCFees == {0, 90}
MCSources == {"band", "fallback", "dex"}
MCPrices == {0, 1}
MCSteps == {1}
MCOnTimeOrLate == {0, -1}
MCAhead == {0, 1}
=============================================================================
