--------------------------- MODULE MCOracleFeeds ---------------------------
(* Instance of OracleFeeds for TLC: readings at, far below and above their *)
(* baselines, refused ones, and a network that reports no fee.             *)
EXTENDS OracleFeeds

MCWeights == [hashrate |-> 40, energy |-> 30, fees |-> 20, adoption |-> 10]
MCEnergy == {0, 5, 120}
MCAdoption == {-1, 600}
MCHashrate == {0, 100, 150}
MCFees == {0, 80}
MCSteps == {1, -1}
=============================================================================
