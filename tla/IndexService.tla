---------------------------- MODULE IndexService ---------------------------
(***************************************************************************)
(* What a caller who asks the oracle feeds while they are fresh may count  *)
(* on, without caches, times and time stamps: the feeds report readings in *)
(* any order, and an answer is made of the last readings reported before   *)
(* the question.                                                           *)
(*                                                                         *)
(* OracleFeeds is shown to implement this module, and Safeguards builds on *)
(* this module in place of OracleFeeds.                                    *)
(***************************************************************************)
EXTENDS PegIndices

CONSTANTS
  EnergyReports, AdoptionReports, HashrateReports, FeeReports

VARIABLES
  readings,   \* the last reading of each source
  answer,     \* what the last question was answered: {} or {indices}
  current     \* whether it was asked after the last report

vars == <<readings, answer, current>>

(* The Kaspa feed starts without readings, the others at their baselines.  *)
Init ==
  /\ readings = [s \in Sources |-> IF s \in {"energy", "adoption"} THEN 100 ELSE 0]
  /\ answer = {} /\ current = FALSE

ReportEnergy(v) ==
  /\ v > 0
  /\ readings' = [readings EXCEPT !["energy"] = v]
  /\ current' = FALSE
  /\ UNCHANGED answer

ReportAdoption(v) ==
  /\ v > 0
  /\ readings' = [readings EXCEPT !["adoption"] = v]
  /\ current' = FALSE
  /\ UNCHANGED answer

(* Hashrate and fee come in one report, and the fee is not looked at.      *)
ReportNetwork(hashrate, fee) ==
  /\ hashrate > 0
  /\ readings' = [readings EXCEPT !["hashrate"] = hashrate, !["fees"] = fee]
  /\ current' = FALSE
  /\ UNCHANGED answer

Ask ==
  /\ answer' = IF Indexable(readings) THEN {Indices(readings)} ELSE {}
  /\ current' = TRUE
  /\ UNCHANGED readings

Next ==
  \/ \E v \in EnergyReports : ReportEnergy(v)
  \/ \E v \in AdoptionReports : ReportAdoption(v)
  \/ \E h \in HashrateReports, f \in FeeReports : ReportNetwork(h, f)
  \/ Ask

Spec == Init /\ [][Next]_vars

(* Readings are numbers, and an answer is made of valid indices.           *)
TypeOK ==
  /\ readings \in [Sources -> Int]
  /\ answer \in SUBSET [Sources -> MinIndex .. MaxIndex]
  /\ current \in BOOLEAN
=============================================================================
