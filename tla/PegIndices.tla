----------------------------- MODULE PegIndices ----------------------------
(***************************************************************************)
(* The arithmetic of the peg: four readings become four indices            *)
(* (oracle_feeds.rs, kaspa_adapter.rs), the indices become one peg         *)
(* (PegCalculator of peg.rs), and the peg a deviation in percent.          *)
(*                                                                         *)
(* Readings and indices are in hundredths of their baselines, so that 100  *)
(* is the baseline; pegs are in hundredths of a percent, so that 10000 is  *)
(* the ideal 1.0.                                                          *)
(***************************************************************************)
EXTENDS Integers

CONSTANT Weights    \* of the four indices, in percent

Sources == {"hashrate", "energy", "fees", "adoption"}

(* PegWeights::validate.                                                   *)
ASSUME WeightsAssumption ==
  /\ Weights \in [Sources -> Nat]
  /\ Weights["hashrate"] + Weights["energy"] + Weights["fees"]
       + Weights["adoption"] = 100

MinIndex == 10
MaxIndex == 500
Ideal == 10000

Clip(x, low, high) == IF x < low THEN low ELSE IF x > high THEN high ELSE x

(* What an index that is not clipped would be.                             *)
UnclippedIndex(reading) == reading

(* What the four calculate_*_index functions make of a reading.            *)
Index(reading) == Clip(reading, MinIndex, MaxIndex)

Indices(readings) == [s \in Sources |-> Index(readings[s])]

(* The two readings of the Kaspa network must be positive; those of the    *)
(* other feeds always are.                                                 *)
Indexable(readings) == readings["hashrate"] > 0 /\ readings["fees"] > 0

ValidIndices(indices) == \A s \in Sources : indices[s] \in MinIndex .. MaxIndex

WeightedSum(indices) ==
  Weights["hashrate"] * indices["hashrate"] + Weights["energy"] * indices["energy"]
    + Weights["fees"] * indices["fees"] + Weights["adoption"] * indices["adoption"]

(* What a peg that misses its last component would be.                     *)
PegWithoutAdoption(indices) ==
  Clip(WeightedSum([indices EXCEPT !["adoption"] = 0]),
       100 * MinIndex, 100 * MaxIndex)

PegValue(indices) == Clip(WeightedSum(indices), 100 * MinIndex, 100 * MaxIndex)

Abs(x) == IF x < 0 THEN -x ELSE x

(* A conversion to an integer type cuts the fraction off, towards zero.    *)
AbsDeviation(peg) == Abs(peg - Ideal) \div 100

PegDeviation(peg) ==
  IF peg < Ideal THEN -AbsDeviation(peg) ELSE AbsDeviation(peg)

(* What a check that forgets pegs below 1.0 would say.                     *)
IsPegNotHigh(peg, thresholdPercent) == PegDeviation(peg) <= thresholdPercent

(* The absolute value of an i16 is cut to its lowest eight bits.           *)
IsPegHealthy(peg, thresholdPercent) ==
  Abs(PegDeviation(peg)) % 256 <= thresholdPercent

=============================================================================
