----------------------------- MODULE Safeguards ----------------------------
(***************************************************************************)
(* The oracles and the circuit breaker, with the keeper who carries what   *)
(* the former answer to the latter.                                        *)
(*                                                                         *)
(* No code under igra/src calls both.  What the signatures allow is this:  *)
(* fetch_all_indices gives the keeper four indices, PegCalculator makes a  *)
(* peg of them, check_peg_deviation takes the peg; record_price takes      *)
(* prices with their times, check_oracle_health the time of the last one.  *)
(* Reports, prices and time may come between any two of these calls.  The  *)
(* feeds are IndexService, which OracleFeeds implements as long as they    *)
(* are fresh; answer is what the keeper was last answered.                 *)
(*                                                                         *)
(* The system clock is not set back here (ClockSteps), only the times of   *)
(* prices may be off it.                                                   *)
(*                                                                         *)
(* worst and receivedAt are no state of the program: the largest deviation *)
(* of a reading so far, and when the price of a source was recorded.       *)
(***************************************************************************)
EXTENDS Integers, FiniteSetsExt

CONSTANTS
  Weights,                                             \* frozen parameters
  PegThreshold, DowntimeThreshold,
  EnergyReports, AdoptionReports, HashrateReports, FeeReports,
  PriceSources, PriceReports,
  Skews,            \* how far the time of a price is off the clock
  MaxAge,
  Minute, ClockRange, MinuteRange, ClockSteps,
  MaxTime           \* bound of the model

ASSUME InputAssumption ==
  /\ EnergyReports \subseteq Int /\ AdoptionReports \subseteq Int
  /\ HashrateReports \subseteq Int /\ FeeReports \subseteq Int
  /\ PriceReports \subseteq Int /\ Skews \subseteq Int
ASSUME ClockAssumption ==
  /\ ClockSteps \subseteq Nat /\ MaxAge \in Nat /\ MaxTime \in Nat
  /\ Minute \in Nat \ {0} /\ MinuteRange \in Nat \ {0}
  /\ ClockRange \in Nat /\ ClockRange > MaxTime

(* CircuitBreakerParams::validate.                                         *)
ASSUME BreakerAssumption ==
  PegThreshold \in 1 .. 50 /\ DowntimeThreshold \in 1 .. MinuteRange - 1

VARIABLES
  readings, answer, current,      \* IndexService
  prices,                         \* OraclePrices
  state, reason, triggeredAt,     \* CircuitBreaker
  now,
  worst, receivedAt

feedVars == <<readings, answer, current, worst>>
priceVars == <<prices, receivedAt>>
breakerVars == <<state, reason, triggeredAt>>
vars == <<feedVars, priceVars, breakerVars, now>>

Feeds == INSTANCE IndexService
Prices == INSTANCE OraclePrices
Breaker == INSTANCE CircuitBreaker

(* PegWeights::validate.                                                   *)
ASSUME WeightAssumption ==
  /\ Weights \in [Feeds!Sources -> Nat]
  /\ Weights["hashrate"] + Weights["energy"] + Weights["fees"]
       + Weights["adoption"] = 100

Init ==
  /\ Feeds!Init /\ Prices!Init /\ Breaker!Init
  /\ now = 0 /\ worst = 0
  /\ receivedAt = [s \in {} |-> 0]

(* How far, in percent, the worst index that readings make is off 1.0.     *)
Spread(r) == Max({Feeds!Abs(Feeds!Indices(r)[s] - 100) : s \in Feeds!Sources})

(* A feed reports.                                                         *)
Report ==
  /\ \/ \E v \in EnergyReports : Feeds!ReportEnergy(v)
     \/ \E v \in AdoptionReports : Feeds!ReportAdoption(v)
     \/ \E h \in HashrateReports, f \in FeeReports : Feeds!ReportNetwork(h, f)
  /\ worst' = IF Feeds!Indexable(readings') /\ Spread(readings') > worst
              THEN Spread(readings') ELSE worst
  /\ UNCHANGED <<priceVars, breakerVars, now>>

(* The keeper asks for the indices and keeps the answer.                   *)
Fetch ==
  /\ Feeds!Ask
  /\ UNCHANGED <<priceVars, breakerVars, now, worst>>

(* The keeper makes a peg of the indices it holds and has it checked.      *)
CheckPeg ==
  /\ \E indices \in answer :
       /\ Feeds!ValidIndices(indices)
       /\ Breaker!CheckPegDeviation(Feeds!PegValue(indices))
  /\ UNCHANGED <<feedVars, priceVars, now>>

(* A source's price arrives, dated by another clock or late.               *)
RecordPrice(s, v, skew) ==
  /\ now + skew >= 0
  /\ Prices!RecordPrice(s, v, now + skew)
  /\ receivedAt' = [x \in DOMAIN receivedAt \cup {s} |->
                      IF x = s THEN now ELSE receivedAt[x]]
  /\ UNCHANGED <<feedVars, breakerVars, now>>

(* The keeper has the time of the latest price on record checked.          *)
CheckOracles ==
  /\ \E at \in Prices!LatestAt : Breaker!CheckOracleHealth(at)
  /\ UNCHANGED <<feedVars, priceVars, now>>

Tick(d) ==
  /\ now + d <= MaxTime
  /\ now' = now + d
  /\ UNCHANGED <<feedVars, priceVars, breakerVars>>

Next ==
  \/ Report
  \/ Fetch
  \/ CheckPeg
  \/ \E s \in PriceSources, v \in PriceReports, skew \in Skews : RecordPrice(s, v, skew)
  \/ CheckOracles
  \/ \E d \in ClockSteps : Tick(d)

Spec == Init /\ [][Next]_vars

-----------------------------------------------------------------------------
(* Properties.                                                             *)

(* Every component keeps its types.                                        *)
TypeOK ==
  /\ Feeds!TypeOK /\ Prices!TypeOK /\ Breaker!TypeOK
  /\ now \in 0 .. MaxTime /\ worst \in Nat
  /\ DOMAIN receivedAt = DOMAIN prices
  /\ \A s \in DOMAIN receivedAt : receivedAt[s] \in Nat

(* The weighted mean of indices is never further off than the worst of     *)
(* them: the protocol is paused for its peg only after some reading was    *)
(* off its baseline by more than the threshold, however late the keeper    *)
(* checks what it was answered.                                            *)
PegPausesAreJustified == reason = "peg" => worst > PegThreshold

(* "Pause persists until manual resolution" (circuit_breaker.rs): no check *)
(* that finds all well resumes the protocol or forgets why it is paused.   *)
(* (That the time of the pause does not go back needs that the clock does  *)
(* not; a later check overwrites it.)                                      *)
PauseLatches ==
  [][state = "Paused" =>
       state' = "Paused" /\ reason' # "none" /\ triggeredAt' >= triggeredAt]_vars

(* The breaker pauses for the oracles only when no price of any source is  *)
(* younger than the threshold ("Triggers if (now - last_update) >          *)
(* threshold", circuit_breaker.rs), provided no price is dated ahead.      *)
OraclePausesAreJustified ==
  [][reason # "oracle" /\ reason' = "oracle" =>
       \A s \in DOMAIN prices : now - prices[s].at > Minute * DowntimeThreshold]_vars

(* A check finds what it is for, whatever the conversions cut off: a peg   *)
(* that is off by more than a percent above the threshold, at any index    *)
(* the feeds can give (at exactly a percent, as 0.89 is, the f64 may fall  *)
(* short of it), and a silence of all sources for a whole minute more than *)
(* the threshold, up to the 2^16 minutes a u16 holds.                      *)
BreachesAreFound ==
  /\ \A indices \in answer :
       Feeds!Abs(Feeds!PegValue(indices) - Feeds!Ideal) > 100 * (PegThreshold + 1)
         => Breaker!Breach(Feeds!PegValue(indices))
  /\ (\A s \in DOMAIN prices :
        now - prices[s].at \in Minute * (DowntimeThreshold + 1) .. Minute * MinuteRange - 1)
       => \A at \in Prices!LatestAt : Breaker!Silent(at)

(* PegCalculator::is_peg_healthy and the breaker judge a peg alike up to   *)
(* 3.55, although one cuts an i16 to eight bits and the other converts a   *)
(* f64.                                                                    *)
HealthAgreesWithBreaker ==
  \A indices \in answer :
    LET peg == Feeds!PegValue(indices) IN
    peg < 35600 =>
      (Feeds!IsPegHealthy(peg, PegThreshold) <=> ~Breaker!Breach(peg))

(* The price get_price answers with was recorded no longer ago than its    *)
(* caller allows, give or take how far its source's clock is ahead.        *)
AnswersAreRecent ==
  \A s \in Prices!Answering : \E ahead \in Skews \cup {0} :
    now - receivedAt[s] <= MaxAge + ahead

(* all_sources_healthy promises that get_price has an answer, if any of    *)
(* the sources get_price knows has a price.                                *)
HealthySourcesAnswer ==
  /\ Prices!AllSourcesHealthy
  /\ \E i \in DOMAIN Prices!Preference : Prices!Preference[i] \in DOMAIN prices
  => Prices!Answering # {}
=============================================================================
