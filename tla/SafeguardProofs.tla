-------------------------- MODULE SafeguardProofs --------------------------
(***************************************************************************)
(* Proofs about the oracles and the circuit breaker, for every choice of   *)
(* weights, thresholds, reports, times and skews: the protocol is paused   *)
(* for a reason, finds what it is to be paused for and stays paused.       *)
(* Then about the stability pool, for every allocation, every fee and      *)
(* every history of prices: it never owes anything, and its book agrees    *)
(* with the share of the fees it was promised.                             *)
(***************************************************************************)
EXTENDS Safeguards, StabilityPool, TLAPS

-----------------------------------------------------------------------------
(* The peg is a mean: it is never further off than the worst index.        *)

LEMMA WeightTypes ==
  /\ Weights["hashrate"] \in Nat /\ Weights["energy"] \in Nat
  /\ Weights["fees"] \in Nat /\ Weights["adoption"] \in Nat
  /\ Weights["hashrate"] + Weights["energy"] + Weights["fees"]
       + Weights["adoption"] = 100
BY WeightAssumption DEF Feeds!Sources

LEMMA WeightedPart ==
  ASSUME NEW w \in Nat, NEW x \in Int, NEW m \in Nat, 100 - x <= m, x - 100 <= m
  PROVE  /\ w * x \in Int /\ w * m \in Nat
         /\ w * x <= 100 * w + w * m
         /\ 100 * w - w * m <= w * x
<1>1. w * x \in Int /\ w * m \in Nat
  OBVIOUS
<1>2. 100 + m - x \in Nat /\ x - 100 + m \in Nat
  OBVIOUS
<1>3. w * (100 + m - x) >= 0 /\ w * (x - 100 + m) >= 0
  BY <1>2
<1>4. /\ w * (100 + m - x) = 100 * w + w * m - w * x
      /\ w * (x - 100 + m) = w * x - 100 * w + w * m
  OBVIOUS
<1> QED
  BY <1>1, <1>3, <1>4

LEMMA ClipsTowardsIdeal ==
  ASSUME NEW x \in Int, NEW n \in Nat, x - 10000 <= n, 10000 - x <= n
  PROVE  /\ Feeds!Clip(x, 1000, 50000) \in Nat
         /\ Feeds!Clip(x, 1000, 50000) >= 1000
         /\ Feeds!Abs(Feeds!Clip(x, 1000, 50000) - 10000) <= n
<1> DEFINE c == Feeds!Clip(x, 1000, 50000)
<1>1. CASE x < 1000
  <2>1. c = 1000
    BY <1>1 DEF Feeds!Clip
  <2> QED
    BY <1>1, <2>1 DEF Feeds!Abs
<1>2. CASE x > 50000
  <2>1. c = 50000
    BY <1>2 DEF Feeds!Clip
  <2> QED
    BY <1>2, <2>1 DEF Feeds!Abs
<1>3. CASE x >= 1000 /\ x <= 50000
  <2>1. c = x
    BY <1>3 DEF Feeds!Clip
  <2> QED
    BY <1>3, <2>1 DEF Feeds!Abs
<1> QED
  BY <1>1, <1>2, <1>3

LEMMA MeanIsWithinSpread ==
  ASSUME NEW indices \in [Feeds!Sources -> Int], NEW m \in Nat,
         \A s \in Feeds!Sources : Feeds!Abs(indices[s] - 100) <= m
  PROVE  /\ Feeds!PegValue(indices) \in Nat
         /\ Feeds!PegValue(indices) >= 1000
         /\ Feeds!Abs(Feeds!PegValue(indices) - Feeds!Ideal) <= 100 * m
<1> DEFINE wh == Weights["hashrate"]  h == indices["hashrate"]
           we == Weights["energy"]    e == indices["energy"]
           wf == Weights["fees"]      f == indices["fees"]
           wa == Weights["adoption"]  a == indices["adoption"]
           sum == wh * h + we * e + wf * f + wa * a
<1>1. /\ wh \in Nat /\ we \in Nat /\ wf \in Nat /\ wa \in Nat
      /\ wh + we + wf + wa = 100
  BY WeightTypes
<1>2. /\ h \in Int /\ e \in Int /\ f \in Int /\ a \in Int
      /\ 100 - h <= m /\ h - 100 <= m /\ 100 - e <= m /\ e - 100 <= m
      /\ 100 - f <= m /\ f - 100 <= m /\ 100 - a <= m /\ a - 100 <= m
  BY DEF Feeds!Sources, Feeds!Abs
<1>3. Feeds!PegValue(indices) = Feeds!Clip(sum, 1000, 50000)
  BY DEF Feeds!PegValue, Feeds!WeightedSum, Feeds!MinIndex, Feeds!MaxIndex
<1> HIDE DEF wh, we, wf, wa, h, e, f, a
<1>4. /\ wh * h \in Int /\ wh * m \in Nat
      /\ wh * h <= 100 * wh + wh * m /\ 100 * wh - wh * m <= wh * h
  BY <1>1, <1>2, WeightedPart
<1>5. /\ we * e \in Int /\ we * m \in Nat
      /\ we * e <= 100 * we + we * m /\ 100 * we - we * m <= we * e
  BY <1>1, <1>2, WeightedPart
<1>6. /\ wf * f \in Int /\ wf * m \in Nat
      /\ wf * f <= 100 * wf + wf * m /\ 100 * wf - wf * m <= wf * f
  BY <1>1, <1>2, WeightedPart
<1>7. /\ wa * a \in Int /\ wa * m \in Nat
      /\ wa * a <= 100 * wa + wa * m /\ 100 * wa - wa * m <= wa * a
  BY <1>1, <1>2, WeightedPart
<1>8. wh * m + we * m + wf * m + wa * m = 100 * m
  <2>1. wh * m + we * m + wf * m + wa * m = (wh + we + wf + wa) * m
    BY <1>1
  <2> QED
    BY <1>1, <2>1
<1>9. sum \in Int /\ sum - 10000 <= 100 * m /\ 10000 - sum <= 100 * m
  <2> DEFINE hx == wh * h  hm == wh * m
             ex == we * e  em == we * m
             fx == wf * f  fm == wf * m
             ax == wa * a  am == wa * m
             all == 100 * m
  <2>1. /\ hx \in Int /\ hm \in Nat /\ hx <= 100 * wh + hm /\ 100 * wh - hm <= hx
        /\ ex \in Int /\ em \in Nat /\ ex <= 100 * we + em /\ 100 * we - em <= ex
        /\ fx \in Int /\ fm \in Nat /\ fx <= 100 * wf + fm /\ 100 * wf - fm <= fx
        /\ ax \in Int /\ am \in Nat /\ ax <= 100 * wa + am /\ 100 * wa - am <= ax
        /\ hm + em + fm + am = all /\ all \in Nat
        /\ sum = hx + ex + fx + ax
    BY <1>4, <1>5, <1>6, <1>7, <1>8
  <2> HIDE DEF hx, hm, ex, em, fx, fm, ax, am, all, sum
  <2>2. sum \in Int /\ sum - 10000 <= all /\ 10000 - sum <= all
    BY <1>1, <2>1
  <2> QED
    BY <2>2 DEF all
<1> HIDE DEF sum
<1> DEFINE n == 100 * m
<1>11. n \in Nat /\ n = 100 * m
  OBVIOUS
<1> HIDE DEF n
<1>12. /\ Feeds!Clip(sum, 1000, 50000) \in Nat
       /\ Feeds!Clip(sum, 1000, 50000) >= 1000
       /\ Feeds!Abs(Feeds!Clip(sum, 1000, 50000) - 10000) <= n
  BY <1>9, <1>11, ClipsTowardsIdeal
<1> QED
  BY <1>3, <1>11, <1>12 DEF Feeds!Ideal

(* A deviation that stops at 255 exceeds the threshold when the whole      *)
(* percents do, and is_peg_healthy agrees up to 255.                       *)
LEMMA BreachIsDeviation ==
  ASSUME NEW peg \in Nat, peg >= 1000
  PROVE  /\ Breaker!Breach(peg) <=>
              Feeds!Abs(peg - Feeds!Ideal) >= 100 * (PegThreshold + 1)
         /\ peg < 35600 =>
              (Feeds!IsPegHealthy(peg, PegThreshold) <=> ~Breaker!Breach(peg))
<1> DEFINE d == Feeds!Abs(peg - Feeds!Ideal)
           q == d \div 100
<1>1. d \in Nat /\ (peg < 35600 => d < 25600)
  BY DEF Feeds!Abs, Feeds!Ideal
<1>2. Breaker!AbsDeviation(peg) = q /\ Feeds!AbsDeviation(peg) = q
  BY DEF Breaker!AbsDeviation, Breaker!Abs, Breaker!Ideal, Feeds!AbsDeviation,
         Feeds!Abs, Feeds!Ideal
<1>3. q \in Nat /\ 100 * q <= d /\ d < 100 * q + 100
  <2> HIDE DEF d
  <2> QED BY <1>1
<1>4. PegThreshold \in 1 .. 50
  BY BreakerAssumption
<1>5. Breaker!Breach(peg) <=> q > PegThreshold
  BY <1>2, <1>3, <1>4 DEF Breaker!Breach, Breaker!Deviation
<1>6. Feeds!Abs(Feeds!PegDeviation(peg)) = q
  BY <1>2, <1>3 DEF Feeds!PegDeviation, Feeds!Abs
<1> HIDE DEF d, q
<1>7. peg < 35600 => q \in 0 .. 255 /\ q % 256 = q
  BY <1>1, <1>3
<1>8. peg < 35600 => (Feeds!IsPegHealthy(peg, PegThreshold) <=> q <= PegThreshold)
  BY <1>6, <1>7 DEF Feeds!IsPegHealthy
<1> QED
  BY <1>1, <1>3, <1>4, <1>5, <1>7, <1>8 DEF d

-----------------------------------------------------------------------------
(* The spread of readings bounds every index made of them.                 *)

LEMMA IndexType ==
  ASSUME NEW r \in Int
  PROVE  Feeds!Index(r) \in Feeds!MinIndex .. Feeds!MaxIndex
BY DEF Feeds!Index, Feeds!Clip, Feeds!MinIndex, Feeds!MaxIndex

LEMMA IndicesType ==
  ASSUME NEW r \in [Feeds!Sources -> Int]
  PROVE  /\ Feeds!Indices(r) \in [Feeds!Sources -> Feeds!MinIndex .. Feeds!MaxIndex]
         /\ Feeds!Indices(r) \in [Feeds!Sources -> Int]
<1>1. Feeds!Indices(r) \in [Feeds!Sources -> Feeds!MinIndex .. Feeds!MaxIndex]
  BY IndexType DEF Feeds!Indices
<1> QED
  BY <1>1 DEF Feeds!MinIndex, Feeds!MaxIndex

LEMMA LargestOfFour ==
  ASSUME NEW a \in Nat, NEW b \in Nat, NEW c \in Nat, NEW d \in Nat
  PROVE  /\ Max({a, b, c, d}) \in Nat
         /\ a <= Max({a, b, c, d}) /\ b <= Max({a, b, c, d})
         /\ c <= Max({a, b, c, d}) /\ d <= Max({a, b, c, d})
<1>1. \E x \in {a, b, c, d} : \A y \in {a, b, c, d} : x >= y
  <2>1. \E x \in {a, b} : x >= a /\ x >= b
    OBVIOUS
  <2>2. PICK x \in {a, b} : x >= a /\ x >= b
    BY <2>1
  <2>3. \E z \in {c, d} : z >= c /\ z >= d
    OBVIOUS
  <2>4. PICK z \in {c, d} : z >= c /\ z >= d
    BY <2>3
  <2>5. CASE x >= z
    BY <2>2, <2>4, <2>5
  <2>6. CASE z >= x
    BY <2>2, <2>4, <2>6
  <2> QED
    BY <2>2, <2>4, <2>5, <2>6
<1>2. /\ Max({a, b, c, d}) \in {a, b, c, d}
      /\ \A y \in {a, b, c, d} : Max({a, b, c, d}) >= y
  BY <1>1 DEF Max
<1> QED
  BY <1>2

LEMMA SpreadBounds ==
  ASSUME NEW r \in [Feeds!Sources -> Int]
  PROVE  /\ Spread(r) \in Nat
         /\ \A s \in Feeds!Sources :
              Feeds!Abs(Feeds!Indices(r)[s] - 100) <= Spread(r)
<1> DEFINE off(s) == Feeds!Abs(Feeds!Indices(r)[s] - 100)
<1>1. \A s \in Feeds!Sources : off(s) \in Nat
  BY IndicesType DEF Feeds!Abs
<1>2. Spread(r) = Max({off("hashrate"), off("energy"), off("fees"), off("adoption")})
  <2>1. {off(s) : s \in Feeds!Sources} =
          {off("hashrate"), off("energy"), off("fees"), off("adoption")}
    BY DEF Feeds!Sources
  <2> QED
    BY <2>1 DEF Spread
<1> HIDE DEF off
<1>3. /\ off("hashrate") \in Nat /\ off("energy") \in Nat
      /\ off("fees") \in Nat /\ off("adoption") \in Nat
  BY <1>1 DEF Feeds!Sources
<1>4. /\ Spread(r) \in Nat
      /\ off("hashrate") <= Spread(r) /\ off("energy") <= Spread(r)
      /\ off("fees") <= Spread(r) /\ off("adoption") <= Spread(r)
  BY <1>2, <1>3, LargestOfFour
<1>5. \A s \in Feeds!Sources : off(s) <= Spread(r)
  BY <1>4 DEF Feeds!Sources
<1> QED
  BY <1>4, <1>5 DEF off

-----------------------------------------------------------------------------
(* The invariant.  Besides the types: worst bounds what the feeds and the  *)
(* keeper hold, a price is dated by its source's clock, and nothing has    *)
(* happened after now.                                                     *)

HeldIsBounded ==
  /\ Feeds!Indexable(readings) => Spread(readings) <= worst
  /\ \A indices \in answer, s \in Feeds!Sources :
       Feeds!Abs(indices[s] - 100) <= worst

PricesAreDated ==
  \A s \in DOMAIN prices :
    /\ prices[s].at \in Nat /\ receivedAt[s] <= now
    /\ prices[s].at - receivedAt[s] \in Skews

SafeguardsInv ==
  /\ TypeOK /\ HeldIsBounded /\ PricesAreDated
  /\ PegPausesAreJustified
  /\ triggeredAt <= now

LEMMA SafeguardsInit == Init => SafeguardsInv
<1> SUFFICES ASSUME Init PROVE SafeguardsInv
  OBVIOUS
<1> USE DEF Init
<1>1. Feeds!TypeOK
  <2>1. readings \in [Feeds!Sources -> Int]
    BY DEF Feeds!Init
  <2>2. answer = {} /\ current = FALSE
    BY DEF Feeds!Init
  <2> QED
    BY <2>1, <2>2 DEF Feeds!TypeOK
<1>2. Prices!TypeOK /\ DOMAIN prices = {} /\ DOMAIN receivedAt = {}
  BY DEF Prices!Init, Prices!TypeOK
<1>3. Breaker!TypeOK /\ triggeredAt = 0 /\ reason = "none"
  BY DEF Breaker!Init, Breaker!TypeOK
<1>4. now \in 0 .. MaxTime /\ now = 0 /\ worst = 0
  BY ClockAssumption
<1>5. HeldIsBounded
  BY DEF Feeds!Init, HeldIsBounded, Feeds!Indexable, Feeds!Sources
<1> QED
  BY <1>1, <1>2, <1>3, <1>4, <1>5
     DEF SafeguardsInv, TypeOK, PricesAreDated, PegPausesAreJustified

LEMMA ReportKeepsInv == SafeguardsInv /\ Report => SafeguardsInv'
<1> SUFFICES ASSUME SafeguardsInv, Report PROVE SafeguardsInv'
  OBVIOUS
<1> USE DEF SafeguardsInv, TypeOK
<1>1. readings \in [Feeds!Sources -> Int] /\ worst \in Nat
  BY DEF Feeds!TypeOK
<1> DEFINE Reported == /\ readings' \in [Feeds!Sources -> Int]
                       /\ answer' = answer /\ current' = FALSE
<1>2. Reported
  <2>1. ASSUME NEW v \in EnergyReports, Feeds!ReportEnergy(v)
        PROVE  Reported
    BY <1>1, <2>1, InputAssumption DEF Feeds!ReportEnergy
  <2>2. ASSUME NEW v \in AdoptionReports, Feeds!ReportAdoption(v)
        PROVE  Reported
    BY <1>1, <2>2, InputAssumption DEF Feeds!ReportAdoption
  <2>3. ASSUME NEW h \in HashrateReports, NEW f \in FeeReports,
               Feeds!ReportNetwork(h, f)
        PROVE  Reported
    BY <1>1, <2>3, InputAssumption DEF Feeds!ReportNetwork
  <2> QED
    BY <2>1, <2>2, <2>3 DEF Report
<1>3. Feeds!TypeOK'
  BY <1>2 DEF Feeds!TypeOK
<1>4. /\ worst' \in Nat /\ worst <= worst'
      /\ Feeds!Indexable(readings') => Spread(readings') <= worst'
  BY <1>1, <1>2, SpreadBounds DEF Report
<1>5. HeldIsBounded'
  <2>1. \A indices \in answer, s \in Feeds!Sources :
          Feeds!Abs(indices[s] - 100) \in Nat
    BY DEF Feeds!TypeOK, Feeds!Abs, Feeds!MinIndex, Feeds!MaxIndex
  <2> QED
    BY <1>1, <1>2, <1>4, <2>1 DEF HeldIsBounded
<1>6. UNCHANGED <<prices, receivedAt, state, reason, triggeredAt, now>>
  BY DEF Report, priceVars, breakerVars
<1>7. PegPausesAreJustified'
  BY <1>1, <1>4, <1>6, BreakerAssumption DEF PegPausesAreJustified
<1> QED
  BY <1>3, <1>4, <1>5, <1>6, <1>7
     DEF Prices!TypeOK, Breaker!TypeOK, PricesAreDated

LEMMA FetchKeepsInv == SafeguardsInv /\ Fetch => SafeguardsInv'
<1> SUFFICES ASSUME SafeguardsInv, Fetch PROVE SafeguardsInv'
  OBVIOUS
<1> USE DEF SafeguardsInv, TypeOK
<1>1. readings \in [Feeds!Sources -> Int] /\ worst \in Nat
  BY DEF Feeds!TypeOK
<1>2. /\ readings' = readings /\ current' = TRUE
      /\ answer' = IF Feeds!Indexable(readings) THEN {Feeds!Indices(readings)} ELSE {}
      /\ UNCHANGED <<prices, receivedAt, state, reason, triggeredAt, now, worst>>
  BY DEF Fetch, Feeds!Ask, priceVars, breakerVars
<1>3. Feeds!TypeOK'
  BY <1>1, <1>2, IndicesType DEF Feeds!TypeOK
<1>4. HeldIsBounded'
  <2>1. CASE Feeds!Indexable(readings)
    <3>1. \A s \in Feeds!Sources : Feeds!Abs(Feeds!Indices(readings)[s] - 100) <= worst
      <4>1. \A s \in Feeds!Sources : Feeds!Abs(Feeds!Indices(readings)[s] - 100) \in Nat
        BY <1>1, IndicesType DEF Feeds!Abs
      <4> QED
        BY <1>1, <2>1, <4>1, SpreadBounds DEF HeldIsBounded
    <3> QED
      BY <1>2, <2>1, <3>1 DEF HeldIsBounded
  <2>2. CASE ~Feeds!Indexable(readings)
    BY <1>2, <2>2 DEF HeldIsBounded
  <2> QED
    BY <2>1, <2>2
<1> QED
  BY <1>2, <1>3, <1>4
     DEF Prices!TypeOK, Breaker!TypeOK, PricesAreDated, PegPausesAreJustified

(* A peg that breaches the threshold was made of an index that is further  *)
(* off than the threshold.                                                 *)
LEMMA BreachIsInWorst ==
  ASSUME SafeguardsInv, NEW indices \in answer,
         Breaker!Breach(Feeds!PegValue(indices))
  PROVE  worst > PegThreshold
<1>1. /\ indices \in [Feeds!Sources -> Int] /\ worst \in Nat
      /\ \A s \in Feeds!Sources : Feeds!Abs(indices[s] - 100) <= worst
  BY DEF SafeguardsInv, TypeOK, Feeds!TypeOK, HeldIsBounded, Feeds!MinIndex,
         Feeds!MaxIndex
<1> DEFINE peg == Feeds!PegValue(indices)
<1>2. /\ peg \in Nat /\ peg >= 1000
      /\ Feeds!Abs(peg - Feeds!Ideal) <= 100 * worst
  BY <1>1, MeanIsWithinSpread
<1>3. Feeds!Abs(peg - Feeds!Ideal) >= 100 * (PegThreshold + 1)
  BY <1>2, BreachIsDeviation
<1>4. Feeds!Abs(peg - Feeds!Ideal) \in Int
  BY <1>2 DEF Feeds!Abs, Feeds!Ideal
<1> QED
  BY <1>1, <1>2, <1>3, <1>4, BreakerAssumption

LEMMA CheckPegKeepsInv == SafeguardsInv /\ CheckPeg => SafeguardsInv'
<1> SUFFICES ASSUME SafeguardsInv, CheckPeg PROVE SafeguardsInv'
  OBVIOUS
<1> USE DEF SafeguardsInv, TypeOK
<1>1. UNCHANGED <<readings, answer, current, worst, prices, receivedAt, now>>
  BY DEF CheckPeg, feedVars, priceVars
<1>2. PICK indices \in answer : Breaker!CheckPegDeviation(Feeds!PegValue(indices))
  BY DEF CheckPeg
<1>3. \/ UNCHANGED <<state, reason, triggeredAt>>
      \/ /\ worst > PegThreshold
         /\ state' = "Paused" /\ reason' = "peg" /\ triggeredAt' = now
  BY <1>2, BreachIsInWorst
     DEF Breaker!CheckPegDeviation, Breaker!TriggerPause, Breaker!breakerVars
<1>4. Breaker!TypeOK' /\ (triggeredAt <= now)' /\ PegPausesAreJustified'
  BY <1>1, <1>3 DEF Breaker!TypeOK, PegPausesAreJustified
<1> QED
  BY <1>1, <1>4 DEF Feeds!TypeOK, Prices!TypeOK, HeldIsBounded, PricesAreDated

LEMMA RecordPriceKeepsInv ==
  ASSUME SafeguardsInv, NEW s \in PriceSources, NEW v \in PriceReports,
         NEW skew \in Skews, RecordPrice(s, v, skew)
  PROVE  SafeguardsInv'
<1> USE DEF SafeguardsInv, TypeOK
<1>1. UNCHANGED <<readings, answer, current, worst, state, reason, triggeredAt, now>>
  BY DEF RecordPrice, feedVars, breakerVars
<1>2. /\ v \in Int /\ v > 0 /\ skew \in Int /\ now \in Nat /\ now + skew \in Nat
  BY InputAssumption, ClockAssumption DEF RecordPrice, Prices!RecordPrice
<1>3. /\ DOMAIN prices' = DOMAIN prices \cup {s}
      /\ DOMAIN receivedAt' = DOMAIN prices \cup {s}
      /\ \A x \in DOMAIN prices \cup {s} :
           /\ prices'[x] = IF x = s THEN [value |-> v, at |-> now + skew] ELSE prices[x]
           /\ receivedAt'[x] = IF x = s THEN now ELSE receivedAt[x]
  BY DEF RecordPrice, Prices!RecordPrice
<1>4. Prices!TypeOK'
  BY <1>1, <1>2, <1>3 DEF Prices!TypeOK
<1>5. \A x \in DOMAIN receivedAt' : receivedAt'[x] \in Nat
  BY <1>2, <1>3
<1>6. PricesAreDated'
  <2> SUFFICES ASSUME NEW x \in DOMAIN prices'
               PROVE  /\ prices'[x].at \in Nat /\ receivedAt'[x] <= now'
                      /\ prices'[x].at - receivedAt'[x] \in Skews
    BY DEF PricesAreDated
  <2>1. CASE x = s
    <3>1. prices'[x].at = now + skew /\ receivedAt'[x] = now
      BY <1>3, <2>1
    <3>2. now + skew - now = skew
      BY <1>2
    <3> QED
      BY <1>1, <1>2, <3>1, <3>2
  <2>2. CASE x # s
    BY <1>1, <1>3, <2>2 DEF PricesAreDated
  <2> QED
    BY <2>1, <2>2
<1>7. UNCHANGED <<Feeds!TypeOK, Breaker!TypeOK, HeldIsBounded, PegPausesAreJustified>>
  BY <1>1 DEF Feeds!TypeOK, Breaker!TypeOK, HeldIsBounded, PegPausesAreJustified
<1> QED
  BY <1>1, <1>3, <1>4, <1>5, <1>6, <1>7

LEMMA CheckOraclesKeepsInv == SafeguardsInv /\ CheckOracles => SafeguardsInv'
<1> SUFFICES ASSUME SafeguardsInv, CheckOracles PROVE SafeguardsInv'
  OBVIOUS
<1> USE DEF SafeguardsInv, TypeOK
<1>1. UNCHANGED <<readings, answer, current, worst, prices, receivedAt, now>>
  BY DEF CheckOracles, feedVars, priceVars
<1>2. \/ UNCHANGED <<state, reason, triggeredAt>>
      \/ state' = "Paused" /\ reason' = "oracle" /\ triggeredAt' = now
  BY DEF CheckOracles, Breaker!CheckOracleHealth, Breaker!TriggerPause,
         Breaker!breakerVars
<1>3. Breaker!TypeOK' /\ (triggeredAt <= now)' /\ PegPausesAreJustified'
  BY <1>1, <1>2 DEF Breaker!TypeOK, PegPausesAreJustified
<1> QED
  BY <1>1, <1>3 DEF Feeds!TypeOK, Prices!TypeOK, HeldIsBounded, PricesAreDated

LEMMA TickKeepsInv ==
  ASSUME SafeguardsInv, NEW d \in ClockSteps, Tick(d)
  PROVE  SafeguardsInv'
<1> USE DEF SafeguardsInv, TypeOK
<1>1. /\ now' \in 0 .. MaxTime /\ now <= now'
      /\ UNCHANGED <<readings, answer, current, worst, prices, receivedAt,
                     state, reason, triggeredAt>>
  BY ClockAssumption DEF Tick, feedVars, priceVars, breakerVars
<1>2. PricesAreDated'
  BY <1>1 DEF PricesAreDated
<1>3. (triggeredAt <= now)'
  BY <1>1 DEF Breaker!TypeOK
<1> QED
  BY <1>1, <1>2, <1>3
     DEF Feeds!TypeOK, Prices!TypeOK, Breaker!TypeOK, HeldIsBounded,
         PegPausesAreJustified

LEMMA SafeguardsNext == SafeguardsInv /\ [Next]_vars => SafeguardsInv'
<1> SUFFICES ASSUME SafeguardsInv, [Next]_vars PROVE SafeguardsInv'
  OBVIOUS
<1>1. CASE UNCHANGED vars
  BY <1>1 DEF vars, feedVars, priceVars, breakerVars, SafeguardsInv, TypeOK,
       Feeds!TypeOK, Prices!TypeOK, Breaker!TypeOK, HeldIsBounded,
       PricesAreDated, PegPausesAreJustified
<1> QED
  BY <1>1, ReportKeepsInv, FetchKeepsInv, CheckPegKeepsInv, RecordPriceKeepsInv,
     CheckOraclesKeepsInv, TickKeepsInv DEF Next

LEMMA SafeguardsInvariant == Spec => []SafeguardsInv
BY SafeguardsInit, SafeguardsNext, PTL DEF Spec

-----------------------------------------------------------------------------

(* All components keep their types for every report, price and skew.       *)
THEOREM SafeguardsTyped == Spec => []TypeOK
<1>1. SafeguardsInv => TypeOK
  BY DEF SafeguardsInv
<1> QED
  BY <1>1, SafeguardsInvariant, PTL

(* A pause for the peg has a reading behind it that was further off its    *)
(* baseline than the threshold, for every choice of weights.               *)
THEOREM PegPausesHaveCause == Spec => []PegPausesAreJustified
<1>1. SafeguardsInv => PegPausesAreJustified
  BY DEF SafeguardsInv
<1> QED
  BY <1>1, SafeguardsInvariant, PTL

(* The pegs the keeper can make.                                           *)
LEMMA HeldPegs ==
  ASSUME SafeguardsInv, NEW indices \in answer
  PROVE  Feeds!PegValue(indices) \in Nat /\ Feeds!PegValue(indices) >= 1000
<1>1. /\ indices \in [Feeds!Sources -> Int] /\ worst \in Nat
      /\ \A s \in Feeds!Sources : Feeds!Abs(indices[s] - 100) <= worst
  BY DEF SafeguardsInv, TypeOK, Feeds!TypeOK, HeldIsBounded, Feeds!MinIndex,
         Feeds!MaxIndex
<1> QED
  BY <1>1, MeanIsWithinSpread

(* is_peg_healthy and the breaker agree on every peg up to 3.55.           *)
THEOREM HealthAgrees == Spec => []HealthAgreesWithBreaker
<1>1. SafeguardsInv => HealthAgreesWithBreaker
  BY HeldPegs, BreachIsDeviation DEF HealthAgreesWithBreaker
<1> QED
  BY <1>1, SafeguardsInvariant, PTL

(* Whole minutes of a downtime.                                            *)
LEMMA MinutesOf ==
  ASSUME NEW x \in Nat
  PROVE  /\ x \div Minute \in Nat
         /\ \A k \in Nat : k <= x \div Minute <=> Minute * k <= x
<1> DEFINE q == x \div Minute
<1>1. Minute \in Nat \ {0}
  BY ClockAssumption
<1>2. q \in Int /\ Minute * q <= x /\ x < Minute * q + Minute
  BY <1>1
<1> HIDE DEF q
<1>3. q \in Nat
  BY <1>1, <1>2
<1>4. ASSUME NEW k \in Nat, k <= q PROVE Minute * k <= x
  <2>1. q - k \in Nat
    BY <1>3, <1>4
  <2>2. Minute * (q - k) >= 0 /\ Minute * (q - k) = Minute * q - Minute * k
    BY <1>1, <1>2, <2>1
  <2> QED
    BY <1>1, <1>2, <2>2
<1>5. ASSUME NEW k \in Nat, ~(k <= q) PROVE ~(Minute * k <= x)
  <2>1. k - (q + 1) \in Nat
    BY <1>3, <1>5
  <2>2. /\ Minute * (k - (q + 1)) >= 0
        /\ Minute * (k - (q + 1)) = Minute * k - (Minute * q + Minute)
    BY <1>1, <1>2, <2>1
  <2> QED
    BY <1>1, <1>2, <2>2
<1> QED
  BY <1>3, <1>4, <1>5 DEF q

(* The two conversions leave the downtime alone, unless it is negative or  *)
(* does not fit into the minutes of a u16.                                 *)
LEMMA DowntimeIs ==
  ASSUME SafeguardsInv, NEW at \in Nat, at <= now
  PROVE  /\ Breaker!Silent(at) => now - at > Minute * DowntimeThreshold
         /\ now - at \in Minute * (DowntimeThreshold + 1) .. Minute * MinuteRange - 1
              => Breaker!Silent(at)
<1> DEFINE x == now - at
           q == x \div Minute
<1>1. /\ now \in 0 .. MaxTime /\ Minute \in Nat \ {0} /\ MinuteRange \in Nat \ {0}
      /\ MaxTime \in Nat /\ ClockRange \in Nat /\ ClockRange > MaxTime
      /\ DowntimeThreshold \in Nat /\ DowntimeThreshold < MinuteRange
  BY ClockAssumption, BreakerAssumption DEF SafeguardsInv, TypeOK
<1>2. x \in Nat /\ x % ClockRange = x
  <2>1. now \in Nat /\ now < ClockRange
    BY <1>1
  <2>2. x \in Nat /\ x < ClockRange
    BY <1>1, <2>1
  <2> HIDE DEF x
  <2> QED
    BY <1>1, <2>2
<1>3. Breaker!Silent(at) <=> q % MinuteRange > DowntimeThreshold
  BY <1>2 DEF Breaker!Silent, Breaker!DowntimeMinutes
<1>4. /\ q \in Nat
      /\ \A k \in Nat : k <= q <=> Minute * k <= x
  BY <1>2, MinutesOf
<1>5. Minute * (DowntimeThreshold + 1) = Minute * DowntimeThreshold + Minute
  BY <1>1
<1> HIDE DEF q
<1>6. q % MinuteRange \in Nat /\ q % MinuteRange <= q
  BY <1>1, <1>4
<1>7. ASSUME Breaker!Silent(at) PROVE x > Minute * DowntimeThreshold
  <2>1. DowntimeThreshold + 1 \in Nat /\ DowntimeThreshold + 1 <= q
    BY <1>1, <1>3, <1>4, <1>6, <1>7
  <2>2. Minute * (DowntimeThreshold + 1) <= x
    BY <1>4, <2>1
  <2>3. Minute * DowntimeThreshold \in Nat
    BY <1>1
  <2> HIDE DEF x
  <2> QED
    BY <1>1, <1>2, <1>5, <2>2, <2>3
<1>8. ASSUME x >= Minute * (DowntimeThreshold + 1), x < Minute * MinuteRange
      PROVE  Breaker!Silent(at)
  <2>1. DowntimeThreshold + 1 \in Nat /\ Minute * (DowntimeThreshold + 1) \in Nat
        /\ Minute * MinuteRange \in Nat
    BY <1>1
  <2> HIDE DEF x
  <2>2. DowntimeThreshold + 1 <= q
    BY <1>2, <1>4, <1>8, <2>1
  <2>3. ~(MinuteRange <= q)
    BY <1>1, <1>2, <1>4, <1>8, <2>1
  <2>4. q % MinuteRange = q
    BY <1>1, <1>4, <2>3
  <2> QED
    BY <1>1, <1>3, <1>4, <2>2, <2>4
<1>9. Minute * (DowntimeThreshold + 1) \in Int /\ Minute * MinuteRange \in Int
  BY <1>1
<1> QED
  BY <1>2, <1>7, <1>8, <1>9

(* Neither the cut to eight bits nor the one to sixteen hides a breach.    *)
THEOREM BreachesFound == Spec => []BreachesAreFound
<1>1. ASSUME SafeguardsInv PROVE BreachesAreFound
  <2>1. ASSUME NEW indices \in answer
        PROVE  Feeds!Abs(Feeds!PegValue(indices) - Feeds!Ideal)
                 > 100 * (PegThreshold + 1)
               => Breaker!Breach(Feeds!PegValue(indices))
    <3>1. Feeds!Abs(Feeds!PegValue(indices) - Feeds!Ideal)
            >= 100 * (PegThreshold + 1)
          => Breaker!Breach(Feeds!PegValue(indices))
      BY <1>1, HeldPegs, BreachIsDeviation
    <3>2. Feeds!Abs(Feeds!PegValue(indices) - Feeds!Ideal) \in Int
          /\ 100 * (PegThreshold + 1) \in Int
      BY <1>1, HeldPegs, BreakerAssumption DEF Feeds!Abs, Feeds!Ideal
    <3> QED
      BY <3>1, <3>2
  <2>2. ASSUME NEW s \in DOMAIN prices,
               now - prices[s].at \in
                 Minute * (DowntimeThreshold + 1) .. Minute * MinuteRange - 1
        PROVE  Breaker!Silent(prices[s].at)
    <3>1. prices[s].at \in Nat /\ now \in Int
      BY <1>1 DEF SafeguardsInv, TypeOK, PricesAreDated
    <3>2. Minute * (DowntimeThreshold + 1) \in Nat
      BY ClockAssumption, BreakerAssumption
    <3>3. prices[s].at <= now
      BY <2>2, <3>1, <3>2
    <3> QED
      BY <1>1, <2>2, <3>1, <3>3, DowntimeIs
  <2> QED
    BY <2>1, <2>2 DEF BreachesAreFound, Prices!LatestAt
<1> QED
  BY <1>1, SafeguardsInvariant, PTL

LEMMA PricesNotAhead ==
  ASSUME \A k \in Skews : k <= 0, SafeguardsInv, NEW s \in DOMAIN prices
  PROVE  prices[s].at \in Nat /\ prices[s].at <= now
<1>1. /\ prices[s].at \in Nat /\ receivedAt[s] \in Nat /\ receivedAt[s] <= now
      /\ prices[s].at - receivedAt[s] <= 0 /\ now \in Int
  BY DEF SafeguardsInv, TypeOK, PricesAreDated
<1> QED
  BY <1>1

(* If no price is dated ahead of the system clock, the protocol is paused  *)
(* for its oracles only when all of them have been silent for too long.    *)
THEOREM OraclePausesHaveCause ==
  ASSUME \A k \in Skews : k <= 0
  PROVE  Spec => OraclePausesAreJustified
<1>1. ASSUME SafeguardsInv, CheckOracles, reason # "oracle", reason' = "oracle"
      PROVE  \A s \in DOMAIN prices : now - prices[s].at > Minute * DowntimeThreshold
  <2>1. PICK at \in Prices!LatestAt : Breaker!CheckOracleHealth(at)
    BY <1>1 DEF CheckOracles
  <2>2. Breaker!Silent(at)
    BY <1>1, <2>1 DEF Breaker!CheckOracleHealth, Breaker!breakerVars
  <2>3. PICK latest \in DOMAIN prices :
          /\ at = prices[latest].at
          /\ \A s \in DOMAIN prices : prices[s].at <= prices[latest].at
    BY DEF Prices!LatestAt
  <2>4. \A s \in DOMAIN prices : prices[s].at \in Nat /\ prices[s].at <= now
    BY <1>1, PricesNotAhead
  <2>5. now - at > Minute * DowntimeThreshold
    BY <1>1, <2>2, <2>3, <2>4, DowntimeIs
  <2>6. now \in Int /\ Minute * DowntimeThreshold \in Int
    BY <1>1, ClockAssumption, BreakerAssumption DEF SafeguardsInv, TypeOK
  <2> QED
    BY <2>3, <2>4, <2>5, <2>6
<1>2. ASSUME [Next]_vars, ~CheckOracles, reason' = "oracle"
      PROVE  reason = "oracle"
  BY <1>2 DEF Next, Report, Fetch, CheckPeg, RecordPrice, Tick, vars, feedVars,
     priceVars, breakerVars, Breaker!CheckPegDeviation, Breaker!TriggerPause,
     Breaker!breakerVars
<1>3. SafeguardsInv /\ [Next]_vars =>
        [reason # "oracle" /\ reason' = "oracle" =>
           \A s \in DOMAIN prices : now - prices[s].at > Minute * DowntimeThreshold]_vars
  BY <1>1, <1>2
<1> QED
  BY <1>3, SafeguardsInvariant, PTL DEF Spec, OraclePausesAreJustified

(* No check resumes the protocol, and, the clock never being set back, the *)
(* time of the pause does not go back.                                     *)
THEOREM PausesLatch == Spec => PauseLatches
<1>1. SafeguardsInv /\ [Next]_vars =>
        [state = "Paused" =>
           state' = "Paused" /\ reason' # "none" /\ triggeredAt' >= triggeredAt]_vars
  <2> SUFFICES ASSUME SafeguardsInv, [Next]_vars, state = "Paused"
               PROVE  /\ state' = "Paused" /\ reason' # "none"
                      /\ triggeredAt' >= triggeredAt
    OBVIOUS
  <2>1. reason # "none" /\ triggeredAt \in Int /\ triggeredAt <= now
    BY DEF SafeguardsInv, TypeOK, Breaker!TypeOK
  <2>2. \/ UNCHANGED <<state, reason, triggeredAt>>
        \/ /\ state' = "Paused" /\ reason' \in {"peg", "oracle"}
           /\ triggeredAt' = now
    BY DEF Next, Report, Fetch, CheckPeg, RecordPrice, CheckOracles, Tick, vars,
       feedVars, priceVars, breakerVars, Breaker!CheckPegDeviation,
       Breaker!CheckOracleHealth, Breaker!TriggerPause, Breaker!breakerVars
  <2> QED
    BY <2>1, <2>2
<1> QED
  BY <1>1, SafeguardsInvariant, PTL DEF Spec, PauseLatches

(* get_price never answers with a price recorded longer ago than allowed,  *)
(* give or take how far ahead of the clock its source is.                  *)
THEOREM AnswersRecent == Spec => []AnswersAreRecent
<1>1. ASSUME SafeguardsInv PROVE AnswersAreRecent
  <2> SUFFICES ASSUME NEW s \in Prices!Answering
               PROVE  \E ahead \in Skews \cup {0} :
                        now - receivedAt[s] <= MaxAge + ahead
    BY DEF AnswersAreRecent
  <2>1. s \in DOMAIN prices /\ Prices!Age(s) <= MaxAge
    BY DEF Prices!Answering, Prices!Usable
  <2>2. /\ prices[s].at \in Nat /\ receivedAt[s] \in Nat
        /\ prices[s].at - receivedAt[s] \in Skews
        /\ now \in Int /\ MaxAge \in Nat
    BY <1>1, <2>1, ClockAssumption DEF SafeguardsInv, TypeOK, PricesAreDated
  <2>3. now - receivedAt[s] <= MaxAge + (prices[s].at - receivedAt[s])
    BY <2>1, <2>2 DEF Prices!Age
  <2> QED
    BY <2>2, <2>3
<1> QED
  BY <1>1, SafeguardsInvariant, PTL

(* If all sources are healthy, get_price has an answer.                    *)
THEOREM HealthySourcesSuffice == Spec => []HealthySourcesAnswer
<1>1. HealthySourcesAnswer
  <2> SUFFICES ASSUME Prices!AllSourcesHealthy,
                      NEW i \in DOMAIN Prices!Preference,
                      Prices!Preference[i] \in DOMAIN prices
               PROVE  Prices!Answering # {}
    BY DEF HealthySourcesAnswer
  <2> DEFINE usable(j) == Prices!Usable(Prices!Preference[j])
  <2>1. DOMAIN Prices!Preference = {1, 2, 3}
    BY DEF Prices!Preference
  <2>2. usable(i)
    BY DEF Prices!AllSourcesHealthy, Prices!Usable
  <2>3. PICK j \in {1, 2, 3} : usable(j) /\ \A k \in {1, 2, 3} : k < j => ~usable(k)
    <3> HIDE DEF usable
    <3>1. usable(1) \/ usable(2) \/ usable(3)
      BY <2>1, <2>2
    <3> QED
      BY <3>1
  <2>4. \A k \in 1 .. j - 1 : ~usable(k)
    BY <2>3
  <2> QED
    BY <2>1, <2>3, <2>4 DEF Prices!Answering
<1> QED
  BY <1>1, PTL
-----------------------------------------------------------------------------
(* The stability pool defends the peg as the breaker does, and shares no   *)
(* state with it or with the oracles.                                      *)

(* A share is cut to whole units and loses one unit at most, whether the   *)
(* product of the doubles fell short or not.                               *)
LEMMA ShareIsCut ==
  ASSUME NEW total \in Nat
  PROVE  /\ PoolShare(total) \in Nat
         /\ Allocation * total \in Nat
         /\ 100 * PoolShare(total) <= Allocation * total
         /\ Allocation * total <= 100 * PoolShare(total) + 100
<1>1. Allocation \in Nat
  BY AllocationAssumption
<1>2. Allocation * total \in Nat /\ total * Allocation = Allocation * total
  BY <1>1
<1>3. /\ ExactShare(total) \in Nat
      /\ 100 * ExactShare(total) <= Allocation * total
      /\ Allocation * total <= 100 * ExactShare(total) + 99
  BY <1>2 DEF ExactShare
<1>4. CASE total \in CutShort
  <2>1. Allocation * total > 0 /\ (Allocation * total) % 100 = 0
    BY <1>2, <1>4, CutAssumption
  <2>2. Allocation * total = 100 * ExactShare(total) /\ ExactShare(total) > 0
    BY <1>2, <2>1 DEF ExactShare
  <2> QED
    BY <1>2, <1>3, <1>4, <2>2 DEF PoolShare
<1>5. CASE total \notin CutShort
  BY <1>2, <1>3, <1>5 DEF PoolShare
<1> QED
  BY <1>4, <1>5

(* The promised share of a sum is the sum of the promised shares.          *)
LEMMA AllocationDistributes ==
  ASSUME NEW m \in Nat, NEW n \in Nat
  PROVE  Allocation * (m + n) = Allocation * m + Allocation * n
BY AllocationAssumption

(* The inductive invariant is the two properties together.                 *)
PoolBook == PoolTypeOK /\ PoolKeepsItsShare

LEMMA PoolBookInit == PoolInit => PoolBook
BY AllocationAssumption, PoolInputAssumption
   DEF PoolInit, PoolBook, PoolTypeOK, PoolKeepsItsShare

LEMMA PoolBookNext == PoolBook /\ [PoolNext]_poolVars => PoolBook'
<1> SUFFICES ASSUME PoolBook, [PoolNext]_poolVars PROVE PoolBook'
  OBVIOUS
<1> USE DEF PoolBook, PoolTypeOK
<1>1. ASSUME NEW n \in FeeAmounts, DepositFees(n) PROVE PoolBook'
  <2>1. n \in Nat
    BY <1>1, PoolInputAssumption DEF DepositFees
  <2>2. PoolTypeOK'
    BY <1>1, <2>1, ShareIsCut DEF DepositFees
  <2>3. /\ PoolShare(n) \in Nat /\ Allocation * n \in Nat
        /\ Allocation * cumulativeFees \in Nat
        /\ 100 * PoolShare(n) <= Allocation * n
        /\ Allocation * n <= 100 * PoolShare(n) + 100
    BY <2>1, ShareIsCut
  <2>4. Allocation * cumulativeFees' = Allocation * cumulativeFees + Allocation * n
    BY <1>1, <2>1, AllocationDistributes DEF DepositFees
  <2>5. /\ enrkBalance' + burned' - proceeds' =
             enrkBalance + burned - proceeds + PoolShare(n)
        /\ deposits' = deposits + 1
    BY <1>1, <2>3 DEF DepositFees
  <2> DEFINE kept == enrkBalance + burned - proceeds
             share == PoolShare(n)
             owed == Allocation * cumulativeFees
             more == Allocation * n
  <2>6. /\ kept \in Int /\ share \in Nat /\ owed \in Nat /\ more \in Nat
        /\ deposits \in Nat
        /\ 100 * kept <= owed /\ owed <= 100 * (kept + deposits)
        /\ 100 * share <= more /\ more <= 100 * share + 100
    BY <2>3 DEF PoolKeepsItsShare
  <2>7. /\ 100 * (kept + share) <= owed + more
        /\ owed + more <= 100 * (kept + share + (deposits + 1))
    <3> HIDE DEF kept, share, owed, more
    <3> QED BY <2>6
  <2> QED
    BY <2>2, <2>4, <2>5, <2>7 DEF PoolKeepsItsShare
<1>2. ASSUME NEW n \in BuybackAmounts, AttemptBuyback(n) PROVE PoolBook'
  BY <1>2, PoolInputAssumption
     DEF AttemptBuyback, Affordable, PoolKeepsItsShare
<1>3. ASSUME NEW n \in ProceedsAmounts, DepositLiquidationProceeds(n)
      PROVE  PoolBook'
  BY <1>3, PoolInputAssumption
     DEF DepositLiquidationProceeds, PoolKeepsItsShare
<1>4. ASSUME NEW p \in PoolPrices, PriceMove(p) PROVE PoolBook'
  BY <1>4 DEF PriceMove, PoolKeepsItsShare
<1>5. CASE UNCHANGED poolVars
  BY <1>5 DEF poolVars, PoolKeepsItsShare
<1> QED
  BY <1>1, <1>2, <1>3, <1>4, <1>5 DEF PoolNext

LEMMA PoolInvariant == PoolSpec => []PoolBook
BY PoolBookInit, PoolBookNext, PTL DEF PoolSpec

(* Buybacks never take out more than the pool has, whatever their order.   *)
THEOREM PoolNeverOwes == PoolSpec => []PoolTypeOK
<1>1. PoolBook => PoolTypeOK
  BY DEF PoolBook
<1> QED
  BY <1>1, PoolInvariant, PTL

(* What the pool has and has burned is its share of the fees, of which     *)
(* each deposit may lose a unit, and the proceeds of liquidations: for     *)
(* every allocation, whichever whole shares the doubles cut short.         *)
THEOREM ShareKept == PoolSpec => []PoolKeepsItsShare
<1>1. PoolBook => PoolKeepsItsShare
  BY DEF PoolBook
<1> QED
  BY <1>1, PoolInvariant, PTL

(* What max_buyable quotes below the peg ("maximum affordable amount given *)
(* pool balance and price", stability_pool.rs) is never less than the      *)
(* balance, and attempt_buyback accepts it only where the discount on the  *)
(* whole balance is less than the price of one unit: for any larger pool   *)
(* the amount quoted is refused.                                           *)
THEOREM QuoteAcceptedIfDiscountIsSmall ==
  PoolSpec => [](price \in 1 .. 99 =>
                   /\ MaxBuyable(price) >= enrkBalance
                   /\ Affordable(MaxBuyable(price))
                        <=> /\ enrkBalance > 0
                            /\ enrkBalance * (100 - price) < price)
<1>1. PoolTypeOK =>
        (price \in 1 .. 99 =>
           /\ MaxBuyable(price) >= enrkBalance
           /\ Affordable(MaxBuyable(price))
                <=> /\ enrkBalance > 0
                    /\ enrkBalance * (100 - price) < price)
  <2> SUFFICES ASSUME enrkBalance \in Nat, price \in 1 .. 99
               PROVE  /\ MaxBuyable(price) >= enrkBalance
                      /\ Affordable(MaxBuyable(price))
                           <=> /\ enrkBalance > 0
                               /\ enrkBalance * (100 - price) < price
    BY DEF PoolTypeOK
  <2> DEFINE quote == (100 * enrkBalance) \div price
             spent == price * quote
             worth == price * enrkBalance
  <2>1. /\ quote \in Nat /\ spent \in Int /\ worth \in Int
        /\ spent <= 100 * enrkBalance /\ 100 * enrkBalance < spent + price
        /\ worth <= 99 * enrkBalance
    <3>1. worth <= 99 * enrkBalance
      OBVIOUS
    <3> QED BY <3>1
  <2>2. quote >= enrkBalance
    <3> SUFFICES ASSUME quote + 1 <= enrkBalance PROVE FALSE
      BY <2>1
    <3> HIDE DEF quote
    <3>1. price * (quote + 1) <= price * enrkBalance
      BY <2>1
    <3>2. price * (quote + 1) = spent + price
      BY <2>1
    <3> HIDE DEF spent, worth
    <3> QED BY <2>1, <3>1, <3>2 DEF worth
  <2>3. quote = enrkBalance <=> 100 * enrkBalance < worth + price
    <3>1. ASSUME quote = enrkBalance PROVE 100 * enrkBalance < worth + price
      <4> HIDE DEF quote
      <4> QED BY <2>1, <3>1
    <3>2. ASSUME quote # enrkBalance PROVE worth + price <= 100 * enrkBalance
      <4> HIDE DEF quote
      <4>1. enrkBalance + 1 <= quote
        BY <2>1, <2>2, <3>2
      <4>2. price * (enrkBalance + 1) <= price * quote
        BY <2>1, <4>1
      <4>3. price * (enrkBalance + 1) = worth + price
        OBVIOUS
      <4> HIDE DEF spent, worth
      <4> QED BY <2>1, <4>2, <4>3 DEF spent
    <3> HIDE DEF quote, worth
    <3> QED BY <2>1, <3>1, <3>2
  <2>4. enrkBalance * (100 - price) = 100 * enrkBalance - worth
    OBVIOUS
  <2>5. Affordable(quote) <=> enrkBalance > 0 /\ quote = enrkBalance
    <3> HIDE DEF quote
    <3> QED BY <2>1, <2>2 DEF Affordable
  <2> HIDE DEF quote, worth
  <2> QED BY <2>1, <2>2, <2>3, <2>4, <2>5 DEF MaxBuyable, quote
<1> QED
  BY <1>1, PoolNeverOwes, PTL
=============================================================================
