---------------------------- MODULE OraclePrices ---------------------------
(***************************************************************************)
(* The oracle manager (OracleManager of peg.rs): the last price of each    *)
(* source, and the choice of the source that answers.                      *)
(*                                                                         *)
(* The vector last_prices never has two entries of one source, so here it  *)
(* is a function on the sources that have one.  now is the time callers    *)
(* pass with a question; ages saturate at zero.                            *)
(***************************************************************************)
EXTENDS Integers

CONSTANT MaxAge     \* what callers of get_price and all_sources_healthy pass

VARIABLES
  prices,   \* source -> [value, at]
  now       \* the time callers pass

Preference == <<"band", "chainlink", "fallback">>

Init == prices = [s \in {} |-> {}]

TypeOK ==
  /\ \A s \in DOMAIN prices :
       prices[s] \in [value : Int, at : Int] /\ prices[s].value > 0
  /\ now \in Int

(* record_price: the last call wins, whatever its time.                    *)
RecordPrice(s, v, at) ==
  /\ v > 0
  /\ prices' = [x \in DOMAIN prices \cup {s} |->
                  IF x = s THEN [value |-> v, at |-> at] ELSE prices[x]]

(* now.saturating_sub(timestamp)                                           *)
Age(s) == IF now < prices[s].at THEN 0 ELSE now - prices[s].at

(* What a choice that takes the fallback at any age would allow.           *)
UsableOrFallback(s) ==
  s \in DOMAIN prices /\ (Age(s) <= MaxAge \/ s = "fallback")

(* What a choice that refuses a price of the greatest age would allow.     *)
UsableStrictly(s) == s \in DOMAIN prices /\ Age(s) < MaxAge

(* Whether get_price may answer with source s.                             *)
Usable(s) == s \in DOMAIN prices /\ Age(s) <= MaxAge

(* The sources get_price answers with: the first usable one in order of    *)
(* preference, or none.                                                    *)
Answering ==
  {Preference[i] : i \in {j \in DOMAIN Preference :
      /\ Usable(Preference[j])
      /\ \A k \in 1 .. j - 1 : ~Usable(Preference[k])}}

AllSourcesHealthy == \A s \in DOMAIN prices : Age(s) <= MaxAge

(* The time of the latest price, from which get_price tells the downtime   *)
(* when no source is usable.                                               *)
LatestAt == {prices[s].at : s \in {x \in DOMAIN prices :
               \A y \in DOMAIN prices : prices[y].at <= prices[x].at}}
=============================================================================
