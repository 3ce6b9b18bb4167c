------------------------- MODULE LiquidationManager ------------------------
(***************************************************************************)
(* The liquidation manager (liquidation.rs, with LiquidationAuction of     *)
(* types.rs): Dutch auctions of the collateral of vaults below the         *)
(* liquidation trigger.                                                    *)
(*                                                                         *)
(* start_liquidation is handed a vault and copies from it what the auction *)
(* is about; from then on the auction and the vault know nothing of each   *)
(* other.  Prices come from the caller of each operation, time from the    *)
(* system clock, in seconds that the code subtracts as u64: ClockRange     *)
(* stands for 2^64, so a clock that runs behind the start of an auction    *)
(* makes it look very old, as it does in a build without overflow checks.  *)
(* A call the code rejects changes nothing and is no step.                 *)
(***************************************************************************)
EXTENDS VaultRatios

CONSTANTS
  DurationMinutes, EndPrice,  \* LiquidationParams
  McrTrigger,                 \* in percent, passed by callers
  PriceUnit,                  \* the number that stands for the price 1.0
  VaultIds, VaultStates,      \* the vaults callers hand in
  Markets,                    \* the prices callers pass
  Bids,                       \* amounts bidders offer
  Minute,                     \* clock ticks in a minute (60 in the code)
  ClockRange,                 \* 2^64 in the code
  ClockSteps,                 \* by how much the clock is moved at once
  MaxTime, MaxAuctions        \* bounds of the model

(* LiquidationParams::validate; the descent starts at 100 whatever         *)
(* start_price says, so end prices are below 100.                          *)
ASSUME AuctionAssumption ==
  /\ DurationMinutes \in Nat \ {0}
  /\ EndPrice \in 1..99
  /\ McrTrigger \in Nat /\ PriceUnit \in Nat \ {0}
ASSUME CallerAssumption ==
  /\ Markets \subseteq Market /\ Bids \subseteq Int
  /\ \A w \in VaultStates :
       w.collateral \in Nat /\ w.enrk \in Nat /\ w.kfiat \in Nat
ASSUME ClockAssumption ==
  /\ Minute \in Nat \ {0} /\ ClockSteps \subseteq Int
  /\ MaxTime \in Nat /\ MaxAuctions \in Nat
  /\ ClockRange \in Nat
  /\ ClockRange > MaxTime + Minute * (DurationMinutes + 1)

VARIABLES
  auctions,         \* auction id -> [vaultId, collateral, debt, startedAt]
  nextAuctionId,
  now               \* the system clock

vars == <<auctions, nextAuctionId, now>>

-----------------------------------------------------------------------------
(* One auction (LiquidationAuction).                                       *)

(* Whole minutes since the auction started, as unsigned subtraction has it.*)
Elapsed(a) == ((now - a.startedAt) % ClockRange) \div Minute

(* What an expiry test one minute early would do.                          *)
IsExpiredEarly(a) == Elapsed(a) >= DurationMinutes - 1

IsExpired(a) == Elapsed(a) >= DurationMinutes

(* What a price that forgets to stop at the end price would be.            *)
UnboundedPrice(a) ==
  (100 * DurationMinutes - Elapsed(a) * (100 - EndPrice)) \div DurationMinutes

(* The percentage of the market price asked now: from 100 down to the end  *)
(* price in proportion to the minutes gone, rounded down.                  *)
CurrentPricePercent(a) ==
  IF IsExpired(a) THEN EndPrice
  ELSE (100 * DurationMinutes - Elapsed(a) * (100 - EndPrice)) \div DurationMinutes

(* calculate_collateral_for_bid: the KAS a bid receives.  The percentage   *)
(* multiplies the bid, so a lower one pays less.                           *)
CollateralForBid(bid, percent, kas) ==
  (bid * percent * PriceUnit) \div (100 * kas)

(* submit_bid accepts the bid: it reaches debt / (price * percentage) and  *)
(* is not owed more KAS than the auction has.                              *)
Acceptable(a, bid, kas) ==
  /\ bid > 0
  /\ ~IsExpired(a)
  /\ bid * kas * CurrentPricePercent(a) >= 100 * PriceUnit * a.debt
  /\ CollateralForBid(bid, CurrentPricePercent(a), kas) <= a.collateral

(* What looking only at live auctions would let through.                   *)
StartableBesideExpired(v, w, m) ==
  /\ BelowRatio(w, m, McrTrigger)
  /\ \A id \in DOMAIN auctions :
       auctions[id].vaultId = v => IsExpired(auctions[id])

(* start_liquidation accepts vault w, whose id is v, at the prices m.  An  *)
(* auction of v stands in the way even when it has expired.                *)
Startable(v, w, m) ==
  /\ BelowRatio(w, m, McrTrigger)
  /\ \A id \in DOMAIN auctions : auctions[id].vaultId # v

-----------------------------------------------------------------------------
(* The operations of LiquidationManager.                                   *)

NoAuctions == [id \in {} |-> 0]

Init ==
  /\ auctions = NoAuctions
  /\ nextAuctionId = 1
  /\ now = 0

(* What forgetting to advance the id counter would do.                     *)
StartUnderNextFreeId(v, w, m) ==
  /\ Startable(v, w, m)
  /\ nextAuctionId <= MaxAuctions
  /\ LET a == [vaultId |-> v, collateral |-> w.collateral,
               debt |-> w.enrk + w.kfiat, startedAt |-> now]
     IN  auctions' = [id \in DOMAIN auctions \cup {nextAuctionId} |->
                        IF id = nextAuctionId THEN a ELSE auctions[id]]
  /\ UNCHANGED <<nextAuctionId, now>>

StartLiquidation(v, w, m) ==
  /\ Startable(v, w, m)
  /\ nextAuctionId <= MaxAuctions
  /\ LET a == [vaultId |-> v, collateral |-> w.collateral,
               debt |-> w.enrk + w.kfiat, startedAt |-> now]
     IN  auctions' = [id \in DOMAIN auctions \cup {nextAuctionId} |->
                        IF id = nextAuctionId THEN a ELSE auctions[id]]
  /\ nextAuctionId' = nextAuctionId + 1
  /\ UNCHANGED now

Remove(id) ==
  /\ auctions' = [i \in DOMAIN auctions \ {id} |-> auctions[i]]
  /\ UNCHANGED <<nextAuctionId, now>>

(* The first bid accepted ends the auction.                                *)
SubmitBid(id, bid, kas) ==
  /\ Acceptable(auctions[id], bid, kas)
  /\ Remove(id)

FinalizeExpiredAuction(id) ==
  /\ IsExpired(auctions[id])
  /\ Remove(id)

(* The system clock moves; no code of the manager runs.                    *)
Tick(d) ==
  /\ now + d \in 0 .. MaxTime
  /\ now' = now + d
  /\ UNCHANGED <<auctions, nextAuctionId>>

Next ==
  \/ \E v \in VaultIds, w \in VaultStates, m \in Markets :
        StartLiquidation(v, w, m)
  \/ \E id \in DOMAIN auctions, bid \in Bids, m \in Markets :
        SubmitBid(id, bid, m.kas)
  \/ \E id \in DOMAIN auctions : FinalizeExpiredAuction(id)
  \/ \E d \in ClockSteps : Tick(d)

Spec == Init /\ [][Next]_vars

-----------------------------------------------------------------------------
(* Properties.                                                             *)

Auction == [vaultId : VaultIds, collateral : Nat, debt : Nat \ {0},
            startedAt : 0 .. MaxTime]

(* Auctions have ids handed out so far and are about some debt.            *)
TypeOK ==
  /\ nextAuctionId \in Nat \ {0}
  /\ DOMAIN auctions \subseteq 1 .. nextAuctionId - 1
  /\ \A id \in DOMAIN auctions : auctions[id] \in Auction
  /\ now \in 0 .. MaxTime

(* However starts, bids and clean-ups follow each other, no vault is under *)
(* the hammer twice at once.                                               *)
OneAuctionPerVault ==
  \A i, j \in DOMAIN auctions :
     auctions[i].vaultId = auctions[j].vaultId => i = j

(* As long as the clock runs forward, the price of an auction only falls,  *)
(* and never below the end price: no minute is skipped at the expiry, when *)
(* the price no longer comes from the descent.                             *)
PriceNeverRises ==
  [][\A id \in DOMAIN auctions \cap DOMAIN auctions' :
       /\ CurrentPricePercent(auctions[id])' <= CurrentPricePercent(auctions[id])
       /\ CurrentPricePercent(auctions[id])' >= EndPrice]_vars

(* An auction that has ended does not come back, and its id names no other *)
(* auction afterwards: a late bid cannot hit the wrong one.                *)
EndedAuctionsStayEnded ==
  [][/\ \A id \in 1 .. nextAuctionId - 1 :
          id \notin DOMAIN auctions => id \notin DOMAIN auctions'
     /\ \A id \in DOMAIN auctions \cap DOMAIN auctions' :
          auctions'[id] = auctions[id]]_vars

(* An auction ends with a bid that was acceptable at some price, or after  *)
(* its whole duration (liquidation.rs, finalize_expired_auction: "Called   *)
(* after 120 minutes with no bids"), and not otherwise: as long as the     *)
(* clock runs forward.  One that is set back behind the start makes the    *)
(* elapsed time wrap, and the auction may be removed at once.              *)
EndsByBidOrTimeout ==
  [][\A id \in DOMAIN auctions \ DOMAIN auctions' :
       LET a == auctions[id] IN
       \/ now - a.startedAt >= DurationMinutes * Minute
       \/ /\ now - a.startedAt \in 0 .. DurationMinutes * Minute - 1
          /\ \E bid \in Bids, m \in Markets : Acceptable(a, bid, m.kas)]_vars
=============================================================================
