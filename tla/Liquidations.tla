---------------------------- MODULE Liquidations ---------------------------
(***************************************************************************)
(* The vault manager and the liquidation manager side by side, under the   *)
(* same prices, with the keeper who carries vaults from one to the other.  *)
(*                                                                         *)
(* No code under igra/src calls both managers.  What their signatures      *)
(* allow is this: VaultManager gives out clones of its vaults              *)
(* (get_liquidation_candidates returns a Vec<Vault>), LiquidationManager   *)
(* takes &Vault, and anything may happen between the two calls.  handed is *)
(* the list of clones the keeper holds.                                    *)
(*                                                                         *)
(* Three variables are no state of the program and keep account of a       *)
(* history: sold of the KAS that submit_bid returned to bidders, paidIn of *)
(* the KAS that owners brought in less what they took out again, steady of *)
(* whether the prices are those at which the keeper last asked.            *)
(***************************************************************************)
EXTENDS VaultRatios

CONSTANTS
  IcrMinimum, McrTrigger, MintFeeBps, CapPercent,    \* frozen parameters
  DurationMinutes, EndPrice,
  PriceUnit, Markets, MintAmounts, BurnAmounts, KasAmounts, Bids,
  Minute, ClockRange, ClockSteps,
  MaxVaults, MaxDebt, MaxCollateral, MaxTime, MaxAuctions

(* As VaultManager and LiquidationManager have it.                         *)
ASSUME RatioAssumption ==
  /\ IcrMinimum \in Nat /\ McrTrigger \in Nat
  /\ IcrMinimum > McrTrigger /\ McrTrigger >= 100
ASSUME FeeAssumption == MintFeeBps \in 0..10000
ASSUME VaultCapAssumption == CapPercent \in 1..50
ASSUME MarketAssumption == PriceUnit \in Nat \ {0} /\ Markets \subseteq Market
ASSUME CallAssumption ==
  /\ MintAmounts \subseteq Int /\ BurnAmounts \subseteq Int
  /\ KasAmounts \subseteq Int /\ Bids \subseteq Int
ASSUME AuctionAssumption == DurationMinutes \in Nat \ {0} /\ EndPrice \in 1..99
ASSUME ClockAssumption ==
  /\ Minute \in Nat \ {0} /\ ClockSteps \subseteq Int
  /\ ClockRange \in Nat
  /\ ClockRange > MaxTime + Minute * (DurationMinutes + 1)
ASSUME BoundAssumption ==
  /\ MaxVaults \in Nat /\ MaxDebt \in Nat /\ MaxCollateral \in Nat
  /\ MaxTime \in Nat /\ MaxAuctions \in Nat

VARIABLES
  vaults, nextVaultId, market,          \* VaultManager
  auctions, nextAuctionId, now,         \* LiquidationManager
  handed,     \* the keeper's clones: vault id -> vault
  steady,     \* the prices have not moved since the keeper asked
  sold,       \* vault id -> KAS paid out to bidders for it
  paidIn      \* vault id -> KAS its owner paid in, less withdrawals

managed == <<vaults, nextVaultId, market>>
auctioned == <<auctions, nextAuctionId, now>>
accounts == <<steady, sold, paidIn>>

vars == <<managed, auctioned, handed, accounts>>

Vaults == INSTANCE VaultManager WITH vaults <- vaults
Auctions == INSTANCE LiquidationManager WITH
              VaultIds <- 1 .. MaxVaults, VaultStates <- Vaults!Vault

Init ==
  /\ Vaults!Init
  /\ Auctions!Init
  /\ handed = Vaults!NoVaults
  /\ steady = TRUE
  /\ sold = [v \in 1 .. MaxVaults |-> 0]
  /\ paidIn = [v \in 1 .. MaxVaults |-> 0]

(* The KAS in vault v, none before it is created.                          *)
KasIn(v) == IF v \in DOMAIN vaults THEN vaults[v].collateral ELSE 0

(* Owners and prices: every step of the vault manager on its own.          *)
VaultStep ==
  /\ Vaults!Next
  /\ steady' = (steady /\ market' = market)
  /\ paidIn' = [v \in 1 .. MaxVaults |-> paidIn[v] + KasIn(v)' - KasIn(v)]
  /\ UNCHANGED <<auctioned, handed, sold>>

(* The keeper asks for the candidates and keeps the answer.                *)
FetchCandidates ==
  /\ handed' = [v \in Vaults!Candidates |-> vaults[v]]
  /\ steady' = TRUE
  /\ UNCHANGED <<managed, auctioned, sold, paidIn>>

(* The keeper starts the auction of a vault it holds a clone of.           *)
StartLiquidation(v) ==
  /\ Auctions!StartLiquidation(v, handed[v], market)
  /\ UNCHANGED <<managed, handed, accounts>>

(* A bidder wins: KAS is paid out, the vault manager is not told.          *)
SubmitBid(id, bid) ==
  LET a == auctions[id]
      payout == Auctions!CollateralForBid(
                  bid, Auctions!CurrentPricePercent(a), market.kas)
  IN
  /\ Auctions!SubmitBid(id, bid, market.kas)
  /\ sold' = [sold EXCEPT ![a.vaultId] = @ + payout]
  /\ UNCHANGED <<managed, handed, steady, paidIn>>

FinalizeExpiredAuction(id) ==
  /\ Auctions!FinalizeExpiredAuction(id)
  /\ UNCHANGED <<managed, handed, accounts>>

Tick(d) ==
  /\ Auctions!Tick(d)
  /\ UNCHANGED <<managed, handed, accounts>>

Next ==
  \/ VaultStep
  \/ FetchCandidates
  \/ \E v \in DOMAIN handed : StartLiquidation(v)
  \/ \E id \in DOMAIN auctions, bid \in Bids : SubmitBid(id, bid)
  \/ \E id \in DOMAIN auctions : FinalizeExpiredAuction(id)
  \/ \E d \in ClockSteps : Tick(d)

Spec == Init /\ [][Next]_vars

-----------------------------------------------------------------------------
(* Properties.                                                             *)

(* Both managers keep their types, the keeper only holds clones of vaults  *)
(* that exist, and no auction is about a vault that does not.              *)
TypeOK ==
  /\ Vaults!TypeOK
  /\ Auctions!TypeOK
  /\ DOMAIN handed \subseteq DOMAIN vaults
  /\ \A v \in DOMAIN handed : handed[v] \in Vaults!Vault
  /\ \A id \in DOMAIN auctions : auctions[id].vaultId \in DOMAIN vaults
  /\ steady \in BOOLEAN
  /\ sold \in [1 .. MaxVaults -> Nat]
  /\ paidIn \in [1 .. MaxVaults -> Int]

(* What the keeper is about to auction is there: as long as the prices     *)
(* have not moved since it asked, a vault that is still a candidate has at *)
(* least the KAS of the clone the keeper holds and at most its debts.  In  *)
(* between owners may have repaid, paid in and taken out; one who rescued  *)
(* a vault may take KAS out of it again, but not so much that it is back   *)
(* among the candidates with less than the clone shows.                    *)
CandidatesBackTheirClones ==
  steady =>
    \A v \in DOMAIN handed \cap Vaults!Candidates :
      /\ vaults[v].collateral >= handed[v].collateral
      /\ vaults[v].enrk <= handed[v].enrk
      /\ vaults[v].kfiat <= handed[v].kfiat

-----------------------------------------------------------------------------
(* What the documentation promises and the code does not do.               *)

(* "First successful bid ends auction, collateral transferred, debt        *)
(* burned" (liquidation.rs): bidders are never paid more KAS for a vault   *)
(* than its owner brought into it and has not taken out again.             *)
SoldCollateralIsThere ==
  \A v \in DOMAIN vaults : sold[v] <= paidIn[v]

(* "Anyone can bid to buy collateral and cover the vault's debt"           *)
(* (liquidation.rs): while the collateral of a running auction is worth    *)
(* 120% of its debt, some bid wins it.                                     *)
RunningAuctionsCanBeWon ==
  \A id \in DOMAIN auctions :
    LET a == auctions[id] IN
    /\ ~Auctions!IsExpired(a)
    /\ 100 * a.collateral * market.kas >= 120 * a.debt * PriceUnit
    => \E bid \in 1 .. 4 * a.debt : Auctions!Acceptable(a, bid, market.kas)
=============================================================================
